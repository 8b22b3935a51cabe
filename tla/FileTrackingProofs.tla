------------------------- MODULE FileTrackingProofs -------------------------
(***************************************************************************)
(* For every set of processes, threads, descriptors and files, every       *)
(* window and every check interval.  Of the suppression of saves alone:    *)
(* accepted saves of a pair are a window apart but for the skew of the     *)
(* samples, a suppressed save has an accepted one near it, and the map     *)
(* holds no entry that is two windows older than the newest save.  Of the  *)
(* event loop, where leaders end last, no sample is lost and none is read  *)
(* before an older one of its process or thread: a save is attributed to a *)
(* file of the process that wrote, a checked identity is not older than    *)
(* what was written to, and nothing is kept of processes that are gone.    *)
(* Where the rings are read no further apart than Skew, the event loop     *)
(* uses the suppression as it is meant to be used.  With one ring, on one  *)
(* CPU, samples are in order and Skew is kept.                             *)
(***************************************************************************)
EXTENDS FileTracking, SequenceTheorems, TLAPS

-----------------------------------------------------------------------------
(* The suppression of repeated saves.                                      *)

Times == 0 .. MaxMono

DedupTypes ==
    /\ newest \in Times
    /\ recentFileSaves \in [Keys -> Times \cup {Absent}]
    /\ lastFileSaveGC \in Times
    /\ saves \in [Keys -> Seq(Save)]

\* No entry is newer than the newest sample, none is there without a window,
\* and each is at most a window behind the last sweep, which in turn is not
\* far behind the newest sample.
MapTimes ==
    /\ Window = 0 => \A k \in Keys : recentFileSaves[k] = Absent
    /\ \A k \in Keys : recentFileSaves[k] # Absent =>
          recentFileSaves[k] <= newest /\ recentFileSaves[k] + Window >= lastFileSaveGC
    /\ Window > 0 => newest <= lastFileSaveGC + Window + Skew
    /\ lastFileSaveGC = 0 => \A k \in Keys : recentFileSaves[k] = Absent

\* An entry is the time of an accepted save.
EntriesAccepted ==
    \A k \in Keys : recentFileSaves[k] # Absent =>
        \E i \in DOMAIN saves[k] : saves[k][i].accepted /\ saves[k][i].mono = recentFileSaves[k]

\* An accepted save is a window old, or the entry of its pair is not older.
AcceptedCovered ==
    \A k \in Keys : \A i \in DOMAIN saves[k] :
        saves[k][i].accepted =>
            \/ saves[k][i].mono + Window <= newest
            \/ recentFileSaves[k] # Absent /\ saves[k][i].mono <= recentFileSaves[k]

DedupInv ==
    /\ DedupTypes /\ MapTimes /\ EntriesAccepted /\ AcceptedCovered
    /\ AcceptedApart /\ SuppressedForAnAccepted

-----------------------------------------------------------------------------

\* What the unsigned subtraction gives.
LEMMA MinusValue ==
    ASSUME NEW a \in Times, NEW b \in 0 .. MaxMono + Window
    PROVE  Minus(a, b) = IF a >= b THEN a - b ELSE a - b + Word
<1>1. /\ a \in Nat /\ b \in Nat /\ Word \in Nat /\ a < Word /\ b <= Word
  BY DedupAssumption DEF DedupAssumption, Times
<1>2. CASE a >= b
  <2>1. a - b \in Nat /\ a - b < Word
    BY <1>1, <1>2
  <2>2. QED BY <1>1, <1>2, <2>1 DEF Minus
<1>3. CASE a < b
  <2>1. a - b \in Int /\ a - b < 0 /\ a - b + Word >= 0
    BY <1>1, <1>3
  <2>2. QED BY <1>1, <1>3, <2>1 DEF Minus
<1>4. QED BY <1>1, <1>2, <1>3

\* A sweep that is not due has been less than a window ago: a sample that is
\* older than the last sweep makes one due.
LEMMA NotDue ==
    ASSUME DedupTypes, NEW mono \in 1 .. MaxMono, ~SweepDue(mono)
    PROVE  lastFileSaveGC <= mono /\ mono < lastFileSaveGC + Window
<1>1. /\ mono \in Times /\ lastFileSaveGC \in Times /\ lastFileSaveGC \in 0 .. MaxMono + Window
      /\ Window \in Nat /\ MaxMono \in Nat /\ Word \in Nat /\ Word > MaxMono + Window
  BY DedupAssumption DEF DedupAssumption, DedupTypes, Times
<1>2. Minus(mono, lastFileSaveGC) < Window
  <2>1. mono # 0 /\ Minus(mono, lastFileSaveGC) \in Int
    BY <1>1, MinusValue DEF Times
  <2>2. QED BY <1>1, <2>1 DEF SweepDue
<1>3. QED BY <1>1, <1>2, MinusValue DEF Times

\* What is in the map after a sweep was there before, and what it has taken
\* out was more than a window old.
LEMMA SweptMap ==
    ASSUME DedupTypes, NEW mono \in 1 .. MaxMono
    PROVE  /\ Swept(mono) \in [Keys -> Times \cup {Absent}]
           /\ \A k \in Keys :
                 /\ Swept(mono)[k] # Absent => Swept(mono)[k] = recentFileSaves[k]
                 /\ Swept(mono)[k] # Absent /\ SweepDue(mono) => Swept(mono)[k] + Window >= mono
                 /\ Swept(mono)[k] = Absent /\ recentFileSaves[k] # Absent =>
                       recentFileSaves[k] + Window < mono
<1>1. /\ mono \in Times /\ mono \in Nat /\ Window \in Nat /\ MaxMono \in Nat
      /\ Window \in 0 .. MaxMono + Window
      /\ \A k \in Keys : recentFileSaves[k] \in Times \cup {Absent}
  BY DedupAssumption DEF DedupAssumption, DedupTypes, Times
<1>2. Cutoff(mono) = IF mono > Window THEN mono - Window ELSE 0
  BY <1>1, MinusValue DEF Cutoff
<1>3. \A k \in Keys : Swept(mono)[k] = IF SweepDue(mono) /\ recentFileSaves[k] < Cutoff(mono)
                                       THEN Absent ELSE recentFileSaves[k]
  BY DEF Swept
<1>4. Swept(mono) \in [Keys -> Times \cup {Absent}]
  BY <1>1 DEF Swept
<1>5. \A k \in Keys : recentFileSaves[k] # Absent => recentFileSaves[k] \in Nat
  BY <1>1 DEF Times
<1>6. QED BY <1>1, <1>2, <1>3, <1>4, <1>5

\* What a judged save adds to the saves of its pair.
LEMMA SavesAfter ==
    ASSUME DedupTypes, NEW k \in Keys, NEW mono \in 1 .. MaxMono, NEW accepted \in BOOLEAN,
           Judged(k, mono, accepted)
    PROVE  /\ saves' \in [Keys -> Seq(Save)]
           /\ \A q \in Keys : q # k => saves'[q] = saves[q]
           /\ Len(saves[k]) \in Nat
           /\ DOMAIN saves[k] = 1 .. Len(saves[k])
           /\ DOMAIN saves'[k] = 1 .. Len(saves[k]) + 1
           /\ \A i \in DOMAIN saves[k] : saves'[k][i] = saves[k][i]
           /\ saves'[k][Len(saves[k]) + 1].mono = mono
           /\ saves'[k][Len(saves[k]) + 1].accepted = accepted
<1>1. PICK e : e = [mono |-> mono, accepted |-> accepted]
  OBVIOUS
<1>2. e \in Save /\ e.mono = mono /\ e.accepted = accepted
  BY <1>1, DedupAssumption DEF DedupAssumption, Save
<1>3. saves \in [Keys -> Seq(Save)] /\ saves[k] \in Seq(Save)
  BY DEF DedupTypes
<1>4. saves' = [saves EXCEPT ![k] = Append(saves[k], e)]
  BY <1>1, <1>3 DEF Judged
<1>5. saves'[k] = Append(saves[k], e) /\ \A q \in Keys : q # k => saves'[q] = saves[q]
  BY <1>3, <1>4
<1>6. Append(saves[k], e) \in Seq(Save)
  BY <1>2, <1>3, AppendProperties
<1>7. saves' \in [Keys -> Seq(Save)]
  BY <1>3, <1>4, <1>6
<1>8. Len(saves[k]) \in Nat /\ DOMAIN saves[k] = 1 .. Len(saves[k])
  BY <1>3, LenProperties
<1>9. /\ Len(Append(saves[k], e)) = Len(saves[k]) + 1
      /\ \A i \in 1 .. Len(saves[k]) : Append(saves[k], e)[i] = saves[k][i]
      /\ Append(saves[k], e)[Len(saves[k]) + 1] = e
  BY <1>2, <1>3, AppendProperties
<1>10. DOMAIN Append(saves[k], e) = 1 .. Len(saves[k]) + 1
  BY <1>6, <1>9, LenProperties
<1>11. QED BY <1>2, <1>5, <1>7, <1>8, <1>9, <1>10

\* The newest time after a save is not older than the save, nor newer by more
\* than the skew.
LEMMA NewestAfter ==
    ASSUME DedupTypes, NEW k \in Keys, NEW mono \in 1 .. MaxMono, NEW accepted,
           mono + Skew >= newest, Judged(k, mono, accepted)
    PROVE  /\ newest' \in Times /\ newest \in Nat /\ newest' \in Nat /\ mono \in Nat
           /\ newest <= newest' /\ mono <= newest' /\ newest' <= mono + Skew
<1>1. newest \in Nat /\ newest <= MaxMono /\ Skew \in Nat /\ MaxMono \in Nat
  BY DedupAssumption DEF DedupAssumption, DedupTypes, Times
<1>2. newest' = IF mono > newest THEN mono ELSE newest
  BY DEF Judged
<1>3. QED BY <1>1, <1>2 DEF Times

\* The map after a save of k: the swept one, with the time of an accepted save
\* as the entry of k.
MapAfter(k, mono, accepted) ==
    /\ \A q \in Keys : recentFileSaves'[q] =
          IF q = k /\ accepted THEN mono ELSE Swept(mono)[q]
    /\ recentFileSaves' \in [Keys -> Times \cup {Absent}]

\* A sweep keeps the map near the last sweep, and the last sweep near the
\* newest sample.
LEMMA MapTimesAfter ==
    ASSUME DedupTypes, MapTimes, Window > 0,
           NEW k \in Keys, NEW mono \in 1 .. MaxMono, NEW accepted \in BOOLEAN,
           mono + Skew >= newest, Judged(k, mono, accepted), Sweep(mono),
           MapAfter(k, mono, accepted)
    PROVE  MapTimes' /\ lastFileSaveGC' \in Times
<1>1. /\ Window \in Nat /\ Skew \in Nat /\ lastFileSaveGC \in Nat /\ lastFileSaveGC \in Times
      /\ mono \in Times /\ mono \in Nat /\ mono > 0
      /\ \A q \in Keys : recentFileSaves[q] # Absent => recentFileSaves[q] \in Nat
  BY DedupAssumption DEF DedupAssumption, DedupTypes, Times
<1>2. /\ newest \in Nat /\ newest' \in Nat
      /\ newest <= newest' /\ mono <= newest' /\ newest' <= mono + Skew
  BY NewestAfter
<1>3. /\ SweepDue(mono) => lastFileSaveGC' = mono
      /\ ~SweepDue(mono) => /\ lastFileSaveGC' = lastFileSaveGC
                            /\ lastFileSaveGC <= mono /\ mono < lastFileSaveGC + Window
  BY NotDue DEF Sweep
<1>4. lastFileSaveGC' \in Times /\ lastFileSaveGC' \in Nat /\ lastFileSaveGC' <= mono
  BY <1>1, <1>3
<1>5. newest' <= lastFileSaveGC' + Window + Skew
  <2>1. mono <= lastFileSaveGC' + Window
    BY <1>1, <1>3
  <2>2. newest' <= mono + Skew
    BY <1>2
  <2>3. /\ lastFileSaveGC' \in Nat /\ newest' \in Nat
        /\ mono \in Nat /\ Window \in Nat /\ Skew \in Nat
    BY <1>1, <1>2, <1>4
  <2>4. \A a, b, c, d, e \in Nat : a <= b + e /\ b <= c + d => a <= c + d + e
    OBVIOUS
  <2>5. QED BY <2>1, <2>2, <2>3, <2>4
<1>6. lastFileSaveGC' # 0
  <2>1. CASE SweepDue(mono)
    BY <1>1, <1>3, <2>1
  <2>2. CASE ~SweepDue(mono)
    BY <1>1, <1>3, <2>2 DEF SweepDue
  <2>3. QED BY <2>1, <2>2
<1>7. ASSUME NEW q \in Keys, recentFileSaves'[q] # Absent
      PROVE  recentFileSaves'[q] <= newest' /\ recentFileSaves'[q] + Window >= lastFileSaveGC'
  <2>1. CASE q = k /\ accepted
    <3>1. recentFileSaves'[q] = mono
      BY <2>1 DEF MapAfter
    <3>2. QED BY <1>1, <1>2, <1>4, <3>1
  <2>2. CASE ~(q = k /\ accepted)
    <3>1. recentFileSaves'[q] = Swept(mono)[q] /\ Swept(mono)[q] # Absent
      BY <1>7, <2>2 DEF MapAfter
    <3>2. /\ Swept(mono)[q] = recentFileSaves[q]
          /\ SweepDue(mono) => Swept(mono)[q] + Window >= mono
      BY <3>1, SweptMap
    <3>3. /\ recentFileSaves[q] \in Nat /\ recentFileSaves[q] <= newest
          /\ recentFileSaves[q] + Window >= lastFileSaveGC
      BY <1>1, <3>1, <3>2 DEF MapTimes
    <3>4. QED BY <1>1, <1>2, <1>3, <3>1, <3>2, <3>3
  <2>3. QED BY <2>1, <2>2
<1>8. QED BY <1>4, <1>5, <1>6, <1>7 DEF MapTimes

\* An accepted save that the map of an earlier moment covered is covered by
\* the map after a later save.
LEMMA CoveredAfter ==
    ASSUME DedupTypes, MapTimes, AcceptedCovered, Window > 0,
           NEW k \in Keys, NEW mono \in 1 .. MaxMono, NEW accepted \in BOOLEAN,
           mono + Skew >= newest, Judged(k, mono, accepted),
           accepted => ~Repeated(k, mono),
           MapAfter(k, mono, accepted)
    PROVE  AcceptedCovered'
<1>1. /\ Window \in Nat /\ mono \in Times /\ mono \in Nat /\ mono # 0
      /\ Window \in 0 .. MaxMono + Window
      /\ \A q \in Keys : recentFileSaves[q] # Absent =>
            recentFileSaves[q] \in Nat /\ recentFileSaves[q] \in 0 .. MaxMono + Window
  BY DedupAssumption DEF DedupAssumption, DedupTypes, Times
<1>2. newest \in Nat /\ newest' \in Nat /\ newest <= newest' /\ mono <= newest'
  BY NewestAfter
<1>3. ASSUME NEW q \in Keys, NEW i \in DOMAIN saves[q], saves[q][i].accepted
      PROVE  \/ saves[q][i].mono + Window <= newest'
             \/ recentFileSaves'[q] # Absent /\ saves[q][i].mono <= recentFileSaves'[q]
  <2>1. saves[q][i].mono \in Nat
    <3>1. saves[q] \in Seq(Save) /\ i \in 1 .. Len(saves[q])
      BY <1>3, LenProperties DEF DedupTypes
    <3>2. saves[q][i] \in Save
      BY <3>1, ElementOfSeq
    <3>3. QED BY <3>2 DEF Save
  <2>2. CASE saves[q][i].mono + Window <= newest
    BY <1>1, <1>2, <2>1, <2>2
  <2>3. CASE recentFileSaves[q] # Absent /\ saves[q][i].mono <= recentFileSaves[q]
    <3>1. CASE Swept(mono)[q] = Absent
      <4>1. recentFileSaves[q] + Window < mono /\ recentFileSaves[q] \in Nat
        BY <1>1, <2>3, <3>1, SweptMap
      <4>2. QED BY <1>1, <1>2, <2>1, <2>3, <4>1
    <3>2. CASE Swept(mono)[q] # Absent /\ ~(q = k /\ accepted)
      <4>1. recentFileSaves'[q] = recentFileSaves[q]
        BY <3>2, SweptMap DEF MapAfter
      <4>2. QED BY <2>3, <4>1
    <3>3. CASE Swept(mono)[q] # Absent /\ q = k /\ accepted
      <4>1. recentFileSaves'[k] = mono /\ Swept(mono)[k] = recentFileSaves[k]
        BY <3>3, SweptMap DEF MapAfter
      <4>2. mono > recentFileSaves[k]
        BY <1>1, <2>3, <3>3, <4>1 DEF Repeated
      <4>3. mono # Absent
        BY <1>1 DEF Absent
      <4>4. QED BY <1>1, <2>1, <2>3, <3>3, <4>1, <4>2, <4>3
    <3>4. QED BY <3>1, <3>2, <3>3
  <2>4. QED BY <1>3, <2>2, <2>3 DEF AcceptedCovered
<1>4. ASSUME accepted
      PROVE  recentFileSaves'[k] # Absent /\ mono <= recentFileSaves'[k]
  <2>1. recentFileSaves'[k] = mono
    BY <1>4 DEF MapAfter
  <2>2. QED BY <1>1, <2>1 DEF Absent
<1>5. ASSUME NEW q \in Keys, NEW i \in DOMAIN saves'[q], saves'[q][i].accepted
      PROVE  \/ saves'[q][i].mono + Window <= newest'
             \/ recentFileSaves'[q] # Absent /\ saves'[q][i].mono <= recentFileSaves'[q]
  <2>1. CASE q # k \/ i \in DOMAIN saves[k]
    <3>1. i \in DOMAIN saves[q] /\ saves'[q][i] = saves[q][i]
      BY <1>5, <2>1, SavesAfter
    <3>2. QED BY <1>3, <1>5, <3>1
  <2>2. CASE q = k /\ i \notin DOMAIN saves[k]
    <3>1. /\ DOMAIN saves[k] = 1 .. Len(saves[k]) /\ Len(saves[k]) \in Nat
          /\ i \in 1 .. Len(saves[k]) + 1
      BY <1>5, <2>2, SavesAfter
    <3>2. i = Len(saves[k]) + 1
      BY <2>2, <3>1
    <3>3. saves'[q][i].mono = mono /\ accepted
      BY <1>5, <2>2, <3>2, SavesAfter
    <3>4. QED BY <1>4, <2>2, <3>3
  <2>3. QED BY <2>1, <2>2
<1>6. QED BY <1>5 DEF AcceptedCovered

\* An entry after a save is the time of an accepted save.
LEMMA EntriesAfter ==
    ASSUME DedupTypes, EntriesAccepted,
           NEW k \in Keys, NEW mono \in 1 .. MaxMono, NEW accepted \in BOOLEAN,
           Judged(k, mono, accepted), MapAfter(k, mono, accepted)
    PROVE  EntriesAccepted'
<1>1. ASSUME NEW q \in Keys, recentFileSaves'[q] # Absent
      PROVE  \E i \in DOMAIN saves'[q] :
                saves'[q][i].accepted /\ saves'[q][i].mono = recentFileSaves'[q]
  <2>1. CASE q = k /\ accepted
    <3>1. recentFileSaves'[q] = mono
      BY <2>1 DEF MapAfter
    <3>2. Len(saves[k]) + 1 \in 1 .. Len(saves[k]) + 1
      BY SavesAfter
    <3>3. PICK i : i = Len(saves[k]) + 1
      OBVIOUS
    <3>4. i \in DOMAIN saves'[k] /\ saves'[k][i].mono = mono /\ saves'[k][i].accepted = accepted
      BY <3>2, <3>3, SavesAfter
    <3>5. QED BY <2>1, <3>1, <3>4
  <2>2. CASE ~(q = k /\ accepted)
    <3>1. recentFileSaves'[q] = recentFileSaves[q] /\ recentFileSaves[q] # Absent
      BY <1>1, <2>2, SweptMap DEF MapAfter
    <3>2. PICK i \in DOMAIN saves[q] :
             saves[q][i].accepted /\ saves[q][i].mono = recentFileSaves[q]
      BY <3>1 DEF EntriesAccepted
    <3>3. i \in DOMAIN saves'[q] /\ saves'[q][i] = saves[q][i]
      <4>1. CASE q # k
        BY <4>1, <3>2, SavesAfter
      <4>2. CASE q = k
        <5>1. i \in 1 .. Len(saves[k]) + 1
          BY <3>2, <4>2, SavesAfter
        <5>2. QED BY <3>2, <4>2, <5>1, SavesAfter
      <4>3. QED BY <4>1, <4>2
    <3>4. QED BY <3>1, <3>2, <3>3
  <2>3. QED BY <2>1, <2>2
<1>2. QED BY <1>1 DEF EntriesAccepted

\* A save that is accepted comes a window after those accepted before, but
\* for the skew.
LEMMA ApartAfter ==
    ASSUME DedupTypes, MapTimes, AcceptedCovered, AcceptedApart,
           NEW k \in Keys, NEW mono \in 1 .. MaxMono, NEW accepted \in BOOLEAN,
           mono + Skew >= newest, Judged(k, mono, accepted),
           accepted /\ Window > 0 => ~Repeated(k, mono)
    PROVE  AcceptedApart'
<1>1. /\ Window \in Nat /\ Skew \in Nat /\ mono \in Times /\ mono \in Nat /\ mono # 0
      /\ newest \in Nat
      /\ \A q \in Keys : recentFileSaves[q] # Absent =>
            recentFileSaves[q] \in Nat /\ recentFileSaves[q] \in 0 .. MaxMono + Window
  BY DedupAssumption DEF DedupAssumption, DedupTypes, Times
<1>2. ASSUME NEW i \in DOMAIN saves[k], saves[k][i].accepted, accepted
      PROVE  mono - saves[k][i].mono >= Window - Skew
  <2>1. saves[k][i].mono \in Nat
    <3>1. saves[k] \in Seq(Save) /\ i \in 1 .. Len(saves[k])
      BY <1>2, LenProperties DEF DedupTypes
    <3>2. saves[k][i] \in Save
      BY <3>1, ElementOfSeq
    <3>3. QED BY <3>2 DEF Save
  <2>2. CASE saves[k][i].mono + Window <= newest
    BY <1>1, <2>1, <2>2
  <2>3. CASE recentFileSaves[k] # Absent /\ saves[k][i].mono <= recentFileSaves[k]
    <3>1. Window > 0
      BY <1>1, <2>3 DEF MapTimes
    <3>2. recentFileSaves[k] \in Nat /\ recentFileSaves[k] \in 0 .. MaxMono + Window
      BY <1>1, <2>3
    <3>3. CASE Swept(mono)[k] = Absent
      <4>1. recentFileSaves[k] + Window < mono
        BY <2>3, <3>3, SweptMap
      <4>2. QED BY <1>1, <2>1, <2>3, <3>2, <4>1
    <3>4. CASE Swept(mono)[k] # Absent
      <4>1. Swept(mono)[k] = recentFileSaves[k]
        BY <3>4, SweptMap
      <4>2. mono > recentFileSaves[k] /\ ~(Minus(mono, recentFileSaves[k]) < Window)
        BY <1>1, <1>2, <2>3, <3>1, <3>2, <4>1 DEF Repeated
      <4>3. Minus(mono, recentFileSaves[k]) = mono - recentFileSaves[k]
        BY <1>1, <3>2, <4>2, MinusValue
      <4>4. QED BY <1>1, <2>1, <2>3, <3>2, <4>2, <4>3
    <3>5. QED BY <3>3, <3>4
  <2>4. QED BY <1>2, <2>2, <2>3 DEF AcceptedCovered
<1>3. ASSUME NEW q \in Keys, NEW i \in DOMAIN saves'[q], NEW j \in DOMAIN saves'[q],
             i < j, saves'[q][i].accepted, saves'[q][j].accepted
      PROVE  saves'[q][j].mono - saves'[q][i].mono >= Window - Skew
  <2>1. CASE q # k
    BY <1>3, <2>1, SavesAfter DEF AcceptedApart
  <2>2. CASE q = k
    <3>1. /\ DOMAIN saves[k] = 1 .. Len(saves[k]) /\ Len(saves[k]) \in Nat
          /\ i \in 1 .. Len(saves[k]) + 1 /\ j \in 1 .. Len(saves[k]) + 1
      BY <1>3, <2>2, SavesAfter
    <3>2. i \in DOMAIN saves[k] /\ saves'[k][i] = saves[k][i]
      <4>1. i \in DOMAIN saves[k]
        BY <1>3, <3>1
      <4>2. QED BY <4>1, SavesAfter
    <3>3. CASE j \in DOMAIN saves[k]
      BY <1>3, <2>2, <3>2, <3>3, SavesAfter DEF AcceptedApart
    <3>4. CASE j \notin DOMAIN saves[k]
      <4>1. j = Len(saves[k]) + 1
        BY <3>1, <3>4
      <4>2. saves'[k][j].mono = mono /\ saves'[k][j].accepted = accepted
        BY <4>1, SavesAfter
      <4>3. QED BY <1>2, <1>3, <2>2, <3>2, <4>2
    <3>5. QED BY <3>3, <3>4
  <2>3. QED BY <2>1, <2>2
<1>4. QED BY <1>3 DEF AcceptedApart

\* A save that is suppressed has an entry, which is an accepted save, near it.
LEMMA SuppressedAfter ==
    ASSUME DedupTypes, EntriesAccepted, SuppressedForAnAccepted,
           NEW k \in Keys, NEW mono \in 1 .. MaxMono, NEW accepted \in BOOLEAN,
           Judged(k, mono, accepted),
           ~accepted => Window > 0 /\ Repeated(k, mono)
    PROVE  SuppressedForAnAccepted'
<1>1. /\ Window \in Nat /\ mono \in Times /\ mono \in Nat /\ mono # 0
      /\ \A q \in Keys : recentFileSaves[q] # Absent =>
            recentFileSaves[q] \in Nat /\ recentFileSaves[q] \in 0 .. MaxMono + Window
  BY DedupAssumption DEF DedupAssumption, DedupTypes, Times
<1>2. ASSUME ~accepted
      PROVE  \E i \in DOMAIN saves[k] : saves[k][i].accepted /\ saves[k][i].mono > mono - Window
  <2>1. Swept(mono)[k] # Absent
    BY <1>2 DEF Repeated
  <2>2. Swept(mono)[k] = recentFileSaves[k] /\ recentFileSaves[k] # Absent
    BY <2>1, SweptMap
  <2>3. recentFileSaves[k] \in Nat /\ recentFileSaves[k] \in 0 .. MaxMono + Window
    BY <1>1, <2>2
  <2>4. mono <= recentFileSaves[k] \/ Minus(mono, recentFileSaves[k]) < Window
    BY <1>1, <1>2, <2>2 DEF Repeated
  <2>5. recentFileSaves[k] > mono - Window
    <3>1. CASE mono <= recentFileSaves[k]
      BY <1>1, <1>2, <2>3, <3>1
    <3>2. CASE ~(mono <= recentFileSaves[k])
      <4>1. Minus(mono, recentFileSaves[k]) = mono - recentFileSaves[k]
        BY <1>1, <2>3, <3>2, MinusValue
      <4>2. QED BY <1>1, <2>3, <2>4, <3>2, <4>1
    <3>3. QED BY <3>1, <3>2
  <2>6. QED BY <2>2, <2>5 DEF EntriesAccepted
<1>3. ASSUME NEW q \in Keys, NEW j \in DOMAIN saves'[q], ~saves'[q][j].accepted
      PROVE  \E i \in 1 .. j - 1 :
                saves'[q][i].accepted /\ saves'[q][i].mono > saves'[q][j].mono - Window
  <2>1. CASE q # k
    <3>1. saves'[q] = saves[q]
      BY <2>1, SavesAfter
    <3>2. QED BY <1>3, <3>1 DEF SuppressedForAnAccepted
  <2>2. CASE q = k
    <3>1. /\ DOMAIN saves[k] = 1 .. Len(saves[k]) /\ Len(saves[k]) \in Nat
          /\ j \in 1 .. Len(saves[k]) + 1
      BY <1>3, <2>2, SavesAfter
    <3>2. CASE j \in DOMAIN saves[k]
      <4>1. saves'[k][j] = saves[k][j]
        BY <3>2, SavesAfter
      <4>2. PICK i \in 1 .. j - 1 :
               saves[k][i].accepted /\ saves[k][i].mono > saves[k][j].mono - Window
        BY <1>3, <2>2, <3>2, <4>1 DEF SuppressedForAnAccepted
      <4>3. i \in DOMAIN saves[k]
        BY <3>1, <3>2
      <4>4. saves'[k][i] = saves[k][i]
        BY <4>3, SavesAfter
      <4>5. QED BY <2>2, <4>1, <4>2, <4>4
    <3>3. CASE j \notin DOMAIN saves[k]
      <4>1. j = Len(saves[k]) + 1
        BY <3>1, <3>3
      <4>2. saves'[k][j].mono = mono /\ saves'[k][j].accepted = accepted
        BY <4>1, SavesAfter
      <4>3. PICK i \in DOMAIN saves[k] :
               saves[k][i].accepted /\ saves[k][i].mono > mono - Window
        BY <1>2, <1>3, <2>2, <4>2
      <4>4. saves'[k][i] = saves[k][i]
        BY <4>3, SavesAfter
      <4>5. i \in 1 .. j - 1
        BY <3>1, <4>1
      <4>6. QED BY <2>2, <4>2, <4>3, <4>4, <4>5
    <3>4. QED BY <3>2, <3>3
  <2>3. QED BY <2>1, <2>2
<1>4. QED BY <1>3 DEF SuppressedForAnAccepted

-----------------------------------------------------------------------------

LEMMA InitDedup == DedupInit => DedupInv
<1> SUFFICES ASSUME DedupInit PROVE DedupInv
  OBVIOUS
<1>1. \A k \in Keys : saves[k] = <<>> /\ DOMAIN saves[k] = {} /\ recentFileSaves[k] = Absent
  BY DEF DedupInit
<1>2. DedupTypes
  <2>1. <<>> \in Seq(Save)
    BY EmptySeq
  <2>2. saves \in [Keys -> Seq(Save)]
    BY <2>1 DEF DedupInit
  <2>3. QED BY <2>2, DedupAssumption DEF DedupAssumption, DedupInit, DedupTypes, Times
<1>3. MapTimes
  <2>1. newest = 0 /\ Window \in Nat /\ Skew \in Nat /\ lastFileSaveGC = 0
    BY DedupAssumption DEF DedupAssumption, DedupInit
  <2>2. QED BY <1>1, <2>1 DEF MapTimes
<1>4. EntriesAccepted /\ AcceptedCovered /\ AcceptedApart /\ SuppressedForAnAccepted
  BY <1>1 DEF EntriesAccepted, AcceptedCovered, AcceptedApart, SuppressedForAnAccepted
<1>5. QED BY <1>2, <1>3, <1>4 DEF DedupInv

\* Window 0: no map.
LEMMA PassAllKeeps ==
    ASSUME DedupInv, NEW k \in Keys, NEW mono \in 1 .. MaxMono,
           mono + Skew >= newest, PassAll(k, mono)
    PROVE  DedupInv'
<1>1. /\ Window = 0 /\ Judged(k, mono, TRUE)
      /\ recentFileSaves' = recentFileSaves /\ lastFileSaveGC' = lastFileSaveGC
      /\ DedupTypes /\ MapTimes /\ EntriesAccepted /\ AcceptedCovered
      /\ AcceptedApart /\ SuppressedForAnAccepted
  BY DEF PassAll, DedupInv
<1>2. \A q \in Keys : recentFileSaves'[q] = Absent
  BY <1>1 DEF MapTimes
<1>3. newest' \in Times /\ newest' \in Nat /\ newest \in Nat /\ newest <= newest' /\ mono <= newest'
      /\ mono \in Nat
  BY <1>1, NewestAfter
<1>4. DedupTypes'
  BY <1>1, <1>3, SavesAfter DEF DedupTypes
<1>5. MapTimes' /\ EntriesAccepted'
  BY <1>1, <1>2 DEF MapTimes, EntriesAccepted
<1>6. AcceptedApart' /\ SuppressedForAnAccepted'
  <2>1. ~(Window > 0)
    BY <1>1
  <2>2. AcceptedApart'
    BY <1>1, <2>1, ApartAfter
  <2>3. SuppressedForAnAccepted'
    BY <1>1, SuppressedAfter
  <2>4. QED BY <2>2, <2>3
<1>7. ASSUME NEW q \in Keys, NEW i \in DOMAIN saves'[q], saves'[q][i].accepted
      PROVE  saves'[q][i].mono + Window <= newest'
  <2>1. CASE q # k \/ i \in DOMAIN saves[k]
    <3>1. i \in DOMAIN saves[q] /\ saves'[q][i] = saves[q][i]
      <4>1. CASE q # k
        <5>1. saves'[q] = saves[q]
          BY <1>1, <4>1, SavesAfter
        <5>2. QED BY <1>7, <5>1
      <4>2. CASE q = k /\ i \in DOMAIN saves[k]
        BY <1>1, <4>2, SavesAfter
      <4>3. QED BY <2>1, <4>1, <4>2
    <3>2. saves[q][i].mono + Window <= newest
      BY <1>1, <1>2, <1>7, <3>1 DEF AcceptedCovered
    <3>3. saves[q][i].mono \in Nat
      <4>1. saves[q] \in Seq(Save) /\ i \in 1 .. Len(saves[q])
        BY <1>1, <3>1, LenProperties DEF DedupTypes
      <4>2. saves[q][i] \in Save
        BY <4>1, ElementOfSeq
      <4>3. QED BY <4>2 DEF Save
    <3>4. QED BY <1>1, <1>3, <3>1, <3>2, <3>3
  <2>2. CASE q = k /\ i \notin DOMAIN saves[k]
    <3>1. /\ DOMAIN saves[k] = 1 .. Len(saves[k]) /\ Len(saves[k]) \in Nat
          /\ i \in 1 .. Len(saves[k]) + 1
      BY <1>1, <1>7, <2>2, SavesAfter
    <3>2. i = Len(saves[k]) + 1
      BY <2>2, <3>1
    <3>3. saves'[q][i].mono = mono
      BY <1>1, <2>2, <3>2, SavesAfter
    <3>4. QED BY <1>1, <1>3, <3>3
  <2>3. QED BY <2>1, <2>2
<1>8. AcceptedCovered'
  BY <1>7 DEF AcceptedCovered
<1>9. QED BY <1>4, <1>5, <1>6, <1>8 DEF DedupInv

\* A judged save, with a window.
LEMMA JudgingKeeps ==
    ASSUME DedupInv, Window > 0, NEW k \in Keys, NEW mono \in 1 .. MaxMono,
           NEW accepted \in BOOLEAN, mono + Skew >= newest,
           accepted <=> ~Repeated(k, mono),
           Judged(k, mono, accepted), Sweep(mono), MapAfter(k, mono, accepted)
    PROVE  DedupInv'
<1>1. /\ DedupTypes /\ MapTimes /\ EntriesAccepted /\ AcceptedCovered
      /\ AcceptedApart /\ SuppressedForAnAccepted
  BY DEF DedupInv
<1>2. MapTimes' /\ lastFileSaveGC' \in Times
  BY <1>1, MapTimesAfter
<1>3. DedupTypes'
  <2>1. saves' \in [Keys -> Seq(Save)]
    BY <1>1, SavesAfter
  <2>2. newest' \in Times
    BY <1>1, NewestAfter
  <2>3. QED BY <1>2, <2>1, <2>2 DEF DedupTypes, MapAfter
<1>4. EntriesAccepted'
  BY <1>1, EntriesAfter
<1>5. AcceptedCovered'
  BY <1>1, CoveredAfter
<1>6. AcceptedApart'
  BY <1>1, ApartAfter
<1>7. SuppressedForAnAccepted'
  BY <1>1, SuppressedAfter
<1>8. QED BY <1>2, <1>3, <1>4, <1>5, <1>6, <1>7 DEF DedupInv

LEMMA AcceptKeeps ==
    ASSUME DedupInv, NEW k \in Keys, NEW mono \in 1 .. MaxMono,
           mono + Skew >= newest, Accept(k, mono)
    PROVE  DedupInv'
<1>1. /\ Window > 0 /\ ~Repeated(k, mono) /\ Sweep(mono) /\ Judged(k, mono, TRUE)
      /\ recentFileSaves' = [Swept(mono) EXCEPT ![k] = mono]
  BY DEF Accept
<1>2. Swept(mono) \in [Keys -> Times \cup {Absent}] /\ mono \in Times
  <2>1. DedupTypes
    BY DEF DedupInv
  <2>2. QED BY <2>1, SweptMap, DedupAssumption DEF DedupAssumption, Times
<1>3. MapAfter(k, mono, TRUE)
  BY <1>1, <1>2 DEF MapAfter
<1>4. QED BY <1>1, <1>3, JudgingKeeps

LEMMA SuppressKeeps ==
    ASSUME DedupInv, NEW k \in Keys, NEW mono \in 1 .. MaxMono,
           mono + Skew >= newest, Suppress(k, mono)
    PROVE  DedupInv'
<1>1. /\ Window > 0 /\ Repeated(k, mono) /\ Sweep(mono) /\ Judged(k, mono, FALSE)
      /\ recentFileSaves' = Swept(mono)
  BY DEF Suppress
<1>2. Swept(mono) \in [Keys -> Times \cup {Absent}]
  BY SweptMap DEF DedupInv
<1>3. MapAfter(k, mono, FALSE)
  BY <1>1, <1>2 DEF MapAfter
<1>4. QED BY <1>1, <1>3, JudgingKeeps

\* A process that ends takes its pairs along.
LEMMA ForgetKeeps ==
    ASSUME DedupInv, NEW p \in SavePids, Forget(p)
    PROVE  DedupInv'
<1>1. /\ newest' = newest /\ lastFileSaveGC' = lastFileSaveGC
      /\ recentFileSaves' = [k \in Keys |-> IF k[1] = p THEN Absent ELSE recentFileSaves[k]]
      /\ saves' = [k \in Keys |-> IF k[1] = p THEN <<>> ELSE saves[k]]
      /\ DedupTypes /\ MapTimes /\ EntriesAccepted /\ AcceptedCovered
      /\ AcceptedApart /\ SuppressedForAnAccepted
  BY DEF Forget, DedupInv
<1>2. \A k \in Keys :
         \/ saves'[k] = <<>> /\ DOMAIN saves'[k] = {} /\ recentFileSaves'[k] = Absent
         \/ saves'[k] = saves[k] /\ recentFileSaves'[k] = recentFileSaves[k]
  BY <1>1
<1>3. DedupTypes'
  <2>1. \A k \in Keys : saves[k] \in Seq(Save)
    BY <1>1 DEF DedupTypes
  <2>2. <<>> \in Seq(Save)
    BY EmptySeq
  <2>3. saves' \in [Keys -> Seq(Save)]
    BY <1>1, <2>1, <2>2
  <2>4. recentFileSaves' \in [Keys -> Times \cup {Absent}]
    BY <1>1 DEF DedupTypes
  <2>5. QED BY <1>1, <2>3, <2>4 DEF DedupTypes
<1>4. MapTimes'
  BY <1>1, <1>2 DEF MapTimes
<1>5. EntriesAccepted'
  BY <1>1, <1>2 DEF EntriesAccepted
<1>6. AcceptedCovered'
  BY <1>1, <1>2 DEF AcceptedCovered
<1>7. AcceptedApart'
  BY <1>1, <1>2 DEF AcceptedApart
<1>8. SuppressedForAnAccepted'
  BY <1>1, <1>2 DEF SuppressedForAnAccepted
<1>9. QED BY <1>3, <1>4, <1>5, <1>6, <1>7, <1>8 DEF DedupInv

LEMMA StepDedup == DedupInv /\ [DedupNext]_dedup => DedupInv'
<1> SUFFICES ASSUME DedupInv, [DedupNext]_dedup PROVE DedupInv'
  OBVIOUS
<1>1. CASE \E k \in Keys, mono \in 1 .. MaxMono :
              /\ Len(saves[k]) < MaxSaves
              /\ mono + Skew >= newest
              /\ PassAll(k, mono) \/ Accept(k, mono) \/ Suppress(k, mono)
  <2>1. PICK k \in Keys, mono \in 1 .. MaxMono :
           /\ mono + Skew >= newest
           /\ PassAll(k, mono) \/ Accept(k, mono) \/ Suppress(k, mono)
    BY <1>1
  <2>2. QED BY <2>1, PassAllKeeps, AcceptKeeps, SuppressKeeps
<1>2. CASE \E p \in SavePids : Forget(p)
  BY <1>2, ForgetKeeps
<1>3. CASE UNCHANGED dedup
  BY <1>3 DEF dedup, DedupInv, DedupTypes, MapTimes, EntriesAccepted, AcceptedCovered,
              AcceptedApart, SuppressedForAnAccepted
<1>4. QED BY <1>1, <1>2, <1>3 DEF DedupNext

LEMMA DedupInvariant == DedupSpec => []DedupInv
BY InitDedup, StepDedup, PTL DEF DedupSpec

\* A pair passes once per window, but for the skew of the samples
\* (shouldSuppressDuplicateFileSave).
THEOREM SavesAreAcceptedApart == DedupSpec => []AcceptedApart
<1>1. DedupInv => AcceptedApart
  BY DEF DedupInv
<1>2. QED BY <1>1, DedupInvariant, PTL

\* No save is suppressed unless one of the pair has passed the window near it,
\* whatever the filter then makes of that one (collector 1601, 628).
THEOREM SuppressionNeedsAnAccepted == DedupSpec => []SuppressedForAnAccepted
<1>1. DedupInv => SuppressedForAnAccepted
  BY DEF DedupInv
<1>2. QED BY <1>1, DedupInvariant, PTL

\* The sweep bounds the age of an entry.
LEMMA MapIsSwept == DedupInv => MapSwept
<1>1. ASSUME DedupInv, NEW k \in Keys, recentFileSaves[k] # Absent
      PROVE  recentFileSaves[k] + 2 * Window + Skew >= newest
  <2>1. /\ Window \in Nat /\ Skew \in Nat /\ newest \in Nat /\ lastFileSaveGC \in Nat
        /\ recentFileSaves[k] \in Nat
    BY <1>1, DedupAssumption DEF DedupAssumption, DedupInv, DedupTypes, Times
  <2>2. Window > 0
    BY <1>1, <2>1 DEF DedupInv, MapTimes
  <2>3. recentFileSaves[k] + Window >= lastFileSaveGC
    BY <1>1 DEF DedupInv, MapTimes
  <2>4. newest <= lastFileSaveGC + Window + Skew
    BY <1>1, <2>2 DEF DedupInv, MapTimes
  <2>5. QED BY <2>1, <2>3, <2>4
<1>2. QED BY <1>1 DEF MapSwept

\* The sweep bounds the age of the map's entries by two windows and the skew.
THEOREM MapStaysSwept == DedupSpec => []MapSwept
BY MapIsSwept, DedupInvariant, PTL

-----------------------------------------------------------------------------
(* The kernel side of the event loop.                                      *)

SampleTypes == {"Exec", "ProcessExit", "OpenEnter", "OpenResult", "DupEnter", "DupResult",
                "WriteEnter", "WriteResult"}

\* Samples whose fields are what their type says.
Samples ==
    {x \in [cpu : CPUs, type : SampleTypes, tgid : Pids, tid : Tids, a : Int, b : Int,
            file : Files \cup {NoFile}, mono : Nat \ {0}, inc : Nat, fd : Nat, real : Entries] :
        /\ x.type = "OpenEnter" => x.file \in Files
        /\ x.type = "OpenResult" => x.a \in Fds \cup {-1}
        /\ x.type = "DupEnter" => x.a \in Fds /\ x.b \in Fds
        /\ x.type = "DupResult" => x.a \in Fds \cup {-1}
        /\ x.type = "WriteEnter" => x.a \in Fds
        /\ x.type = "WriteResult" => x.fd \in Fds}

\* The system calls a thread may be in.
Calls == {Idle} \cup [op : {"open"}, file : Files]
            \cup [op : {"dup"}, old : Fds, new : Fds]
            \cup [op : {"write"}, fd : Fds, entry : Entries]

Held == [pid : Pids, inc : Nat, fd : Fds, entry : Entries]

\* Threads are grouped under a leader, which is not reaped before them.
ThreadsOK ==
    /\ \A t \in Tids : group[t] # 0 => group[group[t]] = group[t]
    /\ \A p \in Pids : group[p] \in {0, p}
    /\ \A p \in zombie : group[p] = p
    /\ \A t \in Tids : call[t] # Idle => group[t] # 0 /\ t \notin zombie
    /\ ~orphaned => \A t \in Tids : group[t] \in zombie => t = group[t]

KernelTypes ==
    /\ group \in [Tids -> Pids \cup {0}]
    /\ call \in [Tids -> Calls]
    /\ zombie \subseteq Pids
    /\ inc \in [Pids -> Nat]
    /\ fdt \in [Pids -> [Fds -> Entries]]
    /\ had \subseteq Held
    /\ orphaned \in BOOLEAN
    /\ clock \in Nat \ {0}
    /\ queue \in Seq(Samples)
    /\ dropped \in Nat
    /\ calls \in Nat

KernelInv == KernelTypes /\ ThreadsOK

LEMMA Numbers ==
    /\ Pids \subseteq Nat \ {0} /\ Workers \subseteq Nat \ {0} /\ Pids \subseteq Tids
    /\ Fds \subseteq Nat /\ Tids \subseteq Nat \ {0} /\ 0 \notin Pids /\ 0 \notin Tids
    /\ -1 \notin Fds
    /\ Pids \cap Workers = {} /\ {QueueCap, MaxDropped, MaxCalls, CheckInterval} \subseteq Nat
    /\ MaxMono \in Nat
BY FileAssumption, DedupAssumption DEF FileAssumption, DedupAssumption, Tids

LEMMA FileTypes ==
    /\ NoFile \notin Files /\ NoFile.regular = FALSE /\ NoFile.ino = 0
    /\ \A f \in Files : f.path \in Paths /\ f.ino \in Nat \ {0} /\ f.regular \in BOOLEAN
    /\ Closed \in Entries
BY FileAssumption DEF FileAssumption, NoFile, Closed, Entries

\* The samples of a step of the kernel: one or none.
New == {queue'[i] : i \in (Len(queue) + 1) .. Len(queue')}

LEMMA EmitNew ==
    ASSUME KernelInv, NEW x \in Samples, Emit(x)
    PROVE  /\ queue' \in Seq(Samples) /\ dropped' \in Nat /\ dropped <= dropped'
           /\ \/ New = {x} /\ queue' = Append(queue, x) /\ dropped' = dropped
              \/ New = {} /\ queue' = queue /\ dropped' = dropped + 1
<1>0. queue \in Seq(Samples) /\ dropped \in Nat /\ Len(queue) \in Nat
  BY DEF KernelInv, KernelTypes
<1>1. CASE queue' = Append(queue, x) /\ UNCHANGED dropped
  <2>1. /\ queue' \in Seq(Samples) /\ Len(queue') = Len(queue) + 1
        /\ queue'[Len(queue) + 1] = x
    BY <1>0, <1>1
  <2>2. New = {x}
    BY <1>0, <2>1 DEF New
  <2>3. QED BY <1>0, <1>1, <2>1, <2>2
<1>2. CASE dropped' = dropped + 1 /\ UNCHANGED queue
  <2>1. New = {}
    BY <1>0, <1>2 DEF New
  <2>2. QED BY <1>0, <1>2, <2>1
<1>3. QED BY <1>1, <1>2 DEF Emit

LEMMA SilentNew ==
    ASSUME KernelInv, Silent
    PROVE  New = {} /\ queue' = queue /\ dropped' = dropped
<1>1. queue \in Seq(Samples) /\ Len(queue) \in Nat
  BY DEF KernelInv, KernelTypes
<1>2. QED BY <1>1 DEF Silent, channel, New

\* A sample of a thread.
LEMMA SampleType ==
    ASSUME KernelInv, NEW cpu \in CPUs, NEW t \in Tids, group[t] # 0, NEW type \in SampleTypes,
           NEW a \in Int, NEW b \in Int, NEW file \in Files \cup {NoFile},
           type = "OpenEnter" => file \in Files,
           type \in {"OpenResult", "DupResult"} => a \in Fds \cup {-1},
           type = "DupEnter" => a \in Fds /\ b \in Fds,
           type = "WriteEnter" => a \in Fds,
           type # "WriteResult"
    PROVE  /\ Sample(cpu, type, t, a, b, file) \in Samples
           /\ Sample(cpu, type, t, a, b, file).type = type
           /\ Sample(cpu, type, t, a, b, file).tid = t
           /\ Sample(cpu, type, t, a, b, file).tgid = group[t]
           /\ Sample(cpu, type, t, a, b, file).a = a
           /\ Sample(cpu, type, t, a, b, file).b = b
           /\ Sample(cpu, type, t, a, b, file).file = file
           /\ Sample(cpu, type, t, a, b, file).mono = clock
           /\ Sample(cpu, type, t, a, b, file).inc = inc[group[t]]
           /\ Sample(cpu, type, t, a, b, file).real = Closed
<1>1. /\ group[t] \in Pids /\ clock \in Nat \ {0} /\ inc[group[t]] \in Nat
  BY DEF KernelInv, KernelTypes
<1>2. QED BY <1>1, FileTypes DEF Sample, Samples

\* The sample of a write.
Wrote(cpu, t, bytes, d, e) ==
    [Sample(cpu, "WriteResult", t, bytes, 0, NoFile) EXCEPT !.fd = d, !.real = e]

LEMMA WroteType ==
    ASSUME KernelInv, NEW cpu \in CPUs, NEW t \in Tids, group[t] # 0, NEW bytes \in Int, NEW d \in Fds,
           NEW e \in Entries
    PROVE  /\ Wrote(cpu, t, bytes, d, e) \in Samples
           /\ Wrote(cpu, t, bytes, d, e).type = "WriteResult"
           /\ Wrote(cpu, t, bytes, d, e).tid = t
           /\ Wrote(cpu, t, bytes, d, e).tgid = group[t]
           /\ Wrote(cpu, t, bytes, d, e).mono = clock
           /\ Wrote(cpu, t, bytes, d, e).inc = inc[group[t]]
           /\ Wrote(cpu, t, bytes, d, e).fd = d
           /\ Wrote(cpu, t, bytes, d, e).real = e
<1>1. /\ group[t] \in Pids /\ clock \in Nat \ {0} /\ inc[group[t]] \in Nat
      /\ d \in Nat
  BY Numbers DEF KernelInv, KernelTypes
<1>2. PICK s : s = Sample(cpu, "WriteResult", t, bytes, 0, NoFile)
  OBVIOUS
<1>3. s = [cpu |-> cpu, type |-> "WriteResult", tgid |-> group[t], tid |-> t, a |-> bytes, b |-> 0,
           file |-> NoFile, mono |-> clock, inc |-> inc[group[t]], fd |-> 0, real |-> Closed]
  BY <1>2 DEF Sample
<1>4. Wrote(cpu, t, bytes, d, e) = [[s EXCEPT !.fd = d] EXCEPT !.real = e]
  BY <1>2, <1>3 DEF Wrote
<1>5. PICK r : r = [s EXCEPT !.fd = d]
  OBVIOUS
<1>6. r = [cpu |-> cpu, type |-> "WriteResult", tgid |-> group[t], tid |-> t, a |-> bytes, b |-> 0,
           file |-> NoFile, mono |-> clock, inc |-> inc[group[t]], fd |-> d, real |-> Closed]
  BY <1>3, <1>5
<1>7. [r EXCEPT !.real = e] =
          [cpu |-> cpu, type |-> "WriteResult", tgid |-> group[t], tid |-> t, a |-> bytes, b |-> 0,
           file |-> NoFile, mono |-> clock, inc |-> inc[group[t]], fd |-> d, real |-> e]
  BY <1>6
<1>8. PICK w : w = Wrote(cpu, t, bytes, d, e)
  OBVIOUS
<1>9. w =  [cpu |-> cpu, type |-> "WriteResult", tgid |-> group[t], tid |-> t, a |-> bytes, b |-> 0,
           file |-> NoFile, mono |-> clock, inc |-> inc[group[t]], fd |-> d, real |-> e]
  BY <1>4, <1>5, <1>7, <1>8
<1>10. QED BY <1>1, <1>8, <1>9 DEF Samples, SampleTypes

\* The descriptors of a process are replaced.
LEMMA InstallTypes ==
    ASSUME KernelInv, NEW p \in Pids, NEW n \in Nat, NEW table \in [Fds -> Entries],
           Install(p, n, table)
    PROVE  /\ fdt' \in [Pids -> [Fds -> Entries]]
           /\ fdt'[p] = table
           /\ \A q \in Pids : q # p => fdt'[q] = fdt[q]
           /\ had \subseteq had'
           /\ had' \subseteq Held
           /\ \A d \in Fds : table[d] # Closed =>
                 [pid |-> p, inc |-> n, fd |-> d, entry |-> table[d]] \in had'
<1>1. fdt \in [Pids -> [Fds -> Entries]] /\ had \subseteq Held
  BY DEF KernelInv, KernelTypes
<1>2. fdt' = [fdt EXCEPT ![p] = table]
  BY DEF Install
<1>3. /\ had \subseteq had'
      /\ \A d \in Fds : table[d] # Closed =>
            [pid |-> p, inc |-> n, fd |-> d, entry |-> table[d]] \in had'
      /\ \A h \in had' : h \in had \/ \E d \in Fds :
            h = [pid |-> p, inc |-> n, fd |-> d, entry |-> table[d]]
  BY DEF Install
<1>4. \A d \in Fds : [pid |-> p, inc |-> n, fd |-> d, entry |-> table[d]] \in Held
  BY DEF Held
<1>5. had' \subseteq Held
  BY <1>1, <1>3, <1>4
<1>6. QED BY <1>1, <1>2, <1>3, <1>5

LEMMA EntryType ==
    ASSUME KernelInv, NEW f \in Files \cup {NoFile}
    PROVE  Entry(f) \in Entries /\ Entry(f).from = clock /\ Entry(f).nth = calls /\ Entry(f).file = f
BY DEF KernelInv, KernelTypes, Entry, Entries
\* The exit of the leader of p: what ends all that is remembered of p.
LeaderExit(x, p) == x.type = "ProcessExit" /\ x.tid = p /\ x.tgid = p

Lives(p) == group[p] = p /\ p \notin zombie

\* The three kinds of calls that are seen as two samples.
Ops == {"open", "dup", "write"}
Enter  == [open |-> "OpenEnter", dup |-> "DupEnter", write |-> "WriteEnter"]
Result == [open |-> "OpenResult", dup |-> "DupResult", write |-> "WriteResult"]

Enters(x, o, t)  == x.type = Enter[o] /\ x.tid = t
Results(x, o, t) == x.type = Result[o] /\ x.tid = t

\* Attempt a, made of an enter sample, is that of the call c of a thread of p.
FitsCall(o, a, c, p) ==
    /\ o = "open" => a.file = c.file
    /\ o = "dup" => a.tgid = p /\ a.new = c.new
    /\ o = "write" => a.tgid = p /\ a.fd = c.fd

\* Attempt a is that of the call which gave the result sample x, where h
\* is all that was ever opened.
FitsResult(o, a, x, h) ==
    /\ o = "open" /\ x.a >= 0 =>
          \E g \in h : g.pid = x.tgid /\ g.inc = x.inc /\ g.entry.file = a.file
    /\ o = "dup" /\ x.a >= 0 => a.tgid = x.tgid /\ a.new = x.a
    /\ o = "write" => a.tgid = x.tgid /\ a.fd = x.fd

\* The attempt an enter sample makes.
Made(o, x) ==
    IF o = "open" THEN [tgid |-> x.tgid, file |-> x.file]
    ELSE IF o = "dup" THEN [tgid |-> x.tgid, old |-> x.a, new |-> x.b]
    ELSE [tgid |-> x.tgid, fd |-> x.a]

\* What a step of the kernel does to the queue ...
Queues ==
    \/ New = {} /\ queue' = queue
    \/ \E x \in Samples : /\ New = {x} /\ queue' = Append(queue, x) /\ dropped' = dropped
                          /\ x.mono = clock /\ clock' = clock /\ x.inc = inc'[x.tgid]

\* ... to the tables of descriptors ...
Tables ==
    /\ had \subseteq had' /\ calls <= calls' /\ clock <= clock'
    /\ \A p \in Pids, d \in Fds :
          \/ fdt'[p][d] \in {fdt[p][d], Closed}
          \/ fdt'[p][d].from = clock /\ fdt'[p][d].nth = calls
    /\ \A p \in Pids, d \in Fds : inc'[p] # inc[p] =>
          fdt'[p][d] = Closed \/ fdt'[p][d].from = clock
    /\ \A p \in Pids, d \in Fds : Lives(p)' /\ fdt'[p][d] # Closed =>
          \/ Lives(p) /\ inc'[p] = inc[p] /\ fdt'[p][d] = fdt[p][d]
          \/ [pid |-> p, inc |-> inc'[p], fd |-> d, entry |-> fdt'[p][d]] \in had'
    /\ \A x \in New :
          /\ x.type = "WriteResult" => fdt' = fdt /\ x.real \in {Closed, fdt[x.tgid][x.fd]}
          /\ x.type = "DupResult" /\ x.a >= 0 => fdt'[x.tgid][x.a].from = clock

\* ... to the processes ...
Survives ==
    /\ orphaned => orphaned'
    /\ \A p \in Pids : Lives(p) /\ dropped' = dropped =>
          \/ Lives(p)' /\ inc'[p] = inc[p]
          \/ \E x \in New : LeaderExit(x, p) /\ x.inc = inc[p]
    /\ \A x \in New : orphaned \/ LeaderExit(x, x.tgid) \/ Lives(x.tgid)'
    /\ \A p \in Pids : \/ inc'[p] = inc[p] /\ (group'[p] = p => group[p] = p)
                       \/ inc'[p] = inc[p] + 1 /\ group[p] = 0

\* ... and to the call of a thread.
Proceeds(o, t) ==
    \/ /\ \A x \in New : ~Enters(x, o, t) /\ ~Results(x, o, t)
       /\ call'[t].op = o => call'[t] = call[t]
       /\ call[t].op = o => call'[t] = call[t] /\ group'[t] = group[t]
    \/ New = {} /\ call[t].op # o /\ call'[t].op = o
    \/ \E x \in New : Enters(x, o, t) /\ call[t].op # o /\ call'[t].op = o
                      /\ FitsCall(o, Made(o, x), call'[t], group'[t])
    \/ \E x \in New : Results(x, o, t) /\ call[t].op = o /\ call'[t].op # o
                      /\ \A a : FitsCall(o, a, call[t], group[t]) => FitsResult(o, a, x, had')

Life == /\ Queues /\ Tables /\ Survives
        /\ dropped' = dropped => \A o \in Ops, t \in Tids : Proceeds(o, t)

LEMMA SameTables ==
    ASSUME KernelInv, UNCHANGED <<fdt, had, inc>>, calls <= calls', clock <= clock',
           \A p \in Pids : Lives(p)' => Lives(p),
           \A x \in New : \/ x.type \notin {"WriteResult", "DupResult"}
                          \/ x.type = "DupResult" /\ ~(x.a >= 0)
                          \/ x.type = "WriteResult" /\ x.real \in {Closed, fdt[x.tgid][x.fd]}
    PROVE  Tables
<1>1. inc \in [Pids -> Nat]
  BY DEF KernelInv, KernelTypes
<1>2. QED BY <1>1 DEF Tables

LEMMA SameProcesses ==
    ASSUME KernelInv, UNCHANGED <<group, zombie, inc, orphaned>>,
           \A x \in New : \E t \in Tids : x.tgid = group[t] /\ group[t] # 0 /\ t \notin zombie
    PROVE  Survives
<1>1. ASSUME NEW x \in New PROVE orphaned \/ Lives(x.tgid)
  <2>1. PICK t \in Tids : x.tgid = group[t] /\ group[t] # 0 /\ t \notin zombie
    OBVIOUS
  <2>2. QED BY <2>1 DEF Lives, KernelInv, KernelTypes, ThreadsOK
<1>2. QED BY <1>1 DEF Survives, Lives

LEMMA SameCalls ==
    ASSUME KernelInv, call' = call, \A t \in Tids : call[t] # Idle => group'[t] = group[t],
           \A x \in New : x.type \in {"Exec", "ProcessExit"}
    PROVE  \A o \in Ops, t \in Tids : Proceeds(o, t)
<1> SUFFICES ASSUME NEW o \in Ops, NEW t \in Tids PROVE Proceeds(o, t)
  OBVIOUS
<1>1. \A x \in New : ~Enters(x, o, t) /\ ~Results(x, o, t)
  BY DEF Ops, Enters, Results, Enter, Result
<1>2. call[t].op = o => call[t] # Idle
  BY DEF Ops, Idle
<1>3. QED BY <1>1, <1>2 DEF Proceeds

\* A thread that is in no call enters one.
LEMMA OneCall ==
    ASSUME KernelInv, NEW t \in Tids, NEW k \in Ops, NEW c \in Calls, UNCHANGED group,
           call' = [call EXCEPT ![t] = c], call[t].op = "idle", c.op = k,
           \A x \in New : /\ x.type = Enter[k] /\ x.tid = t
                          /\ FitsCall(k, Made(k, x), call'[t], group'[t])
    PROVE  \A o \in Ops, u \in Tids : Proceeds(o, u)
<1> SUFFICES ASSUME NEW o \in Ops, NEW u \in Tids PROVE Proceeds(o, u)
  OBVIOUS
<1>1. call'[t] = c /\ (u # t => call'[u] = call[u])
  BY DEF KernelInv, KernelTypes
<1>2. CASE o # k \/ u # t
  <2>1. \A x \in New : ~Enters(x, o, u) /\ ~Results(x, o, u)
    BY <1>2 DEF Ops, Enters, Results, Enter, Result
  <2>2. o # k /\ u = t => call[t].op # o /\ call'[t].op # o
    BY <1>1 DEF Ops
  <2>3. QED BY <1>1, <1>2, <2>1, <2>2 DEF Proceeds
<1>3. CASE o = k /\ u = t
  <2>1. call[t].op # k /\ call'[t].op = k
    BY <1>1 DEF Ops
  <2>2. \A x \in New : Enters(x, o, u)
    BY <1>3 DEF Enters
  <2>3. QED BY <1>3, <2>1, <2>2 DEF Proceeds
<1>4. QED BY <1>2, <1>3

\* One descriptor of a process is replaced.
LEMMA OneDescriptor ==
    ASSUME KernelInv, NEW p \in Pids, NEW d \in Fds, NEW e \in Entries,
           e = Closed \/ (e.from = clock /\ e.nth = calls),
           Install(p, inc[p], [fdt[p] EXCEPT ![d] = e]),
           UNCHANGED <<group, zombie, inc, clock>>, calls <= calls',
           \A x \in New : /\ x.type # "WriteResult"
                          /\ x.type = "DupResult" => x.tgid = p /\ x.a = d /\ e # Closed
    PROVE  /\ Tables
           /\ fdt' \in [Pids -> [Fds -> Entries]]
           /\ had' \subseteq Held
           /\ e # Closed => [pid |-> p, inc |-> inc[p], fd |-> d, entry |-> e] \in had'
<1>1. /\ fdt[p] \in [Fds -> Entries] /\ inc \in [Pids -> Nat] /\ inc[p] \in Nat
      /\ clock \in Nat
  BY DEF KernelInv, KernelTypes
<1>2. PICK table \in [Fds -> Entries] : table = [fdt[p] EXCEPT ![d] = e]
  BY <1>1
<1>3. /\ fdt' \in [Pids -> [Fds -> Entries]] /\ fdt'[p] = table
      /\ \A q \in Pids : q # p => fdt'[q] = fdt[q]
      /\ had \subseteq had' /\ had' \subseteq Held
      /\ \A c \in Fds : table[c] # Closed =>
            [pid |-> p, inc |-> inc[p], fd |-> c, entry |-> table[c]] \in had'
  BY <1>1, <1>2, InstallTypes
<1>4. table[d] = e /\ \A c \in Fds : c # d => table[c] = fdt[p][c]
  BY <1>1, <1>2
<1>5. \A q \in Pids, c \in Fds :
         \/ fdt'[q][c] = fdt[q][c]
         \/ q = p /\ c = d /\ fdt'[q][c] = e
  BY <1>3, <1>4
<1>6. \A q \in Pids : Lives(q)' => Lives(q)
  BY DEF Lives
<1>7. \A q \in Pids, c \in Fds : fdt'[q][c] # Closed =>
         \/ fdt'[q][c] = fdt[q][c]
         \/ [pid |-> q, inc |-> inc[q], fd |-> c, entry |-> fdt'[q][c]] \in had'
  BY <1>3, <1>5
<1>8. \A x \in New : x.type = "DupResult" => fdt'[x.tgid][x.a].from = clock
  BY <1>3, <1>4
<1>9. Tables
  BY <1>1, <1>3, <1>5, <1>6, <1>7, <1>8 DEF Tables
<1>10. QED BY <1>3, <1>4, <1>9

LEMMA TickLife ==
    ASSUME KernelInv, Tick
    PROVE  KernelInv' /\ Life
<1>0. KernelTypes /\ ThreadsOK /\ MaxMono \in Nat
  BY Numbers DEF KernelInv
<1>1. New = {} /\ queue' = queue /\ dropped' = dropped
  BY SilentNew DEF Tick
<1>2. UNCHANGED <<group, call, zombie, inc, fdt, had, calls, orphaned>> /\ clock' = clock + 1
  BY DEF Tick
<1>3. KernelTypes' /\ ThreadsOK' /\ Queues
  BY <1>0, <1>1, <1>2 DEF KernelTypes, ThreadsOK, Queues
<1>4. Tables
  BY <1>0, <1>1, <1>2, SameTables DEF Lives, KernelTypes
<1>5. Survives
  BY <1>1, <1>2, SameProcesses
<1>6. \A o \in Ops, u \in Tids : Proceeds(o, u)
  BY <1>1, <1>2, SameCalls
<1>7. QED BY <1>3, <1>4, <1>5, <1>6 DEF KernelInv, Life

LEMMA ReapLife ==
    ASSUME KernelInv, NEW p \in Pids, Reap(p)
    PROVE  KernelInv' /\ Life
<1>0. KernelTypes /\ ThreadsOK
  BY DEF KernelInv
<1>1. New = {} /\ queue' = queue /\ dropped' = dropped
  BY SilentNew DEF Reap
<1>2. /\ UNCHANGED <<call, inc, fdt, had, clock, calls, orphaned>>
      /\ group' = [group EXCEPT ![p] = 0] /\ zombie' = zombie \ {p} /\ p \in zombie
      /\ p \in Tids /\ group \in [Tids -> Pids \cup {0}]
      /\ \A t \in Tids : group[t] = p => t = p
  BY <1>0, Numbers DEF Reap, KernelTypes, Members
<1>3. KernelTypes' /\ Queues
  BY <1>0, <1>1, <1>2 DEF KernelTypes, Queues
<1>4. ThreadsOK'
  <2>1. /\ \A t \in Tids : group'[t] # 0 => group'[group'[t]] = group'[t]
        /\ \A q \in Pids : group'[q] \in {0, q}
    BY <1>0, <1>2, Numbers DEF ThreadsOK
  <2>2. /\ \A q \in zombie' : group'[q] = q
        /\ \A t \in Tids : call'[t] # Idle => group'[t] # 0 /\ t \notin zombie'
    BY <1>0, <1>2, Numbers DEF KernelTypes, ThreadsOK
  <2>3. ~orphaned' => \A t \in Tids : group'[t] \in zombie' => t = group'[t]
    BY <1>0, <1>2, Numbers DEF KernelTypes, ThreadsOK
  <2>4. QED BY <2>1, <2>2, <2>3 DEF ThreadsOK
<1>5. \A q \in Pids : /\ Lives(q)' => Lives(q)
                      /\ Lives(q) => Lives(q)'
  BY <1>2, Numbers DEF Lives
<1>6. Tables
  BY <1>0, <1>1, <1>2, <1>5, SameTables DEF KernelTypes
<1>7. Survives
  BY <1>1, <1>2, <1>5, Numbers DEF Survives
<1>8. \A o \in Ops, u \in Tids : Proceeds(o, u)
  <2>1. \A t \in Tids : call[t] # Idle => group'[t] = group[t]
    BY <1>0, <1>2 DEF ThreadsOK
  <2>2. QED BY <1>1, <1>2, <2>1, SameCalls
<1>9. QED BY <1>3, <1>4, <1>6, <1>7, <1>8 DEF KernelInv, Life

LEMMA CloneLife ==
    ASSUME KernelInv, NEW t \in Tids, NEW w \in Tids, Clone(t, w)
    PROVE  KernelInv' /\ Life
<1>0. KernelTypes /\ ThreadsOK
  BY DEF KernelInv
<1>1. New = {} /\ queue' = queue /\ dropped' = dropped
  BY SilentNew DEF Clone
<1>2. /\ UNCHANGED <<call, zombie, inc, fdt, had, clock, calls, orphaned>>
      /\ group' = [group EXCEPT ![w] = group[t]] /\ group[w] = 0 /\ group[t] \in Pids
      /\ w \notin Pids /\ group \in [Tids -> Pids \cup {0}] /\ t \notin zombie
      /\ group[t] # w
  BY <1>0, Numbers DEF Clone, KernelTypes, Ready, Free
<1>3. KernelTypes' /\ Queues
  BY <1>0, <1>1, <1>2 DEF KernelTypes, Queues
<1>4. ThreadsOK'
  <2>1. /\ \A v \in Tids : group'[v] # 0 => group'[group'[v]] = group'[v]
        /\ \A q \in Pids : group'[q] \in {0, q}
    BY <1>0, <1>2, Numbers DEF ThreadsOK
  <2>2. /\ \A q \in zombie' : group'[q] = q
        /\ \A v \in Tids : call'[v] # Idle => group'[v] # 0 /\ v \notin zombie'
    BY <1>0, <1>2, Numbers DEF KernelTypes, ThreadsOK
  <2>3. ~orphaned' => \A v \in Tids : group'[v] \in zombie' => v = group'[v]
    BY <1>0, <1>2, Numbers DEF KernelTypes, ThreadsOK
  <2>4. QED BY <2>1, <2>2, <2>3 DEF ThreadsOK
<1>5. \A q \in Pids : group'[q] = group[q] /\ (Lives(q)' <=> Lives(q))
  BY <1>2, Numbers DEF Lives
<1>6. Tables
  BY <1>0, <1>1, <1>2, <1>5, SameTables DEF KernelTypes
<1>7. Survives
  BY <1>1, <1>2, <1>5 DEF Survives
<1>8. \A o \in Ops, u \in Tids : Proceeds(o, u)
  <2>1. \A v \in Tids : call[v] # Idle => group'[v] = group[v]
    BY <1>0, <1>2 DEF ThreadsOK
  <2>2. QED BY <1>1, <1>2, <2>1, SameCalls
<1>9. QED BY <1>3, <1>4, <1>6, <1>7, <1>8 DEF KernelInv, Life

LEMMA StartLife ==
    ASSUME KernelInv, NEW cpu \in CPUs, NEW p \in Pids, Start(cpu, p)
    PROVE  KernelInv' /\ Life
<1>0. /\ KernelTypes /\ ThreadsOK /\ p \in Tids /\ p # 0 /\ clock \in Nat \ {0}
      /\ inc \in [Pids -> Nat] /\ calls \in Nat
  BY Numbers DEF KernelInv, KernelTypes
<1>1. /\ UNCHANGED <<call, zombie, clock, orphaned>> /\ calls' = calls + 1
      /\ group' = [group EXCEPT ![p] = p] /\ group[p] = 0
      /\ inc' = [inc EXCEPT ![p] = inc[p] + 1] /\ inc[p] + 1 \in Nat
      /\ group \in [Tids -> Pids \cup {0}]
  BY <1>0 DEF Start, FileCall, Free, KernelTypes
<1>2. /\ inc'[p] = inc[p] + 1 /\ \A q \in Pids : q # p => inc'[q] = inc[q]
      /\ inc' \in [Pids -> Nat] /\ group' \in [Tids -> Pids \cup {0}]
  BY <1>0, <1>1
<1>3. PICK x : x = [cpu |-> cpu, type |-> "Exec", tgid |-> p, tid |-> p, a |-> 0, b |-> 0,
                    file |-> NoFile, mono |-> clock, inc |-> inc'[p],
                    fd |-> 0, real |-> Closed]
  OBVIOUS
<1>4. /\ x \in Samples /\ x.mono = clock /\ x.tgid = p /\ x.inc = inc'[x.tgid]
      /\ x.type = "Exec"
  BY <1>0, <1>1, <1>2, <1>3, FileTypes DEF Samples, SampleTypes
<1>5. Emit(x)
  BY <1>3 DEF Start
<1>6. /\ queue' \in Seq(Samples) /\ dropped' \in Nat /\ dropped <= dropped'
      /\ \/ New = {x} /\ queue' = Append(queue, x) /\ dropped' = dropped
         \/ New = {} /\ queue' = queue /\ dropped' = dropped + 1
  BY <1>4, <1>5, EmitNew
<1>7. PICK f \in Files \cup {NoFile} :
          Install(p, inc[p] + 1, [d \in Fds |-> IF f # NoFile /\ \A e \in Fds : d <= e
                                                THEN Entry(f) ELSE Closed])
  BY DEF Start
<1>8. PICK table \in [Fds -> Entries] :
          table = [d \in Fds |-> IF f # NoFile /\ \A e \in Fds : d <= e
                                 THEN Entry(f) ELSE Closed]
  BY EntryType, FileTypes
<1>9. \A d \in Fds : table[d] = Closed \/ (table[d].from = clock /\ table[d].nth = calls)
  BY <1>8, EntryType
<1>10. /\ fdt' \in [Pids -> [Fds -> Entries]] /\ fdt'[p] = table
       /\ \A q \in Pids : q # p => fdt'[q] = fdt[q]
       /\ had \subseteq had' /\ had' \subseteq Held
       /\ \A d \in Fds : table[d] # Closed =>
             [pid |-> p, inc |-> inc[p] + 1, fd |-> d, entry |-> table[d]] \in had'
  BY <1>1, <1>7, <1>8, InstallTypes
<1>11. KernelTypes'
  BY <1>0, <1>1, <1>2, <1>6, <1>10 DEF KernelTypes
<1>12. Queues
  BY <1>1, <1>4, <1>6 DEF Queues
<1>13. ThreadsOK'
  BY <1>0, <1>1, Numbers DEF KernelTypes, ThreadsOK
<1>14. Tables
  <2>1. \A q \in Pids : q # p => (Lives(q)' => Lives(q))
    BY <1>1, Numbers DEF Lives
  <2>2. /\ had \subseteq had' /\ calls <= calls' /\ clock <= clock'
        /\ \A y \in New : y.type = "Exec"
    BY <1>0, <1>1, <1>4, <1>6, <1>10
  <2>3. \A q \in Pids, d \in Fds : q # p => fdt'[q][d] = fdt[q][d]
    BY <1>10
  <2>4. \A d \in Fds : fdt'[p][d] = table[d]
    BY <1>10
  <2>5. \A q \in Pids, d \in Fds : inc'[q] # inc[q] =>
             fdt'[q][d] = Closed \/ fdt'[q][d].from = clock
    BY <1>2, <1>9, <2>4
  <2>6. \A q \in Pids, d \in Fds : Lives(q)' /\ fdt'[q][d] # Closed =>
             \/ Lives(q) /\ inc'[q] = inc[q] /\ fdt'[q][d] = fdt[q][d]
             \/ [pid |-> q, inc |-> inc'[q], fd |-> d, entry |-> fdt'[q][d]] \in had'
    BY <1>2, <1>10, <2>1, <2>3, <2>4
  <2>7. QED BY <1>9, <2>2, <2>3, <2>4, <2>5, <2>6 DEF Tables
<1>15. Survives
  <2>1. \A q \in Pids : Lives(q) => q # p /\ Lives(q)'
    BY <1>0, <1>1, Numbers DEF Lives
  <2>2. Lives(p)'
    BY <1>0, <1>1 DEF Lives, ThreadsOK
  <2>3. QED BY <1>1, <1>2, <1>4, <1>6, <2>1, <2>2, Numbers DEF Survives
<1>16. \A o \in Ops, u \in Tids : Proceeds(o, u)
  <2>1. \A v \in Tids : call[v] # Idle => group'[v] = group[v]
    BY <1>0, <1>1 DEF ThreadsOK
  <2>2. QED BY <1>1, <1>4, <1>6, <2>1, SameCalls
<1>17. QED BY <1>11, <1>12, <1>13, <1>14, <1>15, <1>16 DEF KernelInv, Life

LEMMA ThreadExitLife ==
    ASSUME KernelInv, NEW cpu \in CPUs, NEW t \in Tids, ThreadExit(cpu, t)
    PROVE  KernelInv' /\ Life
<1>0. PICK p \in Pids : p = group[t]
  BY DEF KernelInv, KernelTypes, ThreadExit, Ready
<1>1. /\ KernelTypes /\ ThreadsOK /\ p = group[t] /\ group[t] # 0 /\ t \notin zombie
      /\ call[t] = Idle /\ inc \in [Pids -> Nat] /\ group \in [Tids -> Pids \cup {0}]
      /\ fdt \in [Pids -> [Fds -> Entries]]
  BY <1>0, Numbers DEF KernelInv, KernelTypes, ThreadExit, Ready
<1>2. /\ UNCHANGED <<call, inc, had, clock, calls>>
      /\ \/ t = p /\ zombie' = zombie \cup {p} /\ group' = group
         \/ t # p /\ group' = [group EXCEPT ![t] = 0] /\ zombie' = zombie
      /\ orphaned' = (orphaned \/ (t = p /\ Members(p) # {p}))
      /\ \/ fdt' = fdt
         \/ fdt' = [fdt EXCEPT ![p] = [d \in Fds |-> Closed]]
  BY <1>0 DEF ThreadExit
<1>3. PICK x : x = Sample(cpu, "ProcessExit", t, 0, 0, NoFile)
  OBVIOUS
<1>4. /\ x \in Samples /\ x.type = "ProcessExit" /\ x.tid = t /\ x.tgid = p /\ x.mono = clock
      /\ x.inc = inc[p]
  <2>1. group[t] # 0
    BY <1>1
  <2>2. /\ x \in Samples /\ x.type = "ProcessExit" /\ x.tid = t /\ x.tgid = group[t]
        /\ x.mono = clock /\ x.inc = inc[group[t]]
    BY <1>3, <2>1, SampleType DEF SampleTypes
  <2>3. QED BY <1>1, <2>2
<1>5. Emit(x)
  BY <1>3 DEF ThreadExit
<1>6. /\ queue' \in Seq(Samples) /\ dropped' \in Nat /\ dropped <= dropped'
      /\ \/ New = {x} /\ queue' = Append(queue, x) /\ dropped' = dropped
         \/ New = {} /\ queue' = queue /\ dropped' = dropped + 1
  BY <1>4, <1>5, EmitNew
<1>7. fdt' \in [Pids -> [Fds -> Entries]]
  BY <1>1, <1>2, FileTypes
<1>8. KernelTypes'
  BY <1>1, <1>2, <1>6, <1>7 DEF KernelTypes
<1>9. Queues
  BY <1>2, <1>4, <1>6 DEF Queues
<1>10. ThreadsOK'
  <2>1. CASE t = p
    <3>1. zombie' = zombie \cup {p} /\ group' = group /\ call' = call
      BY <1>2, <2>1
    <3>2. ~orphaned' => ~orphaned /\ \A u \in Tids : group[u] = p => u = p
      BY <1>2, <2>1 DEF Members
    <3>3. group[p] = p /\ call[p] = Idle
      BY <1>1, <2>1
    <3>4. QED BY <1>1, <3>1, <3>2, <3>3 DEF ThreadsOK
  <2>2. CASE t # p
    <3>1. t \notin Pids
      BY <1>1, <2>2 DEF ThreadsOK
    <3>2. /\ zombie' = zombie /\ call' = call /\ (~orphaned' => ~orphaned)
          /\ group'[t] = 0 /\ \A u \in Tids : u # t => group'[u] = group[u]
      BY <1>1, <1>2, <2>2
    <3>3. \A u \in Tids : group[u] \in Pids \cup {0} /\ (u \in Pids => u # t)
      BY <1>1, <3>1
    <3>4. \A u \in Tids : group'[u] # 0 => group'[group'[u]] = group'[u]
      <4> SUFFICES ASSUME NEW u \in Tids, group'[u] # 0 PROVE group'[group'[u]] = group'[u]
        OBVIOUS
      <4>1. group'[u] = group[u] /\ group[u] \in Pids /\ group[u] # t /\ group[group[u]] = group[u]
        BY <1>1, <3>1, <3>2, <3>3 DEF ThreadsOK
      <4>2. QED BY <3>2, <4>1, Numbers
    <3>5. \A q \in Pids : group'[q] = group[q]
      BY <3>1, <3>2, Numbers
    <3>6. \A u \in Tids : group'[u] # 0 => group'[u] = group[u] /\ u # t
      BY <3>2
    <3>7. ~orphaned' => \A u \in Tids : group'[u] \in zombie => u = group'[u]
      BY <1>1, <3>2, <3>6, Numbers DEF ThreadsOK, KernelTypes
    <3>8. \A q \in Pids : group'[q] \in {0, q} /\ (q \in zombie' => group'[q] = q)
      BY <1>1, <3>2, <3>5 DEF ThreadsOK
    <3>9. \A u \in Tids : call'[u] # Idle => group'[u] # 0 /\ u \notin zombie'
      BY <1>1, <3>2 DEF ThreadsOK
    <3>10. \A q \in zombie' : q \in Pids
      BY <1>1, <3>2 DEF KernelTypes
    <3>11. QED BY <3>2, <3>4, <3>7, <3>8, <3>9, <3>10 DEF ThreadsOK
  <2>3. QED BY <2>1, <2>2
<1>11. \A q \in Pids : /\ Lives(q)' => Lives(q)
                       /\ Lives(q) => Lives(q)' \/ (q = p /\ t = p)
                       /\ group'[q] = q => group[q] = q
  <2>1. CASE t = p
    BY <1>2, <2>1 DEF Lives
  <2>2. CASE t # p
    <3>1. t \notin Pids
      BY <1>1, <2>2 DEF ThreadsOK
    <3>2. \A q \in Pids : group'[q] = group[q]
      BY <1>1, <1>2, <2>2, <3>1, Numbers
    <3>3. QED BY <1>2, <2>2, <3>2 DEF Lives
  <2>3. QED BY <2>1, <2>2
<1>12. Tables
  <2>1. \A q \in Pids, d \in Fds : fdt'[q][d] \in {fdt[q][d], Closed}
    BY <1>1, <1>2
  <2>2. had \subseteq had' /\ calls <= calls' /\ clock <= clock'
    BY <1>1, <1>2 DEF KernelTypes
  <2>3. QED BY <1>2, <1>4, <1>6, <1>11, <2>1, <2>2 DEF Tables
<1>13. Survives
  <2>1. ASSUME dropped' = dropped, NEW q \in Pids, Lives(q)
        PROVE  \/ Lives(q)' /\ inc'[q] = inc[q]
               \/ \E y \in New : LeaderExit(y, q) /\ y.inc = inc[q]
    <3>1. New = {x}
      BY <1>6, <2>1 DEF KernelInv, KernelTypes
    <3>2. QED BY <1>2, <1>4, <1>11, <2>1, <3>1 DEF LeaderExit
  <2>2. t # p /\ ~orphaned => Lives(p)'
    <3>1. t # p /\ ~orphaned => p \notin zombie /\ group[p] = p
      BY <1>1 DEF ThreadsOK
    <3>2. QED BY <1>1, <1>11, <3>1 DEF Lives
  <2>3. \A y \in New : orphaned \/ LeaderExit(y, y.tgid) \/ Lives(y.tgid)'
    <3>1. \A y \in New : y = x
      BY <1>6
    <3>2. t = p => LeaderExit(x, p)
      BY <1>4 DEF LeaderExit
    <3>3. QED BY <1>4, <2>2, <3>1, <3>2
  <2>4. QED BY <1>2, <1>11, <2>1, <2>3 DEF Survives
<1>14. \A o \in Ops, u \in Tids : Proceeds(o, u)
  <2>1. \A v \in Tids : call[v] # Idle => group'[v] = group[v]
    BY <1>1, <1>2
  <2>2. QED BY <1>2, <1>4, <1>6, <2>1, SameCalls
<1>15. QED BY <1>8, <1>9, <1>10, <1>12, <1>13, <1>14 DEF KernelInv, Life
\* A thread that may be in a call is in one of a process.
LEMMA Calling ==
    ASSUME KernelInv, NEW t \in Tids, NEW c \in Calls, group[t] # 0, t \notin zombie,
           call' = [call EXCEPT ![t] = c], UNCHANGED <<group, zombie, orphaned>>
    PROVE  call' \in [Tids -> Calls] /\ ThreadsOK'
<1>1. /\ call' \in [Tids -> Calls]
      /\ \A u \in Tids : call'[u] # Idle => u = t \/ call[u] # Idle
  BY DEF KernelInv, KernelTypes
<1>2. QED BY <1>1 DEF KernelInv, ThreadsOK

\* In a call a thread is one of a process, and not a dead leader.
LEMMA InCall ==
    ASSUME KernelInv, NEW t \in Tids, Ready(t) \/ call[t].op \in Ops
    PROVE  /\ group[t] # 0 /\ t \notin zombie /\ group[t] \in Pids /\ inc[group[t]] \in Nat
           /\ KernelTypes /\ calls + 1 \in Nat /\ calls <= calls + 1
           /\ clock \in Nat \ {0} /\ clock <= clock
<1>1. Ready(t) \/ call[t] # Idle
  BY DEF Ops, Idle
<1>2. QED BY <1>1 DEF KernelInv, KernelTypes, ThreadsOK, Ready

LEMMA OpenEnterLife ==
    ASSUME KernelInv, NEW cpu \in CPUs, NEW t \in Tids, NEW f \in Files, NEW writes \in BOOLEAN,
           OpenEnter(cpu, t, f, writes)
    PROVE  KernelInv' /\ Life
<1>0. /\ Ready(t) /\ call[t].op = "idle" /\ "OpenEnter" \in SampleTypes
      /\ UNCHANGED <<group, zombie, inc, fdt, had, clock, orphaned>> /\ calls' = calls + 1
  BY DEF OpenEnter, FileCall, Ready, Idle, SampleTypes
<1>1. /\ group[t] # 0 /\ t \notin zombie /\ group[t] \in Pids /\ KernelTypes
      /\ calls' \in Nat /\ calls <= calls' /\ clock \in Nat \ {0} /\ clock <= clock'
  BY <1>0, InCall
<1>2. PICK x : x = Sample(cpu, "OpenEnter", t, 0, 0, f)
  OBVIOUS
<1>3. PICK c \in Calls : c = [op |-> "open", file |-> f]
  <2>1. [op |-> "open", file |-> f] \in Calls
    BY DEF Calls
  <2>2. QED BY <2>1
<1>4. /\ x \in Samples /\ x.type = "OpenEnter" /\ x.tid = t /\ x.tgid = group[t]
      /\ x.mono = clock /\ x.inc = inc[group[t]] /\ x.file = f
  BY <1>0, <1>1, <1>2, SampleType, Numbers
<1>5. call' = [call EXCEPT ![t] = c] /\ (Emit(x) \/ Silent)
  BY <1>2, <1>3 DEF OpenEnter
<1>6. /\ queue' \in Seq(Samples) /\ dropped' \in Nat /\ dropped <= dropped'
      /\ \/ New = {x} /\ queue' = Append(queue, x) /\ dropped' = dropped
         \/ New = {} /\ queue' = queue
  BY <1>1, <1>4, <1>5, EmitNew, SilentNew DEF KernelTypes
<1>7. KernelTypes' /\ ThreadsOK'
  BY <1>0, <1>1, <1>5, <1>6, Calling DEF KernelTypes
<1>8. Queues
  BY <1>0, <1>4, <1>6 DEF Queues
<1>9. Tables
  BY <1>0, <1>1, <1>4, <1>6, SameTables DEF Lives
<1>10. Survives
  BY <1>0, <1>1, <1>4, <1>6, SameProcesses
<1>11. \A o \in Ops, u \in Tids : Proceeds(o, u)
  <2>1. c.op = "open" /\ "open" \in Ops
    BY <1>3 DEF Ops
  <2>2. \A y \in New : y = x
    BY <1>6
  <2>3. call'[t] = c /\ group'[t] = group[t]
    BY <1>0, <1>1, <1>5 DEF KernelTypes
  <2>4. FitsCall("open", Made("open", x), call'[t], group'[t])
    BY <1>3, <1>4, <2>3 DEF FitsCall, Made
  <2>5. \A y \in New : y.type = Enter["open"] /\ y.tid = t
    BY <1>4, <2>2 DEF Enter
  <2>6. \A y \in New : FitsCall("open", Made("open", y), call'[t], group'[t])
    BY <2>2, <2>4
  <2>7. QED BY <1>0, <1>5, <2>1, <2>5, <2>6, OneCall
<1>12. QED BY <1>7, <1>8, <1>9, <1>10, <1>11 DEF KernelInv, Life

LEMMA DupEnterLife ==
    ASSUME KernelInv, NEW cpu \in CPUs, NEW t \in Tids, NEW old \in Fds, NEW new \in Fds,
           DupEnter(cpu, t, old, new)
    PROVE  KernelInv' /\ Life
<1>0. /\ Ready(t) /\ call[t].op = "idle" /\ "DupEnter" \in SampleTypes
      /\ UNCHANGED <<group, zombie, inc, fdt, had, clock, orphaned>> /\ calls' = calls + 1
  BY DEF DupEnter, FileCall, Ready, Idle, SampleTypes
<1>1. /\ group[t] # 0 /\ t \notin zombie /\ group[t] \in Pids /\ KernelTypes
      /\ calls' \in Nat /\ calls <= calls' /\ clock \in Nat \ {0} /\ clock <= clock'
  BY <1>0, InCall
<1>2. PICK x : x = Sample(cpu, "DupEnter", t, old, new, NoFile)
  OBVIOUS
<1>3. PICK c \in Calls : c = [op |-> "dup", old |-> old, new |-> new]
  <2>1. [op |-> "dup", old |-> old, new |-> new] \in Calls
    BY <1>1 DEF Calls, KernelTypes
  <2>2. QED BY <2>1
<1>4. /\ x \in Samples /\ x.type = "DupEnter" /\ x.tid = t /\ x.tgid = group[t]
      /\ x.mono = clock /\ x.inc = inc[group[t]] /\ x.a = old /\ x.b = new
  BY <1>0, <1>1, <1>2, SampleType, Numbers
<1>5. call' = [call EXCEPT ![t] = c] /\ Emit(x)
  BY <1>2, <1>3 DEF DupEnter
<1>6. /\ queue' \in Seq(Samples) /\ dropped' \in Nat /\ dropped <= dropped'
      /\ \/ New = {x} /\ queue' = Append(queue, x) /\ dropped' = dropped
         \/ New = {} /\ queue' = queue /\ dropped' = dropped + 1
  BY <1>4, <1>5, EmitNew
<1>7. KernelTypes' /\ ThreadsOK'
  BY <1>0, <1>1, <1>5, <1>6, Calling DEF KernelTypes
<1>8. Queues
  BY <1>0, <1>4, <1>6 DEF Queues
<1>9. Tables
  BY <1>0, <1>1, <1>4, <1>6, SameTables DEF Lives
<1>10. Survives
  BY <1>0, <1>1, <1>4, <1>6, SameProcesses
<1>11. ASSUME dropped' = dropped PROVE \A o \in Ops, u \in Tids : Proceeds(o, u)
  <2>1. c.op = "dup" /\ "dup" \in Ops
    BY <1>3 DEF Ops
  <2>2. \A y \in New : y = x
    BY <1>6
  <2>3. call'[t] = c /\ group'[t] = group[t]
    BY <1>0, <1>1, <1>5 DEF KernelTypes
  <2>4. FitsCall("dup", Made("dup", x), call'[t], group'[t])
    BY <1>3, <1>4, <2>3 DEF FitsCall, Made
  <2>5. \A y \in New : y.type = Enter["dup"] /\ y.tid = t
    BY <1>4, <2>2 DEF Enter
  <2>6. \A y \in New : FitsCall("dup", Made("dup", y), call'[t], group'[t])
    BY <2>2, <2>4
  <2>7. QED BY <1>0, <1>5, <2>1, <2>5, <2>6, OneCall
<1>12. QED BY <1>7, <1>8, <1>9, <1>10, <1>11 DEF KernelInv, Life

LEMMA WriteEnterLife ==
    ASSUME KernelInv, NEW cpu \in CPUs, NEW t \in Tids, NEW d \in Fds, WriteEnter(cpu, t, d)
    PROVE  KernelInv' /\ Life
<1>0. /\ Ready(t) /\ call[t].op = "idle" /\ "WriteEnter" \in SampleTypes
      /\ UNCHANGED <<group, zombie, inc, fdt, had, clock, orphaned>> /\ calls' = calls + 1
  BY DEF WriteEnter, FileCall, Ready, Idle, SampleTypes
<1>1. /\ group[t] # 0 /\ t \notin zombie /\ group[t] \in Pids /\ KernelTypes
      /\ calls' \in Nat /\ calls <= calls' /\ clock \in Nat \ {0} /\ clock <= clock'
  BY <1>0, InCall
<1>2. PICK x : x = Sample(cpu, "WriteEnter", t, d, 0, NoFile)
  OBVIOUS
<1>3. PICK c \in Calls : c = [op |-> "write", fd |-> d, entry |-> fdt[group[t]][d]]
  <2>1. [op |-> "write", fd |-> d, entry |-> fdt[group[t]][d]] \in Calls
    BY <1>1 DEF Calls, KernelTypes
  <2>2. QED BY <2>1
<1>4. /\ x \in Samples /\ x.type = "WriteEnter" /\ x.tid = t /\ x.tgid = group[t]
      /\ x.mono = clock /\ x.inc = inc[group[t]] /\ x.a = d
  BY <1>0, <1>1, <1>2, SampleType, Numbers
<1>5. call' = [call EXCEPT ![t] = c] /\ Emit(x)
  BY <1>2, <1>3 DEF WriteEnter
<1>6. /\ queue' \in Seq(Samples) /\ dropped' \in Nat /\ dropped <= dropped'
      /\ \/ New = {x} /\ queue' = Append(queue, x) /\ dropped' = dropped
         \/ New = {} /\ queue' = queue /\ dropped' = dropped + 1
  BY <1>4, <1>5, EmitNew
<1>7. KernelTypes' /\ ThreadsOK'
  BY <1>0, <1>1, <1>5, <1>6, Calling DEF KernelTypes
<1>8. Queues
  BY <1>0, <1>4, <1>6 DEF Queues
<1>9. Tables
  BY <1>0, <1>1, <1>4, <1>6, SameTables DEF Lives
<1>10. Survives
  BY <1>0, <1>1, <1>4, <1>6, SameProcesses
<1>11. ASSUME dropped' = dropped PROVE \A o \in Ops, u \in Tids : Proceeds(o, u)
  <2>1. c.op = "write" /\ "write" \in Ops
    BY <1>3 DEF Ops
  <2>2. \A y \in New : y = x
    BY <1>6
  <2>3. call'[t] = c /\ group'[t] = group[t]
    BY <1>0, <1>1, <1>5 DEF KernelTypes
  <2>4. FitsCall("write", Made("write", x), call'[t], group'[t])
    BY <1>3, <1>4, <2>3 DEF FitsCall, Made
  <2>5. \A y \in New : y.type = Enter["write"] /\ y.tid = t
    BY <1>4, <2>2 DEF Enter
  <2>6. \A y \in New : FitsCall("write", Made("write", y), call'[t], group'[t])
    BY <2>2, <2>4
  <2>7. QED BY <1>0, <1>5, <2>1, <2>5, <2>6, OneCall
<1>12. QED BY <1>7, <1>8, <1>9, <1>10, <1>11 DEF KernelInv, Life
\* A thread returns from a call: x is the sample of its result.
LEMMA Returns ==
    ASSUME KernelInv, NEW t \in Tids, NEW k \in Ops, call[t].op = k, NEW x \in Samples, Emit(x),
           call' = [call EXCEPT ![t] = Idle],
           x.type = Result[k], x.tid = t, x.tgid = group[t], x.mono = clock,
           x.inc = inc[group[t]],
           \A a : FitsCall(k, a, call[t], group[t]) => FitsResult(k, a, x, had'),
           UNCHANGED <<group, zombie, inc, clock, calls, orphaned>>,
           fdt' \in [Pids -> [Fds -> Entries]], had' \subseteq Held, Tables
    PROVE  KernelInv' /\ Life
<1>0. /\ group[t] # 0 /\ t \notin zombie /\ KernelTypes /\ Idle \in Calls
  BY InCall DEF Calls
<1>1. /\ queue' \in Seq(Samples) /\ dropped' \in Nat /\ dropped <= dropped'
      /\ \/ New = {x} /\ queue' = Append(queue, x) /\ dropped' = dropped
         \/ New = {} /\ queue' = queue /\ dropped' = dropped + 1
  BY EmitNew
<1>2. KernelTypes' /\ ThreadsOK'
  BY <1>0, <1>1, Calling DEF KernelTypes
<1>3. Queues
  BY <1>1 DEF Queues
<1>4. Survives
  BY <1>0, <1>1, SameProcesses
<1>5. ASSUME dropped' = dropped, NEW o \in Ops, NEW u \in Tids PROVE Proceeds(o, u)
  <2>1. New = {x}
    BY <1>0, <1>1, <1>5 DEF KernelTypes
  <2>2. /\ call'[t].op = "idle" /\ k # "idle" /\ o # "idle"
        /\ u # t => call'[u] = call[u]
    BY <1>0 DEF Idle, Ops, KernelTypes
  <2>3. CASE o # k \/ u # t
    <3>1. \A y \in New : ~Enters(y, o, u) /\ ~Results(y, o, u)
      BY <2>1, <2>3 DEF Ops, Enters, Results, Enter, Result
    <3>2. QED BY <2>2, <2>3, <3>1 DEF Proceeds
  <2>4. CASE o = k /\ u = t
    <3>1. x \in New /\ Results(x, o, u)
      BY <2>1, <2>4 DEF Results
    <3>2. QED BY <2>2, <2>4, <3>1 DEF Proceeds
  <2>5. QED BY <2>3, <2>4
<1>6. QED BY <1>2, <1>3, <1>4, <1>5 DEF KernelInv, Life

LEMMA OpenReturnLife ==
    ASSUME KernelInv, NEW cpu \in CPUs, NEW t \in Tids, OpenReturn(cpu, t)
    PROVE  KernelInv' /\ Life
<1>0. /\ call[t].op = "open" /\ "open" \in Ops /\ "OpenResult" \in SampleTypes
      /\ Result["open"] = "OpenResult" /\ call' = [call EXCEPT ![t] = Idle]
      /\ UNCHANGED <<group, zombie, inc, clock, calls, orphaned>>
  BY DEF OpenReturn, Ops, SampleTypes, Result
<1>1. /\ group[t] # 0 /\ group[t] \in Pids /\ KernelTypes /\ inc[group[t]] \in Nat
      /\ calls <= calls' /\ clock <= clock'
  BY <1>0, InCall DEF KernelTypes
<1>2. call[t].file \in Files
  <2>1. call[t] \in Calls
    BY <1>1 DEF KernelTypes
  <2>2. QED BY <1>0, <2>1 DEF Calls, Idle
<1>3. PICK p \in Pids : p = group[t]
  BY <1>1
<1>4. ASSUME NEW d \in Fds, Install(p, inc[p], [fdt[p] EXCEPT ![d] = Entry(call[t].file)]),
             Emit(Sample(cpu, "OpenResult", t, d, 0, NoFile))
      PROVE  KernelInv' /\ Life
  <2>1. PICK x : x = Sample(cpu, "OpenResult", t, d, 0, NoFile)
    OBVIOUS
  <2>2. /\ x \in Samples /\ x.type = "OpenResult" /\ x.tid = t /\ x.tgid = group[t]
        /\ x.mono = clock /\ x.inc = inc[group[t]] /\ x.a = d
    BY <1>0, <1>1, <2>1, SampleType, Numbers
  <2>3. PICK e \in Entries : e = Entry(call[t].file) /\ e.from = clock /\ e.nth = calls
                             /\ e.file = call[t].file
    BY <1>2, EntryType
  <2>4. \A y \in New : y = x
    BY <1>4, <2>1, <2>2, EmitNew
  <2>5. \A y \in New : y.type # "WriteResult" /\ y.type # "DupResult"
    BY <2>2, <2>4
  <2>6. e # Closed
    BY <1>2, <2>3, FileTypes DEF Closed
  <2>7. Install(p, inc[p], [fdt[p] EXCEPT ![d] = e])
    BY <1>4, <2>3
  <2>8. /\ Tables /\ fdt' \in [Pids -> [Fds -> Entries]] /\ had' \subseteq Held
        /\ [pid |-> p, inc |-> inc[p], fd |-> d, entry |-> e] \in had'
    BY <1>0, <1>1, <2>3, <2>5, <2>6, <2>7, OneDescriptor
  <2>9. PICK h : h = [pid |-> p, inc |-> inc[p], fd |-> d, entry |-> e]
    OBVIOUS
  <2>10. h \in had' /\ h.pid = x.tgid /\ h.inc = x.inc /\ h.entry.file = call[t].file
    BY <1>3, <2>2, <2>3, <2>8, <2>9
  <2>11. \A a : FitsCall("open", a, call[t], group[t]) => FitsResult("open", a, x, had')
    BY <2>10 DEF FitsCall, FitsResult
  <2>12. QED BY <1>0, <1>4, <2>1, <2>2, <2>8, <2>11, Returns
<1>5. ASSUME UNCHANGED <<fdt, had>>, Emit(Sample(cpu, "OpenResult", t, -1, 0, NoFile))
      PROVE  KernelInv' /\ Life
  <2>1. PICK x : x = Sample(cpu, "OpenResult", t, -1, 0, NoFile)
    OBVIOUS
  <2>2. /\ x \in Samples /\ x.type = "OpenResult" /\ x.tid = t /\ x.tgid = group[t]
        /\ x.mono = clock /\ x.inc = inc[group[t]] /\ x.a = -1
    BY <1>0, <1>1, <2>1, SampleType, Numbers
  <2>3. \A y \in New : y = x
    BY <1>5, <2>1, <2>2, EmitNew
  <2>4. Tables
    BY <1>0, <1>1, <1>5, <2>2, <2>3, SameTables DEF Lives
  <2>5. \A a : FitsCall("open", a, call[t], group[t]) => FitsResult("open", a, x, had')
    BY <2>2 DEF FitsResult
  <2>6. fdt' \in [Pids -> [Fds -> Entries]] /\ had' \subseteq Held
    BY <1>1, <1>5 DEF KernelTypes
  <2>7. QED BY <1>0, <1>5, <2>1, <2>2, <2>4, <2>5, <2>6, Returns
<1>6. QED BY <1>3, <1>4, <1>5 DEF OpenReturn

LEMMA DupReturnLife ==
    ASSUME KernelInv, NEW cpu \in CPUs, NEW t \in Tids, DupReturn(cpu, t)
    PROVE  KernelInv' /\ Life
<1>0. /\ call[t].op = "dup" /\ "dup" \in Ops /\ "DupResult" \in SampleTypes
      /\ Result["dup"] = "DupResult" /\ call' = [call EXCEPT ![t] = Idle]
      /\ UNCHANGED <<group, zombie, inc, clock, calls, orphaned>>
  BY DEF DupReturn, Ops, SampleTypes, Result
<1>1. /\ group[t] # 0 /\ group[t] \in Pids /\ KernelTypes /\ inc[group[t]] \in Nat
      /\ calls <= calls' /\ clock <= clock'
  BY <1>0, InCall DEF KernelTypes
<1>2. call[t].old \in Fds /\ call[t].new \in Fds
  <2>1. call[t] \in Calls
    BY <1>1 DEF KernelTypes
  <2>2. QED BY <1>0, <2>1 DEF Calls, Idle
<1>3. PICK p \in Pids, old \in Fds, new \in Fds :
          p = group[t] /\ old = call[t].old /\ new = call[t].new
  BY <1>1, <1>2
<1>4. ASSUME Install(p, inc[p], [fdt[p] EXCEPT ![new] = Entry(fdt[p][old].file)]),
             Emit(Sample(cpu, "DupResult", t, new, 0, NoFile))
      PROVE  KernelInv' /\ Life
  <2>1. PICK x : x = Sample(cpu, "DupResult", t, new, 0, NoFile)
    OBVIOUS
  <2>2. /\ x \in Samples /\ x.type = "DupResult" /\ x.tid = t /\ x.tgid = group[t]
        /\ x.mono = clock /\ x.inc = inc[group[t]] /\ x.a = new
    BY <1>0, <1>1, <2>1, SampleType, Numbers
  <2>3. fdt[p][old].file \in Files \cup {NoFile} /\ clock # 0
    BY <1>1 DEF KernelTypes, Entries
  <2>4. PICK e \in Entries : e = Entry(fdt[p][old].file) /\ e.from = clock /\ e.nth = calls
    BY <2>3, EntryType
  <2>5. \A y \in New : y = x
    BY <1>4, <2>1, <2>2, EmitNew
  <2>6. e # Closed
    BY <2>3, <2>4 DEF Closed
  <2>7. \A y \in New : y.type # "WriteResult" /\ y.tgid = p /\ y.a = new
    BY <1>3, <2>2, <2>5
  <2>8. Install(p, inc[p], [fdt[p] EXCEPT ![new] = e])
    BY <1>4, <2>4
  <2>9. Tables /\ fdt' \in [Pids -> [Fds -> Entries]] /\ had' \subseteq Held
    BY <1>0, <1>1, <2>4, <2>6, <2>7, <2>8, OneDescriptor
  <2>10. \A a : FitsCall("dup", a, call[t], group[t]) => FitsResult("dup", a, x, had')
    BY <1>3, <2>2 DEF FitsCall, FitsResult
  <2>11. QED BY <1>0, <1>4, <2>1, <2>2, <2>9, <2>10, Returns
<1>5. ASSUME UNCHANGED <<fdt, had>>, Emit(Sample(cpu, "DupResult", t, -1, 0, NoFile))
      PROVE  KernelInv' /\ Life
  <2>1. PICK x : x = Sample(cpu, "DupResult", t, -1, 0, NoFile)
    OBVIOUS
  <2>2. /\ x \in Samples /\ x.type = "DupResult" /\ x.tid = t /\ x.tgid = group[t]
        /\ x.mono = clock /\ x.inc = inc[group[t]] /\ x.a = -1
    BY <1>0, <1>1, <2>1, SampleType, Numbers
  <2>3. \A y \in New : y = x /\ ~(y.a >= 0)
    <3>1. \A y \in New : y = x
      BY <1>5, <2>1, <2>2, EmitNew
    <3>2. QED BY <2>2, <3>1
  <2>4. Tables
    BY <1>0, <1>1, <1>5, <2>2, <2>3, SameTables DEF Lives
  <2>5. \A a : FitsCall("dup", a, call[t], group[t]) => FitsResult("dup", a, x, had')
    BY <2>2 DEF FitsResult
  <2>6. fdt' \in [Pids -> [Fds -> Entries]] /\ had' \subseteq Held
    BY <1>1, <1>5 DEF KernelTypes
  <2>7. QED BY <1>0, <1>5, <2>1, <2>2, <2>4, <2>5, <2>6, Returns
<1>6. QED BY <1>3, <1>4, <1>5 DEF DupReturn

LEMMA WriteReturnLife ==
    ASSUME KernelInv, NEW cpu \in CPUs, NEW t \in Tids, WriteReturn(cpu, t)
    PROVE  KernelInv' /\ Life
<1>0. /\ call[t].op = "write" /\ "write" \in Ops /\ Result["write"] = "WriteResult"
      /\ call' = [call EXCEPT ![t] = Idle]
      /\ UNCHANGED <<group, zombie, inc, fdt, had, clock, calls, orphaned>>
  BY DEF WriteReturn, Ops, Result
<1>1. /\ group[t] # 0 /\ group[t] \in Pids /\ KernelTypes /\ inc[group[t]] \in Nat
      /\ calls <= calls' /\ clock <= clock'
  BY <1>0, InCall DEF KernelTypes
<1>2. call[t].fd \in Fds /\ call[t].entry \in Entries
  <2>1. call[t] \in Calls
    BY <1>1 DEF KernelTypes
  <2>2. QED BY <1>0, <2>1 DEF Calls, Idle
<1>3. PICK bytes \in {-1, 1} :
          Emit(Wrote(cpu, t, bytes, call[t].fd,
                     IF fdt[group[t]][call[t].fd] = call[t].entry THEN call[t].entry ELSE Closed))
  BY DEF WriteReturn, Wrote
<1>4. PICK d \in Fds, e \in Entries :
          /\ d = call[t].fd /\ e \in {Closed, fdt[group[t]][d]}
          /\ Emit(Wrote(cpu, t, bytes, d, e))
  BY <1>2, <1>3, FileTypes
<1>5. PICK x : x = Wrote(cpu, t, bytes, d, e)
  OBVIOUS
<1>6. /\ x \in Samples /\ x.type = "WriteResult" /\ x.tid = t /\ x.tgid = group[t]
      /\ x.mono = clock /\ x.inc = inc[group[t]] /\ x.fd = d /\ x.real = e
  BY <1>1, <1>5, WroteType
<1>7. \A y \in New : y = x
  BY <1>4, <1>5, <1>6, EmitNew
<1>8. Tables
  BY <1>0, <1>1, <1>4, <1>6, <1>7, SameTables DEF Lives
<1>9. \A a : FitsCall("write", a, call[t], group[t]) => FitsResult("write", a, x, had')
  BY <1>4, <1>6 DEF FitsCall, FitsResult
<1>10. fdt' \in [Pids -> [Fds -> Entries]] /\ had' \subseteq Held
  BY <1>0, <1>1 DEF KernelTypes
<1>11. QED BY <1>0, <1>4, <1>5, <1>6, <1>8, <1>9, <1>10, Returns

\* A call that is not seen replaces a descriptor.
LEMMA Unseen ==
    ASSUME KernelInv, NEW t \in Tids, Ready(t), Silent, calls' = calls + 1,
           UNCHANGED <<group, call, zombie, inc, clock, orphaned>>,
           NEW d \in Fds, NEW e \in Entries, e = Closed \/ (e.from = clock /\ e.nth = calls),
           Install(group[t], inc[group[t]], [fdt[group[t]] EXCEPT ![d] = e])
    PROVE  KernelInv' /\ Life
<1>1. /\ group[t] # 0 /\ group[t] \in Pids /\ t \notin zombie /\ KernelTypes /\ ThreadsOK
      /\ calls <= calls' /\ calls' \in Nat /\ clock <= clock'
  BY InCall DEF KernelInv
<1>2. New = {} /\ queue' = queue /\ dropped' = dropped
  BY SilentNew
<1>3. Tables /\ fdt' \in [Pids -> [Fds -> Entries]] /\ had' \subseteq Held
  BY <1>1, <1>2, OneDescriptor
<1>4. KernelTypes' /\ ThreadsOK'
  BY <1>1, <1>2, <1>3 DEF KernelTypes, ThreadsOK
<1>5. Queues
  BY <1>2 DEF Queues
<1>6. Survives
  BY <1>2, SameProcesses
<1>7. \A o \in Ops, u \in Tids : Proceeds(o, u)
  BY <1>2, SameCalls
<1>8. QED BY <1>3, <1>4, <1>5, <1>6, <1>7 DEF KernelInv, Life

LEMMA CloseLife ==
    ASSUME KernelInv, NEW t \in Tids, NEW d \in Fds, Close(t, d)
    PROVE  KernelInv' /\ Life
BY Unseen, FileTypes DEF Close, FileCall

LEMMA OpenUntracedLife ==
    ASSUME KernelInv, NEW t \in Tids, NEW f \in Files, OpenUntraced(t, f)
    PROVE  KernelInv' /\ Life
<1>1. PICK e \in Entries : e = Entry(f) /\ e.from = clock /\ e.nth = calls
  BY EntryType
<1>2. QED BY <1>1, Unseen DEF OpenUntraced, FileCall

\* What a step of the kernel does, in the four terms of Life.
LEMMA KernelLife ==
    ASSUME KernelInv, KernelNext
    PROVE  KernelInv' /\ Life
<1>1. CASE Tick
  BY <1>1, TickLife
<1>2. CASE \E p \in Pids : Reap(p) \/ \E cpu \in CPUs : Start(cpu, p)
  BY <1>2, StartLife, ReapLife
<1>3. CASE \E t, w \in Tids : Clone(t, w)
  BY <1>3, CloneLife
<1>4. CASE \E cpu \in CPUs, t \in Tids :
          ThreadExit(cpu, t) \/ OpenReturn(cpu, t) \/ DupReturn(cpu, t) \/ WriteReturn(cpu, t)
  BY <1>4, ThreadExitLife, OpenReturnLife, DupReturnLife, WriteReturnLife
<1>5. CASE \E t \in Tids, f \in Files :
          OpenUntraced(t, f) \/ \E cpu \in CPUs, writes \in BOOLEAN : OpenEnter(cpu, t, f, writes)
  BY <1>5, OpenUntracedLife, OpenEnterLife
<1>6. CASE \E t \in Tids, d \in Fds :
          \/ Close(t, d)
          \/ \E cpu \in CPUs : WriteEnter(cpu, t, d) \/ \E e \in Fds : DupEnter(cpu, t, d, e)
  BY <1>6, CloseLife, WriteEnterLife, DupEnterLife
<1>7. QED BY <1>1, <1>2, <1>3, <1>4, <1>5, <1>6 DEF KernelNext

-----------------------------------------------------------------------------
(* What the service remembers.                                             *)

ServiceTypes ==
    /\ serving \in BOOLEAN
    /\ known \subseteq Pids
    /\ pendingOpen \in [Tids -> {NoAttempt} \cup [tgid : Pids, file : Files]]
    /\ pendingDup \in [Tids -> {NoAttempt} \cup [tgid : Pids, old : Fds, new : Fds]]
    /\ pendingWrite \in [Tids -> {NoAttempt} \cup [tgid : Pids, fd : Fds]]
    /\ openFiles \in [Pids \X Fds -> States]
    /\ rows \in Seq(RowSet)
    /\ DedupTypeOK

TypeInv == KernelInv /\ ServiceTypes /\ overtaken \in BOOLEAN

\* The attempt of thread t at a call of kind o.
Attempt(o, t) == IF o = "open" THEN pendingOpen[t]
                 ELSE IF o = "dup" THEN pendingDup[t] ELSE pendingWrite[t]

\* Something is remembered of p.
Kept(p) ==
    \/ p \in known
    \/ \E o \in Ops, t \in Tids : Attempt(o, t) # NoAttempt /\ Attempt(o, t).tgid = p
    \/ \E d \in Fds : openFiles[<<p, d>>] # NoState
    \/ \E path \in Paths : recentFileSaves[<<p, path>>] # Absent

\* What handling the sample h does to the attempts ...
Turns(h) ==
    \A o \in Ops, t \in Tids :
        \/ Enters(h, o, t) /\ Attempt(o, t)' = Made(o, h)
        \/ Results(h, o, t) /\ Attempt(o, t)' = NoAttempt
        \/ /\ ~Enters(h, o, t) /\ ~Results(h, o, t)
           /\ Attempt(o, t)' \in {Attempt(o, t), NoAttempt}

\* ... to all that is remembered ...
Keeps(h) ==
    \A p \in Pids : Kept(p)' => ~LeaderExit(h, p) /\ (Kept(p) \/ h.tgid = p)

\* h is the result of a write of process p, as the service sees it.
Written(h, p) ==
    h.type = "WriteResult" /\ pendingWrite[h.tid] # NoAttempt /\ pendingWrite[h.tid].tgid = p

\* ... and to what is believed open: a state is what it was, what /proc shows
\* of the process, a copy made for a dup, or made of an attempt to open.
Believed(h, p, d) ==
    LET s == openFiles'[<<p, d>>] IN
    \/ s = NoState
    \/ s = openFiles[<<p, d>>] /\ ~LeaderExit(h, p)
    \/ /\ Lives(p) /\ ~LeaderExit(h, p)
       /\ \E e \in Fds : /\ fdt[p][e] # Closed
                         /\ s.path = fdt[p][e].file.path /\ s.ino = fdt[p][e].file.ino
                         /\ \/ s.check = 0
                            \/ s.check = h.mono /\ e = d /\ Written(h, p)
    \/ /\ h.type = "DupResult" /\ h.a >= 0 /\ pendingDup[h.tid] # NoAttempt
       /\ p = pendingDup[h.tid].tgid /\ d = pendingDup[h.tid].new
       /\ \E e \in Fds : s = openFiles[<<p, e>>]
    \/ /\ h.type = "OpenResult" /\ h.a >= 0 /\ pendingOpen[h.tid] # NoAttempt
       /\ p = h.tgid /\ s.check = 0 /\ s.path = pendingOpen[h.tid].file.path

Believes(h) == \A p \in Pids, d \in Fds : Believed(h, p, d)

\* A file_save row comes of a write whose attempt is known: of what is believed
\* open there and need not be checked, or of what /proc shows.
Saved(h, row) ==
    /\ h.type = "WriteResult" /\ pendingWrite[h.tid] # NoAttempt
    /\ row.pid = pendingWrite[h.tid].tgid /\ row.fd = pendingWrite[h.tid].fd
    /\ row.mono = h.mono /\ row.inc = h.inc /\ row.real = h.real
    /\ row.live => group[row.pid] = row.pid /\ inc[row.pid] = h.inc
    /\ \/ LET s == openFiles[<<row.pid, row.fd>>] IN
          s # NoState /\ ~NeedsCheck(s, h.mono) /\ row.path = s.path /\ row.ino = s.ino
       \/ /\ Lives(row.pid) /\ fdt[row.pid][row.fd] # Closed
          /\ row.path = fdt[row.pid][row.fd].file.path
          /\ row.ino = fdt[row.pid][row.fd].file.ino

Writes(h) ==
    \/ rows' = rows
    \/ \E row \in RowSet : /\ rows' = Append(rows, row)
                           /\ row.kind = "file_open" \/ Saved(h, row)

Handles(h) == Turns(h) /\ Keeps(h) /\ Believes(h) /\ Writes(h)

\* No sample that waits before the one at n is of its process or thread.
Alone(n) == \A j \in DOMAIN queue : j < n => ~Related(queue[j], queue[n])

\* The sample at n is taken; those behind it move up, from Up(n, i) to i.
Popped(n) ==
    /\ n \in DOMAIN queue
    /\ queue' = [j \in 1 .. Len(queue) - 1 |-> IF j < n THEN queue[j] ELSE queue[j + 1]]
    /\ overtaken' \in BOOLEAN
    /\ ~overtaken' => ~overtaken /\ Alone(n)

Up(n, i) == IF i < n THEN i ELSE i + 1

LEMMA Positions ==
    ASSUME KernelInv
    PROVE  /\ queue \in Seq(Samples) /\ Len(queue) \in Nat /\ DOMAIN queue = 1 .. Len(queue)
           /\ \A i \in DOMAIN queue : i \in Nat \ {0} /\ queue[i] \in Samples
<1>1. queue \in Seq(Samples)
  BY DEF KernelInv, KernelTypes
<1>2. QED BY <1>1

LEMMA MovedUp ==
    ASSUME KernelInv, NEW n \in DOMAIN queue, Popped(n)
    PROVE  /\ queue' \in Seq(Samples) /\ queue[n] \in Samples
           /\ \A i \in DOMAIN queue' : /\ Up(n, i) \in DOMAIN queue /\ Up(n, i) # n
                                       /\ queue'[i] = queue[Up(n, i)]
           /\ \A i, j \in DOMAIN queue' : i < j => Up(n, i) < Up(n, j)
           /\ \A i, j \in DOMAIN queue' : Up(n, i) < Up(n, j) => i < j
           /\ \A i \in DOMAIN queue : i # n =>
                 \E k \in DOMAIN queue' : i = Up(n, k) /\ queue'[k] = queue[i]
<1>1. /\ queue \in Seq(Samples) /\ Len(queue) \in Nat /\ DOMAIN queue = 1 .. Len(queue)
      /\ \A i \in DOMAIN queue : queue[i] \in Samples
      /\ n \in Nat /\ n >= 1 /\ n <= Len(queue)
  BY Positions
<1>2. PICK m \in Nat : m = Len(queue) - 1
  <2>1. Len(queue) - 1 \in Nat
    BY <1>1
  <2>2. QED BY <2>1
<1>3. queue' = [j \in 1 .. m |-> IF j < n THEN queue[j] ELSE queue[j + 1]]
  BY <1>2 DEF Popped
<1>4. \A i \in 1 .. m : Up(n, i) \in 1 .. Len(queue) /\ Up(n, i) # n
  BY <1>1, <1>2 DEF Up
<1>5. \A i \in 1 .. m : queue'[i] = queue[Up(n, i)]
  BY <1>3 DEF Up
<1>6. DOMAIN queue' = 1 .. m /\ queue' \in [1 .. m -> Samples]
  <2>1. \A i \in 1 .. m : (IF i < n THEN queue[i] ELSE queue[i + 1]) \in Samples
    BY <1>1, <1>3, <1>4, <1>5
  <2>2. QED BY <1>3, <2>1
<1>7. queue' \in Seq(Samples)
  BY <1>2, <1>6, SeqDef
<1>8. \A i, j \in 1 .. m : (i < j => Up(n, i) < Up(n, j)) /\ (Up(n, i) < Up(n, j) => i < j)
  BY <1>1 DEF Up
<1>9. ASSUME NEW i \in 1 .. Len(queue), i # n
      PROVE  \E k \in 1 .. m : i = Up(n, k)
  <2>1. CASE i < n
    BY <1>1, <1>2, <2>1 DEF Up
  <2>2. CASE n < i
    <3>1. i - 1 \in 1 .. m /\ ~(i - 1 < n) /\ (i - 1) + 1 = i
      BY <1>1, <1>2, <2>2
    <3>2. QED BY <3>1 DEF Up
  <2>3. QED BY <1>1, <1>9, <2>1, <2>2
<1>10. QED BY <1>1, <1>4, <1>5, <1>6, <1>7, <1>8, <1>9

\* A sample is taken from its ring.
LEMMA Taking ==
    ASSUME TypeInv, NEW n \in DOMAIN queue, NEW type, Take(n, type)
    PROVE  /\ Popped(n) /\ kernel' = kernel /\ dropped' = dropped
           /\ KernelInv' /\ overtaken' \in BOOLEAN
<1>1. KernelInv /\ overtaken \in BOOLEAN
  BY DEF TypeInv
<1>2. \A j \in DOMAIN queue : j < n => j \in 1 .. n - 1
  BY <1>1, Positions
<1>3. kernel' = kernel /\ dropped' = dropped
  BY DEF Take
<1>4. overtaken' = (overtaken \/ \E j \in 1 .. n - 1 : Related(queue[j], queue[n]))
  BY DEF Take
<1>5. overtaken' \in BOOLEAN
  BY <1>1, <1>4
<1>6. ~overtaken' => ~overtaken /\ Alone(n)
  BY <1>2, <1>4 DEF Alone
<1>7. Popped(n)
  BY <1>5, <1>6 DEF Take, Popped
<1>8. queue' \in Seq(Samples)
  BY <1>1, <1>7, MovedUp
<1>9. KernelInv'
  BY <1>1, <1>3, <1>8 DEF KernelInv, KernelTypes, ThreadsOK, kernel
<1>10. QED BY <1>3, <1>5, <1>7, <1>9

\* What /proc shows of a descriptor is what the living process has open there.
LEMMA Looked ==
    ASSUME KernelInv, NEW p \in Pids, NEW d \in Fds, Resolvable(p, d)
    PROVE  /\ Lives(p) /\ fdt[p][d] # Closed /\ fdt[p][d].file = Resolved(p, d)
           /\ Resolved(p, d) \in Files /\ Resolved(p, d).path \in Paths
           /\ Resolved(p, d).ino \in Nat
<1>1. fdt[p][d] \in Entries
  BY DEF KernelInv, KernelTypes
<1>2. QED BY <1>1, FileTypes DEF Resolvable, Resolved, Exists, Lives, Entries, Closed

LEMMA AttemptTypes ==
    ASSUME ServiceTypes, NEW t \in Tids
    PROVE  /\ pendingOpen[t] # NoAttempt =>
                 pendingOpen[t].tgid \in Pids /\ pendingOpen[t].file \in Files
           /\ pendingDup[t] # NoAttempt =>
                 pendingDup[t].tgid \in Pids /\ pendingDup[t].old \in Fds /\ pendingDup[t].new \in Fds
           /\ pendingWrite[t] # NoAttempt =>
                 pendingWrite[t].tgid \in Pids /\ pendingWrite[t].fd \in Fds
BY DEF ServiceTypes

\* Attempts that are left alone, or but for one thread.
LEMMA SameAttempts ==
    ASSUME UNCHANGED pending, NEW h, h.type \in {"Exec", "ProcessExit"}
    PROVE  Turns(h)
BY DEF Turns, pending, Attempt, Ops, Enters, Results, Enter, Result

LEMMA SameMemory ==
    ASSUME NEW h, ~(h.type = "ProcessExit" /\ h.tid = h.tgid),
           known' \subseteq known \cup {h.tgid},
           \A o \in Ops, t \in Tids : Attempt(o, t)' # NoAttempt =>
               Attempt(o, t)' = Attempt(o, t) \/ Attempt(o, t)'.tgid = h.tgid,
           \A p \in Pids, d \in Fds : openFiles'[<<p, d>>] # NoState =>
               openFiles[<<p, d>>] # NoState \/ Kept(p) \/ h.tgid = p,
           \A p \in Pids, path \in Paths : recentFileSaves'[<<p, path>>] # Absent =>
               recentFileSaves[<<p, path>>] # Absent \/ Kept(p)
    PROVE  Keeps(h)
<1> SUFFICES ASSUME NEW p \in Pids, Kept(p)' PROVE ~LeaderExit(h, p) /\ (Kept(p) \/ h.tgid = p)
  BY DEF Keeps
<1>1. ~LeaderExit(h, p)
  BY DEF LeaderExit
<1>2. CASE p \in known'
  BY <1>1, <1>2 DEF Kept
<1>3. CASE \E o \in Ops, t \in Tids : Attempt(o, t)' # NoAttempt /\ Attempt(o, t)'.tgid = p
  BY <1>1, <1>3 DEF Kept
<1>4. CASE \E d \in Fds : openFiles'[<<p, d>>] # NoState
  BY <1>1, <1>4 DEF Kept
<1>5. CASE \E path \in Paths : recentFileSaves'[<<p, path>>] # Absent
  BY <1>1, <1>5 DEF Kept
<1>6. QED BY <1>2, <1>3, <1>4, <1>5 DEF Kept
\* The attempt of one thread is made or ended.
LEMMA OneAttempt ==
    ASSUME NEW h, NEW k \in Ops, h.tid \in Tids,
           \/ h.type = Enter[k] /\ Attempt(k, h.tid)' = Made(k, h)
           \/ h.type = Result[k] /\ Attempt(k, h.tid)' = NoAttempt,
           \A t \in Tids : t # h.tid => Attempt(k, t)' = Attempt(k, t),
           \A o \in Ops, t \in Tids : o # k => Attempt(o, t)' = Attempt(o, t)
    PROVE  /\ Turns(h)
           /\ \A o \in Ops, t \in Tids : Attempt(o, t)' # NoAttempt =>
                 Attempt(o, t)' = Attempt(o, t) \/ Attempt(o, t)'.tgid = h.tgid
<1>1. \A o \in Ops : Enter[o] # Result[o]
      /\ (o # k => Enter[o] # Enter[k] /\ Result[o] # Result[k]
                   /\ Enter[o] # Result[k] /\ Result[o] # Enter[k])
  BY DEF Ops, Enter, Result
<1>2. ASSUME NEW o \in Ops, NEW t \in Tids
      PROVE  \/ Enters(h, o, t) /\ Attempt(o, t)' = Made(o, h)
             \/ Results(h, o, t) /\ Attempt(o, t)' = NoAttempt
             \/ /\ ~Enters(h, o, t) /\ ~Results(h, o, t)
                /\ Attempt(o, t)' \in {Attempt(o, t), NoAttempt}
  <2>1. CASE o = k /\ t = h.tid
    BY <2>1 DEF Enters, Results
  <2>2. CASE o # k \/ t # h.tid
    BY <1>1, <2>2 DEF Enters, Results
  <2>3. QED BY <2>1, <2>2
<1>3. Turns(h)
  BY <1>2 DEF Turns
<1>4. Made(k, h).tgid = h.tgid
  BY DEF Made
<1>5. ASSUME NEW o \in Ops, NEW t \in Tids, Attempt(o, t)' # NoAttempt
      PROVE  Attempt(o, t)' = Attempt(o, t) \/ Attempt(o, t)'.tgid = h.tgid
  <2>1. CASE o = k /\ t = h.tid
    BY <1>4, <1>5, <2>1
  <2>2. CASE o # k \/ t # h.tid
    BY <2>2
  <2>3. QED BY <2>1, <2>2
<1>6. QED BY <1>3, <1>5

LEMMA SameFiles ==
    ASSUME openFiles' = openFiles, NEW h, ~(h.type = "ProcessExit" /\ h.tid = h.tgid)
    PROVE  Believes(h)
BY DEF Believes, Believed, LeaderExit

LEMMA SameRows == ASSUME rows' = rows, NEW h PROVE Writes(h)
BY DEF Writes

LEMMA HandleExecDoes ==
    ASSUME TypeInv, NEW n \in DOMAIN queue, HandleExec(n), NEW h \in Samples, h = queue[n]
    PROVE  ServiceTypes' /\ Handles(h)
<1>1. /\ h.type = "Exec" /\ h.tgid \in Pids /\ known' \in {known, known \cup {h.tgid}}
      /\ UNCHANGED <<serving, pending, openFiles, rows, dedup>>
  BY DEF HandleExec, Take, Samples
<1>2. ServiceTypes'
  BY <1>1 DEF TypeInv, ServiceTypes, pending, dedup, DedupTypeOK
<1>3. Turns(h) /\ \A o \in Ops, t \in Tids : Attempt(o, t)' = Attempt(o, t)
  BY <1>1, SameAttempts DEF pending, Attempt
<1>4. Keeps(h)
  BY <1>1, <1>3, SameMemory DEF dedup
<1>5. Believes(h) /\ Writes(h)
  BY <1>1, SameFiles, SameRows
<1>6. QED BY <1>2, <1>3, <1>4, <1>5 DEF Handles

LEMMA HandleOpenEnterDoes ==
    ASSUME TypeInv, NEW n \in DOMAIN queue, HandleOpenEnter(n), NEW h \in Samples, h = queue[n]
    PROVE  ServiceTypes' /\ Handles(h)
<1>1. /\ h.type = "OpenEnter" /\ h.tgid \in Pids /\ h.tid \in Tids /\ h.file \in Files
      /\ pendingOpen' = [pendingOpen EXCEPT ![h.tid] = [tgid |-> h.tgid, file |-> h.file]]
      /\ UNCHANGED <<serving, known, pendingDup, pendingWrite, openFiles, rows, dedup>>
  BY DEF HandleOpenEnter, Take, Samples
<1>2. ServiceTypes'
  BY <1>1 DEF TypeInv, ServiceTypes, dedup, DedupTypeOK
<1>3. /\ "open" \in Ops /\ h.type = Enter["open"] /\ Attempt("open", h.tid)' = Made("open", h)
      /\ \A t \in Tids : t # h.tid => Attempt("open", t)' = Attempt("open", t)
      /\ \A o \in Ops, t \in Tids : o # "open" => Attempt(o, t)' = Attempt(o, t)
  BY <1>1 DEF TypeInv, ServiceTypes, Ops, Enter, Attempt, Made
<1>4. /\ Turns(h)
      /\ \A o \in Ops, t \in Tids : Attempt(o, t)' # NoAttempt =>
                 Attempt(o, t)' = Attempt(o, t) \/ Attempt(o, t)'.tgid = h.tgid
  BY <1>1, <1>3, OneAttempt
<1>5. Keeps(h)
  BY <1>1, <1>4, SameMemory DEF dedup
<1>6. Believes(h) /\ Writes(h)
  BY <1>1, SameFiles, SameRows
<1>7. QED BY <1>2, <1>4, <1>5, <1>6 DEF Handles

LEMMA HandleDupEnterDoes ==
    ASSUME TypeInv, NEW n \in DOMAIN queue, HandleDupEnter(n), NEW h \in Samples, h = queue[n]
    PROVE  ServiceTypes' /\ Handles(h)
<1>1. /\ h.type = "DupEnter" /\ h.tgid \in Pids /\ h.tid \in Tids /\ h.a \in Fds /\ h.b \in Fds
      /\ pendingDup' = [pendingDup EXCEPT ![h.tid] =
                           [tgid |-> h.tgid, old |-> h.a, new |-> h.b]]
      /\ UNCHANGED <<serving, known, pendingOpen, pendingWrite, openFiles, rows, dedup>>
  BY DEF HandleDupEnter, Take, Samples
<1>2. ServiceTypes'
  BY <1>1 DEF TypeInv, ServiceTypes, dedup, DedupTypeOK
<1>3. /\ "dup" \in Ops /\ h.type = Enter["dup"] /\ Attempt("dup", h.tid)' = Made("dup", h)
      /\ \A t \in Tids : t # h.tid => Attempt("dup", t)' = Attempt("dup", t)
      /\ \A o \in Ops, t \in Tids : o # "dup" => Attempt(o, t)' = Attempt(o, t)
  BY <1>1 DEF TypeInv, ServiceTypes, Ops, Enter, Attempt, Made
<1>4. /\ Turns(h)
      /\ \A o \in Ops, t \in Tids : Attempt(o, t)' # NoAttempt =>
                 Attempt(o, t)' = Attempt(o, t) \/ Attempt(o, t)'.tgid = h.tgid
  BY <1>1, <1>3, OneAttempt
<1>5. Keeps(h)
  BY <1>1, <1>4, SameMemory DEF dedup
<1>6. Believes(h) /\ Writes(h)
  BY <1>1, SameFiles, SameRows
<1>7. QED BY <1>2, <1>4, <1>5, <1>6 DEF Handles

LEMMA HandleWriteEnterDoes ==
    ASSUME TypeInv, NEW n \in DOMAIN queue, HandleWriteEnter(n), NEW h \in Samples, h = queue[n]
    PROVE  ServiceTypes' /\ Handles(h)
<1>1. /\ h.type = "WriteEnter" /\ h.tgid \in Pids /\ h.tid \in Tids /\ h.a \in Fds
      /\ pendingWrite' = [pendingWrite EXCEPT ![h.tid] = [tgid |-> h.tgid, fd |-> h.a]]
      /\ UNCHANGED <<serving, known, pendingOpen, pendingDup, openFiles, rows, dedup>>
  BY DEF HandleWriteEnter, Take, Samples
<1>2. ServiceTypes'
  BY <1>1 DEF TypeInv, ServiceTypes, dedup, DedupTypeOK
<1>3. /\ "write" \in Ops /\ h.type = Enter["write"] /\ Attempt("write", h.tid)' = Made("write", h)
      /\ \A t \in Tids : t # h.tid => Attempt("write", t)' = Attempt("write", t)
      /\ \A o \in Ops, t \in Tids : o # "write" => Attempt(o, t)' = Attempt(o, t)
  BY <1>1 DEF TypeInv, ServiceTypes, Ops, Enter, Attempt, Made
<1>4. /\ Turns(h)
      /\ \A o \in Ops, t \in Tids : Attempt(o, t)' # NoAttempt =>
                 Attempt(o, t)' = Attempt(o, t) \/ Attempt(o, t)'.tgid = h.tgid
  BY <1>1, <1>3, OneAttempt
<1>5. Keeps(h)
  BY <1>1, <1>4, SameMemory DEF dedup
<1>6. Believes(h) /\ Writes(h)
  BY <1>1, SameFiles, SameRows
<1>7. QED BY <1>2, <1>4, <1>5, <1>6 DEF Handles

LEMMA HandleDupResultDoes ==
    ASSUME TypeInv, NEW n \in DOMAIN queue, HandleDupResult(n), NEW h \in Samples, h = queue[n]
    PROVE  ServiceTypes' /\ Handles(h)
<1>1. /\ h.type = "DupResult" /\ h.tgid \in Pids /\ h.tid \in Tids
      /\ pendingDup' = [pendingDup EXCEPT ![h.tid] = NoAttempt]
      /\ UNCHANGED <<serving, known, pendingOpen, pendingWrite, rows, dedup>>
      /\ openFiles \in [Pids \X Fds -> States]
  BY DEF HandleDupResult, Take, Samples, TypeInv, ServiceTypes
<1>2. /\ "dup" \in Ops /\ h.type = Result["dup"] /\ Attempt("dup", h.tid)' = NoAttempt
      /\ \A t \in Tids : t # h.tid => Attempt("dup", t)' = Attempt("dup", t)
      /\ \A o \in Ops, t \in Tids : o # "dup" => Attempt(o, t)' = Attempt(o, t)
      /\ pendingDup' \in [Tids -> {NoAttempt} \cup [tgid : Pids, old : Fds, new : Fds]]
  BY <1>1 DEF TypeInv, ServiceTypes, Ops, Result, Attempt
<1>3. /\ Turns(h)
      /\ \A o \in Ops, t \in Tids : Attempt(o, t)' # NoAttempt =>
                 Attempt(o, t)' = Attempt(o, t) \/ Attempt(o, t)'.tgid = h.tgid
  <2>1. h.tid \in Tids
    BY <1>1
  <2>2. \/ h.type = Enter["dup"] /\ Attempt("dup", h.tid)' = Made("dup", h)
        \/ h.type = Result["dup"] /\ Attempt("dup", h.tid)' = NoAttempt
    BY <1>2
  <2>3. QED BY <1>2, <2>1, <2>2, OneAttempt
<1>4. CASE openFiles' = openFiles
  <2>1. ServiceTypes'
    BY <1>1, <1>2, <1>4 DEF TypeInv, ServiceTypes, dedup, DedupTypeOK
  <2>2. Keeps(h)
    BY <1>1, <1>3, <1>4, SameMemory DEF dedup
  <2>3. Believes(h) /\ Writes(h)
    BY <1>1, <1>4, SameFiles, SameRows
  <2>4. QED BY <1>3, <2>1, <2>2, <2>3 DEF Handles
<1>5. CASE h.a >= 0 /\ pendingDup[h.tid] # NoAttempt
           /\ RememberDuplicatedFile(pendingDup[h.tid]) /\ openFiles' # openFiles
  <2>1. PICK p \in Pids, old \in Fds, new \in Fds :
            p = pendingDup[h.tid].tgid /\ old = pendingDup[h.tid].old /\ new = pendingDup[h.tid].new
    BY <1>1, <1>5, AttemptTypes DEF TypeInv
  <2>2. \E s \in States :
           /\ openFiles' = [openFiles EXCEPT ![<<p, new>>] = s]
           /\ \/ s = openFiles[<<p, old>>]
              \/ Resolvable(p, old) /\ s = [path |-> Resolved(p, old).path,
                                             ino |-> Resolved(p, old).ino, check |-> 0]
    <3>1. openFiles[<<p, old>>] \in States
      BY <1>1
    <3>2. Resolvable(p, old) =>
             [path |-> Resolved(p, old).path, ino |-> Resolved(p, old).ino, check |-> 0] \in States
      BY Looked DEF TypeInv, States
    <3>3. QED BY <1>5, <2>1, <3>1, <3>2 DEF RememberDuplicatedFile
  <2>3. PICK s \in States :
           /\ openFiles' = [openFiles EXCEPT ![<<p, new>>] = s]
           /\ \/ s = openFiles[<<p, old>>]
              \/ Resolvable(p, old) /\ s = [path |-> Resolved(p, old).path,
                                             ino |-> Resolved(p, old).ino, check |-> 0]
    BY <2>2
  <2>4. /\ openFiles' \in [Pids \X Fds -> States] /\ openFiles'[<<p, new>>] = s
        /\ \A q \in Pids, d \in Fds : q # p \/ d # new => openFiles'[<<q, d>>] = openFiles[<<q, d>>]
    BY <1>1, <2>3
  <2>5. ServiceTypes'
    BY <1>1, <1>2, <2>4 DEF TypeInv, ServiceTypes, dedup, DedupTypeOK
  <2>6. Kept(p)
    BY <1>1, <1>2, <1>5, <2>1 DEF Kept, Attempt
  <2>7. Keeps(h)
    BY <1>1, <1>3, <2>4, <2>6, SameMemory DEF dedup
  <2>8. Believes(h)
    <3>1. s = openFiles[<<p, old>>] \/
             /\ Lives(p) /\ fdt[p][old] # Closed /\ s.check = 0
             /\ s.path = fdt[p][old].file.path /\ s.ino = fdt[p][old].file.ino
      BY <2>3, Looked DEF TypeInv
    <3>2. \A q \in Pids : ~LeaderExit(h, q)
      BY <1>1 DEF LeaderExit
    <3>3. ASSUME NEW q \in Pids, NEW d \in Fds, q # p \/ d # new
          PROVE  openFiles'[<<q, d>>] = openFiles[<<q, d>>] /\ ~LeaderExit(h, q)
      BY <2>4, <3>2, <3>3
    <3>4. \/ \E e \in Fds : openFiles'[<<p, new>>] = openFiles[<<p, e>>]
          \/ /\ Lives(p) /\ ~LeaderExit(h, p)
             /\ \E e \in Fds : /\ fdt[p][e] # Closed
                               /\ openFiles'[<<p, new>>].path = fdt[p][e].file.path
                               /\ openFiles'[<<p, new>>].ino = fdt[p][e].file.ino
                               /\ openFiles'[<<p, new>>].check = 0
      BY <2>4, <3>1, <3>2
    <3>5. Believed(h, p, new)
      BY <1>1, <1>5, <2>1, <3>4 DEF Believed
    <3>6. \A q \in Pids, d \in Fds : q # p \/ d # new => Believed(h, q, d)
      BY <3>3 DEF Believed
    <3>7. QED BY <3>5, <3>6 DEF Believes
  <2>9. QED BY <1>1, <1>3, <2>5, <2>7, <2>8, SameRows DEF Handles
<1>6. QED BY <1>4, <1>5 DEF HandleDupResult

LEMMA HandleProcessExitDoes ==
    ASSUME TypeInv, NEW n \in DOMAIN queue, HandleProcessExit(n), NEW h \in Samples, h = queue[n]
    PROVE  ServiceTypes' /\ Handles(h)
<1>1. /\ h.type = "ProcessExit" /\ h.tgid \in Pids /\ UNCHANGED <<serving, rows>>
      /\ openFiles \in [Pids \X Fds -> States] /\ NoState \in States
      /\ SavePids = Pids
  BY FileAssumption DEF HandleProcessExit, Take, Samples, TypeInv, ServiceTypes, NoState,
     NoFile,
                        States, FileAssumption
<1>2. CASE h.tid # h.tgid
  <2>1. UNCHANGED <<known, pending, openFiles, dedup>>
    BY <1>2 DEF HandleProcessExit
  <2>2. ServiceTypes'
    BY <1>1, <2>1 DEF TypeInv, ServiceTypes, pending, dedup, DedupTypeOK
  <2>3. Turns(h) /\ \A o \in Ops, t \in Tids : Attempt(o, t)' = Attempt(o, t)
    BY <1>1, <2>1, SameAttempts DEF pending, Attempt
  <2>4. Keeps(h)
    BY <1>2, <2>1, <2>3, SameMemory DEF dedup
  <2>5. Believes(h) /\ Writes(h)
    BY <1>1, <1>2, <2>1, SameFiles, SameRows
  <2>6. QED BY <2>2, <2>3, <2>4, <2>5 DEF Handles
<1>3. CASE h.tid = h.tgid
  <2>1. PICK p \in Pids : p = h.tgid
    BY <1>1
  <2>2. DropFileState(p) /\ known' = known \ {p}
    BY <1>3, <2>1 DEF HandleProcessExit
  <2>3. /\ \A t \in Tids :
              /\ pendingOpen'[t] \in {pendingOpen[t], NoAttempt} /\ pendingOpen'[t].tgid # p
              /\ pendingDup'[t] \in {pendingDup[t], NoAttempt} /\ pendingDup'[t].tgid # p
              /\ pendingWrite'[t] \in {pendingWrite[t], NoAttempt} /\ pendingWrite'[t].tgid # p
        /\ pendingOpen' \in [Tids -> {NoAttempt} \cup [tgid : Pids, file : Files]]
        /\ pendingDup' \in [Tids -> {NoAttempt} \cup [tgid : Pids, old : Fds, new : Fds]]
        /\ pendingWrite' \in [Tids -> {NoAttempt} \cup [tgid : Pids, fd : Fds]]
    BY <2>2, Numbers DEF DropFileState, TypeInv, ServiceTypes, NoAttempt
  <2>4. /\ openFiles' \in [Pids \X Fds -> States]
        /\ \A q \in Pids, d \in Fds : openFiles'[<<q, d>>] =
                                          IF q = p THEN NoState ELSE openFiles[<<q, d>>]
    BY <1>1, <2>2 DEF DropFileState
  <2>5. /\ DedupTypeOK'
        /\ \A q \in Pids, path \in Paths : recentFileSaves'[<<q, path>>] =
                                               IF q = p THEN Absent ELSE recentFileSaves[<<q, path>>]
    BY <1>1, <2>2 DEF DropFileState, Forget, Keys, TypeInv, ServiceTypes, DedupTypeOK
  <2>6. ServiceTypes'
    BY <1>1, <2>2, <2>3, <2>4, <2>5 DEF TypeInv, ServiceTypes
  <2>7. Turns(h)
    <3>1. \A o \in Ops, t \in Tids : Attempt(o, t)' \in {Attempt(o, t), NoAttempt}
      BY <2>3 DEF Attempt
    <3>2. QED BY <1>1, <3>1 DEF Turns, Ops, Enters, Results, Enter, Result
  <2>8. Keeps(h)
    <3>1. \A q \in Pids : LeaderExit(h, q) => q = p
      BY <2>1 DEF LeaderExit
    <3>2. \A o \in Ops, t \in Tids : Attempt(o, t)' # NoAttempt =>
              Attempt(o, t)' = Attempt(o, t) /\ Attempt(o, t)'.tgid # p
      BY <2>3 DEF Attempt
    <3>3. \A q \in Pids : Kept(q)' => q # p /\ Kept(q)
      BY <2>2, <2>4, <2>5, <3>2 DEF Kept
    <3>4. QED BY <3>1, <3>3 DEF Keeps
  <2>9. Believes(h)
    BY <2>1, <2>4 DEF Believes, Believed, LeaderExit
  <2>10. QED BY <1>1, <2>6, <2>7, <2>8, <2>9, SameRows DEF Handles
<1>4. QED BY <1>2, <1>3
LEMMA Recorded ==
    ASSUME TypeInv, NEW row \in RowSet, Record(row)
    PROVE  /\ serving' \in BOOLEAN /\ rows' \in Seq(RowSet)
           /\ rows' = rows \/ rows' = Append(rows, row)
<1>1. serving \in BOOLEAN /\ rows \in Seq(RowSet)
  BY DEF TypeInv, ServiceTypes
<1>2. /\ rows' = rows \/ rows' = Append(rows, row)
      /\ serving' = serving \/ serving' = FALSE
  BY DEF Record
<1>3. rows' \in Seq(RowSet)
  BY <1>1, <1>2
<1>4. QED BY <1>1, <1>2, <1>3

LEMMA RowType ==
    ASSUME TypeInv, NEW h \in Samples, NEW kind \in {"file_open", "file_save"}, NEW p \in Pids,
           NEW d \in Fds, NEW path \in Paths, NEW ino \in Nat
    PROVE  /\ Row(kind, h, p, d, path, ino) \in RowSet
           /\ Row(kind, h, p, d, path, ino).kind = kind
           /\ Row(kind, h, p, d, path, ino).pid = p
           /\ Row(kind, h, p, d, path, ino).fd = d
           /\ Row(kind, h, p, d, path, ino).path = path
           /\ Row(kind, h, p, d, path, ino).ino = ino
           /\ Row(kind, h, p, d, path, ino).mono = h.mono
           /\ Row(kind, h, p, d, path, ino).inc = h.inc
           /\ Row(kind, h, p, d, path, ino).real = h.real
           /\ Row(kind, h, p, d, path, ino).live => group[p] = p /\ inc[p] = h.inc
BY DEF Row, RowSet, Samples

\* A result of openat: the attempt of its thread ends.
LEMMA OpenTaken ==
    ASSUME TypeInv, NEW n \in DOMAIN queue, TakeOpen(n), NEW h \in Samples, h = queue[n]
    PROVE  /\ h.type = "OpenResult" /\ h.tgid \in Pids /\ h.tid \in Tids
           /\ UNCHANGED <<known, pendingDup, pendingWrite, dedup>>
           /\ pendingOpen' \in [Tids -> {NoAttempt} \cup [tgid : Pids, file : Files]]
           /\ Turns(h)
           /\ \A o \in Ops, t \in Tids : Attempt(o, t)' # NoAttempt =>
                 Attempt(o, t)' = Attempt(o, t) \/ Attempt(o, t)'.tgid = h.tgid
<1>1. /\ h.type = "OpenResult" /\ h.tgid \in Pids /\ h.tid \in Tids
      /\ pendingOpen' = [pendingOpen EXCEPT ![h.tid] = NoAttempt]
      /\ UNCHANGED <<known, pendingDup, pendingWrite, dedup>>
  BY DEF TakeOpen, Take, Samples
<1>2. /\ "open" \in Ops /\ h.type = Result["open"] /\ Attempt("open", h.tid)' = NoAttempt
      /\ \A t \in Tids : t # h.tid => Attempt("open", t)' = Attempt("open", t)
      /\ \A o \in Ops, t \in Tids : o # "open" => Attempt(o, t)' = Attempt(o, t)
      /\ pendingOpen' \in [Tids -> {NoAttempt} \cup [tgid : Pids, file : Files]]
  BY <1>1 DEF TypeInv, ServiceTypes, Ops, Result, Attempt
<1>3. /\ Turns(h)
      /\ \A o \in Ops, t \in Tids : Attempt(o, t)' # NoAttempt =>
                 Attempt(o, t)' = Attempt(o, t) \/ Attempt(o, t)'.tgid = h.tgid
  BY <1>1, <1>2, OneAttempt
<1>4. QED BY <1>1, <1>2, <1>3

LEMMA OpenResultDoes ==
    ASSUME TypeInv, NEW n \in DOMAIN queue, TakeOpen(n), NEW h \in Samples, h = queue[n],
           openFiles' \in [Pids \X Fds -> States], serving' \in BOOLEAN, rows' \in Seq(RowSet),
           Believes(h), Writes(h),
           \A p \in Pids, d \in Fds : openFiles'[<<p, d>>] # NoState =>
               openFiles[<<p, d>>] # NoState \/ h.tgid = p
    PROVE  ServiceTypes' /\ Handles(h)
<1>1. /\ h.type = "OpenResult" /\ h.tgid \in Pids
      /\ UNCHANGED <<known, pendingDup, pendingWrite, dedup>>
      /\ pendingOpen' \in [Tids -> {NoAttempt} \cup [tgid : Pids, file : Files]]
  BY OpenTaken
<1>2. /\ Turns(h)
      /\ \A o \in Ops, t \in Tids : Attempt(o, t)' # NoAttempt =>
                 Attempt(o, t)' = Attempt(o, t) \/ Attempt(o, t)'.tgid = h.tgid
  BY OpenTaken
<1>3. ServiceTypes'
  BY <1>1 DEF TypeInv, ServiceTypes, dedup, DedupTypeOK
<1>4. Keeps(h)
  BY <1>1, <1>2, SameMemory DEF dedup
<1>5. QED BY <1>2, <1>3, <1>4 DEF Handles

LEMMA OpenDroppedDoes ==
    ASSUME TypeInv, NEW n \in DOMAIN queue, OpenDropped(n), NEW h \in Samples, h = queue[n]
    PROVE  ServiceTypes' /\ Handles(h)
<1>1. /\ TakeOpen(n) /\ UNCHANGED <<serving, openFiles, rows>> /\ h.type = "OpenResult"
  BY DEF OpenDropped, TakeOpen, Take
<1>2. /\ openFiles' \in [Pids \X Fds -> States] /\ serving' \in BOOLEAN /\ rows' \in Seq(RowSet)
  BY <1>1 DEF TypeInv, ServiceTypes
<1>3. Believes(h) /\ Writes(h)
  BY <1>1, SameFiles, SameRows
<1>4. QED BY <1>1, <1>2, <1>3, OpenResultDoes

\* The state of one descriptor of the process of h is set.
LEMMA OneState ==
    ASSUME TypeInv, NEW h \in Samples, h.type # "ProcessExit", NEW p \in Pids, NEW d \in Fds,
           NEW s \in States, openFiles' = [openFiles EXCEPT ![<<p, d>>] = s], Believed(h, p, d)
    PROVE  /\ openFiles' \in [Pids \X Fds -> States] /\ Believes(h)
           /\ \A q \in Pids, c \in Fds : openFiles'[<<q, c>>] # NoState =>
                  openFiles[<<q, c>>] # NoState \/ q = p
<1>1. /\ openFiles' \in [Pids \X Fds -> States]
      /\ \A q \in Pids, c \in Fds : q # p \/ c # d => openFiles'[<<q, c>>] = openFiles[<<q, c>>]
  BY DEF TypeInv, ServiceTypes
<1>2. \A q \in Pids, c \in Fds : q # p \/ c # d => Believed(h, q, c)
  BY <1>1 DEF Believed, LeaderExit
<1>3. QED BY <1>1, <1>2 DEF Believes

LEMMA OpenFallbackDoes ==
    ASSUME TypeInv, NEW n \in DOMAIN queue, OpenFallback(n), NEW h \in Samples, h = queue[n]
    PROVE  ServiceTypes' /\ Handles(h)
<1>1. /\ TakeOpen(n) /\ UNCHANGED <<serving, rows>> /\ h.type = "OpenResult" /\ h.tgid \in Pids
      /\ h.a \in Fds /\ Fallback(<<h.tgid, h.a>>)
  BY Numbers DEF OpenFallback, TakeOpen, Take, Samples
<1>2. /\ openFiles \in [Pids \X Fds -> States] /\ serving' \in BOOLEAN /\ rows' \in Seq(RowSet)
      /\ Writes(h)
  BY <1>1, SameRows DEF TypeInv, ServiceTypes
<1>3. CASE openFiles' = openFiles
  BY <1>1, <1>2, <1>3, SameFiles, OpenResultDoes
<1>4. PICK p \in Pids, d \in Fds : p = h.tgid /\ d = h.a
  BY <1>1
<1>5. CASE Resolvable(p, d) /\ openFiles' = [openFiles EXCEPT ![<<p, d>>] =
                  [path |-> Resolved(p, d).path, ino |-> Resolved(p, d).ino, check |-> 0]]
  <2>1. PICK s : s = [path |-> Resolved(p, d).path, ino |-> Resolved(p, d).ino, check |-> 0]
    OBVIOUS
  <2>2. /\ s \in States /\ s.check = 0 /\ Lives(p) /\ fdt[p][d] # Closed
        /\ s.path = fdt[p][d].file.path /\ s.ino = fdt[p][d].file.ino
    BY <1>5, <2>1, Looked DEF TypeInv, States
  <2>3. openFiles' = [openFiles EXCEPT ![<<p, d>>] = s] /\ openFiles'[<<p, d>>] = s
    BY <1>2, <1>5, <2>1
  <2>4. Believed(h, p, d)
    BY <1>1, <2>2, <2>3 DEF Believed, LeaderExit
  <2>5. QED BY <1>1, <1>2, <1>4, <2>2, <2>3, <2>4, OneState, OpenResultDoes
<1>6. QED BY <1>1, <1>3, <1>4, <1>5 DEF Fallback

LEMMA OpenTrackedDoes ==
    ASSUME TypeInv, NEW n \in DOMAIN queue, OpenTracked(n), NEW h \in Samples, h = queue[n]
    PROVE  ServiceTypes' /\ Handles(h)
<1>1. /\ TakeOpen(n) /\ h.type = "OpenResult" /\ h.tgid \in Pids /\ h.tid \in Tids
      /\ h.a \in Fds /\ h.a >= 0 /\ pendingOpen[h.tid] # NoAttempt
  <2>1. TakeOpen(n) /\ h.a >= 0 /\ pendingOpen[h.tid] # NoAttempt
    BY DEF OpenTracked
  <2>2. h.type = "OpenResult"
    BY <2>1 DEF TakeOpen, Take
  <2>3. h.tgid \in Pids /\ h.tid \in Tids /\ h.a \in Fds \cup {-1}
    BY <2>2 DEF Samples
  <2>4. ~(-1 >= 0)
    OBVIOUS
  <2>5. QED BY <2>1, <2>2, <2>3, <2>4
<1>2. PICK q \in Pids, p \in Pids, d \in Fds, f \in Files :
          /\ q = pendingOpen[h.tid].tgid /\ p = h.tgid /\ d = h.a /\ f = pendingOpen[h.tid].file
  BY <1>1, AttemptTypes DEF TypeInv
<1>3. PICK ino \in Nat : ino = IF Resolvable(q, d) THEN Resolved(q, d).ino ELSE NoIno
  BY Looked DEF TypeInv, NoIno
<1>4. /\ openFiles' = [openFiles EXCEPT ![<<p, d>>] = [path |-> f.path, ino |-> ino, check |-> 0]]
      /\ \/ Record(Row("file_open", h, q, d, f.path, ino))
         \/ UNCHANGED <<rows, serving>>
  BY <1>2, <1>3 DEF OpenTracked, RememberOpenFile
<1>5. PICK s \in States : s = [path |-> f.path, ino |-> ino, check |-> 0]
  BY FileTypes DEF States
<1>6. openFiles' = [openFiles EXCEPT ![<<p, d>>] = s] /\ openFiles'[<<p, d>>] = s
  BY <1>4, <1>5 DEF TypeInv, ServiceTypes
<1>7. Believed(h, p, d)
  <2>1. s.check = 0 /\ s.path = pendingOpen[h.tid].file.path
    BY <1>2, <1>5
  <2>2. QED BY <1>1, <1>2, <1>6, <2>1 DEF Believed
<1>8. /\ openFiles' \in [Pids \X Fds -> States] /\ Believes(h)
      /\ \A u \in Pids, c \in Fds : openFiles'[<<u, c>>] # NoState =>
             openFiles[<<u, c>>] # NoState \/ u = p
  BY <1>1, <1>6, <1>7, OneState
<1>9. serving' \in BOOLEAN /\ rows' \in Seq(RowSet) /\ Writes(h)
  <2>1. CASE UNCHANGED <<rows, serving>>
    BY <2>1, SameRows DEF TypeInv, ServiceTypes
  <2>2. CASE Record(Row("file_open", h, q, d, f.path, ino))
    <3>1. PICK row \in RowSet : row = Row("file_open", h, q, d, f.path, ino) /\ row.kind = "file_open"
      BY RowType, FileTypes
    <3>2. QED BY <2>2, <3>1, Recorded DEF Writes
  <2>3. QED BY <1>4, <2>1, <2>2
<1>10. QED BY <1>1, <1>2, <1>8, <1>9, OpenResultDoes

\* A judged save is remembered of its own pair only.
LEMMA Judging ==
    ASSUME DedupTypeOK, NEW k \in Keys, NEW m \in Nat,
           PassAll(k, m) \/ Accept(k, m) \/ Suppress(k, m)
    PROVE  /\ DedupTypeOK'
           /\ \A j \in Keys : recentFileSaves'[j] # Absent => recentFileSaves[j] # Absent \/ j = k
<1>1. Judged(k, m, TRUE) \/ Judged(k, m, FALSE)
  BY DEF PassAll, Accept, Suppress
<1>2. PICK r \in BOOLEAN : Judged(k, m, r)
  BY <1>1
<1>3. PICK e \in Save : saves' = [saves EXCEPT ![k] = Append(saves[k], e)]
  BY <1>2 DEF Judged, Save, DedupTypeOK
<1>4. saves[k] \in Seq(Save) /\ Append(saves[k], e) \in Seq(Save)
  BY DEF DedupTypeOK
<1>5. saves' \in [Keys -> Seq(Save)] /\ newest' \in Nat
  BY <1>2, <1>3, <1>4 DEF DedupTypeOK, Judged
<1>6. lastFileSaveGC' \in Nat
  BY DEF PassAll, Accept, Suppress, Sweep, DedupTypeOK
<1>7. /\ Swept(m) \in [Keys -> Nat \cup {Absent}]
      /\ \A j \in Keys : Swept(m)[j] # Absent => recentFileSaves[j] # Absent
  BY DEF Swept, DedupTypeOK
<1>8. recentFileSaves' \in {recentFileSaves, Swept(m), [Swept(m) EXCEPT ![k] = m]}
  BY DEF PassAll, Accept, Suppress
<1>9. /\ recentFileSaves' \in [Keys -> Nat \cup {Absent}]
      /\ \A j \in Keys : recentFileSaves'[j] # Absent => recentFileSaves[j] # Absent \/ j = k
  BY <1>7, <1>8 DEF DedupTypeOK
<1>10. QED BY <1>5, <1>6, <1>9 DEF DedupTypeOK

\* What a write is attributed to.
LEMMA Targets ==
    ASSUME TypeInv, NEW p \in Pids, NEW d \in Fds, NEW m, NEW f \in Target(<<p, d>>, m)
    PROVE  /\ f.path \in Paths /\ f.ino \in Nat
           /\ \/ /\ openFiles[<<p, d>>] # NoState /\ ~NeedsCheck(openFiles[<<p, d>>], m)
                 /\ f.path = openFiles[<<p, d>>].path /\ f.ino = openFiles[<<p, d>>].ino
              \/ Resolvable(p, d) /\ f.path = Resolved(p, d).path /\ f.ino = Resolved(p, d).ino
<1>1. openFiles[<<p, d>>] \in States /\ TrackedPaths \subseteq Paths
  BY FileAssumption DEF TypeInv, ServiceTypes, FileAssumption
<1>2. CASE Trusted(<<p, d>>, m)
  <2>1. f = [path |-> openFiles[<<p, d>>].path, ino |-> openFiles[<<p, d>>].ino]
    BY <1>2 DEF Target
  <2>2. QED BY <1>1, <1>2, <2>1 DEF Trusted, ShouldTrack, States
<1>3. CASE ~Trusted(<<p, d>>, m)
  <2>1. Resolvable(p, d) /\ f = [path |-> Resolved(p, d).path, ino |-> Resolved(p, d).ino]
    BY <1>3 DEF Target
  <2>2. QED BY <2>1, Looked DEF TypeInv
<1>4. QED BY <1>2, <1>3

\* A state that is checked stays or becomes what /proc shows.
LEMMA Renewed ==
    ASSUME TypeInv, NEW h \in Samples, NEW p \in Pids, Written(h, p), NEW d \in Fds,
           Renew(<<p, d>>, h.mono)
    PROVE  /\ openFiles' \in [Pids \X Fds -> States] /\ Believes(h)
           /\ \A q \in Pids, c \in Fds : openFiles'[<<q, c>>] # NoState =>
                  openFiles[<<q, c>>] # NoState
<1>1. openFiles \in [Pids \X Fds -> States] /\ <<p, d>> \in Pids \X Fds /\ h.mono \in Nat
  BY DEF TypeInv, ServiceTypes, Samples
<1>2. CASE openFiles' = openFiles
  BY <1>1, <1>2, SameFiles DEF Written
<1>3. CASE /\ ~Trusted(<<p, d>>, h.mono) /\ openFiles[<<p, d>>].ino # NoIno
           /\ Target(<<p, d>>, h.mono) # {}
           /\ openFiles' = [openFiles EXCEPT ![<<p, d>>] =
                  [path |-> Resolved(p, d).path, ino |-> Resolved(p, d).ino, check |-> h.mono]]
  <2>1. Resolvable(p, d)
    BY <1>3 DEF Target
  <2>2. PICK s : s = [path |-> Resolved(p, d).path, ino |-> Resolved(p, d).ino, check |-> h.mono]
    OBVIOUS
  <2>3. /\ s \in States /\ s.check = h.mono /\ Lives(p) /\ fdt[p][d] # Closed
        /\ s.path = fdt[p][d].file.path /\ s.ino = fdt[p][d].file.ino
    BY <1>1, <2>1, <2>2, Looked DEF TypeInv, States
  <2>4. openFiles' = [openFiles EXCEPT ![<<p, d>>] = s] /\ openFiles'[<<p, d>>] = s
    BY <1>1, <1>3, <2>2
  <2>5. Believed(h, p, d)
    BY <2>3, <2>4 DEF Believed, LeaderExit, Written
  <2>6. openFiles[<<p, d>>] # NoState
    BY <1>3 DEF NoState, NoIno
  <2>7. \A q \in Pids, c \in Fds : q # p \/ c # d => openFiles'[<<q, c>>] = openFiles[<<q, c>>]
    BY <1>1, <2>4
  <2>8. /\ openFiles' \in [Pids \X Fds -> States] /\ Believes(h)
    BY <2>3, <2>4, <2>5, OneState DEF Written
  <2>9. QED BY <2>6, <2>7, <2>8
<1>4. CASE /\ Target(<<p, d>>, h.mono) = {}
           /\ openFiles' = [openFiles EXCEPT ![<<p, d>>] = openFiles[<<p, d>>]]
  <2>1. openFiles' = openFiles
    BY <1>1, <1>4
  <2>2. QED BY <1>2, <2>1
<1>5. QED BY <1>2, <1>3, <1>4 DEF Renew

\* A result of the write family: the attempt of its thread ends.
LEMMA WriteTaken ==
    ASSUME TypeInv, NEW n \in DOMAIN queue, TakeWrite(n), NEW h \in Samples, h = queue[n]
    PROVE  /\ h.type = "WriteResult" /\ h.tgid \in Pids /\ h.tid \in Tids
           /\ UNCHANGED <<known, pendingOpen, pendingDup>>
           /\ pendingWrite' \in [Tids -> {NoAttempt} \cup [tgid : Pids, fd : Fds]]
           /\ Turns(h)
           /\ \A o \in Ops, t \in Tids : Attempt(o, t)' # NoAttempt =>
                 Attempt(o, t)' = Attempt(o, t) \/ Attempt(o, t)'.tgid = h.tgid
<1>1. /\ h.type = "WriteResult" /\ h.tgid \in Pids /\ h.tid \in Tids
      /\ pendingWrite' = [pendingWrite EXCEPT ![h.tid] = NoAttempt]
      /\ UNCHANGED <<known, pendingOpen, pendingDup>>
  BY DEF TakeWrite, Take, Samples
<1>2. /\ "write" \in Ops /\ h.type = Result["write"] /\ Attempt("write", h.tid)' = NoAttempt
      /\ \A t \in Tids : t # h.tid => Attempt("write", t)' = Attempt("write", t)
      /\ \A o \in Ops, t \in Tids : o # "write" => Attempt(o, t)' = Attempt(o, t)
      /\ pendingWrite' \in [Tids -> {NoAttempt} \cup [tgid : Pids, fd : Fds]]
  BY <1>1 DEF TypeInv, ServiceTypes, Ops, Result, Attempt
<1>3. /\ Turns(h)
      /\ \A o \in Ops, t \in Tids : Attempt(o, t)' # NoAttempt =>
                 Attempt(o, t)' = Attempt(o, t) \/ Attempt(o, t)'.tgid = h.tgid
  BY <1>1, <1>2, OneAttempt
<1>4. QED BY <1>1, <1>2, <1>3

LEMMA WriteResultDoes ==
    ASSUME TypeInv, NEW n \in DOMAIN queue, TakeWrite(n), NEW h \in Samples, h = queue[n],
           openFiles' \in [Pids \X Fds -> States], serving' \in BOOLEAN, rows' \in Seq(RowSet),
           DedupTypeOK', Believes(h), Writes(h),
           \A p \in Pids, d \in Fds :
               openFiles'[<<p, d>>] # NoState => openFiles[<<p, d>>] # NoState,
           \A p \in Pids, path \in Paths : recentFileSaves'[<<p, path>>] # Absent =>
               recentFileSaves[<<p, path>>] # Absent \/ Kept(p)
    PROVE  ServiceTypes' /\ Handles(h)
<1>1. /\ h.tgid \in Pids /\ UNCHANGED <<known, pendingOpen, pendingDup>>
      /\ pendingWrite' \in [Tids -> {NoAttempt} \cup [tgid : Pids, fd : Fds]]
      /\ h.type = "WriteResult"
  BY WriteTaken
<1>2. /\ Turns(h)
      /\ \A o \in Ops, t \in Tids : Attempt(o, t)' # NoAttempt =>
                 Attempt(o, t)' = Attempt(o, t) \/ Attempt(o, t)'.tgid = h.tgid
  BY WriteTaken
<1>3. ServiceTypes'
  BY <1>1 DEF TypeInv, ServiceTypes
<1>4. Keeps(h)
  BY <1>1, <1>2, SameMemory
<1>5. QED BY <1>2, <1>3, <1>4 DEF Handles

LEMMA WriteDroppedDoes ==
    ASSUME TypeInv, NEW n \in DOMAIN queue, WriteDropped(n), NEW h \in Samples, h = queue[n]
    PROVE  ServiceTypes' /\ Handles(h)
<1>1. /\ TakeWrite(n) /\ h.type = "WriteResult" /\ h.tid \in Tids /\ UNCHANGED <<serving, rows, dedup>>
      /\ \/ openFiles' = openFiles
         \/ /\ pendingWrite[h.tid] # NoAttempt
            /\ Renew(<<pendingWrite[h.tid].tgid, pendingWrite[h.tid].fd>>, h.mono)
  BY DEF WriteDropped, TakeWrite, Take, Samples
<1>2. /\ serving' \in BOOLEAN /\ rows' \in Seq(RowSet) /\ DedupTypeOK' /\ Writes(h)
      /\ recentFileSaves' = recentFileSaves
  BY <1>1, SameRows DEF TypeInv, ServiceTypes, dedup, DedupTypeOK
<1>3. /\ openFiles' \in [Pids \X Fds -> States] /\ Believes(h)
      /\ \A q \in Pids, c \in Fds : openFiles'[<<q, c>>] # NoState => openFiles[<<q, c>>] # NoState
  <2>1. CASE openFiles' = openFiles
    BY <1>1, <2>1, SameFiles DEF TypeInv, ServiceTypes
  <2>2. CASE /\ pendingWrite[h.tid] # NoAttempt
             /\ Renew(<<pendingWrite[h.tid].tgid, pendingWrite[h.tid].fd>>, h.mono)
    BY <1>1, <2>2, AttemptTypes, Renewed DEF TypeInv, Written
  <2>3. QED BY <1>1, <2>1, <2>2
<1>4. QED BY <1>1, <1>2, <1>3, WriteResultDoes

LEMMA WriteSavedDoes ==
    ASSUME TypeInv, NEW n \in DOMAIN queue, WriteSaved(n), NEW h \in Samples, h = queue[n]
    PROVE  ServiceTypes' /\ Handles(h)
<1>1. /\ TakeWrite(n) /\ h.type = "WriteResult" /\ h.tid \in Tids /\ h.mono \in Nat
      /\ pendingWrite[h.tid] # NoAttempt
  BY DEF WriteSaved, TakeWrite, Take, Samples
<1>2. PICK p \in Pids, d \in Fds : p = pendingWrite[h.tid].tgid /\ d = pendingWrite[h.tid].fd
  BY <1>1, AttemptTypes DEF TypeInv
<1>3. PICK f \in Target(<<p, d>>, h.mono) :
         /\ Renew(<<p, d>>, h.mono)
         /\ PassAll(<<p, f.path>>, h.mono) \/ Accept(<<p, f.path>>, h.mono)
              \/ Suppress(<<p, f.path>>, h.mono)
         /\ \/ UNCHANGED <<rows, serving>>
            \/ Record(Row("file_save", h, p, d, f.path, f.ino))
  BY <1>2 DEF WriteSaved
<1>4. f.path \in Paths /\ f.ino \in Nat /\ <<p, f.path>> \in Keys
  BY <1>3, Targets, FileAssumption DEF FileAssumption, Keys
<1>5. /\ openFiles' \in [Pids \X Fds -> States] /\ Believes(h)
      /\ \A q \in Pids, c \in Fds : openFiles'[<<q, c>>] # NoState => openFiles[<<q, c>>] # NoState
  BY <1>1, <1>2, <1>3, Renewed DEF Written
<1>6. Kept(p)
  BY <1>1, <1>2 DEF Kept, Attempt, Ops
<1>7. /\ DedupTypeOK'
      /\ \A j \in Keys : recentFileSaves'[j] # Absent =>
             recentFileSaves[j] # Absent \/ j = <<p, f.path>>
  BY <1>1, <1>3, <1>4, Judging DEF TypeInv, ServiceTypes
<1>8. \A q \in Pids, path \in Paths : recentFileSaves'[<<q, path>>] # Absent =>
          recentFileSaves[<<q, path>>] # Absent \/ Kept(q)
  BY <1>6, <1>7, FileAssumption DEF FileAssumption, Keys
<1>9. serving' \in BOOLEAN /\ rows' \in Seq(RowSet) /\ Writes(h)
  <2>1. CASE UNCHANGED <<rows, serving>>
    BY <2>1, SameRows DEF TypeInv, ServiceTypes
  <2>2. CASE Record(Row("file_save", h, p, d, f.path, f.ino))
    <3>1. PICK row \in RowSet :
             /\ row = Row("file_save", h, p, d, f.path, f.ino)
             /\ row.pid = p /\ row.fd = d /\ row.path = f.path /\ row.ino = f.ino
             /\ row.mono = h.mono /\ row.inc = h.inc /\ row.real = h.real
             /\ row.live => group[p] = p /\ inc[p] = h.inc
      BY <1>4, RowType
    <3>2. \/ /\ openFiles[<<p, d>>] # NoState /\ ~NeedsCheck(openFiles[<<p, d>>], h.mono)
             /\ f.path = openFiles[<<p, d>>].path /\ f.ino = openFiles[<<p, d>>].ino
          \/ /\ Lives(p) /\ fdt[p][d] # Closed
             /\ f.path = fdt[p][d].file.path /\ f.ino = fdt[p][d].file.ino
      BY <1>3, Targets, Looked DEF TypeInv
    <3>3. /\ row.live => group[row.pid] = row.pid /\ inc[row.pid] = h.inc
          /\ row.pid = pendingWrite[h.tid].tgid /\ row.fd = pendingWrite[h.tid].fd
      BY <1>2, <3>1
    <3>4. \/ /\ openFiles[<<row.pid, row.fd>>] # NoState
             /\ ~NeedsCheck(openFiles[<<row.pid, row.fd>>], h.mono)
             /\ row.path = openFiles[<<row.pid, row.fd>>].path
             /\ row.ino = openFiles[<<row.pid, row.fd>>].ino
          \/ /\ Lives(row.pid) /\ fdt[row.pid][row.fd] # Closed
             /\ row.path = fdt[row.pid][row.fd].file.path
             /\ row.ino = fdt[row.pid][row.fd].file.ino
      BY <3>1, <3>2
    <3>5. Saved(h, row)
      BY <1>1, <3>1, <3>3, <3>4 DEF Saved
    <3>6. QED BY <2>2, <3>1, <3>5, Recorded DEF Writes
  <2>3. QED BY <1>3, <2>1, <2>2
<1>10. QED BY <1>1, <1>5, <1>7, <1>8, <1>9, WriteResultDoes

\* What a step of the service does, in the four terms of Handles.
LEMMA ServiceLife ==
    ASSUME TypeInv, ServiceNext
    PROVE  \E n \in DOMAIN queue :
              /\ Popped(n) /\ queue[n] \in Samples
              /\ kernel' = kernel /\ dropped' = dropped
              /\ TypeInv'
              /\ Handles(queue[n])
<1>1. PICK n \in DOMAIN queue :
          \/ HandleExec(n) \/ HandleOpenEnter(n)
          \/ OpenDropped(n) \/ OpenFallback(n) \/ OpenTracked(n)
          \/ HandleDupEnter(n) \/ HandleDupResult(n)
          \/ HandleWriteEnter(n) \/ WriteDropped(n) \/ WriteSaved(n)
          \/ HandleProcessExit(n)
  BY DEF ServiceNext
<1>2. \E type : Take(n, type)
  <2>1. CASE HandleExec(n) \/ HandleOpenEnter(n) \/ HandleDupEnter(n) \/ HandleDupResult(n)
             \/ HandleWriteEnter(n) \/ HandleProcessExit(n)
    BY <2>1 DEF HandleExec, HandleOpenEnter, HandleDupEnter, HandleDupResult,
                HandleWriteEnter, HandleProcessExit
  <2>2. CASE OpenDropped(n) \/ OpenFallback(n) \/ OpenTracked(n)
    BY <2>2 DEF OpenDropped, OpenFallback, OpenTracked, TakeOpen
  <2>3. CASE WriteDropped(n) \/ WriteSaved(n)
    BY <2>3 DEF WriteDropped, WriteSaved, TakeWrite
  <2>4. QED BY <1>1, <2>1, <2>2, <2>3
<1>3. /\ Popped(n) /\ kernel' = kernel /\ dropped' = dropped
      /\ KernelInv' /\ overtaken' \in BOOLEAN
  BY <1>2, Taking
<1>4. PICK h \in Samples : h = queue[n]
  BY Positions DEF TypeInv
<1>5. ServiceTypes' /\ Handles(h)
  BY <1>1, <1>4, HandleExecDoes, HandleOpenEnterDoes, OpenDroppedDoes, OpenFallbackDoes,
     OpenTrackedDoes, HandleDupEnterDoes, HandleDupResultDoes, HandleWriteEnterDoes,
     WriteDroppedDoes, WriteSavedDoes, HandleProcessExitDoes
<1>6. QED BY <1>3, <1>4, <1>5 DEF TypeInv

-----------------------------------------------------------------------------
(* What holds of the samples that wait.                                    *)

\* Samples are lost for good.
LEMMA LostForGood ==
    ASSUME KernelInv, KernelNext
    PROVE  dropped <= dropped' /\ overtaken' = overtaken
<1>1. dropped \in Nat
  BY DEF KernelInv, KernelTypes
<1>2. (Silent \/ \E x : Emit(x)) => dropped <= dropped' /\ overtaken' = overtaken
  BY <1>1 DEF Silent, Emit, channel
<1>3. CASE Tick \/ (\E p \in Pids : Reap(p) \/ \E cpu \in CPUs : Start(cpu, p)) \/ (\E t, w \in Tids : Clone(t, w))
  BY <1>2, <1>3 DEF Tick, Start, Reap, Clone
<1>4. CASE \E cpu \in CPUs, t \in Tids :
          ThreadExit(cpu, t) \/ OpenReturn(cpu, t) \/ DupReturn(cpu, t) \/ WriteReturn(cpu, t)
  BY <1>2, <1>4 DEF ThreadExit, OpenReturn, DupReturn, WriteReturn
<1>5. CASE \E t \in Tids, f \in Files :
          OpenUntraced(t, f) \/ \E cpu \in CPUs, writes \in BOOLEAN : OpenEnter(cpu, t, f, writes)
  BY <1>2, <1>5 DEF OpenUntraced, OpenEnter
<1>6. CASE \E t \in Tids, d \in Fds :
          \/ Close(t, d)
          \/ \E cpu \in CPUs : WriteEnter(cpu, t, d) \/ \E e \in Fds : DupEnter(cpu, t, d, e)
  BY <1>2, <1>6 DEF Close, WriteEnter, DupEnter
<1>7. QED BY <1>3, <1>4, <1>5, <1>6 DEF KernelNext

\* A step of the kernel leaves the waiting samples where they are.
LEMMA Pushed ==
    ASSUME KernelInv, Queues
    PROVE  /\ Len(queue) \in Nat /\ DOMAIN queue = 1 .. Len(queue)
           /\ DOMAIN queue' = 1 .. Len(queue')
           /\ \A i \in DOMAIN queue : i \in DOMAIN queue' /\ queue'[i] = queue[i]
                                      /\ queue[i] \in Samples
           /\ \A i \in DOMAIN queue', j \in DOMAIN queue : i < j => i \in DOMAIN queue
           /\ \/ New = {} /\ queue' = queue
              \/ \E x \in Samples :
                    /\ New = {x} /\ dropped' = dropped
                    /\ Len(queue') = Len(queue) + 1 /\ queue'[Len(queue) + 1] = x
                    /\ DOMAIN queue' = DOMAIN queue \cup {Len(queue) + 1}
                    /\ x.mono = clock /\ clock' = clock /\ x.inc = inc'[x.tgid]
<1>1. /\ queue \in Seq(Samples) /\ Len(queue) \in Nat /\ DOMAIN queue = 1 .. Len(queue)
      /\ \A i \in DOMAIN queue : queue[i] \in Samples
  BY DEF KernelInv, KernelTypes
<1>2. CASE New = {} /\ queue' = queue
  BY <1>1, <1>2
<1>3. ASSUME NEW x \in Samples, New = {x}, queue' = Append(queue, x), dropped' = dropped,
             x.mono = clock, clock' = clock, x.inc = inc'[x.tgid]
      PROVE  /\ DOMAIN queue' = 1 .. Len(queue')
             /\ \A i \in DOMAIN queue : i \in DOMAIN queue' /\ queue'[i] = queue[i]
             /\ Len(queue') = Len(queue) + 1 /\ queue'[Len(queue) + 1] = x
             /\ DOMAIN queue' = DOMAIN queue \cup {Len(queue) + 1}
             /\ \A i \in DOMAIN queue', j \in DOMAIN queue : i < j => i \in DOMAIN queue
  BY <1>1, <1>3
<1>4. QED BY <1>1, <1>2, <1>3 DEF Queues

LEMMA PushedLast ==
    ASSUME KernelInv, Queues, NEW x \in New
    PROVE  \E m \in Nat : /\ m = Len(queue) + 1 /\ queue'[m] = x /\ m \in DOMAIN queue'
                          /\ DOMAIN queue' = DOMAIN queue \cup {m}
                          /\ DOMAIN queue = 1 .. m - 1 /\ \A i \in DOMAIN queue : i < m
                          /\ New = {x} /\ x \in Samples /\ dropped' = dropped
                          /\ x.mono = clock /\ clock' = clock /\ x.inc = inc'[x.tgid]
<1>1. Len(queue) \in Nat /\ DOMAIN queue = 1 .. Len(queue)
  BY Pushed
<1>2. PICK y \in Samples :
         /\ New = {y} /\ dropped' = dropped
         /\ Len(queue') = Len(queue) + 1 /\ queue'[Len(queue) + 1] = y
         /\ DOMAIN queue' = DOMAIN queue \cup {Len(queue) + 1}
         /\ y.mono = clock /\ clock' = clock /\ y.inc = inc'[y.tgid]
  BY Pushed
<1>3. y = x
  BY <1>2
<1>4. PICK m \in Nat : m = Len(queue) + 1
  BY <1>1
<1>5. DOMAIN queue = 1 .. m - 1 /\ \A i \in DOMAIN queue : i < m
  BY <1>1, <1>4
<1>6. m \in DOMAIN queue' /\ queue'[m] = x /\ DOMAIN queue' = DOMAIN queue \cup {m}
  BY <1>2, <1>3, <1>4
<1>7. QED BY <1>2, <1>3, <1>4, <1>5, <1>6

LEMMA PushedNew ==
    ASSUME KernelInv, Queues, NEW i \in DOMAIN queue', i \notin DOMAIN queue
    PROVE  \E x \in New : x = queue'[i] /\ x.inc = inc'[x.tgid]
<1>1. CASE New = {} /\ queue' = queue
  BY <1>1
<1>2. CASE New # {}
  <2>1. PICK x \in New : TRUE
    BY <1>2
  <2>2. PICK m \in Nat : /\ queue'[m] = x /\ DOMAIN queue' = DOMAIN queue \cup {m}
                        /\ x.inc = inc'[x.tgid]
    BY PushedLast
  <2>3. i = m
    BY <2>2
  <2>4. QED BY <2>2, <2>3
<1>3. QED BY <1>1, <1>2 DEF Queues

\* A step of the kernel loses samples for good and reads none, ...
Sends == Heard' => Heard /\ dropped' = dropped

\* ... the service takes none before one it has to do with.
LEMMA Takes ==
    ASSUME NEW n \in DOMAIN queue, Popped(n), dropped' = dropped
    PROVE  Heard' => Heard /\ Alone(n)
BY DEF Heard, Popped

\* What a process has open is on record, at the turn it was last installed.
HeldOK ==
    /\ \A p \in Pids : Lives(p) => \A d \in Fds : fdt[p][d] # Closed =>
          [pid |-> p, inc |-> inc[p], fd |-> d, entry |-> fdt[p][d]] \in had
    /\ \A p \in Pids, d \in Fds : fdt[p][d].from <= clock /\ fdt[p][d].nth <= calls

\* Samples wait in the order they were taken in.
QueueOK ==
    /\ \A i \in DOMAIN queue :
          /\ queue[i].mono <= clock
          /\ queue[i].inc <= inc[queue[i].tgid]
          /\ queue[i].type = "WriteResult" => queue[i].real.nth <= calls
    /\ \A i, j \in DOMAIN queue : i < j =>
          /\ queue[i].mono <= queue[j].mono
          /\ queue[i].tgid = queue[j].tgid => queue[i].inc <= queue[j].inc

LEMMA HeldPushed ==
    ASSUME KernelInv, KernelInv', Tables, HeldOK
    PROVE  HeldOK'
<1>1. ASSUME NEW p \in Pids, Lives(p)', NEW d \in Fds, fdt'[p][d] # Closed
      PROVE  [pid |-> p, inc |-> inc'[p], fd |-> d, entry |-> fdt'[p][d]] \in had'
  BY <1>1 DEF Tables, HeldOK
<1>2. ASSUME NEW p \in Pids, NEW d \in Fds
      PROVE  fdt'[p][d].from <= clock' /\ fdt'[p][d].nth <= calls'
  <2>1. /\ clock \in Nat /\ clock' \in Nat /\ calls \in Nat /\ calls' \in Nat
        /\ fdt[p][d] \in Entries
    BY DEF KernelInv, KernelTypes
  <2>2. fdt[p][d].from \in Nat /\ fdt[p][d].nth \in Nat
    BY <2>1 DEF Entries
  <2>3. /\ clock <= clock' /\ calls <= calls'
        /\ fdt'[p][d] \in {fdt[p][d], Closed} \/ (fdt'[p][d].from = clock /\ fdt'[p][d].nth = calls)
    BY DEF Tables
  <2>4. fdt[p][d].from <= clock /\ fdt[p][d].nth <= calls
    BY DEF HeldOK
  <2>5. QED BY <2>1, <2>2, <2>3, <2>4 DEF Closed
<1>3. QED BY <1>1, <1>2 DEF HeldOK

LEMMA HeldPopped ==
    ASSUME HeldOK, kernel' = kernel
    PROVE  HeldOK'
BY DEF HeldOK, kernel, Lives

\* Processes are numbered in the order they have the id.
LEMMA Numbered ==
    ASSUME KernelInv, Survives, NEW p \in Pids
    PROVE  inc[p] \in Nat /\ inc'[p] \in Nat /\ inc[p] <= inc'[p]
BY DEF KernelInv, KernelTypes, Survives

LEMMA SampleFields ==
    ASSUME NEW x \in Samples
    PROVE  /\ x.tgid \in Pids /\ x.tid \in Tids /\ x.mono \in Nat /\ x.inc \in Nat
           /\ x.real \in Entries /\ x.real.nth \in Nat /\ x.real.from \in Nat
           /\ x.type = "WriteResult" => x.fd \in Fds
           /\ x.type = "DupResult" /\ x.a >= 0 => x.a \in Fds
BY DEF Samples, Entries

LEMMA QueuePushed ==
    ASSUME KernelInv, KernelInv', Queues, Tables, Survives, HeldOK, QueueOK
    PROVE  QueueOK'
<1>0. /\ clock \in Nat /\ clock' \in Nat /\ calls \in Nat /\ calls' \in Nat
      /\ clock <= clock' /\ calls <= calls'
  BY DEF KernelInv, KernelTypes, Tables
<1>1. ASSUME NEW i \in DOMAIN queue
      PROVE  /\ queue'[i] = queue[i] /\ queue[i].mono <= clock'
             /\ queue[i].inc <= inc'[queue[i].tgid]
             /\ queue[i].type = "WriteResult" => queue[i].real.nth <= calls'
  <2>1. queue[i] \in Samples /\ queue'[i] = queue[i]
    BY Pushed
  <2>2. /\ queue[i].mono <= clock /\ queue[i].inc <= inc[queue[i].tgid]
        /\ queue[i].type = "WriteResult" => queue[i].real.nth <= calls
    BY DEF QueueOK
  <2>3. /\ queue[i].tgid \in Pids /\ queue[i].mono \in Nat /\ queue[i].inc \in Nat
        /\ queue[i].real.nth \in Nat
    BY <2>1, SampleFields
  <2>4. /\ inc[queue[i].tgid] \in Nat /\ inc'[queue[i].tgid] \in Nat
        /\ inc[queue[i].tgid] <= inc'[queue[i].tgid]
    BY <2>3, Numbered
  <2>5. QED BY <1>0, <2>1, <2>2, <2>3, <2>4
<1>2. CASE New = {} /\ queue' = queue
  BY <1>1, <1>2 DEF QueueOK
<1>3. ASSUME NEW x \in Samples, New = {x}, Len(queue') = Len(queue) + 1,
             queue'[Len(queue) + 1] = x, x.mono = clock, clock' = clock, x.inc = inc'[x.tgid],
             DOMAIN queue' = DOMAIN queue \cup {Len(queue) + 1}
      PROVE  QueueOK'
  <2>1. /\ x.tgid \in Pids /\ x.mono \in Nat /\ x.inc \in Nat /\ x.real.nth \in Nat
        /\ x.type = "WriteResult" => x.fd \in Fds
    BY SampleFields
  <2>2. x.type = "WriteResult" => x.real.nth <= calls'
    <3>1. x.type = "WriteResult" => x.real \in {Closed, fdt[x.tgid][x.fd]}
      BY <1>3 DEF Tables
    <3>2. x.type = "WriteResult" => fdt[x.tgid][x.fd].nth <= calls
      BY <2>1 DEF HeldOK
    <3>3. QED BY <1>0, <2>1, <3>1, <3>2 DEF Closed
  <2>3. ASSUME NEW i \in DOMAIN queue'
        PROVE  /\ queue'[i].mono <= clock' /\ queue'[i].inc <= inc'[queue'[i].tgid]
               /\ queue'[i].type = "WriteResult" => queue'[i].real.nth <= calls'
    <3>1. CASE i \in DOMAIN queue
      BY <1>1, <3>1
    <3>2. CASE i = Len(queue) + 1
      BY <1>0, <1>3, <2>1, <2>2, <3>2
    <3>3. QED BY <1>3, <3>1, <3>2
  <2>4. ASSUME NEW i \in DOMAIN queue', NEW j \in DOMAIN queue', i < j
        PROVE  /\ queue'[i].mono <= queue'[j].mono
               /\ queue'[i].tgid = queue'[j].tgid => queue'[i].inc <= queue'[j].inc
    <3>1. i \in DOMAIN queue
      BY <1>3, <2>4, Pushed
    <3>2. CASE j \in DOMAIN queue
      BY <1>1, <2>4, <3>1, <3>2 DEF QueueOK
    <3>3. CASE j = Len(queue) + 1
      BY <1>1, <1>3, <3>1, <3>3
    <3>4. QED BY <1>3, <3>2, <3>3
  <2>5. QED BY <2>3, <2>4 DEF QueueOK
<1>4. QED BY <1>2, <1>3, Pushed

LEMMA QueuePopped ==
    ASSUME KernelInv, NEW n \in DOMAIN queue, Popped(n), kernel' = kernel, QueueOK
    PROVE  QueueOK'
<1>1. /\ UNCHANGED <<clock, calls, inc>>
      /\ \A i \in DOMAIN queue' : Up(n, i) \in DOMAIN queue /\ queue'[i] = queue[Up(n, i)]
      /\ \A i, j \in DOMAIN queue' : i < j => Up(n, i) < Up(n, j)
  BY MovedUp DEF kernel
<1>2. QED BY <1>1 DEF QueueOK

\* Every sample of a process comes before the exit of its leader: after the
\* i-th one, of the n-th process p, that exit is still to come.
Sealed(i, p, n) ==
    \/ Lives(p) /\ inc[p] = n
    \/ \E j \in DOMAIN queue : i < j /\ LeaderExit(queue[j], p) /\ queue[j].inc = n

SealedInv ==
    ~orphaned /\ Heard =>
        \A i \in DOMAIN queue, p \in Pids, n \in Nat :
            queue[i].tgid = p /\ queue[i].inc = n /\ ~LeaderExit(queue[i], p) => Sealed(i, p, n)

LEMMA SealedPushed ==
    ASSUME KernelInv, Queues, Survives, Sends, SealedInv
    PROVE  SealedInv'
<1> SUFFICES ASSUME ~orphaned', Heard', NEW i \in DOMAIN queue', NEW p \in Pids, NEW n \in Nat,
                    queue'[i].tgid = p, queue'[i].inc = n, ~LeaderExit(queue'[i], p)
             PROVE  Sealed(i, p, n)'
  BY DEF SealedInv
<1>1. ~orphaned /\ Heard /\ dropped' = dropped
  BY DEF Survives, Sends
<1>2. CASE i \in DOMAIN queue
  <2>1. queue'[i] = queue[i] /\ Sealed(i, p, n)
    BY <1>1, <1>2, Pushed DEF SealedInv
  <2>2. CASE Lives(p) /\ inc[p] = n
    <3>1. CASE Lives(p)' /\ inc'[p] = inc[p]
      BY <2>2, <3>1 DEF Sealed
    <3>2. CASE \E y \in New : LeaderExit(y, p) /\ y.inc = inc[p]
      <4>1. PICK y \in New : LeaderExit(y, p) /\ y.inc = n
        BY <2>2, <3>2
      <4>2. PICK m \in Nat : m \in DOMAIN queue' /\ queue'[m] = y /\ i < m
        BY <1>2, <4>1, PushedLast
      <4>3. QED BY <4>1, <4>2 DEF Sealed
    <3>3. QED BY <1>1, <2>2, <3>1, <3>2 DEF Survives
  <2>3. CASE \E j \in DOMAIN queue : i < j /\ LeaderExit(queue[j], p) /\ queue[j].inc = n
    BY <2>3, Pushed DEF Sealed
  <2>4. QED BY <2>1, <2>2, <2>3 DEF Sealed
<1>3. CASE i \notin DOMAIN queue
  <2>1. PICK x \in New : x = queue'[i] /\ x.inc = inc'[x.tgid]
    BY <1>3, PushedNew
  <2>2. Lives(p)' /\ inc'[p] = n
    BY <1>1, <2>1 DEF Survives
  <2>3. QED BY <2>2 DEF Sealed
<1>4. QED BY <1>2, <1>3

LEMMA SealedPopped ==
    ASSUME KernelInv, NEW n \in DOMAIN queue, Popped(n), kernel' = kernel, dropped' = dropped,
           SealedInv
    PROVE  SealedInv'
<1> SUFFICES ASSUME ~orphaned', Heard', NEW i \in DOMAIN queue', NEW p \in Pids, NEW v \in Nat,
                    queue'[i].tgid = p, queue'[i].inc = v, ~LeaderExit(queue'[i], p)
             PROVE  Sealed(i, p, v)'
  BY DEF SealedInv
<1>1. UNCHANGED <<orphaned, group, zombie, inc>> /\ Heard /\ Alone(n)
  BY Takes DEF kernel
<1>2. Up(n, i) \in DOMAIN queue /\ queue'[i] = queue[Up(n, i)]
  BY MovedUp
<1>3. Sealed(Up(n, i), p, v)
  BY <1>1, <1>2 DEF SealedInv
<1>4. CASE Lives(p) /\ inc[p] = v
  BY <1>1, <1>4 DEF Lives, Sealed
<1>5. ASSUME NEW j \in DOMAIN queue, Up(n, i) < j, LeaderExit(queue[j], p), queue[j].inc = v
      PROVE  Sealed(i, p, v)'
  <2>1. j # n
    BY <1>1, <1>2, <1>5 DEF Alone, Related, LeaderExit
  <2>2. PICK k \in DOMAIN queue' : j = Up(n, k) /\ queue'[k] = queue[j]
    BY <2>1, MovedUp
  <2>3. i < k
    BY <1>5, <2>2, MovedUp
  <2>4. QED BY <1>5, <2>2, <2>3 DEF Sealed
<1>6. QED BY <1>3, <1>4, <1>5 DEF Sealed

\* The service will still hear of the end of p.
Owed(p) == Lives(p) \/ \E i \in DOMAIN queue : LeaderExit(queue[i], p)

\* What is remembered of a process will be forgotten.
KeptInv == ~orphaned /\ Heard => \A p \in Pids : Kept(p) => Owed(p)

LEMMA KeptPushed ==
    ASSUME KernelInv, Queues, Survives, Sends, UNCHANGED service,
           KeptInv
    PROVE  KeptInv'
<1> SUFFICES ASSUME ~orphaned', Heard', NEW p \in Pids, Kept(p)'
             PROVE  Owed(p)'
  BY DEF KeptInv
<1>1. ~orphaned /\ Heard /\ dropped' = dropped
  BY DEF Survives, Sends
<1>2. Owed(p)
  BY <1>1 DEF KeptInv, Kept, service, Attempt
<1>3. CASE \E i \in DOMAIN queue : LeaderExit(queue[i], p)
  BY <1>3, Pushed DEF Owed
<1>4. CASE Lives(p)
  <2>1. CASE Lives(p)'
    BY <2>1 DEF Owed
  <2>2. ASSUME NEW y \in New, LeaderExit(y, p) PROVE Owed(p)'
    BY <2>2, Pushed DEF Owed
  <2>3. QED BY <1>1, <1>4, <2>1, <2>2 DEF Survives
<1>5. QED BY <1>2, <1>3, <1>4 DEF Owed

LEMMA KeptPopped ==
    ASSUME KernelInv, NEW n \in DOMAIN queue, Popped(n), kernel' = kernel, dropped' = dropped,
           Keeps(queue[n]), SealedInv, KeptInv
    PROVE  KeptInv'
<1> SUFFICES ASSUME ~orphaned', Heard', NEW p \in Pids, Kept(p)'
             PROVE  Owed(p)'
  BY DEF KeptInv
<1>1. ~orphaned /\ Heard /\ UNCHANGED <<group, zombie>>
  BY Takes DEF kernel
<1>2. ~LeaderExit(queue[n], p) /\ (Kept(p) \/ queue[n].tgid = p)
  BY DEF Keeps
<1>3. ASSUME NEW j \in DOMAIN queue, j # n, LeaderExit(queue[j], p) PROVE Owed(p)'
  BY <1>3, MovedUp DEF Owed
<1>4. CASE Lives(p)
  BY <1>1, <1>4 DEF Lives, Owed
<1>5. CASE Kept(p)
  BY <1>1, <1>2, <1>3, <1>4, <1>5 DEF KeptInv, Owed
<1>6. CASE queue[n].tgid = p
  <2>1. queue[n].inc \in Nat /\ n \in Nat
    BY MovedUp, Positions, SampleFields
  <2>2. Sealed(n, p, queue[n].inc)
    BY <1>1, <1>2, <1>6, <2>1 DEF SealedInv
  <2>3. \A j \in DOMAIN queue : n < j => j # n
    BY <2>1
  <2>4. QED BY <1>3, <1>4, <2>2, <2>3 DEF Sealed
<1>7. QED BY <1>2, <1>5, <1>6

LEMMA KeptSays ==
    ASSUME TypeInv, KeptInv
    PROVE  NothingKept
<1> SUFFICES ASSUME ~orphaned, Heard, Quiet
             PROVE  /\ known = {}
                    /\ \A t \in Tids :
                          {pendingOpen[t], pendingDup[t], pendingWrite[t]} = {NoAttempt}
                    /\ \A k \in Pids \X Fds : openFiles[k] = NoState
                    /\ \A k \in Keys : recentFileSaves[k] = Absent
  BY DEF NothingKept
<1>1. ASSUME NEW p \in Pids PROVE ~Kept(p)
  <2>1. group[p] = 0 /\ p # 0 /\ queue = <<>>
    BY Numbers DEF Quiet, Free
  <2>2. ~Owed(p)
    BY <2>1 DEF Owed, Lives
  <2>3. QED BY <2>2 DEF KeptInv
<1>2. known = {}
  BY <1>1 DEF Kept, TypeInv, ServiceTypes
<1>3. ASSUME NEW t \in Tids, NEW o \in Ops PROVE Attempt(o, t) = NoAttempt
  <2>1. Attempt(o, t) # NoAttempt => Attempt(o, t).tgid \in Pids
    BY AttemptTypes DEF Attempt, Ops, TypeInv
  <2>2. QED BY <1>1, <2>1 DEF Kept
<1>4. \A t \in Tids : {pendingOpen[t], pendingDup[t], pendingWrite[t]} = {NoAttempt}
  BY <1>3 DEF Attempt, Ops
<1>5. \A k \in Pids \X Fds : openFiles[k] = NoState
  BY <1>1 DEF Kept
<1>6. \A k \in Keys : recentFileSaves[k] = Absent
  <2>1. \A p \in Pids, path \in Paths : recentFileSaves[<<p, path>>] = Absent
    BY <1>1 DEF Kept
  <2>2. Keys = Pids \X Paths
    BY FileAssumption DEF Keys, FileAssumption
  <2>3. QED BY <2>1, <2>2
<1>7. QED BY <1>2, <1>4, <1>5, <1>6

-----------------------------------------------------------------------------
(* Enter and result.                                                       *)

Seen(x, o, t) == Enters(x, o, t) \/ Results(x, o, t)

\* The result that waits at j is that of the enter sample before it, or of the
\* attempt remembered when none waits before it.
ResultPaired(j, o, t) ==
    Results(queue[j], o, t) =>
        /\ \A i \in DOMAIN queue :
              /\ i < j /\ Enters(queue[i], o, t)
              /\ \A k \in DOMAIN queue : i < k /\ k < j => ~Results(queue[k], o, t)
              => FitsResult(o, Made(o, queue[i]), queue[j], had)
        /\ (\A i \in DOMAIN queue : i < j => ~Seen(queue[i], o, t)) =>
              Attempt(o, t) = NoAttempt \/ FitsResult(o, Attempt(o, t), queue[j], had)

\* An enter sample at i, and an attempt, without a result after them are those
\* of the call the thread is in.
EnterPaired(i, o, t) ==
    Enters(queue[i], o, t) /\ (\A k \in DOMAIN queue : k > i => ~Results(queue[k], o, t))
        => call[t].op = o /\ FitsCall(o, Made(o, queue[i]), call[t], group[t])

AttemptPaired(o, t) ==
    (\A i \in DOMAIN queue : ~Seen(queue[i], o, t)) =>
        Attempt(o, t) = NoAttempt \/ (call[t].op = o /\ FitsCall(o, Attempt(o, t), call[t], group[t]))

PairInv ==
    Heard => \A o \in Ops, t \in Tids :
        /\ \A j \in DOMAIN queue : ResultPaired(j, o, t) /\ EnterPaired(j, o, t)
        /\ AttemptPaired(o, t)

\* What was opened stays on record.
LEMMA StillFits ==
    ASSUME had \subseteq had', NEW o, NEW a, NEW x, FitsResult(o, a, x, had)
    PROVE  FitsResult(o, a, x, had')
BY DEF FitsResult

LEMMA ResultStaysPaired ==
    ASSUME KernelInv, Queues, had \subseteq had', UNCHANGED service,
           NEW o \in Ops, NEW t \in Tids, NEW j \in DOMAIN queue, ResultPaired(j, o, t)
    PROVE  ResultPaired(j, o, t)'
<1>1. /\ \A i \in DOMAIN queue : i \in DOMAIN queue' /\ queue'[i] = queue[i]
      /\ \A i \in DOMAIN queue' : i < j => i \in DOMAIN queue
  BY Pushed
<1>2. Attempt(o, t)' = Attempt(o, t)
  BY DEF service, Attempt
<1>3. SUFFICES ASSUME Results(queue[j], o, t)
               PROVE  /\ \A i \in DOMAIN queue' :
                            /\ i < j /\ Enters(queue'[i], o, t)
                            /\ \A k \in DOMAIN queue' : i < k /\ k < j => ~Results(queue'[k], o, t)
                            => FitsResult(o, Made(o, queue'[i]), queue[j], had')
                      /\ (\A i \in DOMAIN queue' : i < j => ~Seen(queue'[i], o, t)) =>
                            \/ Attempt(o, t) = NoAttempt
                            \/ FitsResult(o, Attempt(o, t), queue[j], had')
  BY <1>1, <1>2 DEF ResultPaired
<1>4. ASSUME NEW i \in DOMAIN queue', i < j, Enters(queue'[i], o, t),
             \A k \in DOMAIN queue' : i < k /\ k < j => ~Results(queue'[k], o, t)
      PROVE  FitsResult(o, Made(o, queue'[i]), queue[j], had')
  <2>1. i \in DOMAIN queue /\ queue'[i] = queue[i]
    BY <1>1, <1>4
  <2>2. \A k \in DOMAIN queue : i < k /\ k < j => ~Results(queue[k], o, t)
    BY <1>1, <1>4
  <2>3. FitsResult(o, Made(o, queue[i]), queue[j], had)
    BY <1>3, <1>4, <2>1, <2>2 DEF ResultPaired
  <2>4. QED BY <2>1, <2>3, StillFits
<1>5. ASSUME \A i \in DOMAIN queue' : i < j => ~Seen(queue'[i], o, t)
      PROVE  \/ Attempt(o, t) = NoAttempt
             \/ FitsResult(o, Attempt(o, t), queue[j], had')
  <2>1. \A i \in DOMAIN queue : i < j => ~Seen(queue[i], o, t)
    BY <1>1, <1>5
  <2>2. QED BY <1>3, <2>1, StillFits DEF ResultPaired
<1>6. QED BY <1>4, <1>5

\* No sample of a call of t comes, and t goes on with what it did; or it enters
\* a call that is not seen.
LEMMA PairedUnseen ==
    ASSUME KernelInv, Queues, UNCHANGED service, NEW o \in Ops, NEW t \in Tids,
           \A i \in DOMAIN queue : EnterPaired(i, o, t), AttemptPaired(o, t),
           \A x \in New : ~Seen(x, o, t),
           call[t].op = o => call'[t] = call[t] /\ group'[t] = group[t]
    PROVE  (\A i \in DOMAIN queue' : EnterPaired(i, o, t)') /\ AttemptPaired(o, t)'
<1>1. /\ \A i \in DOMAIN queue : i \in DOMAIN queue' /\ queue'[i] = queue[i]
      /\ \A i \in DOMAIN queue' : Seen(queue'[i], o, t) => i \in DOMAIN queue
  BY Pushed
<1>2. Attempt(o, t)' = Attempt(o, t)
  BY DEF service, Attempt
<1>3. ASSUME NEW i \in DOMAIN queue', Enters(queue'[i], o, t),
             \A n \in DOMAIN queue' : n > i => ~Results(queue'[n], o, t)
      PROVE  call'[t].op = o /\ FitsCall(o, Made(o, queue'[i]), call'[t], group'[t])
  <2>1. /\ i \in DOMAIN queue /\ queue'[i] = queue[i]
        /\ \A n \in DOMAIN queue : n > i => ~Results(queue[n], o, t)
    BY <1>1, <1>3 DEF Seen
  <2>2. call[t].op = o /\ FitsCall(o, Made(o, queue[i]), call[t], group[t])
    BY <1>3, <2>1 DEF EnterPaired
  <2>3. QED BY <2>1, <2>2
<1>4. ASSUME \A i \in DOMAIN queue' : ~Seen(queue'[i], o, t), Attempt(o, t) # NoAttempt
      PROVE  call'[t].op = o /\ FitsCall(o, Attempt(o, t), call'[t], group'[t])
  <2>1. \A i \in DOMAIN queue : ~Seen(queue[i], o, t)
    BY <1>1, <1>4
  <2>2. QED BY <1>4, <2>1 DEF AttemptPaired
<1>5. QED BY <1>2, <1>3, <1>4 DEF EnterPaired, AttemptPaired

LEMMA PairedEnter ==
    ASSUME KernelInv, Queues, UNCHANGED service, NEW o \in Ops, NEW t \in Tids,
           \A i \in DOMAIN queue : EnterPaired(i, o, t),
           NEW x \in New, Enters(x, o, t), call[t].op # o, call'[t].op = o,
           FitsCall(o, Made(o, x), call'[t], group'[t])
    PROVE  (\A i \in DOMAIN queue' : EnterPaired(i, o, t)') /\ AttemptPaired(o, t)'
<1>1. PICK m \in Nat : /\ m = Len(queue) + 1 /\ queue'[m] = x /\ m \in DOMAIN queue'
                        /\ DOMAIN queue' = DOMAIN queue \cup {m}
  BY PushedLast
<1>2. /\ queue'[m] = x /\ m \in DOMAIN queue' /\ DOMAIN queue' = DOMAIN queue \cup {m}
      /\ \A i \in DOMAIN queue : i \in DOMAIN queue' /\ queue'[i] = queue[i]
  BY <1>1, Pushed
<1>3. ASSUME NEW i \in DOMAIN queue', Enters(queue'[i], o, t),
             \A n \in DOMAIN queue' : n > i => ~Results(queue'[n], o, t)
      PROVE  call'[t].op = o /\ FitsCall(o, Made(o, queue'[i]), call'[t], group'[t])
  <2>1. CASE i \in DOMAIN queue
    BY <1>2, <1>3, <2>1 DEF EnterPaired
  <2>2. CASE i = m
    BY <1>2, <2>2
  <2>3. QED BY <1>2, <2>1, <2>2
<1>4. QED BY <1>2, <1>3 DEF EnterPaired, AttemptPaired, Seen

LEMMA PairedResult ==
    ASSUME KernelInv, Queues, had \subseteq had', UNCHANGED service, NEW o \in Ops, NEW t \in Tids,
           \A i \in DOMAIN queue : EnterPaired(i, o, t), AttemptPaired(o, t),
           NEW x \in New, Results(x, o, t), call[t].op = o,
           \A a : FitsCall(o, a, call[t], group[t]) => FitsResult(o, a, x, had')
    PROVE  /\ \A i \in DOMAIN queue' : EnterPaired(i, o, t)'
           /\ AttemptPaired(o, t)'
           /\ \A j \in DOMAIN queue' : j \notin DOMAIN queue => ResultPaired(j, o, t)'
<1>1. PICK m \in Nat : /\ m = Len(queue) + 1 /\ queue'[m] = x /\ m \in DOMAIN queue'
                        /\ DOMAIN queue' = DOMAIN queue \cup {m}
                        /\ DOMAIN queue = 1 .. m - 1 /\ \A i \in DOMAIN queue : i < m
  BY PushedLast
<1>2. /\ queue'[m] = x /\ m \in DOMAIN queue' /\ DOMAIN queue' = DOMAIN queue \cup {m}
      /\ \A i \in DOMAIN queue : i < m /\ i \in DOMAIN queue' /\ queue'[i] = queue[i]
      /\ DOMAIN queue = 1 .. m - 1
  BY <1>1, Pushed
<1>3. Attempt(o, t)' = Attempt(o, t) /\ ~Enters(x, o, t)
  BY DEF service, Attempt, Enters, Results, Enter, Result, Ops
<1>4. \A i \in DOMAIN queue' : EnterPaired(i, o, t)'
  BY <1>2, <1>3 DEF EnterPaired
<1>5. AttemptPaired(o, t)'
  BY <1>2 DEF AttemptPaired, Seen
<1>6. ASSUME NEW i \in DOMAIN queue', i < m, Enters(queue'[i], o, t),
             \A k \in DOMAIN queue' : i < k /\ k < m => ~Results(queue'[k], o, t)
      PROVE  FitsResult(o, Made(o, queue'[i]), x, had')
  <2>1. i \in DOMAIN queue /\ queue'[i] = queue[i]
    BY <1>2, <1>6
  <2>2. \A k \in DOMAIN queue : k > i => ~Results(queue[k], o, t)
    BY <1>2, <1>6
  <2>3. FitsCall(o, Made(o, queue[i]), call[t], group[t])
    BY <1>6, <2>1, <2>2 DEF EnterPaired
  <2>4. QED BY <2>1, <2>3
<1>7. ASSUME \A i \in DOMAIN queue' : i < m => ~Seen(queue'[i], o, t), Attempt(o, t) # NoAttempt
      PROVE  FitsResult(o, Attempt(o, t), x, had')
  <2>1. \A i \in DOMAIN queue : ~Seen(queue[i], o, t)
    BY <1>2, <1>7
  <2>2. QED BY <1>7, <2>1 DEF AttemptPaired
<1>8. ResultPaired(m, o, t)'
  BY <1>2, <1>3, <1>6, <1>7 DEF ResultPaired
<1>9. QED BY <1>2, <1>4, <1>5, <1>8

LEMMA PairPushed ==
    ASSUME KernelInv, Sends, Life, UNCHANGED service, PairInv
    PROVE  PairInv'
<1> SUFFICES ASSUME Heard', NEW o \in Ops, NEW t \in Tids
             PROVE  /\ \A j \in DOMAIN queue' : ResultPaired(j, o, t)' /\ EnterPaired(j, o, t)'
                    /\ AttemptPaired(o, t)'
  BY DEF PairInv
<1>1. /\ Heard /\ dropped' = dropped /\ Queues /\ had \subseteq had'
      /\ Proceeds(o, t)
  BY DEF Life, Tables, Sends
<1>2. (\A j \in DOMAIN queue : ResultPaired(j, o, t) /\ EnterPaired(j, o, t)) /\ AttemptPaired(o, t)
  BY <1>1 DEF PairInv
<1>3. \A j \in DOMAIN queue : ResultPaired(j, o, t)'
  BY <1>1, <1>2, ResultStaysPaired
<1>4. ASSUME NEW j \in DOMAIN queue', j \notin DOMAIN queue
      PROVE  \E x \in New : x = queue'[j]
  BY <1>1, <1>4, PushedNew
<1>5. CASE /\ \A x \in New : ~Enters(x, o, t) /\ ~Results(x, o, t)
           /\ call[t].op = o => call'[t] = call[t] /\ group'[t] = group[t]
  <2>1. \A x \in New : ~Seen(x, o, t)
    BY <1>5 DEF Seen
  <2>2. (\A i \in DOMAIN queue' : EnterPaired(i, o, t)') /\ AttemptPaired(o, t)'
    BY <1>1, <1>2, <1>5, <2>1, PairedUnseen
  <2>3. \A j \in DOMAIN queue' : j \notin DOMAIN queue => ResultPaired(j, o, t)'
    BY <1>4, <2>1 DEF ResultPaired, Seen
  <2>4. QED BY <1>3, <2>2, <2>3
<1>6. ASSUME NEW x \in New, Enters(x, o, t), call[t].op # o, call'[t].op = o,
             FitsCall(o, Made(o, x), call'[t], group'[t])
      PROVE  /\ \A j \in DOMAIN queue' : ResultPaired(j, o, t)' /\ EnterPaired(j, o, t)'
             /\ AttemptPaired(o, t)'
  <2>1. (\A i \in DOMAIN queue' : EnterPaired(i, o, t)') /\ AttemptPaired(o, t)'
    BY <1>1, <1>2, <1>6, PairedEnter
  <2>2. New = {x}
    BY <1>1, PushedLast
  <2>3. ~Results(x, o, t)
    BY <1>6 DEF Enters, Results, Enter, Result, Ops
  <2>4. \A j \in DOMAIN queue' : j \notin DOMAIN queue => ResultPaired(j, o, t)'
    BY <1>4, <2>2, <2>3 DEF ResultPaired
  <2>5. QED BY <1>3, <2>1, <2>4
<1>7. ASSUME NEW x \in New, Results(x, o, t), call[t].op = o,
             \A a : FitsCall(o, a, call[t], group[t]) => FitsResult(o, a, x, had')
      PROVE  /\ \A j \in DOMAIN queue' : ResultPaired(j, o, t)' /\ EnterPaired(j, o, t)'
             /\ AttemptPaired(o, t)'
  <2>1. /\ \A i \in DOMAIN queue' : EnterPaired(i, o, t)'
        /\ AttemptPaired(o, t)'
        /\ \A j \in DOMAIN queue' : j \notin DOMAIN queue => ResultPaired(j, o, t)'
    BY <1>1, <1>2, <1>7, PairedResult
  <2>2. QED BY <1>3, <2>1
<1>8. QED BY <1>1, <1>5, <1>6, <1>7 DEF Proceeds

\* When the sample at n is taken with none before it that has to do with it, no
\* sample of the same calls is left before it.
LEMMA SeenLater ==
    ASSUME NEW n \in DOMAIN queue, Alone(n), NEW o, NEW t, Seen(queue[n], o, t),
           NEW k \in DOMAIN queue, Seen(queue[k], o, t), KernelInv
    PROVE  ~(k < n)
BY DEF Alone, Related, Seen, Enters, Results

\* The samples between two of those left, and those after one, were there
\* before, but for the one that is taken.
LEMMA Between ==
    ASSUME KernelInv, NEW n \in DOMAIN queue, Popped(n), NEW i \in DOMAIN queue',
           NEW j \in DOMAIN queue', NEW k \in DOMAIN queue, k # n
    PROVE  \E l \in DOMAIN queue' : /\ queue'[l] = queue[k]
                                    /\ Up(n, i) < k => i < l
                                    /\ k < Up(n, j) => l < j
<1>1. PICK l \in DOMAIN queue' : k = Up(n, l) /\ queue'[l] = queue[k]
  BY MovedUp
<1>2. QED BY <1>1, MovedUp

LEMMA ResultPopped ==
    ASSUME KernelInv, NEW n \in DOMAIN queue, Popped(n), Alone(n), had' = had,
           NEW o \in Ops, NEW t \in Tids, NEW j \in DOMAIN queue',
           \/ Enters(queue[n], o, t) /\ Attempt(o, t)' = Made(o, queue[n])
           \/ Results(queue[n], o, t) /\ Attempt(o, t)' = NoAttempt
           \/ ~Seen(queue[n], o, t) /\ Attempt(o, t)' \in {Attempt(o, t), NoAttempt},
           ResultPaired(Up(n, j), o, t)
    PROVE  ResultPaired(j, o, t)'
<1>1. PICK m \in DOMAIN queue : m = Up(n, j) /\ m # n /\ queue'[j] = queue[m]
  BY MovedUp
<1>2. m \in Nat /\ n \in Nat
  BY Positions
<1>3. SUFFICES ASSUME Results(queue[m], o, t)
               PROVE  /\ \A i \in DOMAIN queue' :
                            /\ i < j /\ Enters(queue'[i], o, t)
                            /\ \A k \in DOMAIN queue' : i < k /\ k < j => ~Results(queue'[k], o, t)
                            => FitsResult(o, Made(o, queue'[i]), queue[m], had)
                      /\ (\A i \in DOMAIN queue' : i < j => ~Seen(queue'[i], o, t)) =>
                            \/ Attempt(o, t)' = NoAttempt
                            \/ FitsResult(o, Attempt(o, t)', queue[m], had)
  BY <1>1 DEF ResultPaired
<1>4. ASSUME NEW i \in DOMAIN queue', i < j, Enters(queue'[i], o, t),
             \A k \in DOMAIN queue' : i < k /\ k < j => ~Results(queue'[k], o, t)
      PROVE  FitsResult(o, Made(o, queue'[i]), queue[m], had)
  <2>1. PICK l \in DOMAIN queue : l = Up(n, i) /\ l # n /\ queue'[i] = queue[l] /\ l < m
    BY <1>1, <1>4, MovedUp
  <2>2. ASSUME NEW k \in DOMAIN queue, l < k, k < m PROVE ~Results(queue[k], o, t)
    <3>1. CASE k = n
      BY <1>4, <2>1, <2>2, <3>1, SeenLater DEF Seen
    <3>2. CASE k # n
      BY <1>1, <1>4, <2>1, <2>2, <3>2, Between
    <3>3. QED BY <3>1, <3>2
  <2>3. QED BY <1>1, <1>3, <1>4, <2>1, <2>2 DEF ResultPaired
<1>5. ASSUME \A i \in DOMAIN queue' : i < j => ~Seen(queue'[i], o, t), Attempt(o, t)' # NoAttempt
      PROVE  FitsResult(o, Attempt(o, t)', queue[m], had)
  <2>1. ASSUME NEW k \in DOMAIN queue, k # n, k < m PROVE ~Seen(queue[k], o, t)
    BY <1>1, <1>5, <2>1, Between
  <2>2. CASE Enters(queue[n], o, t) /\ Attempt(o, t)' = Made(o, queue[n])
    <3>1. n < m
      <4>1. ~(m < n)
        BY <1>3, <2>2, SeenLater DEF Seen
      <4>2. QED BY <1>1, <1>2, <4>1
    <3>2. \A k \in DOMAIN queue : n < k /\ k < m => ~Results(queue[k], o, t)
      BY <1>2, <2>1 DEF Seen
    <3>3. QED BY <1>1, <1>3, <2>2, <3>1, <3>2 DEF ResultPaired
  <2>3. CASE ~Seen(queue[n], o, t) /\ Attempt(o, t)' = Attempt(o, t)
    <3>1. \A k \in DOMAIN queue : k < m => ~Seen(queue[k], o, t)
      BY <2>1, <2>3
    <3>2. QED BY <1>1, <1>3, <1>5, <2>3, <3>1 DEF ResultPaired
  <2>4. QED BY <1>5, <2>2, <2>3
<1>6. QED BY <1>4, <1>5

LEMMA PairPopped ==
    ASSUME KernelInv, NEW n \in DOMAIN queue, Popped(n), kernel' = kernel, dropped' = dropped,
           Turns(queue[n]), PairInv
    PROVE  PairInv'
<1> SUFFICES ASSUME Heard', NEW o \in Ops, NEW t \in Tids
             PROVE  /\ \A j \in DOMAIN queue' : ResultPaired(j, o, t)' /\ EnterPaired(j, o, t)'
                    /\ AttemptPaired(o, t)'
  BY DEF PairInv
<1>1. Heard /\ Alone(n) /\ UNCHANGED <<call, group, had>>
  BY Takes DEF kernel
<1>2. (\A j \in DOMAIN queue : ResultPaired(j, o, t) /\ EnterPaired(j, o, t)) /\ AttemptPaired(o, t)
  BY <1>1 DEF PairInv
<1>3. \A i \in DOMAIN queue' : /\ Up(n, i) \in DOMAIN queue /\ Up(n, i) # n
                               /\ queue'[i] = queue[Up(n, i)]
  BY MovedUp
<1>4. \/ Enters(queue[n], o, t) /\ Attempt(o, t)' = Made(o, queue[n])
      \/ Results(queue[n], o, t) /\ Attempt(o, t)' = NoAttempt
      \/ ~Seen(queue[n], o, t) /\ Attempt(o, t)' \in {Attempt(o, t), NoAttempt}
  BY DEF Turns, Seen
<1>5. \A j \in DOMAIN queue' : ResultPaired(j, o, t)'
  BY <1>1, <1>2, <1>3, <1>4, ResultPopped
<1>6. ASSUME NEW i \in DOMAIN queue', Enters(queue'[i], o, t),
             \A k \in DOMAIN queue' : k > i => ~Results(queue'[k], o, t)
      PROVE  call[t].op = o /\ FitsCall(o, Made(o, queue'[i]), call[t], group[t])
  <2>1. PICK l \in DOMAIN queue : l = Up(n, i) /\ queue'[i] = queue[l] /\ l \in Nat
    BY <1>3, Positions
  <2>2. ASSUME NEW k \in DOMAIN queue, k > l PROVE ~Results(queue[k], o, t)
    <3>0. l < k /\ k \in Nat
      BY <2>1, <2>2, Positions
    <3>1. CASE k = n
      BY <1>1, <1>6, <2>1, <3>0, <3>1, SeenLater DEF Seen
    <3>2. CASE k # n
      <4>1. PICK m \in DOMAIN queue' : queue'[m] = queue[k] /\ i < m
        BY <2>1, <3>0, <3>2, Between
      <4>2. QED BY <1>6, <4>1
    <3>3. QED BY <3>1, <3>2
  <2>3. QED BY <1>2, <1>6, <2>1, <2>2 DEF EnterPaired
<1>7. \A i \in DOMAIN queue' : EnterPaired(i, o, t)'
  BY <1>1, <1>6 DEF EnterPaired
<1>8. ASSUME \A i \in DOMAIN queue' : ~Seen(queue'[i], o, t), Attempt(o, t)' # NoAttempt
      PROVE  call[t].op = o /\ FitsCall(o, Attempt(o, t)', call[t], group[t])
  <2>1. \A k \in DOMAIN queue : k # n => ~Seen(queue[k], o, t)
    BY <1>8, MovedUp
  <2>2. CASE Enters(queue[n], o, t) /\ Attempt(o, t)' = Made(o, queue[n])
    <3>1. \A k \in DOMAIN queue : k > n => ~Results(queue[k], o, t)
      BY <2>1, Positions DEF Seen
    <3>2. QED BY <1>2, <2>2, <3>1 DEF EnterPaired
  <2>3. CASE ~Seen(queue[n], o, t) /\ Attempt(o, t)' = Attempt(o, t)
    BY <1>2, <1>8, <2>1, <2>3 DEF AttemptPaired
  <2>4. QED BY <1>4, <1>8, <2>2, <2>3
<1>9. AttemptPaired(o, t)'
  BY <1>1, <1>8 DEF AttemptPaired
<1>10. QED BY <1>5, <1>7, <1>9

-----------------------------------------------------------------------------
(* What is believed open.                                                  *)

\* No exit of an earlier process p waits.
Clean(p) == \A i \in DOMAIN queue : LeaderExit(queue[i], p) => queue[i].inc = inc[p]

OwnFile(p, path) == \E h \in had : h.pid = p /\ h.inc = inc[p] /\ h.entry.file.path = path

OwnInv ==
    ~orphaned /\ Heard =>
        \A p \in Pids, d \in Fds :
            group[p] = p /\ Clean(p) /\ openFiles[<<p, d>>] # NoState
                => OwnFile(p, openFiles[<<p, d>>].path)

LEMMA OwnPushed ==
    ASSUME KernelInv, Queues, Tables, Survives, Sends,
           UNCHANGED service, QueueOK, KeptInv, OwnInv
    PROVE  OwnInv'
<1> SUFFICES ASSUME ~orphaned', Heard', NEW p \in Pids, NEW d \in Fds, group'[p] = p,
                    Clean(p)', openFiles'[<<p, d>>] # NoState
             PROVE  OwnFile(p, openFiles[<<p, d>>].path)'
  BY DEF OwnInv
<1>1. ~orphaned /\ Heard /\ openFiles' = openFiles /\ had \subseteq had'
  BY DEF Survives, Tables, service, Sends
<1>2. CASE inc'[p] = inc[p] /\ group[p] = p
  <2>1. Clean(p)
    BY <1>2, Pushed DEF Clean
  <2>2. PICK path : path = openFiles[<<p, d>>].path
    OBVIOUS
  <2>3. OwnFile(p, path)
    BY <1>1, <1>2, <2>1, <2>2 DEF OwnInv
  <2>4. OwnFile(p, path)'
    BY <1>1, <1>2, <2>3 DEF OwnFile
  <2>5. QED BY <1>1, <2>2, <2>4
<1>3. CASE inc'[p] = inc[p] + 1 /\ group[p] = 0
  <2>1. Owed(p)
    BY <1>1 DEF KeptInv, Kept
  <2>2. PICK i \in DOMAIN queue : LeaderExit(queue[i], p)
    BY <1>3, <2>1, Numbers DEF Owed, Lives
  <2>3. queue[i].inc = inc'[p]
    BY <2>2, Pushed DEF Clean
  <2>4. queue[i].inc <= inc[p] /\ inc[p] \in Nat
    BY <2>2 DEF QueueOK, LeaderExit, KernelInv, KernelTypes
  <2>5. QED BY <1>3, <2>3, <2>4
<1>4. QED BY <1>2, <1>3 DEF Survives

\* When no later exit is that of another process p, a sample of p that is no exit
\* is one of the process that has the id.
LEMMA TakenIsNow ==
    ASSUME KernelInv, NEW n \in DOMAIN queue, ~orphaned, Heard, SealedInv, NEW p \in Pids,
           queue[n].tgid = p, ~LeaderExit(queue[n], p), Clean(p)
    PROVE  queue[n].inc = inc[p]
<1>1. queue[n].inc \in Nat
  BY Positions, SampleFields
<1>2. Sealed(n, p, queue[n].inc)
  BY <1>1 DEF SealedInv
<1>3. QED BY <1>2 DEF Sealed, Clean

\* The attempt that a result ends is that of the same call.
LEMMA TakenFits ==
    ASSUME KernelInv, NEW n \in DOMAIN queue, Alone(n), Heard, PairInv, NEW o \in Ops, NEW t \in Tids,
           Results(queue[n], o, t), Attempt(o, t) # NoAttempt
    PROVE  FitsResult(o, Attempt(o, t), queue[n], had)
<1>1. ResultPaired(n, o, t)
  BY DEF PairInv
<1>2. \A i \in DOMAIN queue : i < n => ~Seen(queue[i], o, t)
  BY SeenLater DEF Seen
<1>3. QED BY <1>1, <1>2 DEF ResultPaired

LEMMA OwnPopped ==
    ASSUME KernelInv, NEW n \in DOMAIN queue, Popped(n), kernel' = kernel, dropped' = dropped,
           Believes(queue[n]), HeldOK, SealedInv, PairInv, OwnInv
    PROVE  OwnInv'
<1> SUFFICES ASSUME ~orphaned', Heard', NEW p \in Pids, NEW d \in Fds, group'[p] = p,
                    Clean(p)', openFiles'[<<p, d>>] # NoState
             PROVE  OwnFile(p, openFiles[<<p, d>>].path)'
  BY DEF OwnInv
<1>1. /\ ~orphaned /\ Heard /\ Alone(n) /\ UNCHANGED <<group, zombie, inc, had>> /\ group[p] = p
  BY Takes DEF kernel
<1>2. PICK s, h : s = openFiles'[<<p, d>>] /\ s # NoState /\ h = queue[n]
  OBVIOUS
<1>3. ~LeaderExit(h, p) => Clean(p)
  <2>1. ASSUME NEW i \in DOMAIN queue, i # n, LeaderExit(queue[i], p) PROVE queue[i].inc = inc[p]
    BY <1>1, <2>1, MovedUp DEF Clean
  <2>2. QED BY <1>2, <2>1 DEF Clean
<1>4. SUFFICES OwnFile(p, s.path)
  BY <1>1, <1>2 DEF OwnFile
<1>5. ASSUME NEW e \in Fds, s = openFiles[<<p, e>>], ~LeaderExit(h, p)
      PROVE  OwnFile(p, s.path)
  BY <1>1, <1>2, <1>3, <1>5 DEF OwnInv
<1>6. ASSUME Lives(p), NEW e \in Fds, fdt[p][e] # Closed, s.path = fdt[p][e].file.path
      PROVE  OwnFile(p, s.path)
  <2>1. PICK g : g = [pid |-> p, inc |-> inc[p], fd |-> e, entry |-> fdt[p][e]]
    OBVIOUS
  <2>2. g \in had /\ g.pid = p /\ g.inc = inc[p] /\ g.entry = fdt[p][e]
    BY <1>6, <2>1 DEF HeldOK
  <2>3. QED BY <1>6, <2>2 DEF OwnFile
<1>7. ASSUME h.type = "OpenResult", h.a >= 0, h.tid \in Tids,
             pendingOpen[h.tid] # NoAttempt, p = h.tgid, s.path = pendingOpen[h.tid].file.path
      PROVE  OwnFile(p, s.path)
  <2>1. PICK t \in Tids : t = h.tid
    BY <1>7
  <2>2. PICK a : a = pendingOpen[t]
    OBVIOUS
  <2>3. "open" \in Ops /\ Results(h, "open", t) /\ Attempt("open", t) = a
    BY <1>7, <2>1, <2>2 DEF Ops, Results, Result, Attempt
  <2>4. FitsResult("open", a, h, had)
    BY <1>1, <1>2, <1>7, <2>1, <2>2, <2>3, TakenFits
  <2>5. PICK g \in had : g.pid = p /\ g.inc = h.inc /\ g.entry.file = a.file
    BY <1>7, <2>4 DEF FitsResult
  <2>6. ~LeaderExit(h, p)
    BY <1>7 DEF LeaderExit
  <2>7. h.inc = inc[p]
    BY <1>1, <1>2, <1>3, <1>7, <2>6, TakenIsNow
  <2>8. QED BY <1>7, <2>1, <2>2, <2>5, <2>7 DEF OwnFile
<1>8. Believed(h, p, d)
  BY <1>2 DEF Believes
<1>9. CASE h.type = "DupResult" /\ \E e \in Fds : s = openFiles[<<p, e>>]
  BY <1>5, <1>9 DEF LeaderExit
<1>10. h.tid \in Tids
  BY <1>2, MovedUp, SampleFields
<1>11. QED BY <1>2, <1>5, <1>6, <1>7, <1>8, <1>9, <1>10 DEF Believed

\* What is open now under the descriptor of a write on its way was opened no
\* earlier than what was written to.
NewerInv ==
    \A i \in DOMAIN queue : LET x == queue[i] IN
        x.type = "WriteResult" /\ x.inc = inc[x.tgid] /\ fdt[x.tgid][x.fd] # Closed =>
            fdt[x.tgid][x.fd].nth >= x.real.nth

\* A descriptor that a dup on its way gave holds nothing older, and later
\* writes did not reach anything older.
AfterDup ==
    \A i \in DOMAIN queue : LET x == queue[i] IN
        x.type = "DupResult" /\ x.a >= 0 =>
            /\ fdt[x.tgid][x.a] # Closed => fdt[x.tgid][x.a].from >= x.mono
            /\ \A j \in DOMAIN queue :
                  i < j /\ queue[j].type = "WriteResult" /\ queue[j].tgid = x.tgid
                        /\ queue[j].fd = x.a /\ queue[j].real # Closed
                  => queue[j].real.from >= x.mono

\* How the entry of a descriptor may change in a step of the kernel.
LEMMA NewEntry ==
    ASSUME KernelInv, Tables, HeldOK, NEW p \in Pids, NEW d \in Fds
    PROVE  /\ fdt[p][d].nth \in Nat /\ fdt[p][d].from \in Nat /\ clock \in Nat /\ calls \in Nat
           /\ fdt[p][d].nth <= calls /\ fdt[p][d].from <= clock
           /\ fdt'[p][d] # Closed =>
                 fdt'[p][d] = fdt[p][d] \/ (fdt'[p][d].from = clock /\ fdt'[p][d].nth = calls)
<1>1. fdt[p][d] \in Entries /\ clock \in Nat /\ calls \in Nat
  BY DEF KernelInv, KernelTypes
<1>2. QED BY <1>1 DEF Entries, HeldOK, Tables

LEMMA NewerPushed ==
    ASSUME KernelInv, KernelInv', Queues, Tables, Survives, HeldOK, QueueOK, NewerInv
    PROVE  NewerInv'
<1> SUFFICES ASSUME NEW i \in DOMAIN queue', queue'[i].type = "WriteResult",
                    queue'[i].inc = inc'[queue'[i].tgid],
                    fdt'[queue'[i].tgid][queue'[i].fd] # Closed
             PROVE  fdt'[queue'[i].tgid][queue'[i].fd].nth >= queue'[i].real.nth
  BY DEF NewerInv
<1>1. CASE i \in DOMAIN queue
  <2>1. PICK x \in Samples : x = queue[i] /\ queue'[i] = x
    BY <1>1, Pushed
  <2>2. PICK p \in Pids, d \in Fds : p = x.tgid /\ d = x.fd
    BY <2>1, SampleFields
  <2>3. /\ x.type = "WriteResult" /\ x.real.nth <= calls /\ x.inc <= inc[p] /\ x.inc = inc'[p]
        /\ inc[p] \in Nat /\ inc'[p] \in Nat /\ inc[p] <= inc'[p] /\ x.real.nth \in Nat
    BY <1>1, <2>1, <2>2, Numbered, SampleFields DEF QueueOK
  <2>4. x.inc = inc[p]
    BY <2>3
  <2>5. CASE fdt'[p][d] = fdt[p][d]
    BY <1>1, <2>1, <2>2, <2>3, <2>4, <2>5 DEF NewerInv
  <2>6. CASE fdt'[p][d].nth = calls
    BY <2>1, <2>2, <2>3, <2>6, NewEntry
  <2>7. QED BY <2>1, <2>2, <2>5, <2>6, NewEntry
<1>2. CASE i \notin DOMAIN queue
  <2>1. PICK x \in New : x = queue'[i]
    BY <1>2, PushedNew
  <2>2. x \in Samples
    BY <2>1, PushedLast
  <2>3. PICK p \in Pids, d \in Fds : p = x.tgid /\ d = x.fd
    BY <2>1, <2>2, SampleFields
  <2>4. fdt' = fdt /\ x.real \in {Closed, fdt[p][d]}
    BY <2>1, <2>3 DEF Tables
  <2>5. fdt[p][d].nth \in Nat /\ Closed.nth = 0
    BY NewEntry DEF Closed
  <2>6. QED BY <2>1, <2>3, <2>4, <2>5
<1>3. QED BY <1>1, <1>2

LEMMA NewerPopped ==
    ASSUME KernelInv, NEW n \in DOMAIN queue, Popped(n), kernel' = kernel, NewerInv
    PROVE  NewerInv'
<1>1. /\ UNCHANGED <<inc, fdt>>
      /\ \A i \in DOMAIN queue' : Up(n, i) \in DOMAIN queue /\ queue'[i] = queue[Up(n, i)]
  BY MovedUp DEF kernel
<1>2. QED BY <1>1 DEF NewerInv

LEMMA AfterDupPushed ==
    ASSUME KernelInv, Queues, Tables, HeldOK, QueueOK, AfterDup
    PROVE  AfterDup'
<1> SUFFICES ASSUME NEW i \in DOMAIN queue', queue'[i].type = "DupResult", queue'[i].a >= 0
             PROVE  /\ fdt'[queue'[i].tgid][queue'[i].a] # Closed =>
                          fdt'[queue'[i].tgid][queue'[i].a].from >= queue'[i].mono
                    /\ \A j \in DOMAIN queue' :
                          i < j /\ queue'[j].type = "WriteResult" /\ queue'[j].tgid = queue'[i].tgid
                                /\ queue'[j].fd = queue'[i].a /\ queue'[j].real # Closed
                          => queue'[j].real.from >= queue'[i].mono
  BY DEF AfterDup
<1>1. CASE i \in DOMAIN queue
  <2>1. PICK x \in Samples : x = queue[i] /\ queue'[i] = x
    BY <1>1, Pushed
  <2>2. PICK p \in Pids, d \in Fds : p = x.tgid /\ d = x.a
    BY <2>1, SampleFields
  <2>3. x.mono \in Nat /\ x.mono <= clock /\ clock \in Nat
    BY <1>1, <2>1, SampleFields DEF QueueOK, KernelInv, KernelTypes
  <2>4. fdt[p][d] # Closed => fdt[p][d].from >= x.mono
    BY <1>1, <2>1, <2>2 DEF AfterDup
  <2>5. fdt'[p][d] # Closed => fdt'[p][d].from >= x.mono
    BY <2>3, <2>4, NewEntry
  <2>6. ASSUME NEW j \in DOMAIN queue', i < j, queue'[j].type = "WriteResult",
               queue'[j].tgid = p, queue'[j].fd = d, queue'[j].real # Closed
        PROVE  queue'[j].real.from >= x.mono
    <3>1. CASE j \in DOMAIN queue
      <4>1. queue'[j] = queue[j]
        BY <3>1, Pushed
      <4>2. QED BY <1>1, <2>1, <2>2, <2>6, <3>1, <4>1 DEF AfterDup
    <3>2. CASE j \notin DOMAIN queue
      <4>1. PICK y \in New : y = queue'[j]
        BY <3>2, PushedNew
      <4>2. y.real = fdt[p][d]
        BY <2>6, <4>1 DEF Tables
      <4>3. QED BY <2>4, <2>6, <4>1, <4>2
    <3>3. QED BY <3>1, <3>2
  <2>7. QED BY <2>1, <2>2, <2>5, <2>6
<1>2. CASE i \notin DOMAIN queue
  <2>1. PICK x \in New : x = queue'[i]
    BY <1>2, PushedNew
  <2>2. PICK m \in Nat : /\ queue'[m] = x /\ DOMAIN queue' = DOMAIN queue \cup {m}
                         /\ (\A k \in DOMAIN queue : k < m) /\ x \in Samples /\ x.mono = clock
    BY <2>1, PushedLast
  <2>3. i = m /\ \A j \in DOMAIN queue' : ~(i < j)
    BY <1>2, <2>2, Pushed
  <2>4. fdt'[x.tgid][x.a].from = clock /\ clock \in Nat
    BY <2>1 DEF Tables, KernelInv, KernelTypes
  <2>5. QED BY <2>1, <2>2, <2>3, <2>4
<1>3. QED BY <1>1, <1>2

LEMMA AfterDupPopped ==
    ASSUME KernelInv, NEW n \in DOMAIN queue, Popped(n), kernel' = kernel, AfterDup
    PROVE  AfterDup'
<1>1. /\ fdt' = fdt
      /\ \A i \in DOMAIN queue' : Up(n, i) \in DOMAIN queue /\ queue'[i] = queue[Up(n, i)]
      /\ \A i, j \in DOMAIN queue' : i < j => Up(n, i) < Up(n, j)
  BY MovedUp DEF kernel
<1>2. QED BY <1>1 DEF AfterDup

\* What is believed open under d is the file of entry e there or of a later one.
ConfirmedAs(s, p, d, e) ==
    \E h \in had : /\ h.pid = p /\ h.inc = inc[p] /\ h.fd = d
                   /\ h.entry.file.path = s.path /\ h.entry.file.ino = s.ino
                   /\ h.entry.nth >= e.nth

\* No check has a time later than the samples of its process that wait.
CheckTimes ==
    \A p \in Pids, d \in Fds :
        /\ openFiles[<<p, d>>].check <= clock
        /\ Heard => \A i \in DOMAIN queue :
              queue[i].tgid = p => openFiles[<<p, d>>].check <= queue[i].mono

\* A state that was checked is as new as all that was open at that time.
CheckedInv ==
    Heard => \A p \in Pids, d \in Fds, s \in States :
        s = openFiles[<<p, d>>] /\ s.ino # NoIno /\ s.check # 0 =>
            /\ \A e \in Entries : e = fdt[p][d] /\ e # Closed /\ e.from < s.check
                  => ConfirmedAs(s, p, d, e)
            /\ \A i \in DOMAIN queue, x \in Samples :
                  /\ x = queue[i] /\ x.type = "WriteResult" /\ x.tgid = p /\ x.inc = inc[p]
                  /\ x.fd = d /\ x.real # Closed /\ x.real.from < s.check
                  => ConfirmedAs(s, p, d, x.real)

LEMMA StateTypes ==
    ASSUME ServiceTypes, NEW p \in Pids, NEW d \in Fds
    PROVE  /\ openFiles[<<p, d>>] \in States /\ openFiles[<<p, d>>].check \in Nat
           /\ NoState.check = 0 /\ NoState.ino = NoIno
BY DEF ServiceTypes, States, NoState, NoIno

LEMMA CheckTimesPushed ==
    ASSUME TypeInv, KernelInv', Queues, Tables, Sends, UNCHANGED service, CheckTimes
    PROVE  CheckTimes'
<1> SUFFICES ASSUME NEW p \in Pids, NEW d \in Fds
             PROVE  /\ openFiles[<<p, d>>].check <= clock'
                    /\ Heard' => \A i \in DOMAIN queue' :
                          queue'[i].tgid = p => openFiles[<<p, d>>].check <= queue'[i].mono
  BY DEF CheckTimes, service
<1>0. KernelInv /\ ServiceTypes
  BY DEF TypeInv
<1>1. PICK c \in Nat : c = openFiles[<<p, d>>].check
  BY <1>0, StateTypes
<1>2. c <= clock /\ (Heard => \A i \in DOMAIN queue : queue[i].tgid = p => c <= queue[i].mono)
  BY <1>1 DEF CheckTimes
<1>3. clock \in Nat /\ clock' \in Nat /\ clock <= clock'
  BY <1>0 DEF KernelInv, KernelTypes, Tables
<1>4. c <= clock'
  BY <1>2, <1>3
<1>5. ASSUME Heard', NEW i \in DOMAIN queue', queue'[i].tgid = p PROVE c <= queue'[i].mono
  <2>1. CASE i \in DOMAIN queue
    BY <1>0, <1>2, <1>5, <2>1, Pushed DEF Sends
  <2>2. CASE i \notin DOMAIN queue
    <3>1. PICK x \in New : x = queue'[i]
      BY <1>0, <2>2, PushedNew
    <3>2. x.mono = clock
      BY <1>0, <3>1, PushedLast
    <3>3. QED BY <1>2, <3>1, <3>2
  <2>3. QED BY <2>1, <2>2
<1>6. QED BY <1>1, <1>4, <1>5

\* What the check of a state becomes, without what the state is.
LEMMA NewCheck ==
    ASSUME NEW h, NEW p \in Pids, NEW d \in Fds, Believed(h, p, d)
    PROVE  \/ openFiles'[<<p, d>>].check = 0
           \/ openFiles'[<<p, d>>].check = h.mono /\ Written(h, p)
           \/ \E e \in Fds : openFiles'[<<p, d>>] = openFiles[<<p, e>>]
BY DEF Believed, NoState

\* A write is of the process its attempt is of.
LEMMA WrittenOf ==
    ASSUME TypeInv, NEW n \in DOMAIN queue, Alone(n), Heard, PairInv, NEW p, Written(queue[n], p)
    PROVE  /\ queue[n].tgid = p /\ queue[n].fd = pendingWrite[queue[n].tid].fd
           /\ \A j \in DOMAIN queue : j # n /\ queue[j].tgid = p => n < j
<1>0. KernelInv
  BY DEF TypeInv
<1>1. PICK t \in Tids : t = queue[n].tid
  BY <1>0, Positions, SampleFields
<1>2. /\ "write" \in Ops /\ Results(queue[n], "write", t) /\ Attempt("write", t) = pendingWrite[t]
      /\ pendingWrite[t] # NoAttempt /\ pendingWrite[t].tgid = p
  BY <1>1 DEF Written, Ops, Results, Result, Attempt
<1>3. FitsResult("write", pendingWrite[t], queue[n], had)
  BY <1>0, <1>2, TakenFits
<1>4. queue[n].tgid = p /\ queue[n].fd = pendingWrite[t].fd
  BY <1>2, <1>3 DEF FitsResult
<1>5. \A j \in DOMAIN queue : j # n /\ queue[j].tgid = p => ~(j < n) /\ j \in Nat /\ n \in Nat
  BY <1>0, <1>4, Positions DEF Alone, Related
<1>6. QED BY <1>1, <1>4, <1>5

LEMMA CheckTimesPopped ==
    ASSUME TypeInv, ServiceTypes', NEW n \in DOMAIN queue, Popped(n), kernel' = kernel,
           dropped' = dropped, Believes(queue[n]), QueueOK, PairInv, CheckTimes
    PROVE  CheckTimes'
<1> SUFFICES ASSUME NEW p \in Pids, NEW d \in Fds
             PROVE  /\ openFiles'[<<p, d>>].check <= clock
                    /\ Heard' => \A i \in DOMAIN queue' :
                          queue'[i].tgid = p => openFiles'[<<p, d>>].check <= queue'[i].mono
  BY DEF CheckTimes, kernel
<1>0. KernelInv /\ ServiceTypes
  BY DEF TypeInv
<1>1. /\ \A i \in DOMAIN queue' : /\ Up(n, i) \in DOMAIN queue /\ Up(n, i) # n
                                  /\ queue'[i] = queue[Up(n, i)]
      /\ \A i \in DOMAIN queue : queue[i].mono \in Nat
  BY <1>0, MovedUp, Positions, SampleFields
<1>2. clock \in Nat /\ queue[n].mono <= clock /\ queue[n].mono \in Nat
  BY <1>0, <1>1 DEF KernelInv, KernelTypes, QueueOK
<1>3. CASE openFiles'[<<p, d>>].check = 0
  BY <1>1, <1>2, <1>3
<1>4. CASE openFiles'[<<p, d>>].check = queue[n].mono /\ Written(queue[n], p)
  <2>1. ASSUME Heard', NEW i \in DOMAIN queue', queue'[i].tgid = p
        PROVE  queue[n].mono <= queue'[i].mono
    <3>1. Heard /\ Alone(n)
      BY <2>1, Takes
    <3>2. PICK j \in DOMAIN queue : j # n /\ queue'[i] = queue[j]
      BY <1>1
    <3>3. n < j
      BY <1>4, <2>1, <3>1, <3>2, WrittenOf
    <3>4. QED BY <3>2, <3>3 DEF QueueOK
  <2>2. QED BY <1>2, <1>4, <2>1
<1>5. ASSUME NEW e \in Fds, openFiles'[<<p, d>>] = openFiles[<<p, e>>]
      PROVE  /\ openFiles'[<<p, d>>].check <= clock
             /\ Heard' => \A i \in DOMAIN queue' :
                   queue'[i].tgid = p => openFiles'[<<p, d>>].check <= queue'[i].mono
  BY <1>1, <1>5, Takes DEF CheckTimes
<1>6. Believed(queue[n], p, d)
  BY DEF Believes
<1>7. \/ openFiles'[<<p, d>>].check = 0
      \/ openFiles'[<<p, d>>].check = queue[n].mono /\ Written(queue[n], p)
      \/ \E e \in Fds : openFiles'[<<p, d>>] = openFiles[<<p, e>>]
  BY <1>6, NewCheck
<1>8. QED BY <1>3, <1>4, <1>5, <1>7

\* What is confirmed stays so while the process is the same.
LEMMA StillConfirmed ==
    ASSUME had \subseteq had', NEW p, inc'[p] = inc[p], NEW s, NEW d, NEW e,
           ConfirmedAs(s, p, d, e)
    PROVE  ConfirmedAs(s, p, d, e)'
BY DEF ConfirmedAs

LEMMA CheckedPushed ==
    ASSUME TypeInv, KernelInv', Queues, Tables, Survives, Sends,
           UNCHANGED service, HeldOK, QueueOK, CheckTimes, CheckedInv
    PROVE  CheckedInv'
<1> SUFFICES ASSUME Heard', NEW p \in Pids, NEW d \in Fds, NEW s \in States,
                    s = openFiles[<<p, d>>], s.ino # NoIno, s.check # 0
             PROVE  /\ \A e \in Entries : e = fdt'[p][d] /\ e # Closed /\ e.from < s.check
                          => ConfirmedAs(s, p, d, e)'
                    /\ \A i \in DOMAIN queue', x \in Samples :
                          /\ x = queue'[i] /\ x.type = "WriteResult" /\ x.tgid = p
                          /\ x.inc = inc'[p] /\ x.fd = d /\ x.real # Closed
                          /\ x.real.from < s.check
                          => ConfirmedAs(s, p, d, x.real)'
  BY DEF CheckedInv, service, ConfirmedAs
<1>0. KernelInv /\ Heard /\ had \subseteq had' /\ clock \in Nat
  BY DEF TypeInv, KernelInv, KernelTypes, Tables, Sends
<1>1. s.check \in Nat /\ s.check <= clock
  BY DEF CheckTimes, States
<1>2. ASSUME NEW e \in Entries, e = fdt'[p][d], e # Closed, e.from < s.check
      PROVE  ConfirmedAs(s, p, d, e)'
  <2>1. e.from # clock
    BY <1>0, <1>1, <1>2
  <2>2. fdt[p][d] = e
    BY <1>0, <1>2, <2>1, NewEntry
  <2>3. inc'[p] = inc[p]
    BY <1>2, <2>1 DEF Tables
  <2>4. ConfirmedAs(s, p, d, e)
    BY <1>0, <1>2, <2>2 DEF CheckedInv
  <2>5. QED BY <1>0, <2>3, <2>4, StillConfirmed
<1>3. ASSUME NEW i \in DOMAIN queue', NEW x \in Samples, x = queue'[i], x.type = "WriteResult",
             x.tgid = p, x.inc = inc'[p], x.fd = d, x.real # Closed, x.real.from < s.check
      PROVE  ConfirmedAs(s, p, d, x.real)'
  <2>1. CASE i \in DOMAIN queue
    <3>1. x = queue[i] /\ x.inc \in Nat /\ x.inc <= inc[p]
      BY <1>0, <1>3, <2>1, Pushed, SampleFields DEF QueueOK
    <3>2. inc[p] \in Nat /\ inc'[p] \in Nat /\ inc[p] <= inc'[p]
      BY <1>0, Numbered
    <3>3. x.inc = inc[p] /\ inc'[p] = inc[p]
      BY <1>3, <3>1, <3>2
    <3>4. ConfirmedAs(s, p, d, x.real)
      BY <1>0, <1>3, <2>1, <3>1, <3>3 DEF CheckedInv
    <3>5. QED BY <1>0, <3>3, <3>4, StillConfirmed
  <2>2. CASE i \notin DOMAIN queue
    <3>1. x \in New
      BY <1>0, <1>3, <2>2, PushedNew
    <3>2. fdt' = fdt /\ x.real = fdt[p][d] /\ x.real \in Entries
      BY <1>3, <3>1, SampleFields DEF Tables
    <3>3. PICK e \in Entries : e = x.real /\ e = fdt'[p][d]
      BY <3>2
    <3>4. QED BY <1>2, <1>3, <3>3
  <2>3. QED BY <2>1, <2>2
<1>4. QED BY <1>2, <1>3

LEMMA CheckedPopped ==
    ASSUME TypeInv, ServiceTypes', NEW n \in DOMAIN queue, Popped(n), kernel' = kernel,
           dropped' = dropped, Believes(queue[n]), HeldOK, PairInv, NewerInv, AfterDup, CheckTimes,
           CheckedInv
    PROVE  CheckedInv'
<1> SUFFICES ASSUME Heard', NEW p \in Pids, NEW d \in Fds, NEW s \in States,
                    s = openFiles'[<<p, d>>], s.ino # NoIno, s.check # 0
             PROVE  /\ \A e \in Entries : e = fdt[p][d] /\ e # Closed /\ e.from < s.check
                          => ConfirmedAs(s, p, d, e)
                    /\ \A i \in DOMAIN queue', x \in Samples :
                          /\ x = queue'[i] /\ x.type = "WriteResult" /\ x.tgid = p
                          /\ x.inc = inc[p] /\ x.fd = d /\ x.real # Closed
                          /\ x.real.from < s.check
                          => ConfirmedAs(s, p, d, x.real)
  BY DEF CheckedInv, kernel, ConfirmedAs
<1>0. KernelInv /\ ServiceTypes /\ Heard /\ Alone(n)
  BY Takes DEF TypeInv
<1>1. /\ queue[n] \in Samples /\ queue[n].tid \in Tids
      /\ \A i \in DOMAIN queue' : /\ Up(n, i) \in DOMAIN queue /\ Up(n, i) # n
                                  /\ queue'[i] = queue[Up(n, i)]
  BY <1>0, MovedUp, SampleFields
<1>2. CASE s = openFiles[<<p, d>>]
  BY <1>0, <1>1, <1>2 DEF CheckedInv
<1>3. CASE /\ Lives(p) /\ fdt[p][d] # Closed
           /\ s.path = fdt[p][d].file.path /\ s.ino = fdt[p][d].file.ino
  <2>1. PICK h : h = [pid |-> p, inc |-> inc[p], fd |-> d, entry |-> fdt[p][d]]
    OBVIOUS
  <2>2. h \in had /\ h.pid = p /\ h.inc = inc[p] /\ h.fd = d /\ h.entry = fdt[p][d]
    BY <1>3, <2>1 DEF HeldOK
  <2>3. fdt[p][d] \in Entries /\ fdt[p][d].nth \in Nat
    BY <1>0 DEF KernelInv, KernelTypes, Entries
  <2>4. ASSUME NEW e \in Entries, fdt[p][d].nth >= e.nth PROVE ConfirmedAs(s, p, d, e)
    BY <1>3, <2>2, <2>4 DEF ConfirmedAs
  <2>5. ASSUME NEW i \in DOMAIN queue', NEW x \in Samples, x = queue'[i], x.type = "WriteResult",
               x.tgid = p, x.inc = inc[p], x.fd = d
        PROVE  x.real \in Entries /\ fdt[p][d].nth >= x.real.nth
    BY <1>1, <1>3, <2>5, SampleFields DEF NewerInv
  <2>6. \A a \in Nat : a >= a
    OBVIOUS
  <2>7. QED BY <2>3, <2>4, <2>5, <2>6
<1>4. ASSUME queue[n].type = "DupResult", queue[n].a >= 0, NEW t \in Tids, t = queue[n].tid,
             pendingDup[t] # NoAttempt, p = pendingDup[t].tgid, d = pendingDup[t].new,
             NEW e \in Fds, s = openFiles[<<p, e>>]
      PROVE  /\ fdt[p][d] # Closed => ~(fdt[p][d].from < s.check)
             /\ \A i \in DOMAIN queue', x \in Samples :
                   /\ x = queue'[i] /\ x.type = "WriteResult" /\ x.tgid = p
                   /\ x.fd = d /\ x.real # Closed
                   => ~(x.real.from < s.check)
  <2>1. "dup" \in Ops /\ Results(queue[n], "dup", t) /\ Attempt("dup", t) = pendingDup[t]
    BY <1>4 DEF Ops, Results, Result, Attempt
  <2>2. FitsResult("dup", pendingDup[t], queue[n], had)
    BY <1>0, <1>4, <2>1, TakenFits
  <2>3. queue[n].tgid = p /\ queue[n].a = d
    BY <1>4, <2>2 DEF FitsResult
  <2>4. s.check <= queue[n].mono /\ s.check \in Nat /\ queue[n].mono \in Nat
    <3>1. s.check <= queue[n].mono
      BY <1>0, <1>4, <2>3 DEF CheckTimes
    <3>2. QED BY <1>0, <1>1, <1>4, <3>1, SampleFields, StateTypes
  <2>5. fdt[p][d] # Closed => fdt[p][d].from >= queue[n].mono
    BY <1>1, <1>4, <2>3 DEF AfterDup
  <2>6. fdt[p][d].from \in Nat
    BY <1>0 DEF KernelInv, KernelTypes, Entries
  <2>7. ASSUME NEW i \in DOMAIN queue', NEW x \in Samples, x = queue'[i], x.type = "WriteResult",
               x.tgid = p, x.fd = d, x.real # Closed
        PROVE  x.real.from >= queue[n].mono /\ x.real.from \in Nat
    <3>1. PICK j \in DOMAIN queue : j # n /\ x = queue[j] /\ j \in Nat /\ n \in Nat
      BY <1>0, <1>1, <2>7, Positions
    <3>2. ~(j < n)
      BY <1>0, <2>3, <2>7, <3>1 DEF Alone, Related
    <3>3. n < j
      BY <3>1, <3>2
    <3>4. QED BY <1>4, <2>3, <2>7, <3>1, <3>3, SampleFields DEF AfterDup
  <2>8. \A a, b, c \in Nat : a <= b /\ c >= b => ~(c < a)
    OBVIOUS
  <2>9. QED BY <2>4, <2>5, <2>6, <2>7, <2>8
<1>5. Believed(queue[n], p, d)
  BY DEF Believes
<1>6. CASE /\ queue[n].type = "DupResult" /\ queue[n].a >= 0
           /\ pendingDup[queue[n].tid] # NoAttempt
           /\ p = pendingDup[queue[n].tid].tgid /\ d = pendingDup[queue[n].tid].new
           /\ \E e \in Fds : s = openFiles[<<p, e>>]
  <2>1. PICK t \in Tids : t = queue[n].tid
    BY <1>1
  <2>2. PICK e \in Fds : s = openFiles[<<p, e>>]
    BY <1>6
  <2>3. QED BY <1>4, <1>6, <2>1, <2>2
<1>7. CASE s = NoState
  BY <1>7 DEF NoState, NoIno
<1>8. \/ s = NoState \/ s = openFiles[<<p, d>>]
      \/ /\ Lives(p)
         /\ \E e \in Fds : /\ fdt[p][e] # Closed
                           /\ s.path = fdt[p][e].file.path /\ s.ino = fdt[p][e].file.ino
                           /\ e = d
      \/ /\ queue[n].type = "DupResult" /\ queue[n].a >= 0
         /\ pendingDup[queue[n].tid] # NoAttempt
         /\ p = pendingDup[queue[n].tid].tgid /\ d = pendingDup[queue[n].tid].new
         /\ \E e \in Fds : s = openFiles[<<p, e>>]
  BY <1>5 DEF Believed
<1>9. QED BY <1>2, <1>3, <1>6, <1>7, <1>8

-----------------------------------------------------------------------------
(* What is written in a row.                                               *)

Attributed(row) ==
    \E h \in had : h.pid = row.pid /\ h.inc = row.inc /\ h.entry.file.path = row.path

Identified(row) ==
    \E h \in had : /\ h.pid = row.pid /\ h.inc = row.inc /\ h.fd = row.fd
                   /\ h.entry.file.path = row.path /\ h.entry.file.ino = row.ino
                   /\ h.entry.nth >= row.real.nth

\* The row is one FreshAfterInterval is about.
Due(row) ==
    /\ row.kind = "file_save" /\ row.live /\ row.ino # NoIno /\ row.real # Closed
    /\ row.mono - row.real.from >= CheckInterval

AttributedInv ==
    ~orphaned /\ Heard => \A i \in DOMAIN rows, row \in RowSet :
        row = rows[i] /\ row.kind = "file_save" /\ row.live => Attributed(row)

IdentifiedInv ==
    Heard => \A i \in DOMAIN rows, row \in RowSet :
        row = rows[i] /\ Due(row) => Identified(row)

\* A save is judged by the descriptor that was written to.
LEMMA SavedWhere ==
    ASSUME TypeInv, NEW n \in DOMAIN queue, Alone(n), Heard, PairInv, NEW row \in RowSet,
           Saved(queue[n], row)
    PROVE  /\ queue[n].tgid = row.pid /\ queue[n].fd = row.fd /\ queue[n].type = "WriteResult"
           /\ queue[n].mono = row.mono /\ queue[n].inc = row.inc /\ queue[n].real = row.real
           /\ row.pid \in Pids /\ row.fd \in Fds
           /\ row.live => group[row.pid] = row.pid /\ row.inc = inc[row.pid]
           /\ queue[n] \in Samples
           /\ \A j \in DOMAIN queue : j # n /\ queue[j].tgid = row.pid => n < j
<1>1. queue[n] \in Samples /\ row.pid \in Pids /\ row.fd \in Fds
  BY Positions DEF TypeInv, RowSet
<1>2. Written(queue[n], row.pid)
  BY DEF Saved, Written
<1>3. /\ queue[n].tgid = row.pid /\ queue[n].fd = pendingWrite[queue[n].tid].fd
      /\ \A j \in DOMAIN queue : j # n /\ queue[j].tgid = row.pid => n < j
  BY <1>1, <1>2, WrittenOf
<1>4. QED BY <1>1, <1>3 DEF Saved

\* What a living process has open is its own, and of its descriptor.
LEMMA HeldNow ==
    ASSUME HeldOK, NEW p \in Pids, NEW d \in Fds, Lives(p), fdt[p][d] # Closed
    PROVE  \E h \in had : h.pid = p /\ h.inc = inc[p] /\ h.fd = d /\ h.entry = fdt[p][d]
<1>1. PICK h : h = [pid |-> p, inc |-> inc[p], fd |-> d, entry |-> fdt[p][d]]
  OBVIOUS
<1>2. h \in had /\ h.pid = p /\ h.inc = inc[p] /\ h.fd = d /\ h.entry = fdt[p][d]
  BY <1>1 DEF HeldOK
<1>3. QED BY <1>2

LEMMA SavedOwn ==
    ASSUME TypeInv, NEW n \in DOMAIN queue, Alone(n), Heard, ~orphaned, HeldOK, QueueOK, PairInv, OwnInv,
           NEW row \in RowSet, Saved(queue[n], row), row.live
    PROVE  Attributed(row)
<1>1. /\ queue[n].tgid = row.pid /\ queue[n].fd = row.fd /\ queue[n].type = "WriteResult"
      /\ queue[n].inc = row.inc /\ row.pid \in Pids /\ row.fd \in Fds
      /\ group[row.pid] = row.pid /\ row.inc = inc[row.pid]
      /\ \A j \in DOMAIN queue : j # n /\ queue[j].tgid = row.pid => n < j
  BY SavedWhere
<1>2. PICK p \in Pids, d \in Fds : p = row.pid /\ d = row.fd
  BY <1>1
<1>3. Clean(p)
  <2>0. KernelInv
    BY DEF TypeInv
  <2>1. SUFFICES ASSUME NEW i \in DOMAIN queue, LeaderExit(queue[i], p)
                 PROVE  queue[i].inc = inc[p]
    BY DEF Clean
  <2>2. i # n /\ queue[i].tgid = p
    BY <1>1, <2>1 DEF LeaderExit
  <2>3. n < i
    BY <1>1, <1>2, <2>2
  <2>4. queue[n].inc <= queue[i].inc /\ queue[i].inc <= inc[p]
    BY <1>1, <1>2, <2>2, <2>3 DEF QueueOK
  <2>5. queue[i].inc \in Nat /\ inc[p] \in Nat
    BY <2>0, Positions, SampleFields DEF KernelInv, KernelTypes
  <2>6. QED BY <1>1, <1>2, <2>4, <2>5
<1>4. CASE openFiles[<<p, d>>] # NoState /\ row.path = openFiles[<<p, d>>].path
  BY <1>1, <1>2, <1>3, <1>4 DEF OwnInv, OwnFile, Attributed
<1>5. CASE Lives(p) /\ fdt[p][d] # Closed /\ row.path = fdt[p][d].file.path
  BY <1>1, <1>2, <1>5, HeldNow DEF Attributed
<1>6. QED BY <1>2, <1>4, <1>5 DEF Saved

LEMMA SavedFresh ==
    ASSUME TypeInv, NEW n \in DOMAIN queue, Alone(n), Heard, HeldOK, PairInv, NewerInv, CheckedInv,
           NEW row \in RowSet, Saved(queue[n], row), Due(row)
    PROVE  Identified(row)
<1>0. KernelInv /\ ServiceTypes
  BY DEF TypeInv
<1>1. /\ queue[n].tgid = row.pid /\ queue[n].fd = row.fd /\ queue[n].type = "WriteResult"
      /\ queue[n].mono = row.mono /\ queue[n].inc = row.inc /\ queue[n].real = row.real
      /\ row.pid \in Pids /\ row.fd \in Fds /\ row.inc = inc[row.pid]
      /\ queue[n] \in Samples
  BY SavedWhere DEF Due
<1>2. PICK p \in Pids, d \in Fds, x \in Samples : p = row.pid /\ d = row.fd /\ x = queue[n]
  BY <1>1
<1>3. x.mono \in Nat /\ x.real.from \in Nat /\ x.real.nth \in Nat /\ CheckInterval \in Nat
  BY SampleFields, Numbers
<1>4. PICK s \in States : s = openFiles[<<p, d>>]
  BY <1>0, StateTypes
<1>5. CASE ~NeedsCheck(s, x.mono) /\ row.path = s.path /\ row.ino = s.ino
  <2>1. s.ino # NoIno /\ x.mono - x.real.from >= CheckInterval /\ x.real # Closed
    BY <1>1, <1>2, <1>5 DEF Due
  <2>2. s.check # 0 /\ s.check \in Nat /\ ~(x.mono < s.check) /\ ~(x.mono - s.check >= CheckInterval)
    BY <1>5, <2>1 DEF NeedsCheck, States
  <2>3. x.real.from < s.check
    BY <1>3, <2>1, <2>2
  <2>4. ConfirmedAs(s, p, d, x.real)
    BY <1>1, <1>2, <1>4, <2>1, <2>2, <2>3 DEF CheckedInv
  <2>5. QED BY <1>1, <1>2, <1>5, <2>4 DEF ConfirmedAs, Identified
<1>6. CASE Lives(p) /\ fdt[p][d] # Closed /\ row.path = fdt[p][d].file.path
           /\ row.ino = fdt[p][d].file.ino
  <2>1. PICK h \in had : h.pid = p /\ h.inc = inc[p] /\ h.fd = d /\ h.entry = fdt[p][d]
    BY <1>6, HeldNow
  <2>2. fdt[p][d].nth >= x.real.nth
    BY <1>1, <1>2, <1>6 DEF NewerInv
  <2>3. QED BY <1>1, <1>2, <1>6, <2>1, <2>2 DEF Identified
<1>7. QED BY <1>1, <1>2, <1>4, <1>5, <1>6 DEF Saved

\* A new row is the last one.
LEMMA RowPopped ==
    ASSUME TypeInv, ServiceTypes', NEW h, Writes(h), NEW i \in DOMAIN rows', NEW row \in RowSet,
           row = rows'[i]
    PROVE  \/ i \in DOMAIN rows /\ row = rows[i]
           \/ row.kind = "file_open" \/ Saved(h, row)
<1>1. rows \in Seq(RowSet)
  BY DEF TypeInv, ServiceTypes
<1>2. CASE rows' = rows
  BY <1>2
<1>3. ASSUME NEW r \in RowSet, rows' = Append(rows, r),
             r.kind = "file_open" \/ Saved(h, r)
      PROVE  \/ i \in DOMAIN rows /\ row = rows[i]
             \/ row.kind = "file_open" \/ Saved(h, row)
  <2>1. (i \in DOMAIN rows /\ rows'[i] = rows[i]) \/ rows'[i] = r
    BY <1>1, <1>3
  <2>2. QED BY <1>3, <2>1
<1>4. QED BY <1>2, <1>3 DEF Writes

LEMMA AttributedPopped ==
    ASSUME TypeInv, ServiceTypes', NEW n \in DOMAIN queue, Popped(n), kernel' = kernel,
           dropped' = dropped, Writes(queue[n]), HeldOK, QueueOK, PairInv, OwnInv, AttributedInv
    PROVE  AttributedInv'
<1> SUFFICES ASSUME ~orphaned', Heard', NEW i \in DOMAIN rows', NEW row \in RowSet,
                    row = rows'[i], row.kind = "file_save", row.live
             PROVE  Attributed(row)'
  BY DEF AttributedInv
<1>1. ~orphaned /\ Heard /\ Alone(n) /\ had' = had
  BY Takes DEF kernel
<1>2. (i \in DOMAIN rows /\ row = rows[i]) \/ Saved(queue[n], row)
  BY RowPopped
<1>3. Attributed(row)
  BY <1>1, <1>2, SavedOwn DEF AttributedInv
<1>4. QED BY <1>1, <1>3 DEF Attributed

LEMMA IdentifiedPopped ==
    ASSUME TypeInv, ServiceTypes', NEW n \in DOMAIN queue, Popped(n), kernel' = kernel,
           dropped' = dropped, Writes(queue[n]), HeldOK, PairInv, NewerInv, CheckedInv, IdentifiedInv
    PROVE  IdentifiedInv'
<1> SUFFICES ASSUME Heard', NEW i \in DOMAIN rows', NEW row \in RowSet,
                    row = rows'[i], Due(row)
             PROVE  Identified(row)'
  BY DEF IdentifiedInv
<1>1. Heard /\ Alone(n) /\ had' = had
  BY Takes DEF kernel
<1>2. (i \in DOMAIN rows /\ row = rows[i]) \/ Saved(queue[n], row)
  BY RowPopped DEF Due
<1>3. Identified(row)
  BY <1>1, <1>2, SavedFresh DEF IdentifiedInv
<1>4. QED BY <1>1, <1>3 DEF Identified

LEMMA RowsPushed ==
    ASSUME Tables, Survives, Sends,
           UNCHANGED service, AttributedInv, IdentifiedInv
    PROVE  AttributedInv' /\ IdentifiedInv'
<1>1. /\ had \subseteq had' /\ rows' = rows /\ (Heard' => Heard)
      /\ orphaned => orphaned'
  BY DEF Tables, Survives, service, Sends
<1>2. \A row : /\ Attributed(row) => Attributed(row)'
               /\ Identified(row) => Identified(row)'
  BY <1>1 DEF Attributed, Identified
<1>3. QED BY <1>1, <1>2 DEF AttributedInv, IdentifiedInv

LEMMA RowsSay ==
    ASSUME TypeInv, AttributedInv, IdentifiedInv
    PROVE  AttributedToOwnFile /\ FreshAfterInterval
<1>0. had \subseteq Held /\ rows \in Seq(RowSet)
  BY DEF TypeInv, KernelInv, KernelTypes, ServiceTypes
<1>1. ASSUME ~orphaned, Heard, NEW i \in Saves, rows[i].live
      PROVE  \E d \in Fds : \E e \in HadOpen(i, d) : e.file.path = rows[i].path
  <2>1. PICK row \in RowSet : row = rows[i] /\ i \in DOMAIN rows /\ row.kind = "file_save"
    BY <1>0 DEF Saves
  <2>2. PICK h \in had : h.pid = row.pid /\ h.inc = row.inc /\ h.entry.file.path = row.path
    BY <1>1, <2>1 DEF AttributedInv, Attributed
  <2>3. h.fd \in Fds
    BY <1>0 DEF Held
  <2>4. h.entry \in HadOpen(i, h.fd)
    BY <2>1, <2>2 DEF HadOpen
  <2>5. QED BY <2>1, <2>2, <2>3, <2>4
<1>2. ASSUME Heard, NEW i \in Saves, rows[i].live, rows[i].ino # NoIno,
             rows[i].real # Closed, rows[i].mono - rows[i].real.from >= CheckInterval
      PROVE  \E e \in HadOpen(i, rows[i].fd) :
                e.file.path = rows[i].path /\ e.file.ino = rows[i].ino
                /\ e.nth >= rows[i].real.nth
  <2>1. PICK row \in RowSet : row = rows[i] /\ i \in DOMAIN rows /\ row.kind = "file_save"
    BY <1>0 DEF Saves
  <2>2. Due(row)
    BY <1>2, <2>1 DEF Due
  <2>3. PICK h \in had : /\ h.pid = row.pid /\ h.inc = row.inc /\ h.fd = row.fd
                         /\ h.entry.file.path = row.path /\ h.entry.file.ino = row.ino
                         /\ h.entry.nth >= row.real.nth
    BY <1>2, <2>1, <2>2 DEF IdentifiedInv, Identified
  <2>4. h.entry \in HadOpen(i, row.fd)
    BY <2>1, <2>3 DEF HadOpen
  <2>5. QED BY <2>1, <2>3, <2>4
<1>3. AttributedToOwnFile
  BY <1>1 DEF AttributedToOwnFile
<1>4. FreshAfterInterval
  BY <1>2 DEF FreshAfterInterval
<1>5. QED BY <1>3, <1>4

-----------------------------------------------------------------------------
(* The inductive invariant.                                                *)

FileInv ==
    /\ TypeInv
    /\ HeldOK /\ QueueOK /\ SealedInv /\ KeptInv /\ PairInv /\ OwnInv
    /\ NewerInv /\ AfterDup /\ CheckTimes /\ CheckedInv
    /\ AttributedInv /\ IdentifiedInv

LEMMA InitFile == Init => FileInv
<1> SUFFICES ASSUME Init PROVE FileInv
  OBVIOUS
<1>1. /\ group = [t \in Tids |-> 0] /\ call = [t \in Tids |-> Idle] /\ zombie = {}
      /\ inc = [p \in Pids |-> 0] /\ fdt = [p \in Pids |-> [d \in Fds |-> Closed]]
      /\ had = {} /\ orphaned = FALSE /\ clock = 1 /\ queue = <<>> /\ dropped = 0 /\ calls = 0
      /\ overtaken = FALSE
      /\ serving = TRUE /\ known = {} /\ rows = <<>>
      /\ pendingOpen = [t \in Tids |-> NoAttempt] /\ pendingDup = [t \in Tids |-> NoAttempt]
      /\ pendingWrite = [t \in Tids |-> NoAttempt]
      /\ openFiles = [k \in Pids \X Fds |-> NoState] /\ DedupInit
  BY DEF Init
<1>2. KernelTypes
  <2>1. group \in [Tids -> Pids \cup {0}] /\ inc \in [Pids -> Nat]
    BY <1>1
  <2>2. call \in [Tids -> Calls]
    BY <1>1 DEF Calls
  <2>3. fdt \in [Pids -> [Fds -> Entries]]
    BY <1>1, FileTypes
  <2>4. queue \in Seq(Samples)
    BY <1>1
  <2>5. zombie \subseteq Pids /\ had \subseteq Held
    BY <1>1
  <2>6. orphaned \in BOOLEAN
    BY <1>1
  <2>7. clock \in Nat \ {0} /\ dropped \in Nat /\ calls \in Nat
    BY <1>1
  <2>8. QED BY <2>1, <2>2, <2>3, <2>4, <2>5, <2>6, <2>7 DEF KernelTypes
<1>3. ThreadsOK
  BY <1>1, Numbers DEF ThreadsOK
<1>4. ServiceTypes
  <2>1. DedupTypeOK
    BY <1>1 DEF DedupInit, DedupTypeOK, Absent, Save
  <2>2. NoState \in States
    BY DEF NoState, States, NoFile
  <2>3. QED BY <1>1, <2>1, <2>2 DEF ServiceTypes
<1>5. DOMAIN queue = {} /\ DOMAIN rows = {}
  BY <1>1
<1>6. HeldOK
  <2>1. \A p \in Pids, d \in Fds : fdt[p][d] = Closed
    BY <1>1
  <2>2. QED BY <1>1, <2>1 DEF HeldOK, Closed
<1>7. QueueOK /\ SealedInv /\ NewerInv /\ AfterDup /\ AttributedInv /\ IdentifiedInv
  BY <1>5 DEF QueueOK, SealedInv, NewerInv, AfterDup, AttributedInv, IdentifiedInv
<1>8. \A p \in Pids, d \in Fds : openFiles[<<p, d>>] = NoState
  BY <1>1
<1>9. \A o \in Ops, t \in Tids : Attempt(o, t) = NoAttempt
  BY <1>1 DEF Attempt, Ops
<1>10. KeptInv
  <2>1. \A p \in Pids, path \in Paths : recentFileSaves[<<p, path>>] = Absent
    BY <1>1, FileAssumption DEF DedupInit, Keys, FileAssumption
  <2>2. QED BY <1>1, <1>8, <1>9, <2>1 DEF KeptInv, Kept
<1>11. PairInv
  BY <1>5, <1>9 DEF PairInv, AttemptPaired
<1>12. OwnInv
  BY <1>8 DEF OwnInv
<1>13. CheckTimes /\ CheckedInv
  BY <1>1, <1>5, <1>8 DEF CheckTimes, CheckedInv, NoState, NoIno
<1>14. QED BY <1>1, <1>2, <1>3, <1>4, <1>6, <1>7, <1>10, <1>11, <1>12, <1>13
           DEF FileInv, TypeInv, KernelInv

LEMMA KernelFile ==
    ASSUME FileInv, KernelNext, UNCHANGED service
    PROVE  FileInv'
<1>0. /\ TypeInv /\ KernelInv /\ ServiceTypes /\ HeldOK /\ QueueOK /\ SealedInv /\ KeptInv
      /\ PairInv /\ OwnInv /\ NewerInv /\ AfterDup /\ CheckTimes /\ CheckedInv
      /\ AttributedInv /\ IdentifiedInv
  BY DEF FileInv, TypeInv
<1>1. /\ KernelInv' /\ Life /\ Queues /\ Tables /\ Survives
  BY <1>0, KernelLife DEF Life
<1>2. Sends
  <2>1. dropped \in Nat /\ dropped' \in Nat
    BY <1>0, <1>1 DEF KernelInv, KernelTypes
  <2>2. dropped <= dropped' /\ overtaken' = overtaken
    BY <1>0, LostForGood
  <2>3. QED BY <2>1, <2>2 DEF Sends, Heard
<1>3. TypeInv'
  BY <1>0, <1>1, LostForGood DEF TypeInv, ServiceTypes, service, DedupTypeOK
<1>4. HeldOK' /\ QueueOK'
  BY <1>0, <1>1, HeldPushed, QueuePushed
<1>5. SealedInv' /\ KeptInv'
  BY <1>0, <1>1, <1>2, SealedPushed, KeptPushed
<1>6. PairInv'
  BY <1>0, <1>1, <1>2, PairPushed
<1>7. OwnInv'
  BY <1>0, <1>1, <1>2, OwnPushed
<1>8. NewerInv' /\ AfterDup'
  BY <1>0, <1>1, NewerPushed, AfterDupPushed
<1>9. CheckTimes' /\ CheckedInv'
  BY <1>0, <1>1, <1>2, CheckTimesPushed, CheckedPushed
<1>10. AttributedInv' /\ IdentifiedInv'
  BY <1>0, <1>1, <1>2, RowsPushed
<1>11. QED BY <1>3, <1>4, <1>5, <1>6, <1>7, <1>8, <1>9, <1>10 DEF FileInv

LEMMA ServiceFile ==
    ASSUME FileInv, ServiceNext
    PROVE  FileInv'
<1>0. /\ TypeInv /\ KernelInv /\ ServiceTypes /\ HeldOK /\ QueueOK /\ SealedInv /\ KeptInv
      /\ PairInv /\ OwnInv /\ NewerInv /\ AfterDup /\ CheckTimes /\ CheckedInv
      /\ AttributedInv /\ IdentifiedInv
  BY DEF FileInv, TypeInv
<1>1. PICK n \in DOMAIN queue :
         /\ Popped(n) /\ kernel' = kernel /\ dropped' = dropped /\ TypeInv' /\ ServiceTypes'
         /\ Turns(queue[n]) /\ Keeps(queue[n]) /\ Believes(queue[n]) /\ Writes(queue[n])
  BY <1>0, ServiceLife DEF Handles, TypeInv
<1>2. HeldOK' /\ QueueOK'
  BY <1>0, <1>1, HeldPopped, QueuePopped
<1>3. SealedInv' /\ KeptInv'
  BY <1>0, <1>1, SealedPopped, KeptPopped
<1>4. PairInv'
  BY <1>0, <1>1, PairPopped
<1>5. OwnInv'
  BY <1>0, <1>1, OwnPopped
<1>6. NewerInv' /\ AfterDup'
  BY <1>0, <1>1, NewerPopped, AfterDupPopped
<1>7. CheckTimes' /\ CheckedInv'
  BY <1>0, <1>1, CheckTimesPopped, CheckedPopped
<1>8. AttributedInv' /\ IdentifiedInv'
  BY <1>0, <1>1, AttributedPopped, IdentifiedPopped
<1>9. QED BY <1>1, <1>2, <1>3, <1>4, <1>5, <1>6, <1>7, <1>8 DEF FileInv

\* A step of the kernel or of the service, or none.
LEMMA FileStep == FileInv /\ [Next]_vars => FileInv'
<1> SUFFICES ASSUME FileInv, [Next]_vars PROVE FileInv'
  OBVIOUS
<1>1. CASE KernelNext /\ UNCHANGED service
  BY <1>1, KernelFile
<1>2. CASE ServiceNext
  BY <1>2, ServiceFile
<1>3. CASE UNCHANGED vars
  <2>1. UNCHANGED kernel /\ UNCHANGED channel /\ UNCHANGED service
    BY <1>3 DEF vars
  <2>2. TypeInv'
    BY <2>1 DEF FileInv, TypeInv, KernelInv, KernelTypes, ThreadsOK, ServiceTypes, kernel,
                channel, service, DedupTypeOK
  <2>3. HeldOK' /\ QueueOK' /\ SealedInv'
    BY <2>1 DEF FileInv, HeldOK, QueueOK, SealedInv, Sealed, Lives, Heard, kernel, channel
  <2>4. KeptInv' /\ OwnInv'
    <3>1. KeptInv'
      BY <2>1 DEF FileInv, KeptInv, Kept, Owed, Attempt, Lives, Heard, kernel, channel, service
    <3>2. OwnInv'
      BY <2>1 DEF FileInv, OwnInv, Clean, OwnFile, Lives, Heard, kernel, channel, service
    <3>3. QED BY <3>1, <3>2
  <2>5. PairInv'
    BY <2>1 DEF FileInv, PairInv, ResultPaired, EnterPaired, AttemptPaired, Attempt, Heard, kernel,
                channel, service
  <2>6. NewerInv' /\ AfterDup' /\ CheckTimes' /\ CheckedInv'
    BY <2>1 DEF FileInv, NewerInv, AfterDup, CheckTimes, CheckedInv, ConfirmedAs, Heard, kernel,
                channel, service
  <2>7. AttributedInv' /\ IdentifiedInv'
    BY <2>1 DEF FileInv, AttributedInv, Attributed, IdentifiedInv, Identified, Heard, kernel,
                channel, service
  <2>8. QED BY <2>2, <2>3, <2>4, <2>5, <2>6, <2>7 DEF FileInv
<1>4. QED BY <1>1, <1>2, <1>3 DEF Next

LEMMA FileInvariant == Spec => []FileInv
BY InitFile, FileStep, PTL DEF Spec


-----------------------------------------------------------------------------
(* The suppression as the event loop uses it.                              *)

\* Times are those of the clock.
SaveTimes ==
    /\ clock \in 1 .. MaxMono /\ newest \in Nat
    /\ \A i \in DOMAIN queue : queue[i].mono <= MaxMono

\* No waiting sample is further behind the newest save that was judged than the
\* suppression assumes of the rings.
WithinSkew == \A i \in DOMAIN queue : queue[i].mono + Skew >= newest

\* What handling the sample h does to the suppression.
Judges(h) ==
    \/ UNCHANGED dedup
    \/ \E k \in Keys : PassAll(k, h.mono) \/ Accept(k, h.mono) \/ Suppress(k, h.mono)
    \/ \E p \in SavePids : Forget(p)

LEMMA SavedJudges ==
    ASSUME TypeInv, NEW n \in DOMAIN queue, WriteSaved(n), NEW h \in Samples, h = queue[n]
    PROVE  Judges(h)
<1>1. h.tid \in Tids /\ pendingWrite[h.tid] # NoAttempt
  BY DEF WriteSaved, Samples
<1>2. PICK p \in Pids, d \in Fds : p = pendingWrite[h.tid].tgid /\ d = pendingWrite[h.tid].fd
  BY <1>1, AttemptTypes DEF TypeInv
<1>3. PICK f \in Target(<<p, d>>, h.mono) :
         PassAll(<<p, f.path>>, h.mono) \/ Accept(<<p, f.path>>, h.mono)
            \/ Suppress(<<p, f.path>>, h.mono)
  BY <1>2 DEF WriteSaved
<1>4. <<p, f.path>> \in Keys
  BY <1>3, Targets, FileAssumption DEF FileAssumption, Keys
<1>5. QED BY <1>3, <1>4 DEF Judges

LEMMA ServiceJudges ==
    ASSUME TypeInv, ServiceNext
    PROVE  \E n \in DOMAIN queue : /\ Popped(n) /\ queue[n] \in Samples /\ kernel' = kernel
                                   /\ Judges(queue[n])
                                   /\ \E type : Take(n, type)
<1>1. PICK n \in DOMAIN queue :
          \/ HandleExec(n) \/ HandleOpenEnter(n)
          \/ OpenDropped(n) \/ OpenFallback(n) \/ OpenTracked(n)
          \/ HandleDupEnter(n) \/ HandleDupResult(n)
          \/ HandleWriteEnter(n) \/ WriteDropped(n) \/ WriteSaved(n)
          \/ HandleProcessExit(n)
  BY DEF ServiceNext
<1>2. PICK h \in Samples : h = queue[n]
  BY Positions DEF TypeInv
<1>3. CASE HandleExec(n) \/ HandleOpenEnter(n) \/ HandleDupEnter(n) \/ HandleDupResult(n)
           \/ HandleWriteEnter(n)
  <2>1. UNCHANGED dedup /\ \E type : Take(n, type)
    BY <1>3 DEF HandleExec, HandleOpenEnter, HandleDupEnter, HandleDupResult, HandleWriteEnter
  <2>2. QED BY <1>2, <2>1, Taking DEF Judges
<1>4. CASE OpenDropped(n) \/ OpenFallback(n) \/ OpenTracked(n) \/ WriteDropped(n)
  <2>1. UNCHANGED dedup /\ \E type : Take(n, type)
    BY <1>4 DEF OpenDropped, OpenFallback, OpenTracked, TakeOpen, WriteDropped, TakeWrite
  <2>2. QED BY <1>2, <2>1, Taking DEF Judges
<1>5. CASE WriteSaved(n)
  <2>1. \E type : Take(n, type)
    BY <1>5 DEF WriteSaved, TakeWrite
  <2>2. QED BY <1>2, <1>5, <2>1, Taking, SavedJudges
<1>6. CASE HandleProcessExit(n)
  <2>1. Take(n, "ProcessExit") /\ (Forget(h.tgid) \/ UNCHANGED dedup)
    BY <1>2, <1>6 DEF HandleProcessExit, DropFileState
  <2>2. h.tgid \in SavePids
    BY SampleFields, FileAssumption DEF FileAssumption
  <2>3. QED BY <1>2, <2>1, <2>2, Taking DEF Judges
<1>7. QED BY <1>1, <1>3, <1>4, <1>5, <1>6

\* Time only passes while the bound allows it.
LEMMA ClockBound ==
    ASSUME KernelNext, clock <= MaxMono, clock \in Nat, MaxMono \in Nat
    PROVE  clock' \in Nat /\ clock <= clock' /\ clock' <= MaxMono
<1>1. CASE Tick
  BY <1>1 DEF Tick
<1>2. CASE \E p \in Pids : Reap(p) \/ \E cpu \in CPUs : Start(cpu, p)
  <2>1. \A p \in Pids : Reap(p) => clock' = clock
    BY DEF Reap
  <2>2. \A p \in Pids, cpu \in CPUs : Start(cpu, p) => clock' = clock
    BY DEF Start
  <2>3. QED BY <1>2, <2>1, <2>2
<1>3. CASE \E t, w \in Tids : Clone(t, w)
  BY <1>3 DEF Clone
<1>4. CASE \E cpu \in CPUs, t \in Tids :
          ThreadExit(cpu, t) \/ OpenReturn(cpu, t) \/ DupReturn(cpu, t) \/ WriteReturn(cpu, t)
  BY <1>4 DEF ThreadExit, OpenReturn, DupReturn, WriteReturn
<1>5. CASE \E t \in Tids, f \in Files :
               OpenUntraced(t, f) \/ \E cpu \in CPUs, writes \in BOOLEAN : OpenEnter(cpu, t, f, writes)
  BY <1>5 DEF OpenUntraced, OpenEnter
<1>6. CASE \E t \in Tids, d \in Fds :
               \/ Close(t, d)
               \/ \E cpu \in CPUs : WriteEnter(cpu, t, d) \/ \E e \in Fds : DupEnter(cpu, t, d, e)
  BY <1>6 DEF Close, WriteEnter, DupEnter
<1>7. QED BY <1>1, <1>2, <1>3, <1>4, <1>5, <1>6 DEF KernelNext

LEMMA SaveTimesPushed ==
    ASSUME TypeInv, Queues, KernelNext, UNCHANGED service, SaveTimes
    PROVE  SaveTimes'
<1>0. KernelInv /\ MaxMono \in Nat /\ newest' = newest /\ newest \in Nat
  BY Numbers DEF TypeInv, service, SaveTimes
<1>1. clock' \in 1 .. MaxMono
  <2>1. clock \in Nat /\ clock >= 1 /\ clock <= MaxMono
    BY <1>0 DEF SaveTimes
  <2>2. clock' \in Nat /\ clock <= clock' /\ clock' <= MaxMono
    BY <1>0, <2>1, ClockBound
  <2>3. QED BY <1>0, <2>1, <2>2
<1>2. ASSUME NEW i \in DOMAIN queue'
      PROVE  queue'[i].mono <= MaxMono
  <2>1. CASE i \in DOMAIN queue
    BY <1>0, <2>1, Pushed DEF SaveTimes
  <2>2. CASE i \notin DOMAIN queue
    <3>1. PICK x \in New : x = queue'[i]
      BY <1>0, <2>2, PushedNew
    <3>2. x.mono = clock
      BY <1>0, <3>1, PushedLast
    <3>3. QED BY <1>0, <3>1, <3>2 DEF SaveTimes
  <2>3. QED BY <2>1, <2>2
<1>3. QED BY <1>0, <1>1, <1>2 DEF SaveTimes

\* The newest time is that of the sample that was judged, or what it was.
LEMMA JudgedNewest ==
    ASSUME NEW h, Judges(h)
    PROVE  newest' \in {newest, h.mono}
BY DEF Judges, dedup, Forget, PassAll, Accept, Suppress, Judged

LEMMA SaveTimesPopped ==
    ASSUME KernelInv, NEW n \in DOMAIN queue, Popped(n), kernel' = kernel, SaveTimes,
           Judges(queue[n])
    PROVE  SaveTimes'
<1>1. /\ clock' = clock /\ queue[n].mono \in Nat
      /\ \A i \in DOMAIN queue' : Up(n, i) \in DOMAIN queue /\ queue'[i] = queue[Up(n, i)]
  BY MovedUp, SampleFields DEF kernel
<1>2. newest' \in Nat
  BY <1>1, JudgedNewest DEF SaveTimes
<1>3. QED BY <1>1, <1>2 DEF SaveTimes

LEMMA JudgesKeeps ==
    ASSUME DedupInv, NEW h, Judges(h), h.mono \in 1 .. MaxMono, h.mono + Skew >= newest
    PROVE  DedupInv'
<1>1. CASE UNCHANGED dedup
  <2>1. [DedupNext]_dedup
    BY <1>1
  <2>2. QED BY <2>1, StepDedup
<1>2. CASE \E p \in SavePids : Forget(p)
  BY <1>2, ForgetKeeps
<1>3. CASE \E k \in Keys : PassAll(k, h.mono) \/ Accept(k, h.mono) \/ Suppress(k, h.mono)
  <2>1. PICK k \in Keys, m \in 1 .. MaxMono :
           m = h.mono /\ (PassAll(k, m) \/ Accept(k, m) \/ Suppress(k, m))
    BY <1>3
  <2>2. QED BY <2>1, PassAllKeeps, AcceptKeeps, SuppressKeeps
<1>4. QED BY <1>1, <1>2, <1>3 DEF Judges

SuppressionInv == FileInv /\ SaveTimes /\ DedupInv

LEMMA InitSuppression == Init => SuppressionInv
<1> SUFFICES ASSUME Init PROVE SuppressionInv
  OBVIOUS
<1>1. clock = 1 /\ newest = 0 /\ queue = <<>> /\ DedupInit
  BY DEF Init, DedupInit
<1>2. MaxMono \in Nat /\ MaxMono >= 1
  BY FileAssumption, Numbers DEF FileAssumption
<1>3. SaveTimes
  BY <1>1, <1>2 DEF SaveTimes
<1>4. QED BY <1>1, <1>3, InitFile, InitDedup DEF SuppressionInv

LEMMA SuppressionStep == SuppressionInv /\ WithinSkew /\ [Next]_vars => SuppressionInv'
<1> SUFFICES ASSUME SuppressionInv, WithinSkew, [Next]_vars PROVE SuppressionInv'
  OBVIOUS
<1>0. FileInv /\ SaveTimes /\ DedupInv /\ TypeInv /\ KernelInv /\ FileInv'
  BY FileStep DEF SuppressionInv, FileInv, TypeInv
<1>1. CASE KernelNext /\ UNCHANGED service
  <2>1. Queues
    BY <1>0, <1>1, KernelLife DEF Life
  <2>2. SaveTimes'
    BY <1>0, <1>1, <2>1, SaveTimesPushed
  <2>3. UNCHANGED dedup
    BY <1>1 DEF service, dedup
  <2>4. [DedupNext]_dedup
    BY <2>3
  <2>5. QED BY <1>0, <2>2, <2>4, StepDedup DEF SuppressionInv
<1>2. CASE ServiceNext
  <2>1. PICK n \in DOMAIN queue : /\ Popped(n) /\ queue[n] \in Samples /\ kernel' = kernel
                                  /\ Judges(queue[n])
    BY <1>0, <1>2, ServiceJudges
  <2>2. SaveTimes'
    BY <1>0, <2>1, SaveTimesPopped
  <2>3. queue[n].mono \in 1 .. MaxMono
    <3>1. queue[n].mono \in Nat \ {0}
      BY <2>1 DEF Samples
    <3>2. queue[n].mono <= MaxMono
      BY <1>0 DEF SaveTimes
    <3>3. QED BY <3>1, <3>2, Numbers
  <2>4. queue[n].mono + Skew >= newest
    BY DEF WithinSkew
  <2>5. DedupInv'
    BY <1>0, <2>1, <2>3, <2>4, JudgesKeeps
  <2>6. QED BY <1>0, <2>2, <2>5 DEF SuppressionInv
<1>3. CASE UNCHANGED vars
  <2>1. UNCHANGED <<kernel, channel, service, dedup>>
    BY <1>3 DEF vars, service, dedup
  <2>2. [DedupNext]_dedup
    BY <2>1
  <2>3. SaveTimes'
    BY <1>0, <2>1 DEF SaveTimes, kernel, channel, dedup
  <2>4. QED BY <1>0, <2>2, <2>3, StepDedup DEF SuppressionInv
<1>4. QED BY <1>1, <1>2, <1>3 DEF Next

\* With one ring the samples are read in the order they were taken in.
Ordered ==
    /\ overtaken = FALSE /\ newest \in Nat /\ newest <= clock
    /\ \A i \in DOMAIN queue : newest <= queue[i].mono

LEMMA OrderedPushed ==
    ASSUME TypeInv, KernelInv', Queues, KernelNext, Tables, UNCHANGED service, Ordered
    PROVE  Ordered'
<1>0. KernelInv /\ newest' = newest /\ overtaken' = overtaken
  BY LostForGood DEF TypeInv, service
<1>1. clock \in Nat /\ clock' \in Nat /\ clock <= clock' /\ newest \in Nat /\ newest <= clock
  BY <1>0 DEF KernelInv, KernelTypes, Tables, Ordered
<1>2. ASSUME NEW i \in DOMAIN queue' PROVE newest <= queue'[i].mono
  <2>1. CASE i \in DOMAIN queue
    BY <1>0, <2>1, Pushed DEF Ordered
  <2>2. CASE i \notin DOMAIN queue
    <3>1. PICK x \in New : x = queue'[i]
      BY <1>0, <2>2, PushedNew
    <3>2. x.mono = clock
      BY <1>0, <3>1, PushedLast
    <3>3. QED BY <1>1, <3>1, <3>2
  <2>3. QED BY <2>1, <2>2
<1>3. newest' <= clock'
  BY <1>0, <1>1
<1>4. QED BY <1>0, <1>1, <1>2, <1>3 DEF Ordered

LEMMA OrderedPopped ==
    ASSUME \A a, b \in CPUs : a = b, KernelInv, QueueOK, NEW n \in DOMAIN queue, Popped(n),
           kernel' = kernel, Judges(queue[n]), NEW type, Take(n, type), Ordered
    PROVE  Ordered'
<1>1. /\ DOMAIN queue = 1 .. Len(queue) /\ Len(queue) \in Nat
      /\ \A i \in DOMAIN queue : i \in Nat \ {0} /\ queue[i] \in Samples
      /\ \A i \in DOMAIN queue : queue[i].cpu \in CPUs /\ queue[i].mono \in Nat
  BY Positions DEF Samples
<1>2. n = 1
  <2>1. \A j \in 1 .. n - 1 : queue[j].cpu # queue[n].cpu
    BY DEF Take
  <2>2. n # 1 => 1 \in 1 .. n - 1 /\ 1 \in DOMAIN queue
    BY <1>1
  <2>3. QED BY <1>1, <2>1, <2>2
<1>3. overtaken' = FALSE
  <2>1. 1 .. n - 1 = {}
    BY <1>2
  <2>2. overtaken' = (overtaken \/ \E j \in 1 .. n - 1 : Related(queue[j], queue[n]))
    BY DEF Take
  <2>3. QED BY <2>1, <2>2 DEF Ordered
<1>4. PICK m \in Nat : /\ m = queue[n].mono /\ newest' \in {newest, m}
                       /\ newest <= m /\ m <= clock
  BY <1>1, JudgedNewest DEF Ordered, QueueOK
<1>5. newest' \in Nat /\ newest' <= m /\ clock' = clock /\ clock \in Nat
  BY <1>4 DEF Ordered, kernel, KernelInv, KernelTypes
<1>6. newest' <= clock'
  BY <1>4, <1>5
<1>7. ASSUME NEW i \in DOMAIN queue' PROVE newest' <= queue'[i].mono
  <2>1. PICK j \in DOMAIN queue : j # n /\ queue'[i] = queue[j] /\ queue[j].mono \in Nat
    BY <1>1, MovedUp
  <2>2. n < j
    BY <1>1, <1>2, <2>1
  <2>3. m <= queue[j].mono
    BY <1>4, <2>2 DEF QueueOK
  <2>4. QED BY <1>5, <2>1, <2>3
<1>8. QED BY <1>3, <1>5, <1>6, <1>7 DEF Ordered

LEMMA OrderedStep ==
    ASSUME \A a, b \in CPUs : a = b, FileInv, Ordered, [Next]_vars
    PROVE  Ordered'
<1>0. TypeInv /\ KernelInv /\ QueueOK
  BY DEF FileInv, TypeInv
<1>1. CASE KernelNext /\ UNCHANGED service
  <2>1. KernelInv' /\ Queues /\ Tables
    BY <1>0, <1>1, KernelLife DEF Life
  <2>2. QED BY <1>0, <1>1, <2>1, OrderedPushed
<1>2. CASE ServiceNext
  <2>1. PICK n \in DOMAIN queue : /\ Popped(n) /\ kernel' = kernel /\ Judges(queue[n])
                                  /\ \E type : Take(n, type)
    BY <1>0, <1>2, ServiceJudges
  <2>2. PICK type : Take(n, type)
    BY <2>1
  <2>3. QED BY <1>0, <2>1, <2>2, OrderedPopped
<1>3. CASE UNCHANGED vars
  BY <1>3 DEF Ordered, vars, kernel, channel, service
<1>4. QED BY <1>1, <1>2, <1>3 DEF Next

-----------------------------------------------------------------------------
(* The theorems.                                                           *)

\* The two ways to write the types agree.
LEMMA TypesSay ==
    ASSUME TypeInv
    PROVE  TypeOK
<1>1. \A t \in Tids : {pendingOpen[t], pendingDup[t], pendingWrite[t]} \subseteq Attempts
  BY DEF TypeInv, ServiceTypes, Attempts
<1>2. QED BY <1>1 DEF TypeInv, KernelInv, KernelTypes, ServiceTypes, TypeOK

\* What precd keeps of files, and its rows, have the types the code declares
\* (openFileState, fileSaveDedupKey, pendingFileOpen and its like).
THEOREM TypesCorrect == Spec => []TypeOK
<1>1. FileInv => TypeOK
  BY TypesSay DEF FileInv
<1>2. QED BY <1>1, FileInvariant, PTL

\* A file_save row of a process that lives names a path this process itself has
\* had open, never an earlier user of its pid (dropFileStateByTGID on the exit
\* of the leader): as long as leaders end last, no sample was lost, and none was
\* read before an older one of its process or thread.
THEOREM SavesAreOfOwnFiles == Spec => []AttributedToOwnFile
<1>1. FileInv => AttributedToOwnFile
  BY RowsSay DEF FileInv
<1>2. QED BY <1>1, FileInvariant, PTL

\* A row is not wrong about a file that was open for longer than
\* fileIdentityCheckInterval when it was written to: it names that file or one
\* opened there later (resolveTrackedRegularFilePath), as long as no sample was
\* lost and none was read before an older one of its process or thread.
THEOREM SavesAreFresh == Spec => []FreshAfterInterval
<1>1. FileInv => FreshAfterInterval
  BY RowsSay DEF FileInv
<1>2. QED BY <1>1, FileInvariant, PTL

\* When every process is gone and its samples are handled, the maps of open
\* files, of attempts and of accepted saves are empty (handleProcessExit): as
\* long as leaders end last, no sample was lost, and none was read before an
\* older one of its process or thread.
THEOREM NothingOfFilesIsKept == Spec => []NothingKept
<1>1. FileInv => NothingKept
  BY KeptSays DEF FileInv
<1>2. QED BY <1>1, FileInvariant, PTL

\* Service.Run calls shouldSuppressDuplicateFileSave with the times of its
\* samples and forgets a process when its leader has ended: what is promised of
\* that function holds of the saves it is asked about, as long as the rings of
\* the CPUs are never read further apart than Skew.
THEOREM RunSuppressesAsPromised ==
    Spec /\ []WithinSkew => [](AcceptedApart /\ SuppressedForAnAccepted /\ MapSwept)
<1>1. SuppressionInv => AcceptedApart /\ SuppressedForAnAccepted /\ MapSwept
  BY MapIsSwept DEF SuppressionInv, DedupInv
<1>2. QED BY <1>1, InitSuppression, SuppressionStep, PTL DEF Spec

\* On one CPU there is one ring: no sample is read before an older one, and the
\* times the suppression sees only grow.  What is said above of files read in
\* order, and of rings not read too far apart, then needs no such condition.
THEOREM OneRingKeepsOrder ==
    ASSUME \A a, b \in CPUs : a = b
    PROVE  Spec => [](~overtaken /\ WithinSkew)
<1>1. Init => Ordered
  BY DEF Init, Ordered, DedupInit
<1>2. FileInv /\ Ordered /\ [Next]_vars => Ordered'
  BY OrderedStep
<1>3. FileInv /\ Ordered => ~overtaken /\ WithinSkew
  <2> SUFFICES ASSUME FileInv, Ordered PROVE ~overtaken /\ WithinSkew
    OBVIOUS
  <2>1. ASSUME NEW i \in DOMAIN queue PROVE queue[i].mono + Skew >= newest
    <3>1. queue[i].mono \in Nat /\ Skew \in Nat /\ newest \in Nat /\ newest <= queue[i].mono
      BY Positions, SampleFields, DedupAssumption DEF FileInv, TypeInv, DedupAssumption, Ordered
    <3>2. QED BY <3>1
  <2>2. QED BY <2>1 DEF WithinSkew, Ordered
<1>4. QED BY <1>1, <1>2, <1>3, FileInvariant, PTL DEF Spec
=============================================================================
