------------------------ MODULE LossAccountingProofs ------------------------
(***************************************************************************)
(* For every set of batches, every interval and every bound: the rows of   *)
(* precd account for all losses and keep the rate limit.                   *)
(***************************************************************************)
EXTENDS LossAccounting, TLAPS

\* The rate limit is kept because no row is younger than lastLostLogAt, which
\* is what the next row is measured against.
LastRowIsOld ==
    rows # <<>> => lastLostLogAt \in Nat /\ rows[Len(rows)].at <= lastLostLogAt

LossInv == TypeOK /\ LossesAggregated /\ LastRowIsOld

\* What the proofs use of sequences: the type of an element, the empty sequence.
LEMMA SeqFacts ==
    ASSUME NEW S, NEW s \in Seq(S)
    PROVE  /\ \A i \in 1 .. Len(s) : s[i] \in S
           /\ Len(s) \in Nat
           /\ s = <<>> <=> Len(s) = 0
OBVIOUS

\* What every row holds.
LEMMA RowTypes ==
    ASSUME TypeOK
    PROVE  /\ Len(rows) \in Nat
           /\ rows = <<>> <=> Len(rows) = 0
           /\ DOMAIN rows = 1 .. Len(rows)
           /\ \A i \in 1 .. Len(rows) : rows[i].total \in Nat /\ rows[i].at \in Nat
<1> DEFINE Row == [lost : Nat, total : Nat, at : Nat]
<1>1. rows \in Seq(Row)
  BY DEF TypeOK
<1>2. DOMAIN rows = 1 .. Len(rows)
  BY <1>1
<1>3. \A r \in Row : r.total \in Nat /\ r.at \in Nat
  OBVIOUS
<1> HIDE DEF Row
<1>4. /\ \A i \in 1 .. Len(rows) : rows[i] \in Row
      /\ Len(rows) \in Nat
      /\ rows = <<>> <=> Len(rows) = 0
  BY <1>1, SeqFacts
<1>5. QED BY <1>2, <1>3, <1>4

\* Nothing that the invariant is about changes but the clock or `running'.
LEMMA Silent ==
    ASSUME LossInv,
           UNCHANGED <<action, lostTotal, pendingLostLog, lastLostLogAt, rows>>,
           now' \in Nat, running' \in BOOLEAN, running' => running
    PROVE  LossInv'
<1>1. TypeOK'
  BY DEF LossInv, TypeOK
<1>2. LossesAggregated'
  BY DEF LossInv, LossesAggregated, TotalOf
<1>3. LastRowIsOld'
  BY DEF LossInv, LastRowIsOld
<1>4. QED BY <1>1, <1>2, <1>3 DEF LossInv

\* With "ignore" no row is ever written for the loss.
LEMMA IgnoredStep ==
    ASSUME LossInv, NEW n \in Nat, LostIgnored(n)
    PROVE  LossInv'
<1>1. TypeOK'
  BY DEF LossInv, TypeOK, LostIgnored
<1>2. LossesAggregated'
  BY DEF LossInv, LossesAggregated, TotalOf, LostIgnored
<1>3. LastRowIsOld'
  BY DEF LossInv, LastRowIsOld, LostIgnored
<1>4. QED BY <1>1, <1>2, <1>3 DEF LossInv

\* The total of the last row, 0 before the first.
LEMMA LastTotal ==
    ASSUME TypeOK
    PROVE  TotalOf(Len(rows)) \in Nat
<1>1. CASE Len(rows) = 0
  BY <1>1 DEF TotalOf
<1>2. CASE Len(rows) # 0
  <2>1. Len(rows) \in 1 .. Len(rows)
    BY <1>2, RowTypes
  <2>2. QED BY <2>1, <1>2, RowTypes DEF TotalOf
<1>3. QED BY <1>1, <1>2

\* Within the interval the loss joins those that wait.
LEMMA DeferredStep ==
    ASSUME LossInv, running, NEW n \in Nat, LostDeferred(n)
    PROVE  LossInv'
<1>1. TypeOK'
  BY DEF LossInv, TypeOK, LostDeferred
<1>2. TotalOf(Len(rows)) \in Nat
  BY LastTotal DEF LossInv
<1>3. LossesAggregated'
  <2>1. rows' = rows /\ \A i : TotalOf(i)' = TotalOf(i)
    BY DEF LostDeferred, TotalOf
  <2>2. lostTotal' = TotalOf(Len(rows))' + pendingLostLog'
    <3>1. lostTotal = TotalOf(Len(rows)) + pendingLostLog
      BY DEF LossInv, LossesAggregated, LostDeferred
    <3>2. TotalOf(Len(rows))' = TotalOf(Len(rows))
      BY <2>1
    <3>3. pendingLostLog \in Nat /\ lostTotal' = lostTotal + n /\ pendingLostLog' = pendingLostLog + n
      BY DEF LossInv, TypeOK, LostDeferred
    <3>4. QED BY <1>2, <3>1, <3>2, <3>3
  <2>3. QED BY <2>1, <2>2 DEF LossInv, LossesAggregated
<1>4. LastRowIsOld'
  BY DEF LossInv, LastRowIsOld, LostDeferred
<1>5. QED BY <1>1, <1>3, <1>4 DEF LossInv

\* The row that is written, if any, takes what was waiting.
LEMMA LoggedStep ==
    ASSUME LossInv, running, NEW n \in Nat, LostLogged(n)
    PROVE  LossInv'
<1> DEFINE row == [lost |-> pendingLostLog + n, total |-> lostTotal + n, at |-> now]
           Row == [lost : Nat, total : Nat, at : Nat]
<1>1. /\ pendingLostLog \in Nat /\ lostTotal \in Nat /\ now \in Nat
      /\ rows \in Seq(Row) /\ row \in Row /\ LossAssumption
  BY LossAssumption DEF LossInv, TypeOK
<1>2. PICK ok \in BOOLEAN :
          /\ running' = (ok /\ action # "stop")
          /\ rows' = IF ok THEN Append(rows, row) ELSE rows
  BY <1>1 DEF LostLogged, LossAssumption
<1>3. rows' \in Seq(Row)
  <2>1. CASE ok
    BY <1>1, <1>2, <2>1
  <2>2. CASE ~ok
    BY <1>1, <1>2, <2>2
  <2>3. QED BY <2>1, <2>2
<1>4. /\ rows' \in Seq(Row)
      /\ lastLostLogAt' = now /\ pendingLostLog' = 0 /\ lostTotal' = lostTotal + n
      /\ action' = action /\ now' = now /\ action # "ignore" /\ ~TooSoon
  BY <1>3 DEF LostLogged
<1>5. TypeOK'
  BY <1>1, <1>2, <1>4 DEF LossInv, TypeOK
<1>6. lostTotal = TotalOf(Len(rows)) + pendingLostLog
  BY <1>4 DEF LossInv, LossesAggregated
<1>7. TotalOf(Len(rows)) \in Nat
  BY LastTotal DEF LossInv
<1>8. CASE ok
  <2>1. rows' = Append(rows, row) /\ Len(rows') = Len(rows) + 1 /\ rows'[Len(rows')] = row
    BY <1>1, <1>2, <1>8
  <2>2. \A i \in DOMAIN rows : rows'[i] = rows[i]
    BY <1>1, <2>1
  <2>3. DOMAIN rows = 1 .. Len(rows) /\ DOMAIN rows' = 1 .. Len(rows) + 1 /\ Len(rows) \in Nat
    BY <1>1, <1>4, <2>1
  <2>4. ASSUME NEW i \in DOMAIN rows'
        PROVE  /\ rows'[i].total = TotalOf(i - 1)' + rows'[i].lost
               /\ i > 1 => rows'[i].at - rows'[i - 1].at >= Interval
    <3>1. CASE i \in DOMAIN rows
      <4>1. i - 1 = 0 \/ i - 1 \in DOMAIN rows
        BY <3>1, <2>3
      <4>2. TotalOf(i - 1)' = TotalOf(i - 1)
        BY <4>1, <2>2 DEF TotalOf
      <4>3. QED BY <3>1, <4>1, <4>2, <2>2 DEF LossInv, LossesAggregated
    <3>2. CASE i = Len(rows')
      <4>1. i - 1 = Len(rows) /\ (Len(rows) = 0 \/ Len(rows) \in DOMAIN rows)
        BY <3>2, <2>1, <2>3
      <4>2. TotalOf(i - 1)' = TotalOf(Len(rows))
        BY <4>1, <2>2 DEF TotalOf
      <4>3. rows'[i].total = lostTotal + n /\ rows'[i].lost = pendingLostLog + n
        BY <3>2, <2>1
      <4>4. rows'[i].total = TotalOf(i - 1)' + rows'[i].lost
        BY <4>2, <4>3, <1>1, <1>6, <1>7
      <4>5. ASSUME i > 1
            PROVE  rows'[i].at - rows'[i - 1].at >= Interval
        <5>0. Len(rows) \in DOMAIN rows
          BY <4>1, <4>5, <2>3
        <5>1. rows # <<>> /\ rows'[i - 1] = rows[Len(rows)] /\ rows'[i].at = now
          <6>1. rows # <<>>
            BY <5>0, <2>3, <1>1, RowTypes DEF LossInv
          <6>2. rows'[i - 1] = rows[Len(rows)]
            BY <4>1, <5>0, <2>2
          <6>3. rows'[i].at = now
            BY <3>2, <2>1
          <6>4. QED BY <6>1, <6>2, <6>3
        <5>2. lastLostLogAt \in Nat /\ rows[Len(rows)].at <= lastLostLogAt
          BY <5>1 DEF LossInv, LastRowIsOld
        <5>3. now - lastLostLogAt >= Interval
          BY <5>2, <1>1, <1>4 DEF TooSoon, Never, LossAssumption
        <5>4. rows[Len(rows)].at \in Nat
          BY <5>0, <2>3, RowTypes DEF LossInv
        <5>5. QED BY <5>1, <5>2, <5>3, <5>4, <1>1 DEF LossAssumption
      <4>6. QED BY <4>4, <4>5
    <3>3. QED BY <3>1, <3>2, <2>1, <2>3
  <2>5. TotalOf(Len(rows))' = lostTotal + n
    <3>1. Len(rows') # 0 /\ rows'[Len(rows')].total = lostTotal + n
      BY <2>1, <2>3
    <3>2. QED BY <3>1 DEF TotalOf
  <2>6. lostTotal' = TotalOf(Len(rows))' + pendingLostLog'
    BY <2>5, <1>1, <1>4
  <2>7. LossesAggregated'
    BY <2>4, <2>6 DEF LossesAggregated
  <2>8. LastRowIsOld'
    BY <2>1, <1>1, <1>4 DEF LastRowIsOld
  <2>9. QED BY <1>5, <2>7, <2>8 DEF LossInv
<1>9. CASE ~ok
  <2>1. rows' = rows /\ ~running'
    BY <1>2, <1>9
  <2>2. LossesAggregated'
    BY <2>1 DEF LossInv, LossesAggregated, TotalOf
  <2>3. rows # <<>> => lastLostLogAt \in Nat /\ rows[Len(rows)].at <= now
    <3>1. SUFFICES ASSUME rows # <<>> PROVE lastLostLogAt \in Nat /\ rows[Len(rows)].at <= now
      OBVIOUS
    <3>2. lastLostLogAt \in Nat /\ rows[Len(rows)].at <= lastLostLogAt
      BY <3>1 DEF LossInv, LastRowIsOld
    <3>3. now >= lastLostLogAt
      BY <3>2, <1>1, <1>4 DEF TooSoon, Never, LossAssumption
    <3>4. rows[Len(rows)].at \in Nat
      <4>1. Len(rows) \in 1 .. Len(rows)
        BY <3>1, RowTypes DEF LossInv
      <4>2. QED BY <4>1, RowTypes DEF LossInv
    <3>5. QED BY <3>2, <3>3, <3>4, <1>1
  <2>4. LastRowIsOld'
    BY <2>1, <2>3, <1>1, <1>4 DEF LastRowIsOld
  <2>5. QED BY <1>5, <2>2, <2>4 DEF LossInv
<1>10. QED BY <1>8, <1>9

\* Nothing is lost and no row is written at the start.
LEMMA InitLoss == Init => LossInv
BY LossAssumption DEF Init, LossInv, TypeOK, LossesAggregated, TotalOf, LastRowIsOld, Never

\* Every step keeps the invariant.
LEMMA NextLoss == LossInv /\ [Next]_vars => LossInv'
<1> SUFFICES ASSUME LossInv, [Next]_vars PROVE LossInv'
  OBVIOUS
<1>1. CASE Tick
  <2>1. now' \in Nat /\ running' \in BOOLEAN /\ (running' => running)
    BY <1>1 DEF Tick, LossInv, TypeOK
  <2>2. QED BY <1>1, <2>1, Silent DEF Tick
<1>2. CASE Stop
  <2>1. now' \in Nat /\ running' \in BOOLEAN /\ (running' => running)
    BY <1>2 DEF Stop, LossInv, TypeOK
  <2>2. QED BY <1>2, <2>1, Silent DEF Stop
<1>3. ASSUME running, NEW n \in Batches, LostIgnored(n) \/ LostDeferred(n) \/ LostLogged(n)
      PROVE  LossInv'
  <2>1. n \in Nat
    BY LossAssumption DEF LossAssumption
  <2>2. QED BY <1>3, <2>1, IgnoredStep, DeferredStep, LoggedStep
<1>4. CASE UNCHANGED vars
  <2>1. now' \in Nat /\ running' \in BOOLEAN /\ (running' => running)
    BY <1>4 DEF vars, LossInv, TypeOK
  <2>2. QED BY <1>4, <2>1, Silent DEF vars
<1>5. QED BY <1>1, <1>2, <1>3, <1>4 DEF Next

\* README: "`proc_loss` notifications are aggregated and logged at most once per
\* second": every loss is in exactly one row or waiting for one, and rows are
\* an interval apart, whatever the sizes and times of the losses.
THEOREM LossesAreAggregated == Spec => []LossesAggregated
<1>1. Init => LossInv
  BY InitLoss
<1>2. LossInv /\ [Next]_vars => LossInv'
  BY NextLoss
<1>3. LossInv => LossesAggregated
  BY DEF LossInv
<1>4. QED BY <1>1, <1>2, <1>3, PTL DEF Spec
=============================================================================
