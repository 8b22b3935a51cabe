--------------------------- MODULE JoinViewProofs ---------------------------
(***************************************************************************)
(* What prec makes of a log is what the log says, for every log the        *)
(* daemons can write, every query, limit and window:                       *)
(*   - a list has one row for every command, at the place of its first     *)
(*     start, with the fields of the start and the result of its end;      *)
(*   - a follower shows what changes as a list would, and awaits the ends  *)
(*     a list would still await;                                           *)
(*   - the last rows are the same through the ring, the backward scan of   *)
(*     compressed frames and the list without ends.                        *)
(*                                                                         *)
(* The functions are loops over a sequence, so an argument about one is an *)
(* induction over places.  A loop that keeps some of the elements is       *)
(* described by the set of their places: Picked(s, I) has the element of   *)
(* place a at Rank(I, a), the number of places of I up to a.               *)
(*                                                                         *)
(* The order below: induction and ranks; records, commands, what one step  *)
(* of mergeEventsForList keeps (MergedAt) and what the list is (Firsts);   *)
(* the invariant of the log (LogInv) and that of its follower (ReaderInv); *)
(* the ring (WindowAt); the streams of rows (Seen); the backward scan      *)
(* (BackAt) and its windows.                                               *)
(***************************************************************************)
EXTENDS JoinView, SequenceTheorems, FiniteSetTheorems, WellFoundedInduction, TLAPS

-----------------------------------------------------------------------------
(* Induction.  The theorems of the library take the formula to be proved   *)
(* as an operator; a set of numbers does as well.                          *)

\* A set that has 0 and the successor of each of its numbers has all of them:
\* of the others, one would be below the fewest others.
LEMMA NatSetInduction ==
    ASSUME NEW T, 0 \in T, \A n \in Nat : n \in T => n + 1 \in T
    PROVE  Nat \subseteq T
<1> SUFFICES ASSUME NEW k \in Nat, k \notin T PROVE FALSE
  OBVIOUS
<1> DEFINE Below(n) == 0 .. n - 1
           S == {Below(n) : n \in Nat \ T}
           R == StrictSubsetOrdering(Nat)
           F == FiniteSubsetsOf(Nat)
<1>1. IsWellFoundedOn(R, F)
  BY FS_StrictSubsetOrderingWellFounded
<1>2. ASSUME NEW n \in Nat PROVE Below(n) \in F
  <2>1. IsFiniteSet(0 .. n - 1)
    BY FS_Interval
  <2>2. QED BY <2>1 DEF FiniteSubsetsOf
<1>3. S \subseteq F /\ S # {}
  BY <1>2
<1> HIDE DEF R, F, S
<1>4. PICK x \in S : \A y \in S : ~(<<y, x>> \in R)
  BY <1>1, <1>3, WFMin
<1>5. PICK n \in Nat \ T : x = Below(n)
  BY DEF S
<1>6. n # 0
  BY <1>5
<1>7. n - 1 \in Nat
  BY <1>5, <1>6
<1>8. n - 1 \in Nat \ T
  BY <1>5, <1>7
<1>9. Below(n - 1) \in S
  BY <1>8 DEF S
<1>10. Below(n - 1) \in SUBSET Nat /\ Below(n) \in SUBSET Nat
  BY <1>5, <1>7
<1>11. Below(n - 1) \subseteq Below(n) /\ n - 1 \in Below(n) /\ n - 1 \notin Below(n - 1)
  BY <1>5, <1>7
<1>12. <<Below(n - 1), Below(n)>> \in R
  <2> HIDE DEF Below
  <2>1. QED BY <1>10, <1>11 DEF R, StrictSubsetOrdering
<1>13. QED BY <1>4, <1>5, <1>9, <1>12

\* A set of numbers with an element has a least one.
LEMMA LeastExists ==
    ASSUME NEW S, S \subseteq Nat, NEW x \in S
    PROVE  \E y \in S : \A z \in S : y <= z
<1> DEFINE T == {n \in Nat : \A z \in S : n <= z}
<1> SUFFICES ASSUME \A y \in S : \E z \in S : ~(y <= z) PROVE FALSE
  OBVIOUS
<1>1. 0 \in T
  OBVIOUS
<1>2. ASSUME NEW n \in Nat, n \in T PROVE n + 1 \in T
  <2>1. n \notin S
    BY <1>2
  <2>2. ASSUME NEW z \in S PROVE n + 1 <= z
    BY <1>2, <2>1
  <2>3. QED BY <2>2
<1> HIDE DEF T
<1>3. Nat \subseteq T
  BY <1>1, <1>2, NatSetInduction
<1>4. x + 1 \in T
  BY <1>3
<1>5. QED BY <1>4 DEF T

\* ... and a greatest one if they are bounded.
LEMMA GreatestExists ==
    ASSUME NEW n \in Nat, NEW S, S \subseteq 0 .. n, NEW x \in S
    PROVE  \E y \in S : \A z \in S : z <= y
<1> DEFINE D == {d \in 0 .. n : n - d \in S}
<1>1. D \subseteq Nat /\ n - x \in D
  OBVIOUS
<1>2. PICK d \in D : \A e \in D : d <= e
  BY <1>1, LeastExists
<1>3. n - d \in S
  OBVIOUS
<1>4. ASSUME NEW z \in S PROVE z <= n - d
  <2>1. n - z \in D
    OBVIOUS
  <2>2. d <= n - z
    BY <1>2, <2>1
  <2>3. QED BY <2>2
<1>5. QED BY <1>3, <1>4

LEMMA GreatestIs ==
    ASSUME NEW S, S \subseteq Int, NEW x \in S, \A y \in S : y <= x
    PROVE  Greatest(S) = x
<1>1. Greatest(S) \in S /\ \A y \in S : y <= Greatest(S)
  BY DEF Greatest
<1>2. Greatest(S) \in Int /\ x \in Int /\ Greatest(S) <= x /\ x <= Greatest(S)
  BY <1>1
<1>3. QED BY <1>2

LEMMA LeastIs ==
    ASSUME NEW S, S \subseteq Int, NEW x \in S, \A y \in S : x <= y
    PROVE  Least(S) = x
<1>1. Least(S) \in S /\ \A y \in S : Least(S) <= y
  BY DEF Least
<1>2. Least(S) \in Int /\ x \in Int /\ Least(S) <= x /\ x <= Least(S)
  BY <1>1
<1>3. QED BY <1>2

\* A recursion over 1 .. n within a set of values has a solution.
IsStep(State, n, step) == step \in [1 .. n -> [State -> State]]

IsSolution(f, State, n, first, step) ==
    /\ f \in [0 .. n -> State]
    /\ f[0] = first
    /\ \A i \in 1 .. n : f[i] = step[i][f[i - 1]]

LEMMA RecursionExists ==
    ASSUME NEW State, NEW n \in Nat, NEW first \in State, NEW step, IsStep(State, n, step)
    PROVE  \E f : IsSolution(f, State, n, first, step)
<1> USE DEF IsStep, IsSolution
<1> DEFINE Upto(k, f) == f[0] = first /\ \A i \in 1 .. k : f[i] = step[i][f[i - 1]]
           T == {k \in Nat : k <= n => \E f \in [0 .. k -> State] : Upto(k, f)}
<1>1. 0 \in T
  <2>1. [i \in 0 .. 0 |-> first] \in [0 .. 0 -> State] /\ Upto(0, [i \in 0 .. 0 |-> first])
    OBVIOUS
  <2>2. QED BY <2>1
<1>2. ASSUME NEW k \in Nat, k \in T PROVE k + 1 \in T
  <2> SUFFICES ASSUME k + 1 <= n PROVE \E f \in [0 .. k + 1 -> State] : Upto(k + 1, f)
    OBVIOUS
  <2>1. PICK f \in [0 .. k -> State] : Upto(k, f)
    BY <1>2
  <2> DEFINE g == [i \in 0 .. k + 1 |-> IF i <= k THEN f[i] ELSE step[k + 1][f[k]]]
  <2>2. g \in [0 .. k + 1 -> State]
    OBVIOUS
  <2>3. g[0] = first
    BY <2>1
  <2>4. ASSUME NEW i \in 1 .. k + 1 PROVE g[i] = step[i][g[i - 1]]
    <3>1. CASE i <= k
      BY <2>1, <3>1
    <3>2. CASE i = k + 1
      BY <3>2
    <3>3. QED BY <3>1, <3>2
  <2>5. QED BY <2>2, <2>3, <2>4
<1> HIDE DEF T
<1>3. n \in T
  BY <1>1, <1>2, NatSetInduction
<1>4. QED BY <1>3 DEF T

-----------------------------------------------------------------------------
(* Places in a sequence.  Rank(I, i) counts the places in I up to i: it is *)
(* where the element at i goes when the elements at I are picked.          *)

Rank(I, i) == Cardinality(I \cap (1 .. i))

LEMMA RankStep ==
    ASSUME NEW I, NEW i \in Nat
    PROVE  /\ Rank(I, 0) = 0
           /\ Rank(I, i) \in Nat
           /\ Rank(I, i) <= i
           /\ Rank(I, i + 1) = IF i + 1 \in I THEN Rank(I, i) + 1 ELSE Rank(I, i)
<1>1. IsFiniteSet(1 .. i) /\ Cardinality(1 .. i) = i
  BY FS_Interval
<1>2. I \cap (1 .. i) \in SUBSET (1 .. i)
  OBVIOUS
<1>3. IsFiniteSet(I \cap (1 .. i)) /\ Cardinality(I \cap (1 .. i)) <= i
  <2>1. IsFiniteSet(I \cap (1 .. i)) /\ Cardinality(I \cap (1 .. i)) <= Cardinality(1 .. i)
    BY <1>1, <1>2, FS_Subset
  <2>2. QED BY <1>1, <2>1
<1>4. Rank(I, i) \in Nat /\ Rank(I, i) <= i
  BY <1>3, FS_CardinalityType DEF Rank
<1>5. Rank(I, 0) = 0
  <2>1. I \cap (1 .. 0) = {}
    OBVIOUS
  <2>2. QED BY <2>1, FS_EmptySet DEF Rank
<1>6. CASE i + 1 \in I
  <2>1. I \cap (1 .. i + 1) = (I \cap (1 .. i)) \cup {i + 1}
    BY <1>6
  <2>2. i + 1 \notin I \cap (1 .. i)
    OBVIOUS
  <2>3. Rank(I, i + 1) = Rank(I, i) + 1
    BY <1>3, <2>1, <2>2, FS_AddElement DEF Rank
  <2>4. QED BY <1>4, <1>5, <1>6, <2>3
<1>7. CASE i + 1 \notin I
  <2>1. I \cap (1 .. i + 1) = I \cap (1 .. i)
    BY <1>7
  <2>2. QED BY <1>4, <1>5, <1>7, <2>1 DEF Rank
<1>8. QED BY <1>6, <1>7

\* It grows, and by one at each place of I.
LEMMA RankGrows ==
    ASSUME NEW I, NEW i \in Nat, NEW j \in Nat, i <= j
    PROVE  /\ Rank(I, i) <= Rank(I, j)
           /\ i < j /\ j \in I => Rank(I, i) < Rank(I, j)
<1> DEFINE T == {k \in Nat : i <= k => /\ Rank(I, i) <= Rank(I, k)
                                       /\ i < k /\ k \in I => Rank(I, i) < Rank(I, k)}
<1>1. 0 \in T
  BY RankStep
<1>2. ASSUME NEW k \in Nat, k \in T PROVE k + 1 \in T
  <2> SUFFICES ASSUME i <= k + 1
               PROVE  /\ Rank(I, i) <= Rank(I, k + 1)
                      /\ i < k + 1 /\ k + 1 \in I => Rank(I, i) < Rank(I, k + 1)
    OBVIOUS
  <2>1. Rank(I, k) \in Nat /\ Rank(I, k + 1) \in Nat /\ Rank(I, i) \in Nat
    BY RankStep
  <2>2. Rank(I, k + 1) = IF k + 1 \in I THEN Rank(I, k) + 1 ELSE Rank(I, k)
    BY RankStep
  <2>3. CASE i <= k
    <3>1. Rank(I, i) <= Rank(I, k)
      BY <1>2, <2>3
    <3>2. QED BY <2>1, <2>2, <3>1
  <2>4. CASE i = k + 1
    BY <2>1, <2>4
  <2>5. QED BY <2>3, <2>4
<1> HIDE DEF T
<1>3. j \in T
  BY <1>1, <1>2, NatSetInduction
<1>4. QED BY <1>3 DEF T

\* No number is passed over.
LEMMA RankHits ==
    ASSUME NEW I, NEW n \in Nat, NEW k \in 1 .. Rank(I, n)
    PROVE  \E i \in I \cap (1 .. n) : Rank(I, i) = k
<1> DEFINE T == {m \in Nat : k <= Rank(I, m) => \E i \in I \cap (1 .. m) : Rank(I, i) = k}
<1>0. k \in Nat \ {0}
  BY RankStep
<1>1. 0 \in T
  BY RankStep, <1>0
<1>2. ASSUME NEW m \in Nat, m \in T PROVE m + 1 \in T
  <2> SUFFICES ASSUME k <= Rank(I, m + 1)
               PROVE  \E i \in I \cap (1 .. m + 1) : Rank(I, i) = k
    OBVIOUS
  <2>1. Rank(I, m) \in Nat /\ Rank(I, m + 1) \in Nat
    BY RankStep
  <2>2. Rank(I, m + 1) = IF m + 1 \in I THEN Rank(I, m) + 1 ELSE Rank(I, m)
    BY RankStep
  <2>3. CASE k <= Rank(I, m)
    BY <1>2, <2>3
  <2>4. CASE ~(k <= Rank(I, m))
    <3>1. m + 1 \in I /\ k = Rank(I, m + 1)
      BY <1>0, <2>1, <2>2, <2>4
    <3>2. QED BY <3>1
  <2>5. QED BY <2>3, <2>4
<1> HIDE DEF T
<1>3. n \in T
  BY <1>1, <1>2, NatSetInduction
<1>4. k <= Rank(I, n)
  BY RankStep
<1>5. QED BY <1>3, <1>4 DEF T

\* Only the places up to i count.
LEMMA RankOfSame ==
    ASSUME NEW I, NEW J, NEW i, I \cap (1 .. i) = J \cap (1 .. i)
    PROVE  Rank(I, i) = Rank(J, i)
  BY DEF Rank

\* Picked gathers the elements at I one by one.
Gathers(p, s, I) ==
    /\ p[0] = <<>>
    /\ \A i \in 0 .. Len(s) : i + 1 \in 1 .. Len(s) =>
          p[i + 1] = IF i + 1 \in I THEN Append(p[i], s[i + 1]) ELSE p[i]

LEMMA PickedGathers ==
    ASSUME NEW S, NEW s \in Seq(S), NEW I
    PROVE  \E p : Gathers(p, s, I) /\ Picked(s, I) = p[Len(s)]
<1> DEFINE n == Len(s)
           step == [i \in 1 .. n |-> [t \in Seq(S) |-> IF i \in I THEN Append(t, s[i]) ELSE t]]
           IsIt(f) == f = [i \in 0 .. Len(s) |->
                            IF i = 0 THEN <<>>
                            ELSE IF i \in I THEN Append(f[i - 1], s[i]) ELSE f[i - 1]]
           p == CHOOSE f : IsIt(f)
<1>1. n \in Nat /\ <<>> \in Seq(S)
  OBVIOUS
<1>2. step \in [1 .. n -> [Seq(S) -> Seq(S)]]
  OBVIOUS
<1>3. PICK f : IsSolution(f, Seq(S), n, <<>>, step)
  <2> HIDE DEF step, n
  <2>1. IsStep(Seq(S), n, step)
    BY <1>2 DEF IsStep
  <2>2. QED BY <1>1, <2>1, RecursionExists
<1>4. IsIt(f)
  <2>1. f \in [0 .. n -> Seq(S)] /\ f[0] = <<>>
    BY <1>3 DEF IsSolution
  <2>2. ASSUME NEW i \in 1 .. n
        PROVE  f[i] = IF i \in I THEN Append(f[i - 1], s[i]) ELSE f[i - 1]
    <3>1. i - 1 \in 0 .. n
      BY <1>1
    <3>2. f[i - 1] \in Seq(S)
      BY <2>1, <3>1
    <3>3. f[i] = step[i][f[i - 1]]
      BY <1>3 DEF IsSolution
    <3>4. QED BY <3>2, <3>3
  <2>3. ASSUME NEW i \in 0 .. n
        PROVE  f[i] = IF i = 0 THEN <<>>
                      ELSE IF i \in I THEN Append(f[i - 1], s[i]) ELSE f[i - 1]
    <3>1. i = 0 \/ i \in 1 .. n
      BY <1>1
    <3>2. QED BY <2>1, <2>2, <3>1
  <2>4. QED BY <2>1, <2>3
<1>5. IsIt(p)
  BY <1>4
<1> HIDE DEF p
<1>6. /\ p[0] = <<>>
      /\ \A i \in 0 .. n : i + 1 \in 1 .. n =>
            p[i + 1] = IF i + 1 \in I THEN Append(p[i], s[i + 1]) ELSE p[i]
  <2>1. ASSUME NEW i \in 0 .. n
        PROVE  p[i] = IF i = 0 THEN <<>>
                      ELSE IF i \in I THEN Append(p[i - 1], s[i]) ELSE p[i - 1]
    BY <1>5
  <2>2. p[0] = <<>>
    BY <1>1, <2>1
  <2>3. ASSUME NEW i \in 0 .. n, i + 1 \in 1 .. n
        PROVE  p[i + 1] = IF i + 1 \in I THEN Append(p[i], s[i + 1]) ELSE p[i]
    <3>1. i + 1 \in 0 .. n /\ i + 1 # 0 /\ (i + 1) - 1 = i
      BY <1>1, <2>3
    <3>2. QED BY <2>1, <3>1
  <2>4. QED BY <2>2, <2>3
<1>7. Picked(s, I) = p[Len(s)]
  BY DEF Picked, p
<1>8. QED BY <1>6, <1>7 DEF Gathers

\* Picked has the elements at I, each at its rank.
LEMMA PickedRanks ==
    ASSUME NEW S, NEW s \in Seq(S), NEW I
    PROVE  /\ Picked(s, I) \in Seq(S)
           /\ Len(Picked(s, I)) = Rank(I, Len(s))
           /\ \A i \in I \cap (1 .. Len(s)) :
                 /\ Rank(I, i) \in 1 .. Len(Picked(s, I))
                 /\ Picked(s, I)[Rank(I, i)] = s[i]
<1> DEFINE n == Len(s)
<1>1. n \in Nat /\ <<>> \in Seq(S)
  OBVIOUS
<1>2. PICK p : Gathers(p, s, I) /\ Picked(s, I) = p[Len(s)]
  BY PickedGathers
<1>6. /\ p[0] = <<>>
      /\ \A i \in 0 .. n : i + 1 \in 1 .. n =>
            p[i + 1] = IF i + 1 \in I THEN Append(p[i], s[i + 1]) ELSE p[i]
  BY <1>2 DEF Gathers
<1>7. Picked(s, I) = p[Len(s)]
  BY <1>2
<1> DEFINE At(k) == /\ p[k] \in Seq(S)
                    /\ Len(p[k]) = Rank(I, k)
                    /\ \A i \in I \cap (1 .. k) : p[k][Rank(I, i)] = s[i]
           T == {k \in Nat : k <= n => At(k)}
<1>8. 0 \in T
  <2>1. p[0] \in Seq(S) /\ Len(p[0]) = 0
    BY <1>6
  <2>2. Rank(I, 0) = 0
    BY RankStep
  <2>3. QED BY <2>1, <2>2
<1>9. ASSUME NEW k \in Nat, k \in T PROVE k + 1 \in T
  <2> SUFFICES ASSUME k + 1 <= n PROVE At(k + 1)
    OBVIOUS
  <2>1. At(k)
    BY <1>9
  <2>2. /\ Rank(I, k) \in Nat
        /\ Rank(I, k + 1) = IF k + 1 \in I THEN Rank(I, k) + 1 ELSE Rank(I, k)
    BY RankStep
  <2>3. s[k + 1] \in S
    BY <1>1
  <2>4. CASE k + 1 \in I
    <3>0. k \in 0 .. n /\ k + 1 \in 1 .. n
      BY <1>1
    <3>1. p[k + 1] = Append(p[k], s[k + 1])
      BY <1>6, <2>4, <3>0
    <3>2. p[k + 1] \in Seq(S) /\ Len(p[k + 1]) = Rank(I, k + 1)
      BY <2>1, <2>2, <2>3, <2>4, <3>1
    <3>3. ASSUME NEW i \in I \cap (1 .. k + 1) PROVE p[k + 1][Rank(I, i)] = s[i]
      <4>1. CASE i = k + 1
        BY <2>1, <2>2, <2>3, <2>4, <3>1, <4>1
      <4>2. CASE i \in 1 .. k
        <5>0. i \in Nat /\ i - 1 \in Nat /\ i - 1 <= k /\ i <= k
          BY <4>2
        <5>1. Rank(I, i) <= Rank(I, k) /\ Rank(I, i) \in Nat
          BY <5>0, RankGrows, RankStep
        <5>2. Rank(I, i) # 0
          <6>1. Rank(I, i - 1) < Rank(I, i) /\ Rank(I, i - 1) \in Nat
            BY <5>0, RankGrows, RankStep
          <6>2. QED BY <5>1, <6>1
        <5>3. p[k + 1][Rank(I, i)] = p[k][Rank(I, i)]
          BY <2>1, <2>2, <2>3, <3>1, <5>1, <5>2
        <5>4. QED BY <2>1, <4>2, <5>3
      <4>3. QED BY <4>1, <4>2
    <3>4. QED BY <3>2, <3>3
  <2>5. CASE k + 1 \notin I
    <3>0. k \in 0 .. n /\ k + 1 \in 1 .. n
      BY <1>1
    <3>1. p[k + 1] = p[k]
      BY <1>6, <2>5, <3>0
    <3>2. I \cap (1 .. k + 1) = I \cap (1 .. k)
      BY <2>5
    <3>3. QED BY <2>1, <2>2, <2>5, <3>1, <3>2
  <2>6. QED BY <2>4, <2>5
<1> HIDE DEF T
<1>10. n \in T
  BY <1>1, <1>8, <1>9, NatSetInduction
<1>11. At(n)
  BY <1>10 DEF T
<1>12. ASSUME NEW i \in I \cap (1 .. n) PROVE Rank(I, i) \in 1 .. Rank(I, n)
  <2>1. i \in Nat /\ i - 1 \in Nat /\ i - 1 <= n /\ i <= n
    BY <1>1
  <2>2. Rank(I, i - 1) < Rank(I, i) /\ Rank(I, i - 1) \in Nat /\ Rank(I, i) \in Nat
    BY <2>1, RankGrows, RankStep
  <2>3. Rank(I, i) <= Rank(I, n) /\ Rank(I, n) \in Nat
    BY <1>1, <2>1, RankGrows, RankStep
  <2>4. QED BY <2>2, <2>3
<1>13. QED BY <1>7, <1>11, <1>12

\* ... and is the only such sequence.
LEMMA PickedOnly ==
    ASSUME NEW S, NEW s \in Seq(S), NEW I, NEW t \in Seq(S), Len(t) = Rank(I, Len(s)),
           \A i \in I \cap (1 .. Len(s)) : t[Rank(I, i)] = s[i]
    PROVE  t = Picked(s, I)
<1>1. Picked(s, I) \in Seq(S) /\ Len(Picked(s, I)) = Len(t)
  BY PickedRanks
<1>2. ASSUME NEW k \in 1 .. Len(t) PROVE t[k] = Picked(s, I)[k]
  <2>1. PICK i \in I \cap (1 .. Len(s)) : Rank(I, i) = k
    BY RankHits
  <2>2. QED BY <2>1, PickedRanks
<1>3. QED BY <1>1, <1>2, SeqEqual

LEMMA GatheredIs ==
    ASSUME NEW S, NEW s \in Seq(S), NEW I, NEW p, Gathers(p, s, I)
    PROVE  p[Len(s)] = Picked(s, I)
<1>1. PICK r : Gathers(r, s, I) /\ Picked(s, I) = r[Len(s)]
  BY PickedGathers
<1> DEFINE T == {k \in Nat : k <= Len(s) => p[k] = r[k]}
<1>2. 0 \in T
  BY <1>1 DEF Gathers
<1>3. ASSUME NEW k \in Nat, k \in T PROVE k + 1 \in T
  <2> SUFFICES ASSUME k + 1 <= Len(s) PROVE p[k + 1] = r[k + 1]
    OBVIOUS
  <2>1. k \in 0 .. Len(s) /\ k + 1 \in 1 .. Len(s) /\ p[k] = r[k]
    BY <1>3
  <2>2. QED BY <1>1, <2>1 DEF Gathers
<1> HIDE DEF T
<1>4. Len(s) \in T
  BY <1>2, <1>3, NatSetInduction
<1>5. QED BY <1>1, <1>4 DEF T

\* Picking from what was picked.
LEMMA PickedTwice ==
    ASSUME NEW S, NEW s \in Seq(S), NEW I, NEW J, NEW K,
           \A i \in 1 .. Len(s) : i \in K <=> i \in I /\ Rank(I, i) \in J
    PROVE  Picked(Picked(s, I), J) = Picked(s, K)
<1> DEFINE t == Picked(s, I)
           n == Len(s)
<1>1. /\ t \in Seq(S) /\ Len(t) = Rank(I, n) /\ n \in Nat
      /\ \A i \in I \cap (1 .. n) : Rank(I, i) \in 1 .. Len(t) /\ t[Rank(I, i)] = s[i]
  BY PickedRanks
<1> DEFINE T == {k \in Nat : k <= n => Rank(J, Rank(I, k)) = Rank(K, k)}
<1>2. 0 \in T
  <2>1. \A X : Rank(X, 0) = 0
    BY RankStep
  <2>2. QED BY <2>1
<1>3. ASSUME NEW k \in Nat, k \in T PROVE k + 1 \in T
  <2> SUFFICES ASSUME k + 1 <= n PROVE Rank(J, Rank(I, k + 1)) = Rank(K, k + 1)
    OBVIOUS
  <2>1. Rank(J, Rank(I, k)) = Rank(K, k)
    BY <1>1, <1>3
  <2> DEFINE r == Rank(I, k)
  <2>2. /\ r \in Nat
        /\ Rank(I, k + 1) = IF k + 1 \in I THEN r + 1 ELSE r
        /\ Rank(K, k + 1) = IF k + 1 \in K THEN Rank(K, k) + 1 ELSE Rank(K, k)
    BY RankStep
  <2> HIDE DEF r
  <2>3. Rank(J, r + 1) = IF r + 1 \in J THEN Rank(J, r) + 1 ELSE Rank(J, r)
    BY <2>2, RankStep
  <2>4. k + 1 \in K <=> k + 1 \in I /\ Rank(I, k + 1) \in J
    <3>1. k + 1 \in 1 .. Len(s)
      OBVIOUS
    <3>2. QED BY <3>1
  <2>5. CASE k + 1 \in I
    BY <2>1, <2>2, <2>3, <2>4, <2>5 DEF r
  <2>6. CASE k + 1 \notin I
    BY <2>1, <2>2, <2>4, <2>6 DEF r
  <2>7. QED BY <2>5, <2>6
<1> HIDE DEF T
<1>4. Nat \subseteq T
  BY <1>2, <1>3, NatSetInduction
<1>5. \A k \in 0 .. n : Rank(J, Rank(I, k)) = Rank(K, k)
  <2>1. \A k \in 0 .. n : k \in Nat /\ k <= n
    BY <1>1
  <2>2. QED BY <1>4, <2>1 DEF T
<1> DEFINE u == Picked(t, J)
<1> HIDE DEF t, u
<1>6. /\ u \in Seq(S) /\ Len(u) = Rank(J, Len(t))
      /\ \A j \in J \cap (1 .. Len(t)) : u[Rank(J, j)] = t[j]
  BY <1>1, PickedRanks DEF u
<1>7. Len(u) = Rank(K, Len(s))
  <2>1. n \in 0 .. n
    BY <1>1
  <2>2. QED BY <1>1, <1>5, <1>6, <2>1
<1>8. ASSUME NEW i \in K \cap (1 .. Len(s)) PROVE u[Rank(K, i)] = s[i]
  <2>1. i \in I /\ Rank(I, i) \in J
    OBVIOUS
  <2>2. Rank(I, i) \in J \cap (1 .. Len(t)) /\ t[Rank(I, i)] = s[i]
    BY <1>1, <2>1
  <2>3. u[Rank(J, Rank(I, i))] = s[i]
    BY <1>6, <2>2
  <2>4. i \in 0 .. n
    BY <1>1
  <2>5. QED BY <1>5, <2>3, <2>4
<1>9. u = Picked(s, K)
  BY <1>6, <1>7, <1>8, PickedOnly
<1>10. QED BY <1>9 DEF u, t

-----------------------------------------------------------------------------
(* Commands.  Of the first n records of s, `a' is the last start of id, and *)
(* its end has not come (Awaiting) or is at b (Ended); the row of id was   *)
(* last changed at `last'.                                                 *)

StartsAt(s, i, id) == s[i].type = "proc_start" /\ s[i].id = id
EndsAt(s, i, id)   == s[i].type = "proc_end" /\ s[i].id = id

Awaiting(s, n, id, a) ==
    /\ a \in 1 .. n
    /\ StartsAt(s, a, id)
    /\ \A j \in a + 1 .. n : ~StartsAt(s, j, id) /\ ~EndsAt(s, j, id)

Ended(s, n, id, a, b) ==
    /\ a \in 1 .. n
    /\ StartsAt(s, a, id)
    /\ \A j \in a + 1 .. n : ~StartsAt(s, j, id)
    /\ b \in a + 1 .. n
    /\ EndsAt(s, b, id)
    /\ \A j \in a + 1 .. b - 1 : ~EndsAt(s, j, id)

RowAt(s, n, id, row, last) ==
    \/ Awaiting(s, n, id, last) /\ row = MergedCommandFromStart(s[last])
    \/ \E a \in 1 .. n :
          /\ Ended(s, n, id, a, last)
          /\ row = ApplyCommandEnd(MergedCommandFromStart(s[a]), s[last])

\* What a join state holds behind the first n records.
PendingAt(s, n, pending) ==
    /\ DOMAIN pending = {id \in Ids \ {NoId} : \E a \in 1 .. n : Awaiting(s, n, id, a)}
    /\ \A id \in DOMAIN pending :
          \E a \in 1 .. n : Awaiting(s, n, id, a) /\ pending[id] = MergedCommandFromStart(s[a])

LEMMA RecordFields ==
    ASSUME NEW ev \in Record, ev.type \in {"proc_start", "proc_end", "proc", "other"}
    PROVE  ev \in [type : {"proc_start", "proc_end", "proc", "other"}, id : Ids,
                   cmd : Commands, result : Results \cup {NoResult}]
  BY DEF Record, Torn

LEMMA MergedRow ==
    ASSUME NEW ev \in Record, ev.type = "proc_start"
    PROVE  /\ MergedCommandFromStart(ev) =
                 [type |-> "proc", id |-> ev.id, cmd |-> ev.cmd, result |-> NoResult]
           /\ MergedCommandFromStart(ev) \in Row
<1>1. ev \in [type : {"proc_start", "proc_end", "proc", "other"}, id : Ids,
              cmd : Commands, result : Results \cup {NoResult}]
  BY RecordFields
<1>2. MergedCommandFromStart(ev) =
          [type |-> "proc", id |-> ev.id, cmd |-> ev.cmd, result |-> NoResult]
  <2> DEFINE m == MergedCommandFromStart(ev)
  <2>1. DOMAIN ev = {"type", "id", "cmd", "result"}
    BY <1>1
  <2>2. m = [f \in DOMAIN ev |-> IF f = "result" THEN NoResult
                                 ELSE IF f = "type" THEN "proc" ELSE ev[f]]
    BY DEF MergedCommandFromStart
  <2> HIDE DEF m
  <2>3. m = [type |-> "proc", id |-> ev.id, cmd |-> ev.cmd, result |-> NoResult]
    BY <2>1, <2>2
  <2>4. QED BY <2>3 DEF m
<1>3. QED BY <1>1, <1>2 DEF Row

LEMMA EndedRow ==
    ASSUME NEW ev \in Record, ev.type = "proc_start", NEW end \in Record, end.type = "proc_end"
    PROVE  /\ ApplyCommandEnd(MergedCommandFromStart(ev), end) =
                 [type |-> "proc", id |-> ev.id, cmd |-> ev.cmd, result |-> end.result]
           /\ ApplyCommandEnd(MergedCommandFromStart(ev), end) \in Row
<1> DEFINE row == [type |-> "proc", id |-> ev.id, cmd |-> ev.cmd, result |-> NoResult]
<1>1. MergedCommandFromStart(ev) = row
  BY MergedRow
<1>2. /\ ev \in [type : {"proc_start", "proc_end", "proc", "other"}, id : Ids,
                 cmd : Commands, result : Results \cup {NoResult}]
      /\ end \in [type : {"proc_start", "proc_end", "proc", "other"}, id : Ids,
                  cmd : Commands, result : Results \cup {NoResult}]
  BY RecordFields
<1>3. [row EXCEPT !.result = end.result] =
          [type |-> "proc", id |-> ev.id, cmd |-> ev.cmd, result |-> end.result]
  OBVIOUS
<1>4. [row EXCEPT !.result = end.result] \in Row
  BY <1>2, <1>3 DEF Row
<1> HIDE DEF row
<1>5. QED BY <1>1, <1>3, <1>4 DEF ApplyCommandEnd

LEMMA RowFields ==
    ASSUME NEW s \in Seq(Record), NEW n \in 0 .. Len(s), NEW id, NEW row, NEW last,
           RowAt(s, n, id, row, last)
    PROVE  row \in Row /\ row.type = "proc" /\ row.id = id /\ last \in 1 .. n
<1>1. CASE Awaiting(s, n, id, last) /\ row = MergedCommandFromStart(s[last])
  <2>1. last \in 1 .. n /\ s[last] \in Record /\ s[last].type = "proc_start" /\ s[last].id = id
    BY <1>1 DEF Awaiting, StartsAt
  <2>2. row = [type |-> "proc", id |-> id, cmd |-> s[last].cmd, result |-> NoResult] /\ row \in Row
    BY <1>1, <2>1, MergedRow
  <2>3. QED BY <2>1, <2>2
<1>2. ASSUME NEW a \in 1 .. n, Ended(s, n, id, a, last),
             row = ApplyCommandEnd(MergedCommandFromStart(s[a]), s[last])
      PROVE  row \in Row /\ row.type = "proc" /\ row.id = id /\ last \in 1 .. n
  <2>1. last \in a + 1 .. n /\ a \in 1 .. Len(s)
    BY <1>2 DEF Ended
  <2>2. last \in 1 .. n /\ last \in 1 .. Len(s)
    BY <2>1
  <2>3. s[a] \in Record /\ s[last] \in Record
    BY <2>1, <2>2
  <2>4. s[a].type = "proc_start" /\ s[a].id = id /\ s[last].type = "proc_end"
    BY <1>2 DEF Ended, StartsAt, EndsAt
  <2>5. /\ row = [type |-> "proc", id |-> id, cmd |-> s[a].cmd, result |-> s[last].result]
        /\ row \in Row
    BY <1>2, <2>3, <2>4, EndedRow
  <2>6. QED BY <2>2, <2>5
<1>3. QED BY <1>1, <1>2 DEF RowAt

\* The start and the end that decide a row are unique, and so is the row.
LEMMA RowUnique ==
    ASSUME NEW s, NEW n \in Nat, NEW id, NEW row, NEW last, NEW row2, NEW last2,
           RowAt(s, n, id, row, last), RowAt(s, n, id, row2, last2)
    PROVE  row = row2 /\ last = last2
<1>1. ASSUME NEW a, NEW b, Awaiting(s, n, id, a), Awaiting(s, n, id, b) PROVE a = b
  <2>1. a \in 1 .. n /\ b \in 1 .. n /\ ~(b \in a + 1 .. n) /\ ~(a \in b + 1 .. n)
    BY <1>1 DEF Awaiting
  <2>2. QED BY <2>1
<1>2. ASSUME NEW a, NEW b, NEW c, Awaiting(s, n, id, a), Ended(s, n, id, b, c) PROVE FALSE
  <2>1. a \in 1 .. n /\ b \in 1 .. n /\ c \in b + 1 .. n
        /\ ~(b \in a + 1 .. n) /\ ~(a \in b + 1 .. n) /\ ~(c \in a + 1 .. n)
    BY <1>2 DEF Awaiting, Ended
  <2>2. QED BY <2>1
<1>3. ASSUME NEW a, NEW b, NEW c, NEW d, Ended(s, n, id, a, b), Ended(s, n, id, c, d)
      PROVE  a = c /\ b = d
  <2>1. a \in 1 .. n /\ c \in 1 .. n /\ ~(c \in a + 1 .. n) /\ ~(a \in c + 1 .. n)
    BY <1>3 DEF Ended
  <2>2. a = c
    BY <2>1
  <2>3. b \in a + 1 .. n /\ d \in a + 1 .. n /\ ~(b \in a + 1 .. d - 1) /\ ~(d \in a + 1 .. b - 1)
    BY <1>3, <2>2 DEF Ended
  <2>4. b = d
    BY <2>1, <2>3
  <2>5. QED BY <2>2, <2>4
<1>4. QED BY <1>1, <1>2, <1>3 DEF RowAt

\* What is awaited is what a row without an end stands for.
LEMMA AwaitingStep ==
    ASSUME NEW s, NEW n \in Nat, NEW id, NEW a
    PROVE  Awaiting(s, n + 1, id, a) <=>
               \/ a = n + 1 /\ StartsAt(s, n + 1, id)
               \/ Awaiting(s, n, id, a) /\ ~StartsAt(s, n + 1, id) /\ ~EndsAt(s, n + 1, id)
<1>1. CASE a = n + 1
  BY <1>1 DEF Awaiting
<1>2. CASE a # n + 1
  <2>1. a \in 1 .. n + 1 <=> a \in 1 .. n
    BY <1>2
  <2>2. ASSUME a \in 1 .. n PROVE a + 1 .. n + 1 = (a + 1 .. n) \cup {n + 1}
    BY <2>2
  <2>3. QED BY <1>2, <2>1, <2>2 DEF Awaiting
<1>3. QED BY <1>1, <1>2

LEMMA EndedStep ==
    ASSUME NEW s, NEW n \in Nat, NEW id, NEW a, NEW b
    PROVE  Ended(s, n + 1, id, a, b) <=>
               \/ b = n + 1 /\ Awaiting(s, n, id, a) /\ EndsAt(s, n + 1, id)
                            /\ ~StartsAt(s, n + 1, id)
               \/ Ended(s, n, id, a, b) /\ ~StartsAt(s, n + 1, id)
<1>1. CASE a = n + 1
  <2>1. ~Ended(s, n + 1, id, a, b)
    BY <1>1 DEF Ended
  <2>2. ~Awaiting(s, n, id, a) /\ ~Ended(s, n, id, a, b)
    BY <1>1 DEF Ended, Awaiting
  <2>3. QED BY <2>1, <2>2
<1>2. CASE a \in 1 .. n
  <2>1. a + 1 .. n + 1 = (a + 1 .. n) \cup {n + 1}
    BY <1>2
  <2>2. CASE b = n + 1
    <3>1. b - 1 = n /\ ~(b \in a + 1 .. n)
      BY <2>2
    <3>2. ~Ended(s, n, id, a, b)
      BY <3>1 DEF Ended
    <3>3. Ended(s, n + 1, id, a, b) <=>
              /\ StartsAt(s, a, id)
              /\ \A j \in a + 1 .. n + 1 : ~StartsAt(s, j, id)
              /\ EndsAt(s, n + 1, id)
              /\ \A j \in a + 1 .. n : ~EndsAt(s, j, id)
      BY <1>2, <2>1, <2>2, <3>1 DEF Ended
    <3>4. QED BY <1>2, <2>1, <2>2, <3>2, <3>3 DEF Awaiting
  <2>3. CASE b # n + 1
    <3>1. b \in a + 1 .. n + 1 <=> b \in a + 1 .. n
      BY <2>1, <2>3
    <3>2. QED BY <1>2, <2>1, <2>3, <3>1 DEF Ended
  <2>4. QED BY <2>2, <2>3
<1>3. CASE a \notin 1 .. n + 1
  <2>1. a \notin 1 .. n
    BY <1>3
  <2>2. QED BY <1>3, <2>1 DEF Ended, Awaiting
<1>4. QED
  <2>1. a = n + 1 \/ a \in 1 .. n \/ a \notin 1 .. n + 1
    OBVIOUS
  <2>2. QED BY <1>1, <1>2, <1>3, <2>1

\* A record that is no start of id, and no end that id awaits, changes nothing
\* of id's row.
LEMMA RowKept ==
    ASSUME NEW s, NEW n \in Nat, NEW id, ~StartsAt(s, n + 1, id),
           EndsAt(s, n + 1, id) => \A a \in 1 .. n : ~Awaiting(s, n, id, a)
    PROVE  \A row, last : RowAt(s, n + 1, id, row, last) <=> RowAt(s, n, id, row, last)
<1> TAKE row, last
<1>1. Awaiting(s, n + 1, id, last) <=> Awaiting(s, n, id, last)
  <2>1. Awaiting(s, n, id, last) => last \in 1 .. n
    BY DEF Awaiting
  <2>2. QED BY <2>1, AwaitingStep
<1>2. ASSUME NEW a \in 1 .. n + 1
      PROVE  Ended(s, n + 1, id, a, last) <=> a \in 1 .. n /\ Ended(s, n, id, a, last)
  <2>1. Ended(s, n, id, a, last) => a \in 1 .. n
    BY DEF Ended
  <2>2. Awaiting(s, n, id, a) => a \in 1 .. n
    BY DEF Awaiting
  <2>3. QED BY <2>1, <2>2, EndedStep
<1>3. QED BY <1>1, <1>2 DEF RowAt

RowsKept(s, n, ids) ==
    \A id \in ids : \A row, last :
        RowAt(s, n + 1, id, row, last) <=> RowAt(s, n, id, row, last)

\* What a record makes of the rows: nothing, a row of its own, or a new row for
\* its command.
Unchanged(s, n, rows) ==
    /\ rows = <<>>
    /\ s[n + 1].type # "other"
    /\ s[n + 1].type = "proc_start" => s[n + 1].id = NoId
    /\ RowsKept(s, n, Ids \ {NoId})

OtherRow(s, n, rows) ==
    /\ rows = <<s[n + 1]>>
    /\ s[n + 1].type = "other"
    /\ RowsKept(s, n, Ids \ {NoId})

CommandRow(s, n, rows) ==
    \E row \in Row :
        /\ rows = <<row>>
        /\ row.type = "proc"
        /\ row.id = s[n + 1].id
        /\ row.id \in Ids \ {NoId}
        /\ \/ StartsAt(s, n + 1, row.id)
           \/ s[n + 1].type = "proc_end" /\ \E a \in 1 .. n : StartsAt(s, a, row.id)
        /\ RowAt(s, n + 1, row.id, row, n + 1)
        /\ RowsKept(s, n, Ids \ {NoId, row.id})

LEMMA MergeStep ==
    ASSUME NEW s \in Seq(Record), NEW n \in Nat, n + 1 <= Len(s),
           NEW pending, PendingAt(s, n, pending)
    PROVE  LET step == MergeEventForStreaming(pending, s[n + 1], TRUE)
           IN  /\ PendingAt(s, n + 1, step.pending)
               /\ \/ Unchanged(s, n, step.rows)
                  \/ OtherRow(s, n, step.rows)
                  \/ CommandRow(s, n, step.rows)
<1> DEFINE ev   == s[n + 1]
           step == MergeEventForStreaming(pending, ev, TRUE)
<1>1. ev \in Record /\ n + 1 \in 1 .. Len(s)
  OBVIOUS
<1>2. ASSUME NEW id, id # ev.id \/ ev.type \notin {"proc_start", "proc_end"}
      PROVE  /\ \A row, last : RowAt(s, n + 1, id, row, last) <=> RowAt(s, n, id, row, last)
             /\ \A a : Awaiting(s, n + 1, id, a) <=> Awaiting(s, n, id, a)
  <2>1. ~StartsAt(s, n + 1, id) /\ ~EndsAt(s, n + 1, id)
    BY <1>2 DEF StartsAt, EndsAt
  <2>2. ASSUME NEW a PROVE Awaiting(s, n + 1, id, a) <=> Awaiting(s, n, id, a)
    <3>1. Awaiting(s, n, id, a) => a \in 1 .. n
      BY DEF Awaiting
    <3>2. QED BY <2>1, <3>1, AwaitingStep
  <2>3. QED BY <2>1, <2>2, RowKept
<1>3. ASSUME NEW id, ~(\E a \in 1 .. n : Awaiting(s, n, id, a)), ~StartsAt(s, n + 1, id)
      PROVE  \A row, last : RowAt(s, n + 1, id, row, last) <=> RowAt(s, n, id, row, last)
  BY <1>3, RowKept
<1>4. ASSUME NEW id, NEW a, Awaiting(s, n, id, a) PROVE a \in 1 .. n
  BY <1>4 DEF Awaiting
<1>5. CASE ev.type = "proc_end" /\ ev.id \in DOMAIN pending
  <2> DEFINE id == ev.id
             row == ApplyCommandEnd(pending[id], ev)
  <2>1. step.pending = Without(pending, id) /\ step.rows = <<row>>
    BY <1>5 DEF MergeEventForStreaming
  <2>2. id \in Ids \ {NoId}
    BY <1>5 DEF PendingAt
  <2>3. PICK a \in 1 .. n : Awaiting(s, n, id, a) /\ pending[id] = MergedCommandFromStart(s[a])
    BY <1>5 DEF PendingAt
  <2>4. EndsAt(s, n + 1, id) /\ ~StartsAt(s, n + 1, id)
    BY <1>5 DEF EndsAt, StartsAt
  <2>5. Ended(s, n + 1, id, a, n + 1)
    BY <2>3, <2>4, EndedStep
  <2>6. RowAt(s, n + 1, id, row, n + 1)
    <3>1. a \in 1 .. n + 1
      OBVIOUS
    <3>2. QED BY <2>3, <2>5, <3>1 DEF RowAt
  <2>7. row \in Row /\ row.type = "proc" /\ row.id = id
    BY <1>1, <2>6, RowFields
  <2>8. StartsAt(s, a, id)
    BY <2>3 DEF Awaiting
  <2>9. RowsKept(s, n, Ids \ {NoId, id})
    BY <1>2 DEF RowsKept
  <2>10. CommandRow(s, n, step.rows)
    <3> HIDE DEF row, step
    <3>1. s[n + 1].type = "proc_end"
      BY <1>5
    <3>2. QED BY <2>1, <2>2, <2>6, <2>7, <2>8, <2>9, <3>1 DEF CommandRow
  <2>11. ASSUME NEW b PROVE ~Awaiting(s, n + 1, id, b)
    BY <2>4, AwaitingStep
  <2>12. PendingAt(s, n + 1, Without(pending, id))
    <3>1. DOMAIN Without(pending, id) = DOMAIN pending \ {id}
      BY DEF Without
    <3>2. ASSUME NEW x \in DOMAIN pending \ {id}
          PROVE  /\ Without(pending, id)[x] = pending[x]
                 /\ \E b \in 1 .. n + 1 : /\ Awaiting(s, n + 1, x, b)
                                          /\ pending[x] = MergedCommandFromStart(s[b])
      <4>1. Without(pending, id)[x] = pending[x]
        BY DEF Without
      <4>2. PICK b \in 1 .. n : Awaiting(s, n, x, b) /\ pending[x] = MergedCommandFromStart(s[b])
        BY DEF PendingAt
      <4>3. Awaiting(s, n + 1, x, b) /\ b \in 1 .. n + 1
        BY <1>2, <4>2
      <4>4. QED BY <4>1, <4>2, <4>3
    <3>3. ASSUME NEW x \in Ids \ {NoId}, NEW b \in 1 .. n + 1, Awaiting(s, n + 1, x, b)
          PROVE  x \in DOMAIN pending \ {id}
      <4>1. x # id
        BY <2>11, <3>3
      <4>2. Awaiting(s, n, x, b) /\ b \in 1 .. n
        BY <1>2, <1>4, <3>3, <4>1
      <4>3. QED BY <4>1, <4>2 DEF PendingAt
    <3>4. DOMAIN pending \subseteq Ids \ {NoId}
      BY DEF PendingAt
    <3> HIDE DEF id
    <3>5. QED BY <3>1, <3>2, <3>3, <3>4 DEF PendingAt
  <2>13. QED BY <2>1, <2>10, <2>12
<1>6. CASE ev.type = "proc_start" /\ ev.id # NoId
  <2> DEFINE id == ev.id
             row == MergedCommandFromStart(ev)
  <2>1. step.pending = With(pending, id, row) /\ step.rows = <<row>>
    BY <1>6 DEF MergeEventForStreaming
  <2>2. id \in Ids \ {NoId}
    BY <1>1, <1>6, RecordFields
  <2>3. StartsAt(s, n + 1, id)
    BY <1>6 DEF StartsAt
  <2>4. Awaiting(s, n + 1, id, n + 1)
    BY <2>3, AwaitingStep
  <2>5. RowAt(s, n + 1, id, row, n + 1)
    BY <2>4 DEF RowAt
  <2>6. row \in Row /\ row.type = "proc" /\ row.id = id
    BY <1>1, <2>5, RowFields
  <2>7. RowsKept(s, n, Ids \ {NoId, id})
    BY <1>2 DEF RowsKept
  <2>8. CommandRow(s, n, step.rows)
    <3> HIDE DEF row, step
    <3>1. QED BY <2>1, <2>2, <2>3, <2>5, <2>6, <2>7 DEF CommandRow
  <2>9. PendingAt(s, n + 1, With(pending, id, row))
    <3>1. DOMAIN With(pending, id, row) = DOMAIN pending \cup {id}
      BY DEF With
    <3>2. /\ With(pending, id, row)[id] = row
          /\ \A x \in DOMAIN pending \ {id} : With(pending, id, row)[x] = pending[x]
      BY DEF With
    <3>3. ASSUME NEW x \in DOMAIN pending \ {id}
          PROVE  \E b \in 1 .. n + 1 : /\ Awaiting(s, n + 1, x, b)
                                       /\ pending[x] = MergedCommandFromStart(s[b])
      <4>1. PICK b \in 1 .. n : Awaiting(s, n, x, b) /\ pending[x] = MergedCommandFromStart(s[b])
        BY DEF PendingAt
      <4>2. Awaiting(s, n + 1, x, b) /\ b \in 1 .. n + 1
        BY <1>2, <4>1
      <4>3. QED BY <4>1, <4>2
    <3>4. ASSUME NEW x \in Ids \ {NoId, id}, NEW b \in 1 .. n + 1, Awaiting(s, n + 1, x, b)
          PROVE  x \in DOMAIN pending
      <4>1. Awaiting(s, n, x, b) /\ b \in 1 .. n
        BY <1>2, <1>4, <3>4
      <4>2. QED BY <4>1 DEF PendingAt
    <3>5. DOMAIN pending \subseteq Ids \ {NoId}
      BY DEF PendingAt
    <3>6. n + 1 \in 1 .. n + 1
      OBVIOUS
    <3> DEFINE w == With(pending, id, row)
    <3>7. DOMAIN w = {x \in Ids \ {NoId} : \E a \in 1 .. n + 1 : Awaiting(s, n + 1, x, a)}
      <4>1. ASSUME NEW x \in DOMAIN w
            PROVE  x \in Ids \ {NoId} /\ \E a \in 1 .. n + 1 : Awaiting(s, n + 1, x, a)
        <5>1. CASE x = id
          BY <2>2, <2>4, <3>6, <5>1
        <5>2. CASE x \in DOMAIN pending \ {id}
          BY <3>3, <3>5, <5>2
        <5>3. QED BY <3>1, <5>1, <5>2
      <4>2. ASSUME NEW x \in Ids \ {NoId}, NEW a \in 1 .. n + 1, Awaiting(s, n + 1, x, a)
            PROVE  x \in DOMAIN w
        BY <3>1, <3>4, <4>2
      <4> HIDE DEF w
      <4>3. QED BY <4>1, <4>2
    <3>8. ASSUME NEW x \in DOMAIN w
          PROVE  \E a \in 1 .. n + 1 :
                    Awaiting(s, n + 1, x, a) /\ w[x] = MergedCommandFromStart(s[a])
      <4>1. CASE x = id
        BY <2>4, <3>2, <3>6, <4>1
      <4>2. CASE x \in DOMAIN pending \ {id}
        BY <3>2, <3>3, <4>2
      <4>3. QED BY <3>1, <4>1, <4>2
    <3> HIDE DEF w
    <3>9. PendingAt(s, n + 1, w)
      BY <3>7, <3>8 DEF PendingAt
    <3>10. QED BY <3>9 DEF w
  <2>10. QED BY <2>1, <2>8, <2>9
<1>7. CASE /\ ~(ev.type = "proc_end" /\ ev.id \in DOMAIN pending)
           /\ ~(ev.type = "proc_start" /\ ev.id # NoId)
  <2>1. step.pending = pending /\ step.rows = IF ev.type = "other" THEN <<ev>> ELSE <<>>
    BY <1>7 DEF MergeEventForStreaming
  <2>2. ASSUME NEW id \in Ids \ {NoId}
        PROVE  /\ \A row, last : RowAt(s, n + 1, id, row, last) <=> RowAt(s, n, id, row, last)
               /\ \A a : Awaiting(s, n + 1, id, a) <=> Awaiting(s, n, id, a)
    <3>1. CASE id # ev.id \/ ev.type \notin {"proc_start", "proc_end"}
      BY <1>2, <3>1
    <3>2. CASE id = ev.id /\ ev.type = "proc_end"
      <4>1. ~(\E a \in 1 .. n : Awaiting(s, n, id, a))
        BY <1>7, <3>2 DEF PendingAt
      <4>2. ~StartsAt(s, n + 1, id) /\ EndsAt(s, n + 1, id)
        BY <3>2 DEF StartsAt, EndsAt
      <4>3. ASSUME NEW a PROVE ~Awaiting(s, n + 1, id, a) /\ ~Awaiting(s, n, id, a)
        BY <1>4, <4>1, <4>2, AwaitingStep
      <4>4. QED BY <1>3, <4>1, <4>2, <4>3
    <3>3. QED BY <1>7, <3>1, <3>2
  <2>3. RowsKept(s, n, Ids \ {NoId})
    BY <2>2 DEF RowsKept
  <2>4. PendingAt(s, n + 1, pending)
    <3>1. ASSUME NEW id \in Ids \ {NoId}, NEW a \in 1 .. n + 1
          PROVE  Awaiting(s, n + 1, id, a) <=> a \in 1 .. n /\ Awaiting(s, n, id, a)
      BY <1>4, <2>2
    <3>2. 1 .. n \subseteq 1 .. n + 1
      OBVIOUS
    <3>3. QED BY <3>1, <3>2 DEF PendingAt
  <2>5. Unchanged(s, n, step.rows) \/ OtherRow(s, n, step.rows)
    <3> HIDE DEF step
    <3>1. QED BY <1>7, <2>1, <2>3 DEF Unchanged, OtherRow
  <2>6. QED BY <2>1, <2>4, <2>5
<1>8. QED BY <1>5, <1>6, <1>7

-----------------------------------------------------------------------------
(* The list.  Its rows are those of the places where a command or another  *)
(* record appears first, in their order.                                   *)

Readable(s) == {i \in DOMAIN s : s[i] # Torn}

Firsts(s) ==
    {a \in DOMAIN s :
        \/ s[a].type = "other"
        \/ /\ s[a].type = "proc_start" /\ s[a].id # NoId
           /\ \A j \in 1 .. a - 1 : ~StartsAt(s, j, s[a].id)}

LEMMA RankInjective ==
    ASSUME NEW I, NEW a \in Nat \cap I, NEW b \in Nat \cap I, a # b
    PROVE  Rank(I, a) # Rank(I, b)
<1>1. Rank(I, a) \in Nat /\ Rank(I, b) \in Nat
  BY RankStep
<1>2. CASE a < b
  <2>1. Rank(I, a) < Rank(I, b)
    BY <1>2, RankGrows
  <2>2. QED BY <1>1, <2>1
<1>3. CASE b < a
  <2>1. Rank(I, b) < Rank(I, a)
    BY <1>3, RankGrows
  <2>2. QED BY <1>1, <2>1
<1>4. QED BY <1>2, <1>3

LEMMA RankBounds ==
    ASSUME NEW I, NEW n \in Nat, NEW a \in I \cap (1 .. n)
    PROVE  Rank(I, a) \in 1 .. Rank(I, n)
<1>1. a \in Nat /\ a - 1 \in Nat /\ a - 1 < a /\ a <= n
  OBVIOUS
<1>2. Rank(I, a - 1) < Rank(I, a) /\ Rank(I, a) <= Rank(I, n)
  BY <1>1, RankGrows
<1>3. Rank(I, a - 1) \in Nat /\ Rank(I, a) \in Nat /\ Rank(I, n) \in Nat
  BY <1>1, RankStep
<1>4. QED BY <1>2, <1>3

LEMMA RankOfSubset ==
    ASSUME NEW I, NEW J, NEW n \in Nat, J \subseteq I
    PROVE  Rank(J, n) <= Rank(I, n)
<1>1. IsFiniteSet(1 .. n) /\ I \cap (1 .. n) \in SUBSET (1 .. n)
  BY FS_Interval
<1>2. IsFiniteSet(I \cap (1 .. n))
  BY <1>1, FS_Subset
<1>3. J \cap (1 .. n) \in SUBSET (I \cap (1 .. n))
  OBVIOUS
<1>4. QED BY <1>2, <1>3, FS_Subset DEF Rank

\* The state of mergeEventsForList behind the first n records of s.
MergedAt(s, n, raw, m) ==
    /\ DOMAIN m = {"buf", "len", "index", "pending"}
    /\ PendingAt(s, n, m.pending)
    /\ m.len = Rank(Firsts(s), n)
    /\ DOMAIN m.buf = 1 .. Len(raw)
    /\ \A j \in 1 .. Len(raw) : Rank(Readable(s), n) < j => m.buf[j] = raw[j]
    /\ DOMAIN m.index = {id \in Ids \ {NoId} : \E a \in 1 .. n : StartsAt(s, a, id)}
    /\ \A id \in DOMAIN m.index : \E a \in Firsts(s) \cap (1 .. n) :
          /\ StartsAt(s, a, id)
          /\ m.index[id] = Rank(Firsts(s), a)
          /\ \E last : RowAt(s, n, id, m.buf[Rank(Firsts(s), a)], last)
    /\ \A a \in Firsts(s) \cap (1 .. n) :
          s[a].type = "other" => m.buf[Rank(Firsts(s), a)] = s[a]

LEMMA PlaceOver ==
    ASSUME NEW k, NEW row, DOMAIN k = {"buf", "len", "index", "pending"},
           row.type = "proc", row.id \in DOMAIN k.index
    PROVE  /\ DOMAIN Place(k, row) = {"buf", "len", "index", "pending"}
           /\ Place(k, row).pending = k.pending
           /\ Place(k, row).len = k.len
           /\ Place(k, row).index = k.index
           /\ Place(k, row).buf = [k.buf EXCEPT ![k.index[row.id]] = row]
<1>1. Place(k, row) = [k EXCEPT !.buf[k.index[row.id]] = row]
  BY DEF Place
<1>2. QED BY <1>1

LEMMA PlaceBehind ==
    ASSUME NEW k, NEW row, DOMAIN k = {"buf", "len", "index", "pending"},
           ~(row.type = "proc" /\ row.id \in DOMAIN k.index)
    PROVE  /\ DOMAIN Place(k, row) = {"buf", "len", "index", "pending"}
           /\ Place(k, row).pending = k.pending
           /\ Place(k, row).len = k.len + 1
           /\ Place(k, row).index = IF row.type = "proc" THEN With(k.index, row.id, k.len + 1)
                                                        ELSE k.index
           /\ Place(k, row).buf = [k.buf EXCEPT ![k.len + 1] = row]
<1>1. Place(k, row) =
        [k EXCEPT !.buf[k.len + 1] = row, !.len = @ + 1,
                  !.index = IF row.type = "proc" THEN With(@, row.id, k.len + 1) ELSE @]
  BY DEF Place
<1>2. QED BY <1>1

\* Where the next record is read and written: a list is never longer than what
\* has been read.
LEMMA PlacesInList ==
    ASSUME NEW s \in Seq(Record), NEW n \in Nat, n + 1 <= Len(s)
    PROVE  /\ n + 1 \in DOMAIN s /\ s[n + 1] \in Record
           /\ Parsed(s) \in Seq(Record)
           /\ Len(Parsed(s)) \in Nat
           /\ Rank(Firsts(s), n) \in Nat
           /\ Rank(Readable(s), n) \in Nat
           /\ Rank(Firsts(s), n) <= Rank(Readable(s), n)
           /\ Rank(Readable(s), n + 1) <= Len(Parsed(s))
           /\ Rank(Firsts(s), n + 1) = IF n + 1 \in Firsts(s) THEN Rank(Firsts(s), n) + 1
                                                              ELSE Rank(Firsts(s), n)
           /\ Rank(Readable(s), n + 1) = IF s[n + 1] # Torn THEN Rank(Readable(s), n) + 1
                                                            ELSE Rank(Readable(s), n)
           /\ s[n + 1] # Torn => Parsed(s)[Rank(Readable(s), n) + 1] = s[n + 1]
           /\ \A a \in Firsts(s) \cap (1 .. n) :
                 /\ a \in Firsts(s) \cap (1 .. n + 1)
                 /\ Rank(Firsts(s), a) \in 1 .. Rank(Firsts(s), n)
                 /\ Rank(Firsts(s), a) \in 1 .. Len(Parsed(s))
                 /\ Rank(Firsts(s), a) # Rank(Firsts(s), n) + 1
                 /\ \A b \in Firsts(s) \cap (1 .. n) :
                       a # b => Rank(Firsts(s), a) # Rank(Firsts(s), b)
<1> DEFINE F == Firsts(s)
           I == Readable(s)
           raw == Parsed(s)
<1>1. n + 1 \in DOMAIN s /\ s[n + 1] \in Record /\ Len(s) \in Nat /\ n <= n + 1
  OBVIOUS
<1>2. F \subseteq I
  BY DEF Firsts, Readable, Torn
<1>3. raw \in Seq(Record) /\ Len(raw) = Rank(I, Len(s))
      /\ \A i \in I \cap (1 .. Len(s)) : raw[Rank(I, i)] = s[i]
  BY PickedRanks DEF Parsed, Readable
<1>4. n + 1 \in I <=> s[n + 1] # Torn
  BY <1>1 DEF Readable
<1> HIDE DEF F, I, raw
<1>5. /\ Rank(F, n) \in Nat /\ Rank(I, n) \in Nat /\ Rank(I, n + 1) \in Nat
      /\ Rank(F, n + 1) = IF n + 1 \in F THEN Rank(F, n) + 1 ELSE Rank(F, n)
      /\ Rank(I, n + 1) = IF n + 1 \in I THEN Rank(I, n) + 1 ELSE Rank(I, n)
  <2>1. /\ Rank(F, n) \in Nat
        /\ Rank(F, n + 1) = IF n + 1 \in F THEN Rank(F, n) + 1 ELSE Rank(F, n)
    BY RankStep
  <2>2. /\ Rank(I, n) \in Nat
        /\ Rank(I, n + 1) = IF n + 1 \in I THEN Rank(I, n) + 1 ELSE Rank(I, n)
    BY RankStep
  <2>3. Rank(I, n + 1) \in Nat
    BY <2>2
  <2>4. QED BY <2>1, <2>2, <2>3
<1>6. Rank(F, n) <= Rank(I, n)
  BY <1>2, RankOfSubset
<1>7. Rank(I, n + 1) <= Len(raw) /\ Len(raw) \in Nat
  <2>1. Rank(I, n + 1) <= Rank(I, Len(s))
    BY <1>1, RankGrows
  <2>2. Rank(I, Len(s)) \in Nat
    BY <1>1, RankStep
  <2>3. QED BY <1>3, <2>1, <2>2
<1>8. ASSUME s[n + 1] # Torn PROVE raw[Rank(I, n) + 1] = s[n + 1]
  <2>1. n + 1 \in I \cap (1 .. Len(s))
    BY <1>1, <1>4, <1>8
  <2>2. QED BY <1>3, <1>5, <2>1
<1>9. Rank(I, n) <= Len(raw)
  BY <1>5, <1>7
<1>10. ASSUME NEW a \in F \cap (1 .. n)
       PROVE  /\ a \in F \cap (1 .. n + 1)
              /\ Rank(F, a) \in 1 .. Rank(F, n)
              /\ Rank(F, a) \in 1 .. Len(raw)
              /\ Rank(F, a) # Rank(F, n) + 1
              /\ \A b \in F \cap (1 .. n) : a # b => Rank(F, a) # Rank(F, b)
  <2>1. Rank(F, a) \in 1 .. Rank(F, n)
    BY RankBounds
  <2>2. \A b \in F \cap (1 .. n) : a # b => Rank(F, a) # Rank(F, b)
    BY RankInjective
  <2>3. QED BY <1>5, <1>6, <1>7, <1>9, <2>1, <2>2
<1>11. QED BY <1>1, <1>3, <1>4, <1>5, <1>6, <1>7, <1>8, <1>10 DEF F, I, raw

\* A record that shows nothing.
LEMMA MergedKeeps ==
    ASSUME NEW s \in Seq(Record), NEW n \in Nat, n + 1 <= Len(s), NEW m,
           MergedAt(s, n, Parsed(s), m), NEW p, PendingAt(s, n + 1, p.pending),
           DOMAIN p = {"buf", "len", "index", "pending"},
           p.buf = m.buf, p.len = m.len, p.index = m.index,
           Unchanged(s, n, <<>>)
    PROVE  MergedAt(s, n + 1, Parsed(s), p)
<1> DEFINE F == Firsts(s)
           raw == Parsed(s)
<1>1. n + 1 \notin F
  BY DEF Unchanged, Firsts
<1>2. F \cap (1 .. n + 1) = F \cap (1 .. n)
  BY <1>1
<1>3. p.len = Rank(F, n + 1)
  BY <1>1, PlacesInList DEF MergedAt
<1>4. ASSUME NEW j \in 1 .. Len(raw), Rank(Readable(s), n + 1) < j PROVE p.buf[j] = raw[j]
  <2>1. Rank(Readable(s), n) < j
    <3>1. /\ Rank(Readable(s), n) \in Nat
          /\ Rank(Readable(s), n + 1) = IF s[n + 1] # Torn THEN Rank(Readable(s), n) + 1
                                                           ELSE Rank(Readable(s), n)
      BY PlacesInList
    <3> HIDE DEF raw
    <3>2. QED BY <1>4, <3>1
  <2>2. QED BY <2>1 DEF MergedAt
<1>5. ASSUME NEW id \in Ids \ {NoId}
      PROVE  (\E a \in 1 .. n + 1 : StartsAt(s, a, id)) <=> (\E a \in 1 .. n : StartsAt(s, a, id))
  <2>1. ~StartsAt(s, n + 1, id)
    BY DEF StartsAt, Unchanged
  <2>2. QED BY <2>1
<1>6. DOMAIN p.index = {id \in Ids \ {NoId} : \E a \in 1 .. n + 1 : StartsAt(s, a, id)}
  BY <1>5 DEF MergedAt
<1>7. ASSUME NEW id \in DOMAIN p.index
      PROVE  \E a \in F \cap (1 .. n + 1) :
                /\ StartsAt(s, a, id)
                /\ p.index[id] = Rank(F, a)
                /\ \E last : RowAt(s, n + 1, id, p.buf[Rank(F, a)], last)
  <2>1. PICK a \in F \cap (1 .. n) :
                /\ StartsAt(s, a, id)
                /\ m.index[id] = Rank(F, a)
                /\ \E last : RowAt(s, n, id, m.buf[Rank(F, a)], last)
    BY DEF MergedAt
  <2>2. id \in Ids \ {NoId}
    BY <1>6
  <2>3. PICK last : RowAt(s, n, id, m.buf[Rank(F, a)], last)
    BY <2>1
  <2>4. RowAt(s, n + 1, id, p.buf[Rank(F, a)], last)
    BY <2>2, <2>3 DEF Unchanged, RowsKept
  <2>5. QED BY <1>2, <2>1, <2>4
<1>8. \A a \in F \cap (1 .. n + 1) : s[a].type = "other" => p.buf[Rank(F, a)] = s[a]
  BY <1>2 DEF MergedAt
<1>9. DOMAIN p.buf = 1 .. Len(raw)
  BY DEF MergedAt
<1> HIDE DEF F, raw
<1>10. QED BY <1>3, <1>4, <1>6, <1>7, <1>8, <1>9 DEF MergedAt, F, raw

\* A new row for a command that has one.
LEMMA MergedOver ==
    ASSUME NEW s \in Seq(Record), NEW n \in Nat, n + 1 <= Len(s), s[n + 1] # Torn, NEW m,
           MergedAt(s, n, Parsed(s), m), NEW p, PendingAt(s, n + 1, p.pending),
           NEW row, CommandRow(s, n, <<row>>), row.id \in DOMAIN m.index,
           DOMAIN p = {"buf", "len", "index", "pending"},
           p.buf = [m.buf EXCEPT ![m.index[row.id]] = row],
           p.len = m.len, p.index = m.index
    PROVE  MergedAt(s, n + 1, Parsed(s), p)
<1> DEFINE F == Firsts(s)
           raw == Parsed(s)
           id == row.id
<1>1. /\ id = s[n + 1].id /\ id \in Ids \ {NoId} /\ RowAt(s, n + 1, id, row, n + 1)
      /\ RowsKept(s, n, Ids \ {NoId, id})
      /\ s[n + 1].type \in {"proc_start", "proc_end"}
  BY DEF CommandRow, StartsAt
<1>2. PICK a \in F \cap (1 .. n) : StartsAt(s, a, id) /\ m.index[id] = Rank(F, a)
  BY DEF MergedAt
<1>3. n + 1 \notin F
  <2>1. a \in 1 .. (n + 1) - 1
    OBVIOUS
  <2>2. QED BY <1>1, <1>2, <2>1 DEF Firsts
<1>4. F \cap (1 .. n + 1) = F \cap (1 .. n)
  BY <1>3
<1>5. p.len = Rank(F, n + 1)
  BY <1>3, PlacesInList DEF MergedAt
<1>6. /\ DOMAIN p.buf = 1 .. Len(raw)
      /\ p.buf[Rank(F, a)] = row
      /\ \A j \in 1 .. Len(raw) : j # Rank(F, a) => p.buf[j] = m.buf[j]
  <2>1. Rank(F, a) \in 1 .. Len(raw)
    BY PlacesInList
  <2>2. DOMAIN m.buf = 1 .. Len(raw)
    BY DEF MergedAt
  <2> HIDE DEF F, raw
  <2>3. QED BY <1>2, <2>1, <2>2
<1>7. ASSUME NEW j \in 1 .. Len(raw), Rank(Readable(s), n + 1) < j PROVE p.buf[j] = raw[j]
  <2>1. Rank(Readable(s), n) < j
    BY <1>7, PlacesInList
  <2>2. j # Rank(F, a)
    <3>1. Rank(F, a) \in 1 .. Rank(F, n)
      BY PlacesInList
    <3>2. /\ Rank(F, n) <= Rank(Readable(s), n) /\ Rank(F, n) \in Nat
          /\ Rank(Readable(s), n) \in Nat /\ Len(raw) \in Nat
      BY PlacesInList
    <3> HIDE DEF F, raw
    <3>3. QED BY <2>1, <3>1, <3>2
  <2>3. p.buf[j] = m.buf[j]
    BY <1>6, <2>2
  <2>4. QED BY <2>1, <2>3 DEF MergedAt
<1>8. ASSUME NEW x \in Ids \ {NoId}
      PROVE  (\E b \in 1 .. n + 1 : StartsAt(s, b, x)) <=> (\E b \in 1 .. n : StartsAt(s, b, x))
  <2>1. CASE x = id
    <3>1. a \in 1 .. n + 1
      OBVIOUS
    <3>2. QED BY <1>2, <2>1, <3>1
  <2>2. CASE x # id
    <3>1. ~StartsAt(s, n + 1, x)
      BY <1>1, <2>2 DEF StartsAt
    <3>2. QED BY <3>1
  <2>3. QED BY <2>1, <2>2
<1>9. DOMAIN p.index = {x \in Ids \ {NoId} : \E b \in 1 .. n + 1 : StartsAt(s, b, x)}
  BY <1>8 DEF MergedAt
<1>10. ASSUME NEW x \in DOMAIN p.index
       PROVE  \E b \in F \cap (1 .. n + 1) :
                /\ StartsAt(s, b, x)
                /\ p.index[x] = Rank(F, b)
                /\ \E last : RowAt(s, n + 1, x, p.buf[Rank(F, b)], last)
  <2>1. CASE x = id
    BY <1>1, <1>2, <1>4, <1>6, <2>1
  <2>2. CASE x # id
    <3>1. PICK b \in F \cap (1 .. n) :
                /\ StartsAt(s, b, x)
                /\ m.index[x] = Rank(F, b)
                /\ \E last : RowAt(s, n, x, m.buf[Rank(F, b)], last)
      BY DEF MergedAt
    <3>2. x \in Ids \ {NoId, id}
      BY <1>9, <2>2
    <3>3. PICK last : RowAt(s, n, x, m.buf[Rank(F, b)], last)
      BY <3>1
    <3>4. b # a
      BY <1>2, <2>2, <3>1 DEF StartsAt
    <3>5. Rank(F, b) # Rank(F, a) /\ Rank(F, b) \in 1 .. Len(raw)
      BY <3>4, PlacesInList
    <3>6. p.buf[Rank(F, b)] = m.buf[Rank(F, b)]
      BY <1>6, <3>5
    <3>7. RowAt(s, n + 1, x, p.buf[Rank(F, b)], last)
      BY <1>1, <3>2, <3>3, <3>6 DEF RowsKept
    <3>8. QED BY <1>4, <3>1, <3>7
  <2>3. QED BY <2>1, <2>2
<1>11. ASSUME NEW b \in F \cap (1 .. n + 1), s[b].type = "other"
       PROVE  p.buf[Rank(F, b)] = s[b]
  <2>1. b \in F \cap (1 .. n) /\ b # a
    BY <1>2, <1>4, <1>11 DEF StartsAt
  <2>2. Rank(F, b) # Rank(F, a) /\ Rank(F, b) \in 1 .. Len(raw)
    BY <2>1, PlacesInList
  <2>3. p.buf[Rank(F, b)] = m.buf[Rank(F, b)]
    BY <1>6, <2>2
  <2>4. QED BY <1>11, <2>1, <2>3 DEF MergedAt
<1> HIDE DEF F, raw
<1>12. QED BY <1>5, <1>6, <1>7, <1>9, <1>10, <1>11 DEF MergedAt, F, raw

\* A row behind the others: of a command's first start, or of another record.
LEMMA MergedBehind ==
    ASSUME NEW s \in Seq(Record), NEW n \in Nat, n + 1 <= Len(s), s[n + 1] # Torn, NEW m,
           MergedAt(s, n, Parsed(s), m), NEW p, PendingAt(s, n + 1, p.pending),
           NEW row, DOMAIN p = {"buf", "len", "index", "pending"},
           p.buf = [m.buf EXCEPT ![m.len + 1] = row],
           p.len = m.len + 1,
           \/ /\ CommandRow(s, n, <<row>>) /\ row.id \notin DOMAIN m.index
              /\ p.index = With(m.index, row.id, m.len + 1)
           \/ OtherRow(s, n, <<row>>) /\ p.index = m.index
    PROVE  MergedAt(s, n + 1, Parsed(s), p)
<1> DEFINE F == Firsts(s)
           raw == Parsed(s)
           id == row.id
<1>1. ASSUME CommandRow(s, n, <<row>>)
      PROVE  /\ id = s[n + 1].id /\ id \in Ids \ {NoId} /\ RowAt(s, n + 1, id, row, n + 1)
             /\ RowsKept(s, n, Ids \ {NoId, id})
             /\ s[n + 1].type \in {"proc_start", "proc_end"}
             /\ id \notin DOMAIN m.index =>
                   /\ StartsAt(s, n + 1, id)
                   /\ \A a \in 1 .. n : ~StartsAt(s, a, id)
  BY <1>1 DEF CommandRow, StartsAt, MergedAt
<1>2. ASSUME OtherRow(s, n, <<row>>)
      PROVE  row = s[n + 1] /\ s[n + 1].type = "other" /\ RowsKept(s, n, Ids \ {NoId})
  BY <1>2 DEF OtherRow
<1>3. n + 1 \in F
  <2>1. n + 1 \in DOMAIN s /\ (n + 1) - 1 = n
    BY PlacesInList
  <2>2. QED BY <1>1, <1>2, <2>1 DEF Firsts, StartsAt
<1>4. /\ Rank(F, n + 1) = m.len + 1 /\ p.len = Rank(F, n + 1)
      /\ m.len = Rank(F, n) /\ m.len \in Nat
  <2>1. m.len = Rank(F, n)
    BY DEF MergedAt
  <2>2. QED BY <1>3, <2>1, PlacesInList
<1>5. m.len + 1 \in 1 .. Len(raw) /\ m.len <= Rank(Readable(s), n)
      /\ Rank(Readable(s), n + 1) = Rank(Readable(s), n) + 1
      /\ Rank(Readable(s), n) \in Nat /\ Len(raw) \in Nat
  <2>1. /\ Rank(F, n) <= Rank(Readable(s), n)
        /\ Rank(Readable(s), n + 1) = Rank(Readable(s), n) + 1
        /\ Rank(Readable(s), n + 1) <= Len(raw)
        /\ Rank(Readable(s), n) \in Nat /\ Len(raw) \in Nat
    BY PlacesInList
  <2> HIDE DEF F, raw
  <2>2. QED BY <1>4, <2>1
<1>6. /\ DOMAIN p.buf = 1 .. Len(raw)
      /\ p.buf[m.len + 1] = row
      /\ \A j \in 1 .. Len(raw) : j # m.len + 1 => p.buf[j] = m.buf[j]
  <2>1. DOMAIN m.buf = 1 .. Len(raw)
    BY DEF MergedAt
  <2> HIDE DEF raw
  <2>2. QED BY <1>5, <2>1
<1>7. ASSUME NEW j \in 1 .. Len(raw), Rank(Readable(s), n + 1) < j PROVE p.buf[j] = raw[j]
  <2>1. Rank(Readable(s), n) < j /\ j # m.len + 1
    <3> HIDE DEF raw
    <3>1. QED BY <1>4, <1>5, <1>7
  <2>2. p.buf[j] = m.buf[j]
    BY <1>6, <2>1
  <2>3. QED BY <2>1, <2>2 DEF MergedAt
<1>8. ASSUME NEW b \in F \cap (1 .. n)
      PROVE  b \in F \cap (1 .. n + 1) /\ p.buf[Rank(F, b)] = m.buf[Rank(F, b)]
  <2>1. /\ Rank(F, b) # Rank(F, n) + 1 /\ Rank(F, b) \in 1 .. Len(raw)
        /\ b \in F \cap (1 .. n + 1)
    BY PlacesInList
  <2>2. QED BY <1>4, <1>6, <2>1
<1>9. DOMAIN p.index = {x \in Ids \ {NoId} : \E b \in 1 .. n + 1 : StartsAt(s, b, x)}
  <2>1. DOMAIN m.index = {x \in Ids \ {NoId} : \E b \in 1 .. n : StartsAt(s, b, x)}
    BY DEF MergedAt
  <2>2. ASSUME NEW x
        PROVE  (\E b \in 1 .. n + 1 : StartsAt(s, b, x)) <=>
                   (\E b \in 1 .. n : StartsAt(s, b, x)) \/ StartsAt(s, n + 1, x)
    <3>1. 1 .. n + 1 = (1 .. n) \cup {n + 1}
      OBVIOUS
    <3>2. QED BY <3>1
  <2>3. CASE CommandRow(s, n, <<row>>) /\ row.id \notin DOMAIN m.index
             /\ p.index = With(m.index, row.id, m.len + 1)
    <3>1. DOMAIN p.index = DOMAIN m.index \cup {id}
      BY <2>3 DEF With
    <3>2. id \in Ids \ {NoId} /\ \A x : StartsAt(s, n + 1, x) <=> x = id
      BY <1>1, <2>3 DEF StartsAt
    <3> HIDE DEF id
    <3>3. QED BY <2>1, <2>2, <3>1, <3>2
  <2>4. CASE OtherRow(s, n, <<row>>) /\ p.index = m.index
    <3>1. \A x : ~StartsAt(s, n + 1, x)
      BY <1>2, <2>4 DEF StartsAt
    <3>2. QED BY <2>1, <2>2, <2>4, <3>1
  <2>5. QED BY <2>3, <2>4
<1>10. ASSUME NEW x \in DOMAIN p.index
       PROVE  \E b \in F \cap (1 .. n + 1) :
                /\ StartsAt(s, b, x)
                /\ p.index[x] = Rank(F, b)
                /\ \E last : RowAt(s, n + 1, x, p.buf[Rank(F, b)], last)
  <2>1. ASSUME x \in DOMAIN m.index, p.index[x] = m.index[x],
               \A r, last : RowAt(s, n + 1, x, r, last) <=> RowAt(s, n, x, r, last)
        PROVE  \E b \in F \cap (1 .. n + 1) :
                 /\ StartsAt(s, b, x)
                 /\ p.index[x] = Rank(F, b)
                 /\ \E last : RowAt(s, n + 1, x, p.buf[Rank(F, b)], last)
    <3>1. PICK b \in F \cap (1 .. n) :
                /\ StartsAt(s, b, x)
                /\ m.index[x] = Rank(F, b)
                /\ \E last : RowAt(s, n, x, m.buf[Rank(F, b)], last)
      BY <2>1 DEF MergedAt
    <3>2. b \in F \cap (1 .. n + 1) /\ p.buf[Rank(F, b)] = m.buf[Rank(F, b)]
      BY <1>8
    <3>3. \E last : RowAt(s, n + 1, x, p.buf[Rank(F, b)], last)
      BY <2>1, <3>1, <3>2
    <3> HIDE DEF F
    <3>4. QED BY <2>1, <3>1, <3>2, <3>3
  <2>2. CASE CommandRow(s, n, <<row>>) /\ row.id \notin DOMAIN m.index
             /\ p.index = With(m.index, row.id, m.len + 1)
    <3>1. CASE x = id
      <4>1. p.index[x] = m.len + 1
        BY <2>2, <3>1 DEF With
      <4>2. StartsAt(s, n + 1, x) /\ RowAt(s, n + 1, x, row, n + 1)
        BY <1>1, <2>2, <3>1
      <4>3. n + 1 \in F \cap (1 .. n + 1)
        BY <1>3
      <4>4. p.index[x] = Rank(F, n + 1) /\ p.buf[Rank(F, n + 1)] = row
        BY <1>4, <1>6, <4>1
      <4> HIDE DEF F
      <4>5. QED BY <4>2, <4>3, <4>4
    <3>2. CASE x # id
      <4>1. x \in DOMAIN m.index /\ p.index[x] = m.index[x]
        BY <2>2, <3>2 DEF With
      <4>2. x \in Ids \ {NoId, id}
        BY <1>9, <3>2
      <4>3. \A r, last : RowAt(s, n + 1, x, r, last) <=> RowAt(s, n, x, r, last)
        BY <1>1, <2>2, <4>2 DEF RowsKept
      <4>4. QED BY <2>1, <4>1, <4>3
    <3>3. QED BY <3>1, <3>2
  <2>3. CASE OtherRow(s, n, <<row>>) /\ p.index = m.index
    <3>1. x \in DOMAIN m.index /\ p.index[x] = m.index[x] /\ x \in Ids \ {NoId}
      BY <1>9, <2>3
    <3>2. \A r, last : RowAt(s, n + 1, x, r, last) <=> RowAt(s, n, x, r, last)
      BY <1>2, <2>3, <3>1 DEF RowsKept
    <3>3. QED BY <2>1, <3>1, <3>2
  <2>4. QED BY <2>2, <2>3
<1>11. ASSUME NEW b \in F \cap (1 .. n + 1), s[b].type = "other"
       PROVE  p.buf[Rank(F, b)] = s[b]
  <2>1. CASE b = n + 1
    <3>1. OtherRow(s, n, <<row>>)
      BY <1>1, <1>11, <2>1
    <3>2. QED BY <1>2, <1>4, <1>6, <2>1, <3>1
  <2>2. CASE b # n + 1
    <3>1. b \in F \cap (1 .. n)
      BY <2>2
    <3>2. QED BY <1>8, <1>11, <3>1 DEF MergedAt
  <2>3. QED BY <2>1, <2>2
<1> HIDE DEF F, raw
<1>12. QED BY <1>4, <1>6, <1>7, <1>9, <1>10, <1>11 DEF MergedAt, F, raw

\* One more record.
LEMMA MergedStep ==
    ASSUME NEW s \in Seq(Record), NEW n \in Nat, n + 1 <= Len(s), NEW m,
           MergedAt(s, n, Parsed(s), m)
    PROVE  LET next == Merge(m, m.buf[Rank(Readable(s), n) + 1])
           IN  MergedAt(s, n + 1, Parsed(s), IF s[n + 1] = Torn THEN m ELSE next)
<1> DEFINE ev   == s[n + 1]
           step == MergeEventForStreaming(m.pending, ev, TRUE)
           set  == [m EXCEPT !.pending = step.pending]
<1>1. /\ PendingAt(s, n + 1, step.pending)
      /\ \/ Unchanged(s, n, step.rows)
         \/ OtherRow(s, n, step.rows)
         \/ CommandRow(s, n, step.rows)
  BY MergeStep DEF MergedAt
<1>2. DOMAIN m = {"buf", "len", "index", "pending"}
  BY DEF MergedAt
<1>3. CASE ev = Torn
  <2>1. step.pending = m.pending /\ step.rows = <<>> /\ ev.type = "torn"
    BY <1>3 DEF MergeEventForStreaming, Torn
  <2>2. Unchanged(s, n, <<>>)
    <3>1. \A x : <<x>> # <<>>
      OBVIOUS
    <3> HIDE DEF step
    <3>2. QED BY <1>1, <2>1, <3>1 DEF OtherRow, CommandRow
  <2>3. PendingAt(s, n + 1, m.pending)
    BY <1>1, <2>1
  <2>4. QED BY <1>2, <1>3, <2>2, <2>3, MergedKeeps
<1>4. CASE ev # Torn
  <2>1. m.buf[Rank(Readable(s), n) + 1] = ev
    <3>1. /\ Parsed(s)[Rank(Readable(s), n) + 1] = ev
          /\ Rank(Readable(s), n) + 1 \in 1 .. Len(Parsed(s))
          /\ Rank(Readable(s), n) < Rank(Readable(s), n) + 1
      BY <1>4, PlacesInList
    <3>2. QED BY <3>1 DEF MergedAt
  <2>2. Merge(m, ev) = IF step.rows = <<>> THEN set ELSE Place(set, step.rows[1])
    BY DEF Merge
  <2> SUFFICES MergedAt(s, n + 1, Parsed(s), Merge(m, ev))
    BY <1>4, <2>1
  <2>3. CASE step.rows = <<>>
    <3>1. Unchanged(s, n, <<>>)
      <4>1. \A x : <<x>> # <<>>
        OBVIOUS
      <4> HIDE DEF step
      <4>2. QED BY <1>1, <2>3, <4>1 DEF OtherRow, CommandRow
    <3>2. /\ DOMAIN set = {"buf", "len", "index", "pending"}
          /\ set.pending = step.pending
          /\ set.buf = m.buf /\ set.len = m.len /\ set.index = m.index
      BY <1>2
    <3> HIDE DEF set, step
    <3>3. QED BY <1>1, <2>2, <2>3, <3>1, <3>2, MergedKeeps
  <2>4. CASE step.rows # <<>>
    <3>1. PICK row : step.rows = <<row>>
      BY <1>1, <2>4 DEF Unchanged, OtherRow, CommandRow
    <3>2. OtherRow(s, n, <<row>>) \/ CommandRow(s, n, <<row>>)
      BY <1>1, <2>4, <3>1 DEF Unchanged
    <3> DEFINE p == Place(set, row)
    <3>3. Merge(m, ev) = p
      <4> HIDE DEF step, set
      <4>1. step.rows[1] = row
        BY <3>1
      <4>2. QED BY <2>2, <2>4, <4>1
    <3>0. /\ DOMAIN set = {"buf", "len", "index", "pending"}
          /\ set.pending = step.pending
          /\ set.buf = m.buf /\ set.len = m.len /\ set.index = m.index
      BY <1>2
    <3>4. OtherRow(s, n, <<row>>) => row.type = "other"
      BY DEF OtherRow
    <3>5. CommandRow(s, n, <<row>>) => row.type = "proc"
      BY DEF CommandRow
    <3>6. CASE row.type = "proc" /\ row.id \in DOMAIN m.index
      <4>1. /\ DOMAIN p = {"buf", "len", "index", "pending"}
            /\ p.pending = step.pending
            /\ p.len = m.len
            /\ p.index = m.index
            /\ p.buf = [m.buf EXCEPT ![m.index[row.id]] = row]
        <5> HIDE DEF step, set
        <5>1. QED BY <3>0, <3>6, PlaceOver
      <4>2. CommandRow(s, n, <<row>>)
        BY <3>2, <3>4, <3>6
      <4> HIDE DEF p, step
      <4>3. QED BY <1>1, <1>4, <3>3, <3>6, <4>1, <4>2, MergedOver
    <3>7. CASE ~(row.type = "proc" /\ row.id \in DOMAIN m.index)
      <4>1. /\ DOMAIN p = {"buf", "len", "index", "pending"}
            /\ p.pending = step.pending
            /\ p.len = m.len + 1
            /\ p.index = IF row.type = "proc" THEN With(m.index, row.id, m.len + 1)
                                              ELSE m.index
            /\ p.buf = [m.buf EXCEPT ![m.len + 1] = row]
        <5> HIDE DEF step, set
        <5>1. /\ DOMAIN set = {"buf", "len", "index", "pending"}
              /\ ~(row.type = "proc" /\ row.id \in DOMAIN set.index)
          BY <3>0, <3>7
        <5>2. /\ DOMAIN p = {"buf", "len", "index", "pending"}
              /\ p.pending = set.pending
              /\ p.len = set.len + 1
              /\ p.index = IF row.type = "proc" THEN With(set.index, row.id, set.len + 1)
                                                ELSE set.index
              /\ p.buf = [set.buf EXCEPT ![set.len + 1] = row]
          BY <5>1, PlaceBehind
        <5> HIDE DEF p
        <5>3. QED BY <3>0, <5>2
      <4>2. \/ /\ CommandRow(s, n, <<row>>) /\ row.id \notin DOMAIN m.index
               /\ p.index = With(m.index, row.id, m.len + 1)
            \/ OtherRow(s, n, <<row>>) /\ p.index = m.index
        <5> HIDE DEF p
        <5>1. QED BY <3>2, <3>4, <3>5, <3>7, <4>1
      <4> HIDE DEF p, step
      <4>3. QED BY <1>1, <1>4, <3>3, <4>1, <4>2, MergedBehind
    <3>8. QED BY <3>6, <3>7
  <2>5. QED BY <2>3, <2>4
<1>5. QED BY <1>3, <1>4

LEMMA MergingExists ==
    ASSUME NEW raw, Len(raw) \in Nat, NEW pending
    PROVE  \E merge :
             /\ merge[0] = [buf |-> raw, len |-> 0, index |-> <<>>, pending |-> pending]
             /\ \A i \in 0 .. Len(raw) - 1 : merge[i + 1] = Merge(merge[i], merge[i].buf[i + 1])
             /\ MergeEventsForList(raw, pending) =
                  [rows    |-> SubSeq(merge[Len(raw)].buf, 1, merge[Len(raw)].len),
                   pending |-> merge[Len(raw)].pending]
<1> DEFINE start == [buf |-> raw, len |-> 0, index |-> <<>>, pending |-> pending]
           Upto(k, f) == /\ DOMAIN f = 0 .. k
                         /\ f[0] = start
                         /\ \A i \in 1 .. k : f[i] = Merge(f[i - 1], f[i - 1].buf[i])
           IsIt(f) == f = [i \in 0 .. Len(raw) |->
                             IF i = 0
                             THEN [buf |-> raw, len |-> 0, index |-> <<>>, pending |-> pending]
                             ELSE Merge(f[i - 1], f[i - 1].buf[i])]
           merge == CHOOSE f : IsIt(f)
           T == {k \in Nat : \E f : Upto(k, f)}
<1> HIDE DEF start
<1>1. 0 \in T
  <2>1. Upto(0, [i \in 0 .. 0 |-> start])
    OBVIOUS
  <2> HIDE DEF Upto
  <2>2. QED BY <2>1
<1>2. ASSUME NEW k \in Nat, k \in T PROVE k + 1 \in T
  <2>1. PICK f : Upto(k, f)
    BY <1>2
  <2> DEFINE g == [i \in 0 .. k + 1 |-> IF i <= k THEN f[i] ELSE Merge(f[k], f[k].buf[k + 1])]
  <2>2. \A i \in 0 .. k : g[i] = f[i]
    OBVIOUS
  <2>3. g[k + 1] = Merge(f[k], f[k].buf[k + 1])
    OBVIOUS
  <2>4. DOMAIN g = 0 .. k + 1
    OBVIOUS
  <2> HIDE DEF g
  <2>5. ASSUME NEW i \in 1 .. k + 1 PROVE g[i] = Merge(g[i - 1], g[i - 1].buf[i])
    <3>1. CASE i = k + 1
      <4>1. i - 1 = k /\ k \in 0 .. k
        BY <3>1
      <4>2. QED BY <2>2, <2>3, <3>1, <4>1
    <3>2. CASE i # k + 1
      <4>1. i \in 1 .. k /\ i \in 0 .. k /\ i - 1 \in 0 .. k
        BY <3>2
      <4>2. f[i] = Merge(f[i - 1], f[i - 1].buf[i])
        BY <2>1, <4>1
      <4>3. QED BY <2>2, <4>1, <4>2
    <3>3. QED BY <3>1, <3>2
  <2>6. g[0] = start
    BY <2>1, <2>2
  <2>7. Upto(k + 1, g)
    BY <2>4, <2>5, <2>6
  <2> HIDE DEF Upto
  <2>8. QED BY <2>7
<1>3. Len(raw) \in T
  <2> HIDE DEF T
  <2>1. QED BY <1>1, <1>2, NatSetInduction
<1>4. PICK f : Upto(Len(raw), f)
  BY <1>3
<1>5. IsIt(f)
  <2>1. ASSUME NEW i \in 0 .. Len(raw)
        PROVE  f[i] = IF i = 0
                      THEN [buf |-> raw, len |-> 0, index |-> <<>>, pending |-> pending]
                      ELSE Merge(f[i - 1], f[i - 1].buf[i])
    <3>1. CASE i = 0
      BY <1>4, <3>1 DEF start
    <3>2. CASE i # 0
      <4>1. i \in 1 .. Len(raw)
        BY <3>2
      <4>2. QED BY <1>4, <3>2, <4>1
    <3>3. QED BY <3>1, <3>2
  <2> DEFINE h == [i \in 0 .. Len(raw) |->
                    IF i = 0
                    THEN [buf |-> raw, len |-> 0, index |-> <<>>, pending |-> pending]
                    ELSE Merge(f[i - 1], f[i - 1].buf[i])]
  <2>2. DOMAIN f = 0 .. Len(raw)
    BY <1>4
  <2>3. f = [i \in 0 .. Len(raw) |-> f[i]]
    BY <1>4
  <2>4. QED BY <2>1, <2>2, <2>3
<1>6. IsIt(merge)
  <2> HIDE DEF IsIt
  <2>1. QED BY <1>5
<1>7. MergeEventsForList(raw, pending) =
                  [rows    |-> SubSeq(merge[Len(raw)].buf, 1, merge[Len(raw)].len),
                   pending |-> merge[Len(raw)].pending]
  BY DEF MergeEventsForList
<1> HIDE DEF merge
<1>8. ASSUME NEW i \in 0 .. Len(raw)
      PROVE  merge[i] = IF i = 0
                        THEN [buf |-> raw, len |-> 0, index |-> <<>>, pending |-> pending]
                        ELSE Merge(merge[i - 1], merge[i - 1].buf[i])
  BY <1>6
<1>9. merge[0] = [buf |-> raw, len |-> 0, index |-> <<>>, pending |-> pending]
  <2>1. 0 \in 0 .. Len(raw)
    OBVIOUS
  <2>2. QED BY <1>8, <2>1
<1>10. ASSUME NEW i \in 0 .. Len(raw) - 1 PROVE merge[i + 1] = Merge(merge[i], merge[i].buf[i + 1])
  <2>1. i + 1 \in 0 .. Len(raw) /\ i + 1 # 0 /\ (i + 1) - 1 = i
    OBVIOUS
  <2>2. QED BY <1>8, <2>1
<1>11. QED BY <1>7, <1>9, <1>10

\* mergeEventsForList reads one record after the other: behind each record of
\* the log its state is as MergedAt says.
LEMMA ListMerged ==
    ASSUME NEW s \in Seq(Record)
    PROVE  \E m : /\ MergedAt(s, Len(s), Parsed(s), m)
                  /\ MergeEventsForList(Parsed(s), <<>>) =
                       [rows |-> SubSeq(m.buf, 1, m.len), pending |-> m.pending]
<1> DEFINE raw == Parsed(s)
           I == Readable(s)
<1>1. raw \in Seq(Record) /\ Len(raw) \in Nat /\ Len(raw) = Rank(I, Len(s))
      /\ DOMAIN raw = 1 .. Len(raw)
  BY PickedRanks DEF Parsed, Readable
<1>2. PICK merge :
             /\ merge[0] = [buf |-> raw, len |-> 0, index |-> <<>>, pending |-> <<>>]
             /\ \A i \in 0 .. Len(raw) - 1 : merge[i + 1] = Merge(merge[i], merge[i].buf[i + 1])
             /\ MergeEventsForList(raw, <<>>) =
                  [rows    |-> SubSeq(merge[Len(raw)].buf, 1, merge[Len(raw)].len),
                   pending |-> merge[Len(raw)].pending]
  BY <1>1, MergingExists
<1> DEFINE T == {n \in Nat : n <= Len(s) => MergedAt(s, n, raw, merge[Rank(I, n)])}
<1>3. 0 \in T
  <2>1. Rank(I, 0) = 0 /\ Rank(Firsts(s), 0) = 0
    BY RankStep
  <2> DEFINE m == merge[0]
  <2>2. /\ DOMAIN m = {"buf", "len", "index", "pending"}
        /\ m.buf = raw /\ m.len = 0 /\ m.index = <<>> /\ m.pending = <<>>
    BY <1>2
  <2>3. DOMAIN <<>> = {}
    OBVIOUS
  <2>4. 1 .. 0 = {}
    OBVIOUS
  <2>5. PendingAt(s, 0, m.pending)
    BY <2>2, <2>3, <2>4 DEF PendingAt
  <2> HIDE DEF m, I, raw
  <2>6. MergedAt(s, 0, raw, m)
    BY <1>1, <2>1, <2>2, <2>3, <2>4, <2>5 DEF MergedAt
  <2>7. QED BY <2>1, <2>6 DEF m
<1>4. ASSUME NEW n \in Nat, n \in T PROVE n + 1 \in T
  <2> SUFFICES ASSUME n + 1 <= Len(s) PROVE MergedAt(s, n + 1, raw, merge[Rank(I, n + 1)])
    OBVIOUS
  <2> DEFINE m == merge[Rank(I, n)]
  <2>1. MergedAt(s, n, raw, m)
    BY <1>4
  <2>2. MergedAt(s, n + 1, raw, IF s[n + 1] = Torn THEN m ELSE Merge(m, m.buf[Rank(I, n) + 1]))
    BY <2>1, MergedStep
  <2>3. /\ Rank(I, n) \in Nat /\ Rank(I, n + 1) <= Len(raw)
        /\ Rank(I, n + 1) = IF s[n + 1] # Torn THEN Rank(I, n) + 1 ELSE Rank(I, n)
    BY PlacesInList
  <2>4. merge[Rank(I, n + 1)] = IF s[n + 1] = Torn THEN m ELSE Merge(m, m.buf[Rank(I, n) + 1])
    <3>1. CASE s[n + 1] = Torn
      BY <2>3, <3>1
    <3>2. CASE s[n + 1] # Torn
      <4> HIDE DEF I, raw
      <4>1. Rank(I, n) \in 0 .. Len(raw) - 1
        BY <1>1, <2>3, <3>2
      <4>2. merge[Rank(I, n) + 1] = Merge(m, m.buf[Rank(I, n) + 1])
        BY <1>2, <4>1
      <4>3. QED BY <2>3, <3>2, <4>2
    <3>3. QED BY <3>1, <3>2
  <2>5. QED BY <2>2, <2>4
<1>5. Len(s) \in T
  <2> HIDE DEF T
  <2>1. QED BY <1>3, <1>4, NatSetInduction
<1>6. MergedAt(s, Len(s), raw, merge[Len(raw)])
  BY <1>1, <1>5
<1>7. QED BY <1>2, <1>6

LEMMA CommandIs ==
    ASSUME NEW s \in Seq(Record), NEW id, NEW row, NEW last, RowAt(s, Len(s), id, row, last)
    PROVE  Command(s, id).row = row /\ Command(s, id).last = last
<1> DEFINE n == Len(s)
           start == Greatest(StartsOf(s, id))
           ends  == {i \in start + 1 .. Len(s) : s[i].type = "proc_end" /\ s[i].id = id}
           shown == [type |-> "proc", id |-> id, cmd |-> s[start].cmd,
                     result |-> IF ends = {} THEN NoResult ELSE s[Least(ends)].result]
<1>1. DOMAIN s = 1 .. n /\ n \in Nat
  OBVIOUS
<1>2. /\ Command(s, id).row = shown
      /\ Command(s, id).last = IF ends = {} THEN start ELSE Least(ends)
  BY DEF Command
<1>3. ASSUME NEW a \in 1 .. n, StartsAt(s, a, id), \A j \in a + 1 .. n : ~StartsAt(s, j, id)
      PROVE  start = a
  <2>1. StartsOf(s, id) \subseteq Int /\ a \in StartsOf(s, id)
    BY <1>1, <1>3 DEF StartsOf, StartsAt
  <2>2. ASSUME NEW j \in StartsOf(s, id) PROVE j <= a
    <3>1. j \in 1 .. n /\ StartsAt(s, j, id)
      BY <1>1 DEF StartsOf, StartsAt
    <3>2. QED BY <1>3, <3>1
  <2>3. QED BY <2>1, <2>2, GreatestIs
<1>4. CASE Awaiting(s, n, id, last) /\ row = MergedCommandFromStart(s[last])
  <2>1. last \in 1 .. n /\ StartsAt(s, last, id)
        /\ \A j \in last + 1 .. n : ~StartsAt(s, j, id) /\ ~EndsAt(s, j, id)
    BY <1>4 DEF Awaiting
  <2>2. start = last
    BY <1>3, <2>1
  <2>3. ends = {}
    BY <2>1, <2>2 DEF EndsAt
  <2>4. row = [type |-> "proc", id |-> id, cmd |-> s[last].cmd, result |-> NoResult]
    <3>1. s[last] \in Record /\ s[last].type = "proc_start" /\ s[last].id = id
      BY <1>1, <2>1 DEF StartsAt
    <3>2. QED BY <1>4, <3>1, MergedRow
  <2>5. QED
    <3> HIDE DEF start, ends
    <3>1. shown = row
      BY <2>2, <2>3, <2>4
    <3>2. QED BY <1>2, <2>2, <2>3, <3>1
<1>5. ASSUME NEW a \in 1 .. n, Ended(s, n, id, a, last),
             row = ApplyCommandEnd(MergedCommandFromStart(s[a]), s[last])
      PROVE  Command(s, id).row = row /\ Command(s, id).last = last
  <2>1. StartsAt(s, a, id) /\ (\A j \in a + 1 .. n : ~StartsAt(s, j, id))
        /\ last \in a + 1 .. n /\ EndsAt(s, last, id)
        /\ \A j \in a + 1 .. last - 1 : ~EndsAt(s, j, id)
    BY <1>5 DEF Ended
  <2>2. start = a
    BY <1>3, <2>1
  <2>3. last \in ends /\ ends \subseteq Int
    BY <2>1, <2>2 DEF EndsAt
  <2>4. ASSUME NEW j \in ends PROVE last <= j
    <3>1. j \in a + 1 .. n /\ EndsAt(s, j, id)
      BY <2>2 DEF EndsAt
    <3>2. QED BY <2>1, <3>1
  <2>5. Least(ends) = last
    <3> HIDE DEF ends
    <3>1. QED BY <2>3, <2>4, LeastIs
  <2>6. row = [type |-> "proc", id |-> id, cmd |-> s[a].cmd, result |-> s[last].result]
    <3>1. last \in 1 .. n
      BY <2>1
    <3>2. s[a] \in Record /\ s[last] \in Record
      BY <1>1, <3>1
    <3>3. s[a].type = "proc_start" /\ s[a].id = id /\ s[last].type = "proc_end"
      BY <2>1 DEF StartsAt, EndsAt
    <3>4. QED BY <1>5, <3>2, <3>3, EndedRow
  <2>7. QED
    <3> HIDE DEF start, ends
    <3>1. shown = row
      BY <2>2, <2>3, <2>5, <2>6
    <3>2. QED BY <1>2, <2>3, <2>5, <3>1
<1>6. QED BY <1>4, <1>5 DEF RowAt

\* Every command and every other record has its place in Firsts, and every such
\* place is of one of them.
LEMMA PlacesOfAll ==
    ASSUME NEW s \in Seq(Record)
    PROVE  /\ \A e \in CommandsOf(s) \cup Others(s) : e.first \in Firsts(s)
           /\ \A e, f \in CommandsOf(s) \cup Others(s) : e.first = f.first => e = f
           /\ \A a \in Firsts(s) : \E e \in CommandsOf(s) \cup Others(s) : e.first = a
<1> DEFINE F == Firsts(s)
<1>1. DOMAIN s = 1 .. Len(s) /\ Len(s) \in Nat
  OBVIOUS
<1>2. ASSUME NEW id \in Ids \ {NoId}, StartsOf(s, id) # {}
      PROVE  /\ Command(s, id).first \in F /\ s[Command(s, id).first].type = "proc_start"
             /\ s[Command(s, id).first].id = id
             /\ Command(s, id).first = Least(StartsOf(s, id))
  <2>1. StartsOf(s, id) \subseteq Nat
    BY <1>1 DEF StartsOf
  <2>2. PICK a \in StartsOf(s, id) : \A j \in StartsOf(s, id) : a <= j
    BY <1>2, <2>1, LeastExists
  <2>3. Least(StartsOf(s, id)) = a
    <3>1. StartsOf(s, id) \subseteq Int
      BY <2>1
    <3>2. QED BY <2>2, <3>1, LeastIs
  <2>4. Command(s, id).first = Least(StartsOf(s, id))
    BY DEF Command
  <2>5. a \in DOMAIN s /\ s[a].type = "proc_start" /\ s[a].id = id
    BY DEF StartsOf
  <2>6. ASSUME NEW j \in 1 .. a - 1 PROVE ~StartsAt(s, j, id)
    <3>1. j \in DOMAIN s /\ ~(a <= j)
      BY <1>1, <2>5
    <3>2. QED BY <2>2, <3>1 DEF StartsOf, StartsAt
  <2>7. QED BY <2>3, <2>4, <2>5, <2>6 DEF Firsts
<1>3. ASSUME NEW e \in CommandsOf(s)
      PROVE  \E id \in Ids \ {NoId} : e = Command(s, id) /\ StartsOf(s, id) # {}
  BY DEF CommandsOf
<1>4. ASSUME NEW e \in Others(s)
      PROVE  e.first \in DOMAIN s /\ s[e.first].type = "other"
             /\ e = [first |-> e.first, last |-> e.first, row |-> s[e.first]]
  BY DEF Others
<1>5. ASSUME NEW e \in CommandsOf(s) \cup Others(s) PROVE e.first \in F
  <2>1. CASE e \in CommandsOf(s)
    BY <1>2, <1>3, <2>1
  <2>2. CASE e \in Others(s)
    BY <1>4, <2>2 DEF Firsts
  <2>3. QED BY <2>1, <2>2
<1>6. ASSUME NEW e \in CommandsOf(s) \cup Others(s), NEW f \in CommandsOf(s) \cup Others(s),
             e.first = f.first
      PROVE  e = f
  <2>1. CASE e \in CommandsOf(s) /\ f \in CommandsOf(s)
    <3>1. PICK i \in Ids \ {NoId} : e = Command(s, i) /\ StartsOf(s, i) # {}
      BY <1>3, <2>1
    <3>2. PICK j \in Ids \ {NoId} : f = Command(s, j) /\ StartsOf(s, j) # {}
      BY <1>3, <2>1
    <3>3. i = j
      BY <1>2, <1>6, <3>1, <3>2
    <3>4. QED BY <3>1, <3>2, <3>3
  <2>2. CASE e \in Others(s) /\ f \in Others(s)
    BY <1>4, <1>6, <2>2
  <2>3. ASSUME NEW x \in CommandsOf(s), NEW y \in Others(s) PROVE x.first # y.first
    <3>1. PICK i \in Ids \ {NoId} : x = Command(s, i) /\ StartsOf(s, i) # {}
      BY <1>3
    <3>2. s[x.first].type = "proc_start" /\ s[y.first].type = "other"
      BY <1>2, <1>4, <3>1
    <3>3. QED BY <3>2
  <2>4. QED BY <1>6, <2>1, <2>2, <2>3
<1>7. ASSUME NEW a \in F PROVE \E e \in CommandsOf(s) \cup Others(s) : e.first = a
  <2>1. CASE s[a].type = "other"
    <3> DEFINE e == [first |-> a, last |-> a, row |-> s[a]]
    <3>1. a \in DOMAIN s
      BY DEF Firsts
    <3>2. e \in Others(s) /\ e.first = a
      BY <2>1, <3>1 DEF Others
    <3> HIDE DEF e
    <3>3. QED BY <3>2
  <2>2. CASE s[a].type # "other"
    <3> DEFINE id == s[a].id
    <3>1. /\ a \in 1 .. Len(s) /\ s[a].type = "proc_start" /\ id # NoId
          /\ \A j \in 1 .. a - 1 : ~StartsAt(s, j, id)
      BY <1>1, <2>2 DEF Firsts
    <3>2. id \in Ids \ {NoId}
      <4>1. s[a] \in Record
        BY <3>1
      <4>2. QED BY <3>1, <4>1, RecordFields
    <3>3. a \in StartsOf(s, id) /\ StartsOf(s, id) \subseteq Int
      BY <1>1, <3>1 DEF StartsOf
    <3>4. ASSUME NEW j \in StartsOf(s, id) PROVE a <= j
      <4>1. j \in 1 .. Len(s) /\ StartsAt(s, j, id)
        BY <1>1 DEF StartsOf, StartsAt
      <4>2. QED BY <3>1, <4>1
    <3>5. Least(StartsOf(s, id)) = a
      <4> HIDE DEF id
      <4>1. QED BY <3>3, <3>4, LeastIs
    <3>6. StartsOf(s, id) # {}
      BY <3>3
    <3>7. Command(s, id) \in CommandsOf(s) /\ Command(s, id).first = a
      <4> HIDE DEF id
      <4>1. QED BY <1>2, <3>2, <3>5, <3>6 DEF CommandsOf
    <3>8. QED BY <3>7
  <2>3. QED BY <2>1, <2>2
<1>8. QED BY <1>5, <1>6, <1>7

LEMMA CountOfAll ==
    ASSUME NEW s \in Seq(Record), NEW n \in Nat
    PROVE  Cardinality({e \in CommandsOf(s) \cup Others(s) : e.first <= n}) = Rank(Firsts(s), n)
<1> DEFINE all == CommandsOf(s) \cup Others(s)
           F == Firsts(s)
           A == {e \in all : e.first <= n}
           B == F \cap (1 .. n)
           g == [a \in B |-> CHOOSE e \in all : e.first = a]
<1>1. /\ \A e \in all : e.first \in F
      /\ \A e, f \in all : e.first = f.first => e = f
      /\ \A a \in F : \E e \in all : e.first = a
  BY PlacesOfAll
<1>2. F \subseteq Nat \ {0}
  BY DEF Firsts
<1> HIDE DEF all, F
<1>3. \A a \in B : g[a] \in A /\ g[a].first = a
  BY <1>1
<1>4. \A e \in A : e.first \in B /\ g[e.first] = e
  <2>1. ASSUME NEW e \in A PROVE e.first \in B
    <3>1. e.first \in F /\ e.first <= n
      BY <1>1
    <3>2. e.first \in Nat \ {0}
      BY <1>2, <3>1
    <3>3. QED BY <3>1, <3>2
  <2>2. ASSUME NEW e \in A PROVE g[e.first] = e
    BY <1>1, <1>3, <2>1
  <2>3. QED BY <2>1, <2>2
<1>5. g \in [B -> A]
  BY <1>3
<1> HIDE DEF g, A
<1>6. g \in Bijection(B, A)
  BY <1>3, <1>4, <1>5 DEF Bijection, Injection, Surjection, IsInjective
<1>7. IsFiniteSet(B)
  <2>1. IsFiniteSet(1 .. n) /\ B \in SUBSET (1 .. n)
    BY FS_Interval
  <2>2. QED BY <2>1, FS_Subset
<1>8. Cardinality(A) = Cardinality(B)
  <2> HIDE DEF B
  <2>1. ExistsBijection(B, A)
    BY <1>6 DEF ExistsBijection
  <2>2. QED BY <1>7, <2>1, FS_Bijection
<1>9. QED BY <1>8 DEF Rank, A, F, all

\* The list has the row of every command and of every other record, in order.
LEMMA ListRows ==
    ASSUME NEW s \in Seq(Record)
    PROVE  LET all == CommandsOf(s) \cup Others(s)
           IN  /\ Len(List(s)) = Cardinality(all)
               /\ \A e \in all : List(s)[Cardinality({f \in all : f.first <= e.first})] = e.row
<1> DEFINE all == CommandsOf(s) \cup Others(s)
           F == Firsts(s)
           n == Len(s)
<1>1. PICK m : /\ MergedAt(s, n, Parsed(s), m)
               /\ MergeEventsForList(Parsed(s), <<>>) =
                    [rows |-> SubSeq(m.buf, 1, m.len), pending |-> m.pending]
  BY ListMerged
<1>2. List(s) = SubSeq(m.buf, 1, m.len)
  BY <1>1 DEF List
<1>3. n \in Nat /\ m.len = Rank(F, n) /\ m.len \in Nat
  <2>1. m.len = Rank(F, n)
    BY <1>1 DEF MergedAt
  <2>2. QED BY <2>1, RankStep
<1>4. /\ Len(List(s)) = m.len
      /\ \A k \in 1 .. m.len : List(s)[k] = m.buf[k]
  <2> DEFINE S == {m.buf[i] : i \in 1 .. m.len}
  <2>1. \A i \in 1 .. m.len : m.buf[i] \in S
    OBVIOUS
  <2> HIDE DEF S
  <2>2. /\ Len(SubSeq(m.buf, 1, m.len)) = IF 1 <= m.len THEN m.len - 1 + 1 ELSE 0
        /\ \A i \in 1 .. m.len - 1 + 1 : SubSeq(m.buf, 1, m.len)[i] = m.buf[1 + i - 1]
    BY <1>3, <2>1, SubSeqProperties
  <2>3. QED BY <1>2, <1>3, <2>2
<1>5. \A e \in all : e.first \in F \cap (1 .. n) /\ e.first \in Nat
  BY PlacesOfAll DEF Firsts
<1>6. Len(List(s)) = Cardinality(all)
  <2>1. {e \in all : e.first <= n} = all
    BY <1>5
  <2>2. Cardinality({e \in all : e.first <= n}) = Rank(F, n)
    BY <1>3, CountOfAll
  <2> HIDE DEF all, F
  <2>3. QED BY <1>3, <1>4, <2>1, <2>2
<1>7. ASSUME NEW e \in all
      PROVE  List(s)[Cardinality({f \in all : f.first <= e.first})] = e.row
  <2>1. Cardinality({f \in all : f.first <= e.first}) = Rank(F, e.first)
    BY <1>5, CountOfAll
  <2>2. Rank(F, e.first) \in 1 .. m.len
    <3>1. e.first \in F \cap (1 .. n)
      BY <1>5
    <3> HIDE DEF F
    <3>2. QED BY <1>3, <3>1, RankBounds
  <2>3. List(s)[Rank(F, e.first)] = m.buf[Rank(F, e.first)]
    BY <1>4, <2>2
  <2>4. CASE e \in Others(s)
    <3>1. PICK j \in DOMAIN s : e = [first |-> j, last |-> j, row |-> s[j]] /\ s[j].type = "other"
      BY <2>4 DEF Others
    <3>2. e.row = s[e.first] /\ s[e.first].type = "other"
      BY <3>1
    <3>3. m.buf[Rank(F, e.first)] = s[e.first]
      BY <1>1, <1>5, <3>2 DEF MergedAt
    <3> HIDE DEF all, F
    <3>4. QED BY <2>1, <2>3, <3>2, <3>3
  <2>5. CASE e \in CommandsOf(s)
    <3>1. PICK id \in Ids \ {NoId} : e = Command(s, id) /\ StartsOf(s, id) # {}
      BY <2>5 DEF CommandsOf
    <3>2. id \in DOMAIN m.index
      <4>1. PICK a \in 1 .. n : StartsAt(s, a, id)
        BY <3>1 DEF StartsOf, StartsAt
      <4>2. QED BY <1>1, <4>1 DEF MergedAt
    <3>3. PICK a \in F \cap (1 .. n) :
            /\ StartsAt(s, a, id)
            /\ \E last : RowAt(s, n, id, m.buf[Rank(F, a)], last)
      BY <1>1, <3>2 DEF MergedAt
    <3>4. e.first = a
      <4>1. a \in StartsOf(s, id) /\ StartsOf(s, id) \subseteq Int
        BY <3>3 DEF StartsOf, StartsAt
      <4>2. ASSUME NEW j \in StartsOf(s, id) PROVE a <= j
        <5>1. j \in 1 .. n /\ StartsAt(s, j, id)
          BY DEF StartsOf, StartsAt
        <5>2. s[a].type = "proc_start" /\ s[a].id = id /\ \A i \in 1 .. a - 1 : ~StartsAt(s, i, id)
          BY <3>3 DEF Firsts, StartsAt
        <5>3. QED BY <5>1, <5>2
      <4>3. Least(StartsOf(s, id)) = a
        BY <4>1, <4>2, LeastIs
      <4>4. Command(s, id).first = Least(StartsOf(s, id))
        BY DEF Command
      <4>5. QED BY <3>1, <4>3, <4>4
    <3>5. e.row = m.buf[Rank(F, a)]
      BY <3>1, <3>3, CommandIs
    <3> HIDE DEF all, F
    <3>6. QED BY <2>1, <2>3, <3>4, <3>5
  <2>6. QED BY <2>4, <2>5
<1> HIDE DEF all
<1>8. QED BY <1>6, <1>7 DEF all

-----------------------------------------------------------------------------
(* The log is a sequence of records.                                       *)

\* Every command that is alive has a start that is the last record with its id.
LastWith(s, id, i) ==
    /\ i \in 1 .. Len(s)
    /\ StartsAt(s, i, id)
    /\ \A j \in i + 1 .. Len(s) : s[j].id # id

LogInv ==
    /\ log \in Seq(Record)
    /\ \A i \in 1 .. Len(log) : log[i].type = "proc_end" => log[i].result \in Results
    /\ prefix \in 1 .. MaxDaemons
    /\ seq \in Nat
    /\ seq <= Len(log)
    /\ \A id \in alive :
          /\ \E k \in 1 .. seq : id = <<prefix, k>>
          /\ \E i : LastWith(log, id, i)

\* What a step may add to the log.
Grows ==
    \/ log' = log
    \/ \E ev \in Record :
          /\ log' = Append(log, ev)
          /\ ev.type = "proc_end" => ev.result \in Results
          /\ ev.type = "other" => ev.id = NoId

LEMMA TornRecord == Torn \in Record /\ Torn.type = "torn" /\ Torn.id = NoId
  BY DEF Torn, Record

LEMMA EndRecord ==
    ASSUME NEW ev \in Record, ev.type = "proc_start", NEW r \in Results
    PROVE  LET end == [ev EXCEPT !.type = "proc_end", !.result = r]
           IN  end \in Record /\ end.id = ev.id /\ end.type = "proc_end" /\ end.result = r
<1> DEFINE end == [ev EXCEPT !.type = "proc_end", !.result = r]
<1>1. ev \in [type : {"proc_start", "proc_end", "proc", "other"}, id : Ids,
              cmd : Commands, result : Results \cup {NoResult}]
  BY RecordFields
<1>2. DOMAIN ev = {"type", "id", "cmd", "result"}
  BY <1>1
<1>3. end = [f \in DOMAIN ev |-> IF f = "result" THEN r
                                 ELSE IF f = "type" THEN "proc_end" ELSE ev[f]]
  OBVIOUS
<1> HIDE DEF end
<1>4. end = [type |-> "proc_end", id |-> ev.id, cmd |-> ev.cmd, result |-> r]
  BY <1>2, <1>3
<1>5. end \in Record /\ end.id = ev.id /\ end.type = "proc_end" /\ end.result = r
  BY <1>1, <1>4 DEF Record
<1>6. QED BY <1>5 DEF end

LEMMA Appended ==
    ASSUME NEW s \in Seq(Record), NEW ev \in Record
    PROVE  /\ Append(s, ev) \in Seq(Record)
           /\ Len(Append(s, ev)) = Len(s) + 1
           /\ Append(s, ev)[Len(s) + 1] = ev
           /\ \A i \in 1 .. Len(s) : Append(s, ev)[i] = s[i]
  OBVIOUS

LEMMA LastWithKept ==
    ASSUME NEW s \in Seq(Record), NEW ev \in Record, NEW id, NEW i, LastWith(s, id, i), ev.id # id
    PROVE  LastWith(Append(s, ev), id, i)
<1>1. i \in 1 .. Len(s) /\ StartsAt(s, i, id) /\ \A j \in i + 1 .. Len(s) : s[j].id # id
  BY DEF LastWith
<1>2. i \in 1 .. Len(s) + 1
  BY <1>1
<1>3. StartsAt(Append(s, ev), i, id)
  BY <1>1, Appended DEF StartsAt
<1>4. ASSUME NEW j \in i + 1 .. Len(s) + 1 PROVE Append(s, ev)[j].id # id
  <2>1. CASE j = Len(s) + 1
    BY <2>1, Appended
  <2>2. CASE j # Len(s) + 1
    <3>1. j \in i + 1 .. Len(s) /\ j \in 1 .. Len(s)
      BY <1>1, <2>2
    <3>2. QED BY <1>1, <3>1, Appended
  <2>3. QED BY <2>1, <2>2
<1>5. QED BY <1>2, <1>3, <1>4, Appended DEF LastWith

LEMMA LogStep ==
    ASSUME JoinAssumption, LogInv, [Next]_vars
    PROVE  LogInv' /\ Grows
<1>1. /\ log \in Seq(Record) /\ Len(log) \in Nat /\ prefix \in 1 .. MaxDaemons
      /\ seq \in Nat /\ seq <= Len(log) /\ MaxDaemons \in Nat /\ MaxRecords \in Nat
  BY DEF LogInv, JoinAssumption
<1>2. ASSUME NEW ev \in Record, log' = Append(log, ev),
             ev.type = "proc_end" => ev.result \in Results,
             ev.type = "other" => ev.id = NoId
      PROVE  /\ log' \in Seq(Record) /\ Len(log') = Len(log) + 1
             /\ \A i \in 1 .. Len(log') : log'[i].type = "proc_end" => log'[i].result \in Results
             /\ Grows
  <2>1. log' \in Seq(Record) /\ Len(log') = Len(log) + 1 /\ log'[Len(log) + 1] = ev
        /\ \A i \in 1 .. Len(log) : log'[i] = log[i]
    BY <1>1, <1>2, Appended
  <2>2. ASSUME NEW i \in 1 .. Len(log'), log'[i].type = "proc_end" PROVE log'[i].result \in Results
    <3>1. i = Len(log) + 1 \/ i \in 1 .. Len(log)
      BY <1>1, <2>1
    <3>2. QED BY <1>2, <2>1, <2>2, <3>1 DEF LogInv
  <2>3. Grows
    BY <1>2 DEF Grows
  <2>4. QED BY <2>1, <2>2, <2>3
<1>3. ASSUME UNCHANGED <<log, daemon>> PROVE LogInv' /\ Grows
  BY <1>3 DEF LogInv, Grows, daemon
<1>4. ASSUME NEW c \in Commands, WriteStart(c) PROVE LogInv' /\ Grows
  <2> DEFINE id == <<prefix, seq + 1>>
             ev == [type |-> "proc_start", id |-> id, cmd |-> c, result |-> NoResult]
  <2>1. /\ Len(log) < MaxRecords /\ log' = Append(log, ev) /\ seq' = seq + 1
        /\ alive' = alive \cup {id} /\ prefix' = prefix
    BY <1>4 DEF WriteStart, Write
  <2>2. id \in Ids
    BY <1>1, <2>1 DEF Ids
  <2>3. ev \in Record /\ ev.type = "proc_start" /\ ev.id = id
    BY <2>2 DEF Record
  <2> HIDE DEF ev
  <2>4. /\ log' \in Seq(Record) /\ Len(log') = Len(log) + 1
        /\ \A i \in 1 .. Len(log') : log'[i].type = "proc_end" => log'[i].result \in Results
        /\ Grows
    BY <1>2, <2>1, <2>3
  <2>5. seq' \in Nat /\ seq' <= Len(log') /\ prefix' \in 1 .. MaxDaemons
    BY <1>1, <2>1, <2>4
  <2>6. ASSUME NEW x \in alive'
        PROVE  (\E k \in 1 .. seq' : x = <<prefix', k>>) /\ \E i : LastWith(log', x, i)
    <3>1. CASE x = id
      <4>1. seq + 1 \in 1 .. seq'
        BY <1>1, <2>1
      <4>2. LastWith(log', x, Len(log) + 1)
        <5>1. Len(log) + 1 \in 1 .. Len(log') /\ Len(log) + 1 + 1 .. Len(log') = {}
          BY <1>1, <2>4
        <5>2. StartsAt(log', Len(log) + 1, x)
          BY <1>1, <2>1, <2>3, <3>1, Appended DEF StartsAt
        <5>3. QED BY <5>1, <5>2 DEF LastWith
      <4>3. QED BY <2>1, <3>1, <4>1, <4>2
    <3>2. CASE x # id
      <4>1. x \in alive
        BY <2>1, <3>2
      <4>2. PICK k \in 1 .. seq : x = <<prefix, k>>
        BY <4>1 DEF LogInv
      <4>3. k \in 1 .. seq'
        BY <1>1, <2>1
      <4>4. PICK i : LastWith(log, x, i)
        BY <4>1 DEF LogInv
      <4>5. LastWith(log', x, i)
        BY <1>1, <2>1, <2>3, <3>2, <4>4, LastWithKept
      <4>6. QED BY <2>1, <4>2, <4>3, <4>5
    <3>3. QED BY <3>1, <3>2
  <2>7. QED BY <2>4, <2>5, <2>6 DEF LogInv
<1>5. ASSUME NEW c \in Commands, WriteOther(c) PROVE LogInv' /\ Grows
  <2> DEFINE ev == [type |-> "other", id |-> NoId, cmd |-> c, result |-> NoResult]
  <2>1. log' = Append(log, ev) /\ UNCHANGED <<prefix, seq, alive>>
    BY <1>5 DEF WriteOther, Write, daemon
  <2>2. ev \in Record /\ ev.type = "other" /\ ev.id = NoId
    BY DEF Record, Ids
  <2> HIDE DEF ev
  <2>3. /\ log' \in Seq(Record) /\ Len(log') = Len(log) + 1
        /\ \A i \in 1 .. Len(log') : log'[i].type = "proc_end" => log'[i].result \in Results
        /\ Grows
    BY <1>2, <2>1, <2>2
  <2>4. ASSUME NEW x \in alive
        PROVE  (\E k \in 1 .. seq : x = <<prefix, k>>) /\ \E i : LastWith(log', x, i)
    <3>1. PICK k \in 1 .. seq : x = <<prefix, k>>
      BY DEF LogInv
    <3>2. x # NoId
      BY <1>1, <3>1 DEF NoId
    <3>3. PICK i : LastWith(log, x, i)
      BY DEF LogInv
    <3>4. LastWith(log', x, i)
      BY <1>1, <2>1, <2>2, <3>2, <3>3, LastWithKept
    <3>5. QED BY <3>1, <3>4
  <2>5. seq <= Len(log')
    BY <1>1, <2>3
  <2>6. QED BY <1>1, <2>1, <2>3, <2>4, <2>5 DEF LogInv
<1>6. ASSUME NEW id \in alive, NEW r \in Results, WriteEnd(id, r) PROVE LogInv' /\ Grows
  <2> DEFINE start == CHOOSE i \in DOMAIN log :
                         /\ log[i].type = "proc_start" /\ log[i].id = id
                         /\ \A j \in i + 1 .. Len(log) : log[j].id # id
             ev == [log[start] EXCEPT !.type = "proc_end", !.result = r]
  <2>1. log' = Append(log, ev) /\ prefix' = prefix /\ seq' = seq /\ alive' = alive \ {id}
    BY <1>6 DEF WriteEnd, Write
  <2>2. start \in DOMAIN log /\ log[start].type = "proc_start" /\ log[start].id = id
    <3>1. PICK i : LastWith(log, id, i)
      BY DEF LogInv
    <3>2. i \in DOMAIN log /\ log[i].type = "proc_start" /\ log[i].id = id
          /\ \A j \in i + 1 .. Len(log) : log[j].id # id
      BY <1>1, <3>1 DEF LastWith, StartsAt
    <3>3. QED BY <3>2
  <2>3. log[start] \in Record
    BY <1>1, <2>2
  <2> HIDE DEF start
  <2>4. ev \in Record /\ ev.type = "proc_end" /\ ev.id = id /\ ev.result = r
    BY <2>2, <2>3, EndRecord
  <2> HIDE DEF ev
  <2>5. /\ log' \in Seq(Record) /\ Len(log') = Len(log) + 1
        /\ \A i \in 1 .. Len(log') : log'[i].type = "proc_end" => log'[i].result \in Results
        /\ Grows
    BY <1>2, <2>1, <2>4
  <2>6. ASSUME NEW x \in alive'
        PROVE  (\E k \in 1 .. seq : x = <<prefix, k>>) /\ \E i : LastWith(log', x, i)
    <3>1. x \in alive /\ x # id
      BY <2>1
    <3>2. PICK k \in 1 .. seq : x = <<prefix, k>>
      BY <3>1 DEF LogInv
    <3>3. PICK i : LastWith(log, x, i)
      BY <3>1 DEF LogInv
    <3>4. LastWith(log', x, i)
      BY <1>1, <2>1, <2>4, <3>1, <3>3, LastWithKept
    <3>5. QED BY <3>2, <3>4
  <2>7. seq <= Len(log')
    BY <1>1, <2>5
  <2>8. QED BY <1>1, <2>1, <2>5, <2>6, <2>7 DEF LogInv
<1>7. ASSUME Restart PROVE LogInv' /\ Grows
  <2>1. prefix' \in 1 .. MaxDaemons /\ seq' = 0 /\ alive' = {}
    BY <1>7 DEF Restart
  <2>2. CASE log' = Append(log, Torn)
    <3>1. /\ log' \in Seq(Record) /\ Len(log') = Len(log) + 1
          /\ \A i \in 1 .. Len(log') : log'[i].type = "proc_end" => log'[i].result \in Results
          /\ Grows
      BY <1>2, <2>2, TornRecord
    <3>2. QED BY <1>1, <2>1, <3>1 DEF LogInv
  <2>3. CASE log' = log
    <3>1. Grows
      BY <2>3 DEF Grows
    <3>2. 0 <= Len(log)
      BY <1>1
    <3>3. QED BY <1>1, <2>1, <2>3, <3>1, <3>2 DEF LogInv
  <2>4. log' = Append(log, Torn) \/ log' = log
    BY <1>7 DEF Restart, Write
  <2>5. QED BY <2>2, <2>3, <2>4
<1>8. ASSUME FollowLists \/ FollowOpens \/ FollowReads \/ UNCHANGED vars PROVE LogInv' /\ Grows
  <2>1. UNCHANGED <<log, daemon>>
    BY <1>8 DEF FollowLists, FollowOpens, FollowReads, vars
  <2>2. QED BY <1>3, <2>1
<1>9. QED BY <1>4, <1>5, <1>6, <1>7, <1>8 DEF Next

LEMMA LogInit == ASSUME JoinAssumption, Init PROVE LogInv
<1>1. log \in OldLogs /\ OldLogs \subseteq Seq(Record)
  BY DEF Init, JoinAssumption
<1>2. log \in Seq(Record) /\ Len(log) \in Nat /\ DOMAIN log = 1 .. Len(log)
  BY <1>1
<1>3. \A i \in 1 .. Len(log) : log[i].type = "proc_end" => log[i].result \in Results
  BY <1>1, <1>2 DEF JoinAssumption
<1>4. prefix \in 1 .. MaxDaemons /\ seq \in Nat /\ seq <= Len(log) /\ alive = {}
  BY <1>2 DEF Init, JoinAssumption
<1>5. QED BY <1>2, <1>3, <1>4 DEF LogInv

\* The merged list is complete and in order, whatever log the daemons write:
\* ids that come twice, torn records, ends and starts in any order.
THEOREM ListsAreExact == Spec => []ListIsOneRowPerCommand
<1>1. ASSUME LogInv PROVE ListIsOneRowPerCommand
  <2>1. log \in Seq(Record)
    BY <1>1 DEF LogInv
  <2>2. QED BY <2>1, ListRows DEF ListIsOneRowPerCommand
<1>2. Init => LogInv
  BY LogInit, JoinAssumption
<1>3. LogInv /\ [Next]_vars => LogInv'
  BY LogStep, JoinAssumption
<1>4. QED BY <1>1, <1>2, <1>3, PTL DEF Spec

-----------------------------------------------------------------------------
(* The ring of eventWindow.  Its k-th oldest row is at Slot.               *)

Slot(start, k, n) == IF start + k - 1 < n THEN start + k ELSE start + k - n

NextSlot(start, n) == IF start + 1 < n THEN start + 1 ELSE 0

Ring(S, n) == [rows : Seq(S), start : Nat, count : Nat, limit : {n}]

LEMMA SlotIs ==
    ASSUME NEW n \in Nat \ {0}, NEW start \in 0 .. n - 1, NEW k \in 1 .. n
    PROVE  /\ ((start + k - 1) % n) + 1 = Slot(start, k, n)
           /\ Slot(start, k, n) \in 1 .. n
<1> DEFINE a == start + k - 1
<1>1. a \in Nat /\ a < 2 * n
  OBVIOUS
<1>2. a % n = IF a < n THEN a ELSE a - n
  BY <1>1
<1>3. QED BY <1>2 DEF Slot

LEMMA ModuloOnce ==
    ASSUME NEW n \in Nat \ {0}, NEW a \in Nat, a < 2 * n
    PROVE  a % n = IF a < n THEN a ELSE a - n
  OBVIOUS

\* When the ring moves on, its oldest row makes place for the newest.
LEMMA SlotMoves ==
    ASSUME NEW n \in Nat \ {0}, NEW start \in 0 .. n - 1, NEW k \in 1 .. n
    PROVE  /\ NextSlot(start, n) \in 0 .. n - 1
           /\ k = n => Slot(NextSlot(start, n), k, n) = start + 1
           /\ k # n => /\ Slot(NextSlot(start, n), k, n) = Slot(start, k + 1, n)
                      /\ Slot(NextSlot(start, n), k, n) # start + 1
                      /\ Slot(NextSlot(start, n), k, n) \in 1 .. n
<1> DEFINE next == NextSlot(start, n)
<1>1. next = IF start + 1 < n THEN start + 1 ELSE 0
  BY DEF NextSlot
<1> HIDE DEF next
<1>3. CASE start + 1 = n
  <2>1. next = 0
    BY <1>1, <1>3
  <2>2. start = n - 1
    BY <1>3
  <2>3. Slot(next, k, n) = k
    BY <2>1 DEF Slot
  <2>4. Slot(start, k + 1, n) = k
    BY <2>2 DEF Slot
  <2>5. QED BY <1>3, <2>1, <2>3, <2>4 DEF next
<1>4. CASE start + 1 # n
  <2>1. next = start + 1 /\ start + 1 < n
    BY <1>1, <1>4
  <2>2. Slot(next, k, n) = IF start + k < n THEN start + 1 + k ELSE start + 1 + k - n
    BY <2>1 DEF Slot
  <2>3. Slot(start, k + 1, n) = IF start + k < n THEN start + 1 + k ELSE start + 1 + k - n
    BY DEF Slot
  <2>4. QED BY <2>1, <2>2, <2>3 DEF next
<1>5. QED BY <1>3, <1>4

LEMMA AddType ==
    ASSUME NEW S, NEW n \in Nat, NEW w \in Ring(S, n), NEW row \in S
    PROVE  Add(w, row) \in Ring(S, n)
<1>1. w.rows \in Seq(S) /\ w.start \in Nat /\ w.count \in Nat /\ w.limit = n
  BY DEF Ring
<1>2. CASE n = 0
  <2>1. Append(w.rows, row) \in Seq(S)
    BY <1>1
  <2>2. QED BY <1>1, <1>2, <2>1 DEF Add, Ring
<1>3. CASE n # 0 /\ w.count < n
  <2>1. Append(w.rows, row) \in Seq(S)
    BY <1>1
  <2>2. Add(w, row) = [w EXCEPT !.rows = Append(w.rows, row), !.count = w.count + 1]
    BY <1>1, <1>3 DEF Add
  <2>3. DOMAIN w = {"rows", "start", "count", "limit"}
    BY DEF Ring
  <2>4. Add(w, row) = [f \in DOMAIN w |-> IF f = "count" THEN w.count + 1
                                          ELSE IF f = "rows" THEN Append(w.rows, row) ELSE w[f]]
    BY <2>2
  <2>5. Add(w, row) = [rows |-> Append(w.rows, row), start |-> w.start,
                       count |-> w.count + 1, limit |-> w.limit]
    BY <2>3, <2>4
  <2>6. QED BY <1>1, <2>1, <2>5 DEF Ring
<1>4. CASE n # 0 /\ ~(w.count < n)
  <2>1. [w.rows EXCEPT ![w.start + 1] = row] \in Seq(S)
    <3>1. w.rows \in [1 .. Len(w.rows) -> S] /\ Len(w.rows) \in Nat
      BY <1>1
    <3>2. [w.rows EXCEPT ![w.start + 1] = row] \in [1 .. Len(w.rows) -> S]
      BY <3>1
    <3>3. QED BY <3>1, <3>2, SeqDef
  <2>2. (w.start + 1) % n \in Nat
    BY <1>1, <1>4
  <2>3. QED BY <1>1, <1>4, <2>1, <2>2 DEF Add, Ring
<1>5. QED BY <1>2, <1>3, <1>4

\* The window behind the first i rows.
WindowAt(S, rows, n, i, w) ==
    /\ w \in Ring(S, n)
    /\ n = 0 \/ i < n =>
          /\ w.start = 0
          /\ n # 0 => w.count = i
          /\ Len(w.rows) = i
          /\ \A k \in 1 .. i : w.rows[k] = rows[k]
    /\ n # 0 /\ n <= i =>
          /\ w.start \in 0 .. n - 1
          /\ w.count = n
          /\ Len(w.rows) = n
          /\ \A k \in 1 .. n : w.rows[Slot(w.start, k, n)] = rows[i - n + k]

LEMMA WindowStep ==
    ASSUME NEW S, NEW rows \in Seq(S), NEW n \in Nat, NEW i \in Nat, i + 1 <= Len(rows),
           NEW w, WindowAt(S, rows, n, i, w)
    PROVE  WindowAt(S, rows, n, i + 1, Add(w, rows[i + 1]))
<1> DEFINE row == rows[i + 1]
           x == Add(w, row)
<1>1. /\ w \in Ring(S, n)
      /\ w.rows \in Seq(S) /\ w.start \in Nat /\ w.count \in Nat /\ w.limit = n
  BY DEF WindowAt, Ring
<1>2. row \in S
  OBVIOUS
<1>3. x \in Ring(S, n)
  BY <1>1, <1>2, AddType
<1>4. CASE n = 0
  <2>1. x.rows = Append(w.rows, row) /\ x.start = w.start
    BY <1>1, <1>4 DEF Add, Ring
  <2>2. w.start = 0 /\ Len(w.rows) = i /\ \A k \in 1 .. i : w.rows[k] = rows[k]
    BY <1>4 DEF WindowAt
  <2> HIDE DEF row, x
  <2>3. Len(x.rows) = i + 1 /\ \A k \in 1 .. i : x.rows[k] = rows[k]
    BY <1>1, <1>2, <2>1, <2>2
  <2>4. x.rows[i + 1] = row
    BY <1>1, <1>2, <2>1, <2>2
  <2>5. \A k \in 1 .. i + 1 : x.rows[k] = rows[k]
    BY <2>3, <2>4 DEF row
  <2>6. QED BY <1>3, <1>4, <2>1, <2>2, <2>3, <2>5 DEF WindowAt, x, row
<1>5. CASE n # 0 /\ i < n
  <2>1. w.start = 0 /\ w.count = i /\ Len(w.rows) = i /\ \A k \in 1 .. i : w.rows[k] = rows[k]
    BY <1>5 DEF WindowAt
  <2>2. x.rows = Append(w.rows, row) /\ x.start = w.start /\ x.count = i + 1
    BY <1>1, <1>5, <2>1 DEF Add, Ring
  <2> HIDE DEF row, x
  <2>3. Len(x.rows) = i + 1 /\ \A k \in 1 .. i : x.rows[k] = rows[k]
    BY <1>1, <1>2, <2>1, <2>2
  <2>4. x.rows[i + 1] = row
    BY <1>1, <1>2, <2>1, <2>2
  <2>5. \A k \in 1 .. i + 1 : x.rows[k] = rows[k]
    BY <2>3, <2>4 DEF row
  <2>6. CASE i + 1 < n
    BY <1>3, <1>5, <2>1, <2>2, <2>3, <2>5, <2>6 DEF WindowAt, x, row
  <2>7. CASE i + 1 = n
    <3>1. \A k \in 1 .. n : Slot(0, k, n) = k /\ i + 1 - n + k = k
      BY <2>7 DEF Slot
    <3>2. ASSUME NEW k \in 1 .. n PROVE x.rows[Slot(x.start, k, n)] = rows[i + 1 - n + k]
      <4>1. k \in 1 .. i + 1
        BY <2>7
      <4>2. x.start = 0
        BY <2>1, <2>2
      <4>3. QED BY <2>5, <3>1, <4>1, <4>2
    <3>3. x.start \in 0 .. n - 1 /\ x.count = n /\ Len(x.rows) = n
      BY <1>5, <2>1, <2>2, <2>3, <2>7
    <3>4. ~(n = 0 \/ i + 1 < n)
      BY <1>5, <2>7
    <3>5. WindowAt(S, rows, n, i + 1, x)
      BY <1>3, <3>2, <3>3, <3>4 DEF WindowAt
    <3>6. QED BY <3>5 DEF x, row
  <2>8. QED BY <1>5, <2>6, <2>7
<1>6. CASE n # 0 /\ n <= i
  <2>0. n \in Nat \ {0}
    BY <1>6
  <2>1. /\ w.start \in 0 .. n - 1 /\ w.count = n /\ Len(w.rows) = n
        /\ \A k \in 1 .. n : w.rows[Slot(w.start, k, n)] = rows[i - n + k]
    BY <1>6 DEF WindowAt
  <2>2. /\ x.rows = [w.rows EXCEPT ![w.start + 1] = row] /\ x.start = (w.start + 1) % n
        /\ x.count = n
    BY <1>1, <1>6, <2>1 DEF Add, Ring
  <2> HIDE DEF row, x
  <2>3. ASSUME NEW k \in 1 .. n
        PROVE  /\ x.start \in 0 .. n - 1
               /\ k = n => Slot(x.start, k, n) = w.start + 1
               /\ k # n => /\ Slot(x.start, k, n) = Slot(w.start, k + 1, n)
                          /\ Slot(x.start, k, n) # w.start + 1
                          /\ Slot(x.start, k, n) \in 1 .. n
    <3> DEFINE start == w.start
               a == start + 1
    <3>1. start \in 0 .. n - 1 /\ a \in Nat /\ a < 2 * n /\ (a < n \/ a = n)
      <4>1. n + 1 <= 2 * n
        BY <2>0
      <4>2. QED BY <2>0, <2>1, <4>1
    <3>2. a % n = IF a < n THEN a ELSE a - n
      <4> HIDE DEF a
      <4>1. QED BY <2>0, <3>1, ModuloOnce
    <3>3. x.start = NextSlot(start, n)
      <4>1. x.start = a % n
        BY <2>2
      <4>2. NextSlot(start, n) = IF a < n THEN a ELSE 0
        BY DEF NextSlot
      <4> HIDE DEF a, start
      <4>3. QED BY <2>0, <3>1, <3>2, <4>1, <4>2
    <3> HIDE DEF start
    <3>4. /\ NextSlot(start, n) \in 0 .. n - 1
          /\ k = n => Slot(NextSlot(start, n), k, n) = start + 1
          /\ k # n => /\ Slot(NextSlot(start, n), k, n) = Slot(start, k + 1, n)
                     /\ Slot(NextSlot(start, n), k, n) # start + 1
                     /\ Slot(NextSlot(start, n), k, n) \in 1 .. n
      BY <2>0, <3>1, SlotMoves
    <3>5. QED BY <3>3, <3>4 DEF start
  <2>4. /\ Len(x.rows) = n /\ x.rows[w.start + 1] = row
        /\ \A j \in 1 .. n : j # w.start + 1 => x.rows[j] = w.rows[j]
    <3> DEFINE old == w.rows
               new == [old EXCEPT ![w.start + 1] = row]
    <3>1. w.start + 1 \in 1 .. Len(old) /\ old \in Seq(S) /\ row \in S
      BY <1>1, <1>2, <1>6, <2>1 DEF row
    <3>2. x.rows = new /\ Len(old) = n
      BY <2>1, <2>2
    <3>3. /\ Len(new) = Len(old) /\ new[w.start + 1] = row
          /\ \A j \in 1 .. Len(old) : j # w.start + 1 => new[j] = old[j]
      <4> HIDE DEF old
      <4>1. QED BY <3>1, ExceptSeq
    <3> HIDE DEF new, old
    <3>4. QED BY <3>2, <3>3 DEF old
  <2>5. ASSUME NEW k \in 1 .. n PROVE x.rows[Slot(x.start, k, n)] = rows[i + 1 - n + k]
    <3>1. CASE k = n
      <4>1. Slot(x.start, k, n) = w.start + 1
        BY <2>3, <3>1
      <4>2. i + 1 - n + k = i + 1
        BY <3>1
      <4>3. QED BY <2>4, <4>1, <4>2 DEF row
    <3>2. CASE k # n
      <4>1. k + 1 \in 1 .. n
        BY <3>2
      <4>2. /\ Slot(x.start, k, n) = Slot(w.start, k + 1, n)
            /\ Slot(x.start, k, n) # w.start + 1
            /\ Slot(x.start, k, n) \in 1 .. n
        BY <2>3, <3>2
      <4>3. w.rows[Slot(w.start, k + 1, n)] = rows[i - n + (k + 1)]
        BY <2>1, <4>1
      <4>4. i - n + (k + 1) = i + 1 - n + k
        OBVIOUS
      <4>5. x.rows[Slot(x.start, k, n)] = w.rows[Slot(x.start, k, n)]
        BY <2>4, <4>2
      <4>6. QED BY <4>2, <4>3, <4>4, <4>5
    <3>3. QED BY <3>1, <3>2
  <2>6. x.start \in 0 .. n - 1
    <3>1. n \in 1 .. n
      BY <1>6
    <3>2. QED BY <2>3, <3>1
  <2>7. n <= i + 1 /\ ~(i + 1 < n)
    BY <1>6
  <2>8. QED BY <1>3, <1>6, <2>2, <2>4, <2>5, <2>6, <2>7 DEF WindowAt, x, row
<1>7. QED BY <1>4, <1>5, <1>6

LEMMA LastNIs ==
    ASSUME NEW S, NEW rows \in Seq(S), NEW n \in Nat
    PROVE  /\ LastN(rows, n) \in Seq(S)
           /\ n = 0 \/ n >= Len(rows) => LastN(rows, n) = rows
           /\ n # 0 /\ n <= Len(rows) =>
                 /\ Len(LastN(rows, n)) = n
                 /\ \A k \in 1 .. n : LastN(rows, n)[k] = rows[Len(rows) - n + k]
<1>1. Len(rows) \in Nat
  OBVIOUS
<1>2. CASE n = 0 \/ n >= Len(rows)
  <2>1. LastN(rows, n) = rows
    BY <1>2 DEF LastN
  <2>2. QED BY <1>1, <1>2, <2>1
<1>3. CASE n # 0 /\ ~(n >= Len(rows))
  <2> DEFINE a == Len(rows) - n + 1
             b == Len(rows)
  <2>1. LastN(rows, n) = SubSeq(rows, a, b)
    BY <1>3 DEF LastN
  <2>2. a \in Int /\ b \in Int /\ a <= b /\ b - a + 1 = n /\ \A i \in a .. b : rows[i] \in S
    BY <1>1, <1>3
  <2>3. \A k \in 1 .. n : a + k - 1 = Len(rows) - n + k
    BY <1>1
  <2> HIDE DEF a, b
  <2>4. /\ SubSeq(rows, a, b) \in Seq(S) /\ Len(SubSeq(rows, a, b)) = n
        /\ \A k \in 1 .. n : SubSeq(rows, a, b)[k] = rows[a + k - 1]
    BY <2>2, SubSeqProperties
  <2>5. QED BY <1>3, <2>1, <2>3, <2>4
<1>4. QED BY <1>2, <1>3

\* The window shows the last rows.
LEMMA WindowShows ==
    ASSUME NEW S, NEW rows \in Seq(S), NEW n \in Nat
    PROVE  Windowed(rows, n) = LastN(rows, n)
<1> DEFINE L == Len(rows)
           step == [i \in 1 .. L |-> [w \in Ring(S, n) |-> Add(w, rows[i])]]
           IsIt(f) == f = [i \in 0 .. Len(rows) |->
                             IF i = 0 THEN NewEventWindow(n) ELSE Add(f[i - 1], rows[i])]
           add == CHOOSE f : IsIt(f)
<1>1. L \in Nat /\ \A i \in 1 .. L : rows[i] \in S
  OBVIOUS
<1>2. NewEventWindow(n) \in Ring(S, n)
  BY DEF NewEventWindow, Ring
<1>3. IsStep(Ring(S, n), L, step)
  <2>1. \A i \in 1 .. L : \A w \in Ring(S, n) : Add(w, rows[i]) \in Ring(S, n)
    BY <1>1, AddType
  <2>2. QED BY <2>1 DEF IsStep
<1>4. PICK f : IsSolution(f, Ring(S, n), L, NewEventWindow(n), step)
  <2> HIDE DEF step, L
  <2>1. QED BY <1>1, <1>2, <1>3, RecursionExists
<1>5. IsIt(f)
  <2>1. f \in [0 .. L -> Ring(S, n)] /\ f[0] = NewEventWindow(n)
    BY <1>4 DEF IsSolution
  <2>2. ASSUME NEW i \in 0 .. L
        PROVE  f[i] = IF i = 0 THEN NewEventWindow(n) ELSE Add(f[i - 1], rows[i])
    <3>1. CASE i = 0
      BY <2>1, <3>1
    <3>2. CASE i # 0
      <4>1. i \in 1 .. L /\ i - 1 \in 0 .. L
        BY <1>1, <3>2
      <4>2. f[i - 1] \in Ring(S, n)
        BY <2>1, <4>1
      <4>3. f[i] = step[i][f[i - 1]]
        BY <1>4, <4>1 DEF IsSolution
      <4>4. step[i][f[i - 1]] = Add(f[i - 1], rows[i])
        BY <4>1, <4>2
      <4>5. QED BY <3>2, <4>3, <4>4
    <3>3. QED BY <3>1, <3>2
  <2>3. QED BY <2>1, <2>2
<1>6. IsIt(add)
  <2> HIDE DEF IsIt
  <2>1. QED BY <1>5
<1>7. Windowed(rows, n) = Events(add[Len(rows)])
  BY DEF Windowed
<1> HIDE DEF add
<1>8. ASSUME NEW i \in 0 .. L
      PROVE  add[i] = IF i = 0 THEN NewEventWindow(n) ELSE Add(add[i - 1], rows[i])
  BY <1>6
<1> DEFINE T == {i \in Nat : i <= L => WindowAt(S, rows, n, i, add[i])}
<1>9. 0 \in T
  <2>1. 0 \in 0 .. L
    BY <1>1
  <2>2. add[0] = NewEventWindow(n)
    BY <1>8, <2>1
  <2>3. WindowAt(S, rows, n, 0, NewEventWindow(n))
    BY <1>2 DEF WindowAt, NewEventWindow
  <2>4. QED BY <2>2, <2>3
<1>10. ASSUME NEW i \in Nat, i \in T PROVE i + 1 \in T
  <2> SUFFICES ASSUME i + 1 <= L PROVE WindowAt(S, rows, n, i + 1, add[i + 1])
    OBVIOUS
  <2>1. i + 1 \in 0 .. L /\ i + 1 # 0 /\ (i + 1) - 1 = i /\ i <= L
    BY <1>1
  <2>2. add[i + 1] = Add(add[i], rows[i + 1])
    BY <1>8, <2>1
  <2>3. WindowAt(S, rows, n, i, add[i])
    BY <1>10, <2>1
  <2>4. QED BY <2>2, <2>3, WindowStep
<1>11. L \in T
  <2> HIDE DEF T
  <2>1. QED BY <1>1, <1>9, <1>10, NatSetInduction
<1> DEFINE w == add[L]
<1>12. WindowAt(S, rows, n, L, w)
  BY <1>11
<1> HIDE DEF T
<1>13. w.limit = n /\ w.rows \in Seq(S)
  BY <1>12 DEF WindowAt, Ring
<1>14. Events(w) = LastN(rows, n)
  <2> HIDE DEF w, L
  <2>1. CASE n = 0 \/ L < n
    <3>1. /\ w.start = 0 /\ Len(w.rows) = L /\ \A k \in 1 .. L : w.rows[k] = rows[k]
      BY <1>12, <2>1 DEF WindowAt
    <3>2. Events(w) = w.rows
      BY <3>1 DEF Events
    <3>3. w.rows = rows
      BY <1>13, <3>1, SeqEqual DEF L
    <3>4. LastN(rows, n) = rows
      BY <1>1, <2>1, LastNIs DEF L
    <3>5. QED BY <3>2, <3>3, <3>4
  <2>2. CASE n # 0 /\ n <= L
    <3>1. /\ w.start \in 0 .. n - 1 /\ w.count = n /\ Len(w.rows) = n
          /\ \A k \in 1 .. n : w.rows[Slot(w.start, k, n)] = rows[L - n + k]
      BY <1>12, <2>2 DEF WindowAt
    <3>2. \A k \in 1 .. n : /\ ((w.start + k - 1) % n) + 1 = Slot(w.start, k, n)
                            /\ Slot(w.start, k, n) \in 1 .. n
      BY <2>2, <3>1, SlotIs
    <3>3. Events(w) \in Seq(S) /\ Len(Events(w)) = n
          /\ \A k \in 1 .. n : Events(w)[k] = rows[L - n + k]
      <4>1. CASE w.start = 0
        <5>1. Events(w) = w.rows
          BY <4>1 DEF Events
        <5>2. \A k \in 1 .. n : Slot(0, k, n) = k
          BY DEF Slot
        <5>3. QED BY <1>13, <3>1, <4>1, <5>1, <5>2
      <4>2. CASE w.start # 0
        <5>1. Events(w) = [k \in 1 .. n |-> w.rows[((w.start + k - 1) % n) + 1]]
          BY <1>13, <2>2, <3>1, <4>2 DEF Events
        <5>2. \A k \in 1 .. n : Events(w)[k] = w.rows[Slot(w.start, k, n)]
          BY <3>2, <5>1
        <5>3. \A k \in 1 .. n : w.rows[Slot(w.start, k, n)] \in S
          <6>1. \A k \in 1 .. n : w.rows[k] \in S
            BY <1>13, <3>1
          <6>2. \A k \in 1 .. n : Slot(w.start, k, n) \in 1 .. n
            BY <3>2
          <6>3. QED BY <6>1, <6>2
        <5>4. Events(w) \in [1 .. n -> S]
          BY <5>1, <5>2, <5>3
        <5>5. Events(w) \in Seq(S) /\ Len(Events(w)) = n
          BY <5>4
        <5>6. QED BY <3>1, <5>2, <5>5
      <4>3. QED BY <4>1, <4>2
    <3>4. /\ LastN(rows, n) \in Seq(S) /\ Len(LastN(rows, n)) = n
          /\ \A k \in 1 .. n : LastN(rows, n)[k] = rows[L - n + k]
      BY <2>2, LastNIs DEF L
    <3>5. QED BY <3>3, <3>4, SeqEqual
  <2>3. n = 0 \/ L < n \/ n <= L
    BY <1>1
  <2>4. QED BY <2>1, <2>2, <2>3
<1>15. QED BY <1>7, <1>14

-----------------------------------------------------------------------------
(* The follower.                                                           *)

\* What is awaited behind the first n records depends on these alone.
LEMMA RowsOfPrefix ==
    ASSUME NEW s, NEW t, NEW n \in Nat, \A i \in 1 .. n : s[i] = t[i]
    PROVE  /\ \A id, a : Awaiting(s, n, id, a) <=> Awaiting(t, n, id, a)
           /\ \A id, row, last : RowAt(s, n, id, row, last) <=> RowAt(t, n, id, row, last)
           /\ \A pending : PendingAt(s, n, pending) <=> PendingAt(t, n, pending)
<1>1. ASSUME NEW i \in 1 .. n, NEW id
      PROVE  (StartsAt(s, i, id) <=> StartsAt(t, i, id)) /\ (EndsAt(s, i, id) <=> EndsAt(t, i, id))
  BY DEF StartsAt, EndsAt
<1>2. ASSUME NEW id, NEW a PROVE Awaiting(s, n, id, a) <=> Awaiting(t, n, id, a)
  <2>1. CASE a \in 1 .. n
    <3>1. \A j \in a + 1 .. n : j \in 1 .. n
      BY <2>1
    <3>2. QED BY <1>1, <2>1, <3>1 DEF Awaiting
  <2>2. QED BY <2>1 DEF Awaiting
<1>3. ASSUME NEW id, NEW a \in 1 .. n, NEW b PROVE Ended(s, n, id, a, b) <=> Ended(t, n, id, a, b)
  <2>1. CASE b \in a + 1 .. n
    <3>1. /\ b \in 1 .. n /\ \A j \in a + 1 .. n : j \in 1 .. n
          /\ \A j \in a + 1 .. b - 1 : j \in 1 .. n
      BY <2>1
    <3>2. QED BY <1>1, <2>1, <3>1 DEF Ended
  <2>2. QED BY <2>1 DEF Ended
<1>4. ASSUME NEW id, NEW row, NEW last
      PROVE  RowAt(s, n, id, row, last) <=> RowAt(t, n, id, row, last)
  <2>1. Awaiting(s, n, id, last) => last \in 1 .. n
    BY DEF Awaiting
  <2>2. Awaiting(s, n, id, last) => s[last] = t[last]
    BY <2>1
  <2>3. ASSUME NEW a \in 1 .. n, Ended(s, n, id, a, last) PROVE s[last] = t[last] /\ s[a] = t[a]
    <3>1. last \in a + 1 .. n
      BY <2>3 DEF Ended
    <3>2. last \in 1 .. n
      BY <3>1
    <3>3. QED BY <3>2
  <2>4. QED BY <1>2, <1>3, <2>2, <2>3 DEF RowAt
<1>5. ASSUME NEW pending PROVE PendingAt(s, n, pending) <=> PendingAt(t, n, pending)
  BY <1>2 DEF PendingAt
<1>6. QED BY <1>2, <1>4, <1>5

\* Every command has a row.
LEMMA RowExists ==
    ASSUME NEW s \in Seq(Record), NEW id, StartsOf(s, id) # {}
    PROVE  \E row, last : RowAt(s, Len(s), id, row, last)
<1> DEFINE n == Len(s)
<1>1. DOMAIN s = 1 .. n /\ n \in Nat
  OBVIOUS
<1>2. PICK a \in StartsOf(s, id) : \A j \in StartsOf(s, id) : j <= a
  <2>1. StartsOf(s, id) \subseteq 0 .. n
    BY <1>1 DEF StartsOf
  <2>2. QED BY <1>1, <2>1, GreatestExists
<1>3. a \in 1 .. n /\ StartsAt(s, a, id)
  BY <1>1 DEF StartsOf, StartsAt
<1>4. ASSUME NEW j \in a + 1 .. n PROVE ~StartsAt(s, j, id)
  <2>1. j \in 1 .. n /\ ~(j <= a)
    BY <1>3
  <2>2. QED BY <1>1, <1>2, <2>1 DEF StartsOf, StartsAt
<1> DEFINE Ends == {j \in a + 1 .. n : EndsAt(s, j, id)}
<1>5. CASE Ends = {}
  <2>1. Awaiting(s, n, id, a)
    BY <1>3, <1>4, <1>5 DEF Awaiting
  <2>2. QED BY <2>1 DEF RowAt
<1>6. CASE Ends # {}
  <2>1. Ends \subseteq Nat
    BY <1>3
  <2>2. PICK b \in Ends : \A j \in Ends : b <= j
    <3> HIDE DEF Ends
    <3>1. QED BY <1>6, <2>1, LeastExists
  <2>3. ASSUME NEW j \in a + 1 .. b - 1 PROVE ~EndsAt(s, j, id)
    <3>1. j \in a + 1 .. n /\ ~(b <= j)
      BY <1>3
    <3>2. QED BY <2>2, <3>1
  <2>4. Ended(s, n, id, a, b)
    BY <1>3, <1>4, <2>3 DEF Ended
  <2>5. QED BY <1>3, <2>4 DEF RowAt
<1>7. QED BY <1>5, <1>6

\* What a query shows of no row, and of one.
LEMMA MatchingOne ==
    ASSUME NEW row, NEW q
    PROVE  /\ Matching(<<>>, q) = <<>>
           /\ Matching(<<row>>, q) = IF Matches(row, q) THEN <<row>> ELSE <<>>
<1> DEFINE S == {row}
           I(rows) == {i \in DOMAIN rows : Matches(rows[i], q)}
<1>1. <<>> \in Seq(S) /\ <<row>> \in Seq(S) /\ Len(<<>>) = 0 /\ Len(<<row>>) = 1
      /\ <<row>>[1] = row /\ DOMAIN <<row>> = {1}
  OBVIOUS
<1>2. \A J : Rank(J, 0) = 0 /\ Rank(J, 1) = IF 1 \in J THEN 1 ELSE 0
  <2>1. ASSUME NEW J
        PROVE  /\ Rank(J, 0) = 0
               /\ Rank(J, 0 + 1) = IF 0 + 1 \in J THEN Rank(J, 0) + 1 ELSE Rank(J, 0)
    BY RankStep
  <2>2. QED BY <2>1
<1>3. Matching(<<>>, q) = <<>>
  <2> DEFINE none == <<>>
             J == I(none)
  <2>1. none \in Seq(S) /\ Len(none) = 0
    OBVIOUS
  <2>2. Picked(none, J) \in Seq(S) /\ Len(Picked(none, J)) = Rank(J, Len(none))
    <3> HIDE DEF S, J, none
    <3>1. QED BY <2>1, PickedRanks
  <2>3. Picked(none, J) = <<>>
    <3> HIDE DEF J
    <3>1. QED BY <1>2, <2>1, <2>2
  <2>4. QED BY <2>3 DEF Matching
<1>4. CASE Matches(row, q)
  <2> DEFINE one == <<row>>
             J == I(one)
  <2>1. J = {1} /\ Len(one) = 1 /\ one[1] = row /\ one \in Seq(S)
    BY <1>1, <1>4
  <2>2. Rank(J, 1) = 1
    <3> HIDE DEF J
    <3>1. QED BY <1>2, <2>1
  <2>3. one = Picked(one, J)
    <3>1. J \cap (1 .. Len(one)) = {1}
      BY <2>1
    <3> HIDE DEF S, J, one
    <3>2. \A i \in J \cap (1 .. Len(one)) : one[Rank(J, i)] = one[i]
      BY <2>2, <3>1
    <3>3. QED BY <2>1, <2>2, <3>2, PickedOnly
  <2>4. QED BY <1>3, <1>4, <2>3 DEF Matching
<1>5. CASE ~Matches(row, q)
  <2>1. I(<<row>>) = {}
    BY <1>1, <1>5
  <2> DEFINE one == <<row>>
             J == I(one)
  <2>2. Rank(J, Len(one)) = 0 /\ one \in Seq(S)
    <3>1. Len(one) = 1 /\ 1 \notin J
      BY <2>1
    <3> HIDE DEF J
    <3>2. QED BY <1>1, <1>2, <3>1
  <2>3. Picked(one, J) \in Seq(S) /\ Len(Picked(one, J)) = 0
    <3> HIDE DEF S, J, one
    <3>1. QED BY <2>2, PickedRanks
  <2>4. Picked(one, J) = <<>>
    <3> HIDE DEF J
    <3>1. QED BY <2>3
  <2>5. QED BY <1>3, <1>5, <2>4 DEF Matching
<1>6. QED BY <1>4, <1>5

\* What is printed of the commands that changed behind the record at `from':
\* the last row of each that the query matches is the one it has behind the
\* first n records.
Shown(s, from, n, q, rows) ==
    \A id \in Ids \ {NoId} : \A row, last :
        RowAt(s, n, id, row, last) /\ from < last /\ Matches(row, q) =>
            \E k \in DOMAIN rows :
                /\ rows[k] = row
                /\ \A j \in DOMAIN rows : k < j => rows[j].id # id

IsSequence(s) == \E S : s \in Seq(S)

Joins == query.ends /\ limit # 0

ReaderInv ==
    /\ query.ends \in BOOLEAN
    /\ follower = "none" => joinState = <<>> /\ missed = 0
    /\ follower = "listed" => missed \in 0 .. Len(log)
    /\ follower = "listed" /\ Joins =>
          /\ IsSequence(printed)
          /\ PendingAt(log, Len(log) - missed, joinState)
    /\ follower = "following" =>
          /\ opened \in 0 .. Len(log)
          /\ pos \in opened .. Len(log)
          /\ \A i \in opened + 1 .. Len(log) : log[i].type = "other" => log[i].id = NoId
    /\ follower = "following" /\ Joins /\ missed = 0 =>
          /\ IsSequence(printed)
          /\ PendingAt(log, pos, joinState)
          /\ Shown(log, opened, pos, query, printed)

LEMMA PrintedOne ==
    ASSUME NEW rows, IsSequence(rows), NEW x
    PROVE  /\ rows \o <<>> = rows
           /\ IsSequence(rows \o <<x>>)
           /\ DOMAIN rows = 1 .. Len(rows) /\ Len(rows) \in Nat
           /\ DOMAIN (rows \o <<x>>) = 1 .. Len(rows) + 1
           /\ (rows \o <<x>>)[Len(rows) + 1] = x
           /\ \A k \in 1 .. Len(rows) : (rows \o <<x>>)[k] = rows[k]
<1>1. PICK S : rows \in Seq(S)
  BY DEF IsSequence
<1> DEFINE T == S \cup {x}
           one == <<x>>
           both == rows \o one
<1>2. rows \in Seq(T) /\ one \in Seq(T) /\ Len(one) = 1 /\ one[1] = x
  BY <1>1
<1>3. /\ both \in Seq(T) /\ Len(both) = Len(rows) + 1
      /\ \A k \in 1 .. Len(rows) + 1 :
            both[k] = IF k <= Len(rows) THEN rows[k] ELSE one[k - Len(rows)]
  <2> HIDE DEF T, one
  <2>1. /\ rows \o one \in Seq(T)
        /\ Len(rows \o one) = Len(rows) + Len(one)
        /\ \A i \in 1 .. Len(rows) + Len(one) :
              (rows \o one)[i] = IF i <= Len(rows) THEN rows[i] ELSE one[i - Len(rows)]
    BY <1>2, ConcatProperties
  <2>2. QED BY <1>2, <2>1
<1>4. rows \o <<>> = rows
  BY <1>1
<1>5. Len(rows) \in Nat /\ DOMAIN rows = 1 .. Len(rows)
  BY <1>1
<1>6. DOMAIN both = 1 .. Len(rows) + 1
  <2> HIDE DEF both
  <2>1. QED BY <1>3
<1>7. both[Len(rows) + 1] = x
  <2>1. Len(rows) + 1 \in 1 .. Len(rows) + 1 /\ ~(Len(rows) + 1 <= Len(rows))
        /\ Len(rows) + 1 - Len(rows) = 1
    BY <1>5
  <2> HIDE DEF both, one
  <2>2. QED BY <1>2, <1>3, <2>1
<1>8. ASSUME NEW k \in 1 .. Len(rows) PROVE both[k] = rows[k]
  <2>1. k \in 1 .. Len(rows) + 1 /\ k <= Len(rows)
    BY <1>5
  <2> HIDE DEF both
  <2>2. QED BY <1>3, <2>1
<1> HIDE DEF T
<1>9. IsSequence(both)
  BY <1>3 DEF IsSequence
<1>10. QED BY <1>4, <1>5, <1>6, <1>7, <1>8, <1>9

\* A record read and printed: rows stay shown, and a new one is.
LEMMA ShownStep ==
    ASSUME NEW s \in Seq(Record), NEW n \in Nat, n + 1 <= Len(s), NEW from \in 0 .. n,
           NEW q, NEW pending, PendingAt(s, n, pending), NEW rows, IsSequence(rows),
           Shown(s, from, n, q, rows),
           \A i \in from + 1 .. Len(s) : s[i].type = "other" => s[i].id = NoId
    PROVE  LET step == MergeEventForStreaming(pending, s[n + 1], TRUE)
           IN  /\ PendingAt(s, n + 1, step.pending)
               /\ IsSequence(rows \o Matching(step.rows, q))
               /\ Shown(s, from, n + 1, q, rows \o Matching(step.rows, q))
<1> DEFINE step == MergeEventForStreaming(pending, s[n + 1], TRUE)
           after == rows \o Matching(step.rows, q)
<1>1. /\ PendingAt(s, n + 1, step.pending)
      /\ \/ Unchanged(s, n, step.rows)
         \/ OtherRow(s, n, step.rows)
         \/ CommandRow(s, n, step.rows)
  BY MergeStep
<1> HIDE DEF step
<1>2. CASE Unchanged(s, n, step.rows)
  <2>1. after = rows
    <3>1. step.rows = <<>>
      BY <1>2 DEF Unchanged
    <3>2. Matching(step.rows, q) = <<>>
      BY <3>1, MatchingOne
    <3>3. QED BY <3>2, PrintedOne
  <2>2. RowsKept(s, n, Ids \ {NoId})
    BY <1>2 DEF Unchanged
  <2> HIDE DEF after
  <2>3. Shown(s, from, n + 1, q, after)
    BY <2>1, <2>2 DEF Shown, RowsKept
  <2>4. QED BY <1>1, <2>1, <2>3 DEF after, step
<1>3. ASSUME NEW x, step.rows = <<x>>,
             \A id \in Ids \ {NoId} : \A row, last :
                 RowAt(s, n + 1, id, row, last) =>
                     \/ row = x
                     \/ RowAt(s, n, id, row, last) /\ x.id # id
      PROVE  IsSequence(after) /\ Shown(s, from, n + 1, q, after)
  <2>1. after = IF Matches(x, q) THEN rows \o <<x>> ELSE rows
    <3>1. Matching(step.rows, q) = IF Matches(x, q) THEN <<x>> ELSE <<>>
      BY <1>3, MatchingOne
    <3>2. QED BY <3>1, PrintedOne
  <2> HIDE DEF after
  <2>2. CASE Matches(x, q)
    <3> DEFINE both == rows \o <<x>>
    <3>1. /\ IsSequence(both)
          /\ DOMAIN rows = 1 .. Len(rows) /\ Len(rows) \in Nat
          /\ DOMAIN both = 1 .. Len(rows) + 1
          /\ both[Len(rows) + 1] = x
          /\ \A k \in 1 .. Len(rows) : both[k] = rows[k]
      BY PrintedOne
    <3> HIDE DEF both
    <3>2. ASSUME NEW id \in Ids \ {NoId}, NEW row, NEW last,
                 RowAt(s, n + 1, id, row, last), from < last, Matches(row, q)
          PROVE  \E k \in DOMAIN both :
                    both[k] = row /\ \A j \in DOMAIN both : k < j => both[j].id # id
      <4>1. CASE row = x
        <5>1. Len(rows) + 1 \in DOMAIN both /\ \A j \in DOMAIN both : ~(Len(rows) + 1 < j)
          BY <3>1
        <5>2. QED BY <3>1, <4>1, <5>1
      <4>2. CASE RowAt(s, n, id, row, last) /\ x.id # id
        <5>1. PICK k \in DOMAIN rows :
                rows[k] = row /\ \A j \in DOMAIN rows : k < j => rows[j].id # id
          BY <3>2, <4>2 DEF Shown
        <5>2. k \in DOMAIN both /\ both[k] = row
          BY <3>1, <5>1
        <5>3. ASSUME NEW j \in DOMAIN both, k < j PROVE both[j].id # id
          <6>1. CASE j = Len(rows) + 1
            BY <3>1, <4>2, <6>1
          <6>2. CASE j # Len(rows) + 1
            <7>1. j \in 1 .. Len(rows)
              BY <3>1, <6>2
            <7>2. QED BY <3>1, <5>1, <5>3, <7>1
          <6>3. QED BY <6>1, <6>2
        <5>4. QED BY <5>2, <5>3
      <4>3. QED BY <1>3, <3>2, <4>1, <4>2
    <3>3. Shown(s, from, n + 1, q, both)
      BY <3>2 DEF Shown
    <3>4. QED BY <2>1, <2>2, <3>1, <3>3 DEF both
  <2>3. CASE ~Matches(x, q)
    <3>1. after = rows
      BY <2>1, <2>3
    <3>2. ASSUME NEW id \in Ids \ {NoId}, NEW row, NEW last,
                 RowAt(s, n + 1, id, row, last), from < last, Matches(row, q)
          PROVE  RowAt(s, n, id, row, last)
      BY <1>3, <2>3, <3>2
    <3>3. QED BY <3>1, <3>2 DEF Shown
  <2>4. QED BY <2>2, <2>3
<1>4. CASE OtherRow(s, n, step.rows)
  <2> DEFINE x == s[n + 1]
  <2>1. step.rows = <<x>> /\ x.type = "other" /\ RowsKept(s, n, Ids \ {NoId})
    BY <1>4 DEF OtherRow
  <2>2. x.id = NoId
    <3>1. n + 1 \in from + 1 .. Len(s)
      OBVIOUS
    <3>2. QED BY <2>1, <3>1
  <2> HIDE DEF x, after
  <2>3. \A id \in Ids \ {NoId} : \A row, last :
            RowAt(s, n + 1, id, row, last) => RowAt(s, n, id, row, last) /\ x.id # id
    BY <2>1, <2>2 DEF RowsKept
  <2>4. IsSequence(after) /\ Shown(s, from, n + 1, q, after)
    BY <1>3, <2>1, <2>3
  <2>5. QED BY <1>1, <2>4 DEF after, step
<1>5. CASE CommandRow(s, n, step.rows)
  <2>1. PICK x \in Row : /\ step.rows = <<x>>
                         /\ RowAt(s, n + 1, x.id, x, n + 1)
                         /\ RowsKept(s, n, Ids \ {NoId, x.id})
    BY <1>5 DEF CommandRow
  <2> HIDE DEF after
  <2>2. ASSUME NEW id \in Ids \ {NoId}, NEW row, NEW last, RowAt(s, n + 1, id, row, last)
        PROVE  \/ row = x
               \/ RowAt(s, n, id, row, last) /\ x.id # id
    <3>1. CASE id = x.id
      <4> DEFINE m == n + 1
      <4>1. m \in Nat /\ RowAt(s, m, id, x, m) /\ RowAt(s, m, id, row, last)
        BY <2>1, <2>2, <3>1
      <4> HIDE DEF m
      <4>2. QED BY <4>1, RowUnique
    <3>2. CASE id # x.id
      BY <2>1, <2>2, <3>2 DEF RowsKept
    <3>3. QED BY <3>1, <3>2
  <2>3. IsSequence(after) /\ Shown(s, from, n + 1, q, after)
    BY <1>3, <2>1, <2>2
  <2>4. QED BY <1>1, <2>3 DEF after, step
<1>6. QED BY <1>1, <1>2, <1>4, <1>5

\* The list hands over the commands it awaits.
LEMMA ListHandsOver ==
    ASSUME NEW s \in Seq(Record), NEW n \in Nat, NEW q, q.ends
    PROVE  LET list == CollectFilteredEvents(s, n, q, <<>>)
           IN  IsSequence(list.rows) /\ PendingAt(s, Len(s), list.pending)
<1> DEFINE list == MergeEventsForList(Parsed(s), <<>>)
           I == {i \in DOMAIN list.rows : Matches(list.rows[i], q)}
<1>1. CollectFilteredEvents(s, n, q, <<>>) =
          [rows |-> Windowed(Matching(list.rows, q), n), pending |-> list.pending]
  BY DEF CollectFilteredEvents
<1>2. PICK m : /\ MergedAt(s, Len(s), Parsed(s), m)
               /\ list = [rows |-> SubSeq(m.buf, 1, m.len), pending |-> m.pending]
  BY ListMerged
<1> HIDE DEF list
<1>3. PendingAt(s, Len(s), list.pending)
  BY <1>2 DEF MergedAt
<1>4. m.len \in Nat
  <2>1. m.len = Rank(Firsts(s), Len(s)) /\ Len(s) \in Nat
    BY <1>2 DEF MergedAt
  <2>2. QED BY <2>1, RankStep
<1> DEFINE S == {m.buf[i] : i \in 1 .. m.len}
<1>5. list.rows \in Seq(S)
  <2>1. \A i \in 1 .. m.len : m.buf[i] \in S
    OBVIOUS
  <2> HIDE DEF S
  <2>2. SubSeq(m.buf, 1, m.len) \in Seq(S)
    BY <1>4, <2>1, SubSeqProperties
  <2>3. QED BY <1>2, <2>2
<1> HIDE DEF S
<1>6. Matching(list.rows, q) \in Seq(S)
  <2> HIDE DEF I
  <2>1. Picked(list.rows, I) \in Seq(S)
    BY <1>5, PickedRanks
  <2>2. QED BY <2>1 DEF Matching, I
<1>7. Windowed(Matching(list.rows, q), n) \in Seq(S)
  BY <1>6, WindowShows, LastNIs
<1>8. QED BY <1>1, <1>3, <1>7 DEF IsSequence

\* What is written behind a reader leaves it what it has.
LEMMA ReaderKept ==
    ASSUME LogInv, ReaderInv, Grows, NEW rec, Write(rec)
    PROVE  ReaderInv'
<1>1. /\ log' = Append(log, rec)
      /\ missed' = IF follower = "listed" THEN missed + 1 ELSE missed
      /\ UNCHANGED <<follower, query, limit, joinState, opened, pos, printed>>
  BY DEF Write
<1>2. log \in Seq(Record) /\ Len(log) \in Nat
  BY DEF LogInv
<1>3. PICK ev \in Record : log' = Append(log, ev) /\ (ev.type = "other" => ev.id = NoId)
  <2>1. log' # log
    BY <1>1, <1>2
  <2>2. QED BY <2>1 DEF Grows
<1>4. /\ Len(log') = Len(log) + 1 /\ log'[Len(log) + 1] = ev
      /\ \A i \in 1 .. Len(log) : log'[i] = log[i]
  BY <1>2, <1>3, Appended
<1> DEFINE after == log'
<1>5. ASSUME NEW n \in 0 .. Len(log)
      PROVE  /\ \A id, row, last : RowAt(log, n, id, row, last) <=> RowAt(after, n, id, row, last)
             /\ \A pending : PendingAt(log, n, pending) <=> PendingAt(after, n, pending)
  <2>1. n \in Nat /\ \A i \in 1 .. n : log[i] = after[i]
    BY <1>2, <1>4
  <2> HIDE DEF after
  <2>2. QED BY <2>1, RowsOfPrefix
<1>6. query'.ends \in BOOLEAN /\ (follower' = "none" => joinState' = <<>> /\ missed' = 0)
  BY <1>1 DEF ReaderInv
<1>7. CASE follower = "listed"
  <2>1. missed \in 0 .. Len(log) /\ missed' = missed + 1 /\ follower' = "listed"
    BY <1>1, <1>7 DEF ReaderInv
  <2>2. missed' \in 0 .. Len(log') /\ Len(log') - missed' = Len(log) - missed
        /\ Len(log) - missed \in 0 .. Len(log)
    BY <1>2, <1>4, <2>1
  <2>3. ASSUME Joins'
        PROVE  IsSequence(printed') /\ PendingAt(log', Len(log') - missed', joinState')
    <3>1. Joins
      BY <1>1, <2>3 DEF Joins
    <3>2. IsSequence(printed) /\ PendingAt(log, Len(log) - missed, joinState)
      BY <1>7, <3>1 DEF ReaderInv
    <3>3. PendingAt(log', Len(log) - missed, joinState)
      BY <1>5, <2>2, <3>2
    <3>4. QED BY <1>1, <2>2, <3>2, <3>3
  <2>4. QED BY <1>6, <2>1, <2>2, <2>3 DEF ReaderInv
<1>8. CASE follower = "following"
  <2>1. missed' = missed /\ follower' = "following"
    BY <1>1, <1>8
  <2>2. opened \in 0 .. Len(log) /\ pos \in opened .. Len(log)
        /\ \A i \in opened + 1 .. Len(log) : log[i].type = "other" => log[i].id = NoId
    BY <1>8 DEF ReaderInv
  <2>3. opened' \in 0 .. Len(log') /\ pos' \in opened' .. Len(log') /\ pos \in 0 .. Len(log)
    BY <1>1, <1>2, <1>4, <2>2
  <2>4. ASSUME NEW i \in opened' + 1 .. Len(log'), log'[i].type = "other" PROVE log'[i].id = NoId
    <3>1. CASE i = Len(log) + 1
      BY <1>3, <1>4, <2>4, <3>1
    <3>2. CASE i # Len(log) + 1
      <4>1. i \in opened + 1 .. Len(log) /\ i \in 1 .. Len(log)
        BY <1>1, <1>2, <1>4, <2>2, <3>2
      <4>2. QED BY <1>4, <2>2, <2>4, <4>1
    <3>3. QED BY <3>1, <3>2
  <2>5. ASSUME Joins', missed' = 0
        PROVE  IsSequence(printed') /\ PendingAt(log', pos', joinState')
               /\ Shown(log', opened', pos', query', printed')
    <3>1. Joins /\ missed = 0
      BY <1>1, <2>1, <2>5 DEF Joins
    <3>2. IsSequence(printed) /\ PendingAt(log, pos, joinState)
          /\ Shown(log, opened, pos, query, printed)
      BY <1>8, <3>1 DEF ReaderInv
    <3>3. PendingAt(log', pos, joinState)
      BY <1>5, <2>3, <3>2
    <3>4. Shown(log', opened, pos, query, printed)
      <4>1. \A id, row, last : RowAt(log, pos, id, row, last) <=> RowAt(after, pos, id, row, last)
        BY <1>5, <2>3
      <4> HIDE DEF after
      <4>2. Shown(after, opened, pos, query, printed)
        BY <3>2, <4>1 DEF Shown
      <4>3. QED BY <4>2 DEF after
    <3>5. QED BY <1>1, <3>2, <3>3, <3>4
  <2>6. QED BY <1>6, <2>1, <2>3, <2>4, <2>5 DEF ReaderInv
<1>9. CASE follower # "listed" /\ follower # "following"
  BY <1>1, <1>6, <1>9 DEF ReaderInv
<1>10. QED BY <1>7, <1>8, <1>9

LEMMA ReaderInit == ASSUME Init PROVE ReaderInv
  BY DEF Init, ReaderInv, NoQuery

LEMMA ReaderStep ==
    ASSUME JoinAssumption, LogInv, ReaderInv, Grows, [Next]_vars
    PROVE  ReaderInv'
<1>1. log \in Seq(Record) /\ Len(log) \in Nat
  BY DEF LogInv
<1>2. CASE \E rec : Write(rec)
  BY <1>2, ReaderKept
<1>3. CASE UNCHANGED <<log, reader>>
  BY <1>3 DEF reader, ReaderInv, Joins
<1>4. CASE FollowLists
  <2> DEFINE list == CollectFilteredEvents(log, limit', query', <<>>)
  <2>1. /\ follower = "none" /\ follower' = "listed" /\ query' \in Queries /\ limit' \in Limits
        /\ UNCHANGED <<log, missed>>
        /\ limit' # 0 => printed' = list.rows /\ joinState' = list.pending
    BY <1>4 DEF FollowLists
  <2>2. query'.ends \in BOOLEAN /\ limit' \in Nat
    BY <2>1 DEF JoinAssumption
  <2>3. missed' = 0 /\ Len(log') - missed' = Len(log)
    BY <1>1, <2>1 DEF ReaderInv
  <2>4. ASSUME Joins'
        PROVE  IsSequence(printed') /\ PendingAt(log', Len(log') - missed', joinState')
    <3>1. query'.ends /\ limit' # 0
      BY <2>4 DEF Joins
    <3>2. IsSequence(list.rows) /\ PendingAt(log, Len(log), list.pending)
      BY <1>1, <2>2, <3>1, ListHandsOver
    <3> HIDE DEF list
    <3>3. QED BY <2>1, <2>3, <3>1, <3>2
  <2>5. missed' \in 0 .. Len(log')
    BY <1>1, <2>1, <2>3
  <2> HIDE DEF list
  <2>6. QED BY <2>1, <2>2, <2>4, <2>5 DEF ReaderInv
<1>5. CASE FollowOpens
  <2>1. /\ follower = "listed" /\ follower' = "following" /\ opened' = Len(log) /\ pos' = Len(log)
        /\ UNCHANGED <<log, query, limit, joinState, missed, printed>>
    BY <1>5 DEF FollowOpens
  <2>2. opened' \in 0 .. Len(log') /\ pos' \in opened' .. Len(log')
        /\ opened' + 1 .. Len(log') = {}
    BY <1>1, <2>1
  <2>3. ASSUME Joins', missed' = 0
        PROVE  IsSequence(printed') /\ PendingAt(log', pos', joinState')
               /\ Shown(log', opened', pos', query', printed')
    <3>1. Joins /\ missed = 0
      BY <2>1, <2>3 DEF Joins
    <3>2. IsSequence(printed) /\ PendingAt(log, Len(log) - missed, joinState)
      BY <2>1, <3>1 DEF ReaderInv
    <3>3. Len(log) - missed = Len(log)
      BY <1>1, <3>1
    <3>4. Shown(log, Len(log), Len(log), query, printed)
      <4>1. ASSUME NEW id, NEW row, NEW last, RowAt(log, Len(log), id, row, last)
            PROVE  ~(Len(log) < last)
        <5>1. Len(log) \in 0 .. Len(log)
          BY <1>1
        <5>2. last \in 1 .. Len(log)
          BY <1>1, <4>1, <5>1, RowFields
        <5>3. QED BY <1>1, <5>2
      <4>2. QED BY <4>1 DEF Shown
    <3>5. QED BY <2>1, <3>2, <3>3, <3>4
  <2>4. query'.ends \in BOOLEAN
    BY <2>1 DEF ReaderInv
  <2>5. QED BY <2>1, <2>2, <2>3, <2>4 DEF ReaderInv
<1>6. CASE FollowReads
  <2> DEFINE ev   == log[pos + 1]
             step == MergeEventForStreaming(joinState, ev, query.ends)
  <2>1. /\ follower = "following" /\ pos < Len(log) /\ pos' = pos + 1
        /\ IF ev = Torn THEN UNCHANGED <<joinState, printed>>
           ELSE joinState' = step.pending /\ printed' = printed \o Matching(step.rows, query)
        /\ UNCHANGED <<log, follower, query, limit, opened, missed>>
    BY <1>6 DEF FollowReads
  <2>2. opened \in 0 .. Len(log) /\ pos \in opened .. Len(log)
        /\ (\A i \in opened + 1 .. Len(log) : log[i].type = "other" => log[i].id = NoId)
        /\ query.ends \in BOOLEAN
    BY <2>1 DEF ReaderInv
  <2>3. pos \in Nat /\ pos + 1 <= Len(log) /\ opened \in 0 .. pos /\ pos' \in opened .. Len(log)
    BY <1>1, <2>1, <2>2
  <2>4. ASSUME Joins', missed' = 0
        PROVE  IsSequence(printed') /\ PendingAt(log', pos', joinState')
               /\ Shown(log', opened', pos', query', printed')
    <3>1. Joins /\ missed = 0
      BY <2>1, <2>4 DEF Joins
    <3>2. IsSequence(printed) /\ PendingAt(log, pos, joinState)
          /\ Shown(log, opened, pos, query, printed)
      BY <2>1, <3>1 DEF ReaderInv
    <3>3. query.ends = TRUE
      BY <2>2, <3>1 DEF Joins
    <3> DEFINE after == printed \o Matching(step.rows, query)
    <3>4. /\ PendingAt(log, pos + 1, step.pending)
          /\ IsSequence(after)
          /\ Shown(log, opened, pos + 1, query, after)
      BY <1>1, <2>2, <2>3, <3>2, <3>3, ShownStep
    <3>5. joinState' = step.pending /\ printed' = after
      <4>1. CASE ev = Torn
        <5>1. step = [pending |-> joinState, rows |-> <<>>]
          BY <3>3, <4>1 DEF MergeEventForStreaming, Torn
        <5>2. Matching(step.rows, query) = <<>>
          <6>1. step.rows = <<>>
            BY <5>1
          <6> HIDE DEF step
          <6>2. QED BY <6>1, MatchingOne
        <5>3. after = printed
          BY <3>2, <5>2, PrintedOne
        <5> HIDE DEF step, after
        <5>4. QED BY <2>1, <4>1, <5>1, <5>3
      <4>2. CASE ev # Torn
        BY <2>1, <4>2
      <4>3. QED BY <4>1, <4>2
    <3> HIDE DEF step, after
    <3>6. QED BY <2>1, <3>4, <3>5
  <2> HIDE DEF step
  <2>5. opened' \in 0 .. Len(log') /\ pos' \in opened' .. Len(log')
        /\ (\A i \in opened' + 1 .. Len(log') : log'[i].type = "other" => log'[i].id = NoId)
        /\ query'.ends \in BOOLEAN /\ follower' = "following"
    BY <2>1, <2>2, <2>3
  <2>6. QED BY <2>4, <2>5 DEF ReaderInv
<1>7. (\E rec : Write(rec)) \/ UNCHANGED <<log, reader>>
      \/ FollowLists \/ FollowOpens \/ FollowReads
  BY DEF Next, WriteStart, WriteOther, WriteEnd, Restart, vars
<1>8. QED BY <1>2, <1>3, <1>4, <1>5, <1>6, <1>7

\* What a follower that has caught up knows is what the list would show.
LEMMA ReaderShowsList ==
    ASSUME JoinAssumption, LogInv, ReaderInv
    PROVE  FollowerShowsList
<1> SUFFICES ASSUME Followed PROVE
        /\ \A c \in CommandsOf(log) :
              c.last > opened /\ Matches(c.row, query) =>
                LET mine == {i \in DOMAIN printed : printed[i].id = c.row.id}
                IN  mine # {} /\ printed[Greatest(mine)] = c.row
        /\ DOMAIN joinState =
              {c.row.id : c \in {d \in CommandsOf(log) : d.row.result = NoResult}}
  BY DEF FollowerShowsList
<1> DEFINE n == Len(log)
<1>1. log \in Seq(Record) /\ n \in Nat /\ DOMAIN log = 1 .. n
  BY DEF LogInv
<1>2. /\ IsSequence(printed) /\ PendingAt(log, n, joinState)
      /\ Shown(log, opened, n, query, printed) /\ opened \in Nat
  <2>1. Joins /\ missed = 0 /\ pos = n /\ follower = "following"
    BY DEF Followed, Joins
  <2>2. QED BY <1>1, <2>1 DEF ReaderInv
<1>3. ASSUME NEW c \in CommandsOf(log)
      PROVE  \E id \in Ids \ {NoId} :
                /\ StartsOf(log, id) # {}
                /\ c = Command(log, id)
                /\ c.row.id = id
                /\ RowAt(log, n, id, c.row, c.last)
  <2>1. PICK id \in Ids \ {NoId} : c = Command(log, id) /\ StartsOf(log, id) # {}
    BY DEF CommandsOf
  <2>2. PICK row, last : RowAt(log, n, id, row, last)
    BY <1>1, <2>1, RowExists
  <2>3. c.row = row /\ c.last = last
    BY <1>1, <2>1, <2>2, CommandIs
  <2>4. n \in 0 .. n
    BY <1>1
  <2>5. row.id = id
    BY <1>1, <2>2, <2>4, RowFields
  <2>6. QED BY <2>1, <2>2, <2>3, <2>5
<1>4. ASSUME NEW c \in CommandsOf(log), c.last > opened, Matches(c.row, query)
      PROVE  LET mine == {i \in DOMAIN printed : printed[i].id = c.row.id}
             IN  mine # {} /\ printed[Greatest(mine)] = c.row
  <2> DEFINE mine == {i \in DOMAIN printed : printed[i].id = c.row.id}
  <2>1. PICK id \in Ids \ {NoId} : c.row.id = id /\ RowAt(log, n, id, c.row, c.last)
    BY <1>3
  <2>2. opened < c.last
    <3>1. n \in 0 .. n
      BY <1>1
    <3>2. c.last \in 1 .. n
      BY <1>1, <2>1, <3>1, RowFields
    <3>3. QED BY <1>2, <1>4, <3>2
  <2>3. PICK k \in DOMAIN printed :
          printed[k] = c.row /\ \A j \in DOMAIN printed : k < j => printed[j].id # id
    BY <1>2, <1>4, <2>1, <2>2 DEF Shown
  <2>4. DOMAIN printed = 1 .. Len(printed) /\ Len(printed) \in Nat
    BY <1>2, PrintedOne
  <2>5. k \in mine /\ mine \subseteq Int
    BY <2>1, <2>3, <2>4
  <2>6. ASSUME NEW j \in mine PROVE j <= k
    BY <2>1, <2>3, <2>4
  <2>7. Greatest(mine) = k
    <3> HIDE DEF mine
    <3>1. QED BY <2>5, <2>6, GreatestIs
  <2>8. mine # {} /\ printed[Greatest(mine)] = c.row
    BY <2>3, <2>5, <2>7
  <2>9. QED BY <2>8
<1>5. ASSUME NEW id \in DOMAIN joinState
      PROVE  \E c \in CommandsOf(log) : c.row.result = NoResult /\ c.row.id = id
  <2>1. id \in Ids \ {NoId}
    BY <1>2 DEF PendingAt
  <2>2. PICK a \in 1 .. n : Awaiting(log, n, id, a)
    BY <1>2 DEF PendingAt
  <2> DEFINE c == Command(log, id)
             row == MergedCommandFromStart(log[a])
  <2>3. StartsAt(log, a, id)
    BY <2>2 DEF Awaiting
  <2>4. RowAt(log, n, id, row, a)
    BY <2>2 DEF RowAt
  <2>5. c.row = row
    BY <1>1, <2>4, CommandIs
  <2>6. row.id = id /\ row.result = NoResult
    <3>1. log[a] \in Record /\ log[a].type = "proc_start" /\ log[a].id = id
      BY <1>1, <2>3 DEF StartsAt
    <3>2. row = [type |-> "proc", id |-> log[a].id, cmd |-> log[a].cmd, result |-> NoResult]
      BY <3>1, MergedRow
    <3> HIDE DEF row
    <3>3. QED BY <3>1, <3>2
  <2>7. c \in CommandsOf(log)
    <3>1. a \in StartsOf(log, id)
      BY <1>1, <2>3 DEF StartsOf, StartsAt
    <3>2. QED BY <2>1, <3>1 DEF CommandsOf
  <2> HIDE DEF c, row
  <2>8. QED BY <2>5, <2>6, <2>7
<1>6. ASSUME NEW c \in CommandsOf(log), c.row.result = NoResult
      PROVE  c.row.id \in DOMAIN joinState
  <2>1. PICK id \in Ids \ {NoId} : c.row.id = id /\ RowAt(log, n, id, c.row, c.last)
    BY <1>3
  <2>2. Awaiting(log, n, id, c.last)
    <3>1. SUFFICES ASSUME NEW a \in 1 .. n, Ended(log, n, id, a, c.last),
                          c.row = ApplyCommandEnd(MergedCommandFromStart(log[a]), log[c.last])
                   PROVE  FALSE
      BY <2>1 DEF RowAt
    <3>2. c.last \in a + 1 .. n /\ log[c.last].type = "proc_end" /\ log[a].type = "proc_start"
      BY <3>1 DEF Ended, StartsAt, EndsAt
    <3>3. c.last \in 1 .. n
      BY <3>2
    <3>4. log[a] \in Record /\ log[c.last] \in Record /\ log[c.last].result \in Results
      BY <1>1, <3>2, <3>3 DEF LogInv
    <3> DEFINE end == log[c.last]
               start == log[a]
    <3>5. c.row = [type |-> "proc", id |-> start.id, cmd |-> start.cmd, result |-> end.result]
      <4>1. start \in Record /\ start.type = "proc_start" /\ end \in Record /\ end.type = "proc_end"
            /\ c.row = ApplyCommandEnd(MergedCommandFromStart(start), end)
        BY <3>1, <3>2, <3>4
      <4> HIDE DEF start, end
      <4>2. QED BY <4>1, EndedRow
    <3>6. c.row.result = end.result
      <4> HIDE DEF start, end
      <4>1. QED BY <3>5
    <3>7. QED BY <1>6, <3>4, <3>6 DEF JoinAssumption
  <2>3. c.last \in 1 .. n
    BY <2>2 DEF Awaiting
  <2>4. QED BY <1>2, <2>1, <2>2, <2>3 DEF PendingAt
<1>7. DOMAIN joinState =
          {c.row.id : c \in {d \in CommandsOf(log) : d.row.result = NoResult}}
  <2> DEFINE A == CommandsOf(log)
             Id(c) == c.row.id
             Open(c) == c.row.result = NoResult
             D == DOMAIN joinState
  <2>1. \A id \in D : \E c \in A : Id(c) = id /\ Open(c)
    BY <1>5
  <2>2. \A c \in A : Open(c) => Id(c) \in D
    BY <1>6
  <2> HIDE DEF A, D, Id, Open
  <2>3. D = {Id(c) : c \in {d \in A : Open(d)}}
    BY <2>1, <2>2
  <2>4. QED BY <2>3 DEF A, D, Id, Open
<1>8. QED BY <1>4, <1>7

\* The stream goes on where the list ended: prec --follow shows every command
\* that changes while it follows as a list would, and keeps those whose ends it
\* awaits and no other (runTail and emitMergedEvent).
THEOREM FollowersShowTheList == Spec => []FollowerShowsList
<1> DEFINE Inv == LogInv /\ ReaderInv
<1>1. Init => Inv
  BY LogInit, ReaderInit, JoinAssumption
<1>2. Inv /\ [Next]_vars => Inv'
  <2> SUFFICES ASSUME LogInv, ReaderInv, [Next]_vars PROVE LogInv' /\ ReaderInv'
    OBVIOUS
  <2>1. LogInv' /\ Grows
    BY LogStep, JoinAssumption
  <2>2. QED BY <2>1, ReaderStep, JoinAssumption
<1>3. Inv => FollowerShowsList
  BY ReaderShowsList, JoinAssumption
<1>4. QED BY <1>1, <1>2, <1>3, PTL DEF Spec

-----------------------------------------------------------------------------
(* Start-only views: of the records that are read, those that are kept make *)
(* a row each.                                                             *)

View == Row \cup Record

Kept(s) == {i \in DOMAIN s : s[i].type \in {"proc_start", "other"}}

RowOf(ev) == IF ev.type = "proc_start" THEN MergedCommandFromStart(ev) ELSE ev

RowsOf(s) == [i \in 1 .. Len(s) |-> RowOf(s[i])]

\* What of it a query shows.
Seen(s, q) == {i \in Kept(s) : Matches(RowOf(s[i]), q)}

LEMMA RowOfRecord ==
    ASSUME NEW ev \in Record
    PROVE  /\ RowOf(ev) \in View
           /\ MergedEventWithoutCommandEnd(ev) =
                 IF ev.type \in {"proc_start", "other"} THEN <<RowOf(ev)>> ELSE <<>>
<1>1. ev.type = "proc_start" => MergedCommandFromStart(ev) \in Row
  BY MergedRow
<1>2. QED BY <1>1 DEF RowOf, View, MergedEventWithoutCommandEnd

LEMMA RowsOfRecords ==
    ASSUME NEW s \in Seq(Record)
    PROVE  /\ RowsOf(s) \in Seq(View) /\ Len(RowsOf(s)) = Len(s) /\ Len(s) \in Nat
           /\ \A i \in 1 .. Len(s) : RowsOf(s)[i] = RowOf(s[i])
<1>1. Len(s) \in Nat /\ \A i \in 1 .. Len(s) : s[i] \in Record
  OBVIOUS
<1>2. RowsOf(s) \in [1 .. Len(s) -> View]
  BY <1>1, RowOfRecord DEF RowsOf
<1>3. \A i \in 1 .. Len(s) : RowsOf(s)[i] = RowOf(s[i])
  BY DEF RowsOf
<1>4. RowsOf(s) \in Seq(View) /\ Len(RowsOf(s)) = Len(s)
  BY <1>1, <1>2
<1>5. QED BY <1>1, <1>3, <1>4

LEMMA StartRowsPicked ==
    ASSUME NEW s \in Seq(Record)
    PROVE  StartRows(s) = Picked(RowsOf(s), Kept(s))
<1> DEFINE n == Len(s)
           Show(i) == MergedEventWithoutCommandEnd(s[i])
           step == [i \in 1 .. n |-> [t \in Seq(View) |-> t \o Show(i)]]
           IsIt(f) == f = [i \in 0 .. Len(s) |->
                            IF i = 0 THEN <<>>
                            ELSE f[i - 1] \o MergedEventWithoutCommandEnd(s[i])]
           p == CHOOSE f : IsIt(f)
<1>1. n \in Nat /\ <<>> \in Seq(View)
  OBVIOUS
<1>2. ASSUME NEW i \in 1 .. n
      PROVE  /\ Show(i) = IF i \in Kept(s) THEN <<RowsOf(s)[i]>> ELSE <<>>
             /\ Show(i) \in Seq(View)
             /\ RowsOf(s)[i] \in View
  <2>1. s[i] \in Record /\ RowsOf(s)[i] = RowOf(s[i]) /\ DOMAIN s = 1 .. n
    BY RowsOfRecords
  <2>2. Show(i) = IF s[i].type \in {"proc_start", "other"} THEN <<RowOf(s[i])>> ELSE <<>>
    BY <2>1, RowOfRecord
  <2>3. RowsOf(s)[i] \in View
    BY <2>1, RowOfRecord
  <2> HIDE DEF Show
  <2>4. Show(i) = IF i \in Kept(s) THEN <<RowsOf(s)[i]>> ELSE <<>>
    BY <2>1, <2>2 DEF Kept
  <2>5. <<RowsOf(s)[i]>> \in Seq(View)
    BY <2>3
  <2>6. QED BY <1>1, <2>3, <2>4, <2>5
<1>3. PICK f : IsSolution(f, Seq(View), n, <<>>, step)
  <2>1. IsStep(Seq(View), n, step)
    <3>1. \A i \in 1 .. n : \A t \in Seq(View) : t \o Show(i) \in Seq(View)
      <4> HIDE DEF Show
      <4>1. QED BY <1>2, ConcatProperties
    <3> HIDE DEF Show
    <3>2. QED BY <3>1 DEF IsStep
  <2> HIDE DEF step, n
  <2>2. QED BY <1>1, <2>1, RecursionExists
<1>4. IsIt(f)
  <2>1. f \in [0 .. n -> Seq(View)] /\ f[0] = <<>>
    BY <1>3 DEF IsSolution
  <2>2. ASSUME NEW i \in 0 .. n
        PROVE  f[i] = IF i = 0 THEN <<>> ELSE f[i - 1] \o MergedEventWithoutCommandEnd(s[i])
    <3>1. CASE i = 0
      BY <2>1, <3>1
    <3>2. CASE i # 0
      <4>1. i \in 1 .. n /\ i - 1 \in 0 .. n
        BY <1>1, <3>2
      <4>2. f[i - 1] \in Seq(View)
        BY <2>1, <4>1
      <4>3. f[i] = step[i][f[i - 1]]
        BY <1>3, <4>1 DEF IsSolution
      <4>4. step[i][f[i - 1]] = f[i - 1] \o Show(i)
        <5> HIDE DEF Show
        <5>1. QED BY <4>1, <4>2
      <4>5. QED BY <3>2, <4>3, <4>4
    <3>3. QED BY <3>1, <3>2
  <2>3. QED BY <2>1, <2>2
<1>5. IsIt(p)
  <2> HIDE DEF IsIt
  <2>1. QED BY <1>4
<1>6. StartRows(s) = p[Len(s)]
  BY DEF StartRows
<1> HIDE DEF p
<1>7. ASSUME NEW i \in 0 .. n
      PROVE  p[i] = IF i = 0 THEN <<>> ELSE p[i - 1] \o Show(i)
  BY <1>5
<1>8. p[0] = <<>>
  <2>1. 0 \in 0 .. n
    BY <1>1
  <2>2. QED BY <1>7, <2>1
<1>9. ASSUME NEW i \in 0 .. n, i + 1 \in 1 .. n PROVE p[i + 1] = p[i] \o Show(i + 1)
  <2>1. i + 1 \in 0 .. n /\ i + 1 # 0 /\ (i + 1) - 1 = i
    BY <1>1, <1>9
  <2> HIDE DEF Show
  <2>2. QED BY <1>7, <2>1
<1> HIDE DEF Show
<1> DEFINE T == {k \in Nat : k <= n => p[k] \in Seq(View)}
<1>10. 0 \in T
  BY <1>1, <1>8
<1>11. ASSUME NEW k \in Nat, k \in T PROVE k + 1 \in T
  <2> SUFFICES ASSUME k + 1 <= n PROVE p[k + 1] \in Seq(View)
    OBVIOUS
  <2>1. k \in 0 .. n /\ k + 1 \in 1 .. n /\ p[k] \in Seq(View)
    BY <1>1, <1>11
  <2>2. p[k + 1] = p[k] \o Show(k + 1) /\ Show(k + 1) \in Seq(View)
    BY <1>2, <1>9, <2>1
  <2>3. QED BY <2>1, <2>2, ConcatProperties
<1>12. \A k \in 0 .. n : p[k] \in Seq(View)
  <2>1. Nat \subseteq T
    <3> HIDE DEF T
    <3>1. QED BY <1>10, <1>11, NatSetInduction
  <2>2. \A k \in 0 .. n : k \in Nat /\ k <= n
    BY <1>1
  <2>3. QED BY <2>1, <2>2
<1>13. ASSUME NEW i \in 0 .. Len(RowsOf(s)), i + 1 \in 1 .. Len(RowsOf(s))
       PROVE  p[i + 1] = IF i + 1 \in Kept(s) THEN Append(p[i], RowsOf(s)[i + 1]) ELSE p[i]
  <2>1. i \in 0 .. n /\ i + 1 \in 1 .. n
    BY <1>13, RowsOfRecords
  <2>2. p[i] \in Seq(View) /\ p[i + 1] = p[i] \o Show(i + 1)
    BY <1>9, <1>12, <2>1
  <2> DEFINE x == RowsOf(s)[i + 1]
  <2>3. Show(i + 1) = (IF i + 1 \in Kept(s) THEN <<x>> ELSE <<>>) /\ x \in View
    BY <1>2, <2>1
  <2> HIDE DEF x
  <2>4. p[i] \o <<x>> = Append(p[i], x) /\ p[i] \o <<>> = p[i]
    BY <2>2, <2>3
  <2>5. QED BY <2>2, <2>3, <2>4 DEF x
<1>14. Gathers(p, RowsOf(s), Kept(s))
  BY <1>8, <1>13 DEF Gathers
<1>15. p[Len(RowsOf(s))] = Picked(RowsOf(s), Kept(s))
  BY <1>14, RowsOfRecords, GatheredIs
<1>16. QED BY <1>6, <1>15, RowsOfRecords

\* What a query shows of a start-only view.
LEMMA StartsShown ==
    ASSUME NEW s \in Seq(Record), NEW q
    PROVE  Matching(StartRows(s), q) = Picked(RowsOf(s), Seen(s, q))
<1> DEFINE t == Picked(RowsOf(s), Kept(s))
           I == Kept(s)
           J == {k \in DOMAIN t : Matches(t[k], q)}
           r == RowsOf(s)
<1>1. Matching(StartRows(s), q) = Picked(t, J)
  BY StartRowsPicked DEF Matching
<1>2. r \in Seq(View) /\ Len(r) = Len(s) /\ DOMAIN s = 1 .. Len(s) /\ I \subseteq DOMAIN s
      /\ \A i \in 1 .. Len(s) : r[i] = RowOf(s[i])
  BY RowsOfRecords DEF Kept
<1>3. /\ t \in Seq(View)
      /\ \A i \in I \cap (1 .. Len(r)) : Rank(I, i) \in 1 .. Len(t) /\ t[Rank(I, i)] = r[i]
  <2> HIDE DEF r, I
  <2>1. Picked(r, I) \in Seq(View)
        /\ \A i \in I \cap (1 .. Len(r)) :
              Rank(I, i) \in 1 .. Len(Picked(r, I)) /\ Picked(r, I)[Rank(I, i)] = r[i]
    BY <1>2, PickedRanks
  <2>2. QED BY <2>1 DEF r, I
<1>4. DOMAIN t = 1 .. Len(t)
  BY <1>3
<1>5. ASSUME NEW i \in 1 .. Len(r) PROVE i \in Seen(s, q) <=> i \in I /\ Rank(I, i) \in J
  <2>1. CASE i \in I
    <3>1. Rank(I, i) \in DOMAIN t /\ t[Rank(I, i)] = r[i] /\ r[i] = RowOf(s[i])
      BY <1>2, <1>3, <1>4, <2>1
    <3> HIDE DEF t, r
    <3>2. QED BY <2>1, <3>1 DEF Seen
  <2>2. CASE i \notin I
    BY <2>2 DEF Seen
  <2>3. QED BY <2>1, <2>2
<1>6. Picked(Picked(r, I), J) = Picked(r, Seen(s, q))
  <2> HIDE DEF r, I, J
  <2>1. QED BY <1>2, <1>5, PickedTwice
<1>7. QED BY <1>1, <1>6

\* Torn records have no rows.
LEMMA StartsOfParsed ==
    ASSUME NEW s \in Seq(Record)
    PROVE  /\ Parsed(s) \in Seq(Record)
           /\ StartRows(Parsed(s)) = StartRows(s)
<1> DEFINE I == Readable(s)
           t == Picked(s, I)
           r == RowsOf(s)
<1>1. Parsed(s) = t
  BY DEF Parsed, Readable
<1>2. /\ t \in Seq(Record) /\ Len(t) = Rank(I, Len(s)) /\ DOMAIN s = 1 .. Len(s)
      /\ \A i \in I \cap (1 .. Len(s)) : Rank(I, i) \in 1 .. Len(t) /\ t[Rank(I, i)] = s[i]
  <2> HIDE DEF I
  <2>1. QED BY PickedRanks
<1>3. r \in Seq(View) /\ Len(r) = Len(s) /\ \A i \in 1 .. Len(s) : r[i] = RowOf(s[i])
  BY RowsOfRecords
<1>4. /\ RowsOf(t) \in Seq(View) /\ Len(RowsOf(t)) = Len(t)
      /\ \A i \in 1 .. Len(t) : RowsOf(t)[i] = RowOf(t[i])
  <2> HIDE DEF t
  <2>1. QED BY <1>2, RowsOfRecords
<1> HIDE DEF t, r, I
<1>5. RowsOf(t) = Picked(r, I)
  <2>1. ASSUME NEW i \in I \cap (1 .. Len(r)) PROVE RowsOf(t)[Rank(I, i)] = r[i]
    <3>1. i \in I \cap (1 .. Len(s)) /\ i \in 1 .. Len(s)
      BY <1>3
    <3>2. QED BY <1>2, <1>3, <1>4, <3>1
  <2>2. QED BY <1>2, <1>3, <1>4, <2>1, PickedOnly
<1>6. ASSUME NEW i \in 1 .. Len(r) PROVE i \in Kept(s) <=> i \in I /\ Rank(I, i) \in Kept(t)
  <2>1. i \in 1 .. Len(s) /\ i \in DOMAIN s
    BY <1>2, <1>3
  <2>2. i \in I <=> s[i] # Torn
    BY <2>1 DEF I, Readable
  <2>3. CASE i \in I
    <3>1. Rank(I, i) \in 1 .. Len(t) /\ t[Rank(I, i)] = s[i] /\ DOMAIN t = 1 .. Len(t)
      BY <1>2, <2>1, <2>3
    <3>2. QED BY <2>1, <2>3, <3>1 DEF Kept
  <2>4. CASE i \notin I
    BY <2>2, <2>4 DEF Kept, Torn
  <2>5. QED BY <2>3, <2>4
<1>7. Picked(Picked(r, I), Kept(t)) = Picked(r, Kept(s))
  BY <1>3, <1>6, PickedTwice
<1>8. StartRows(t) = Picked(RowsOf(t), Kept(t)) /\ StartRows(s) = Picked(r, Kept(s))
  BY <1>2, StartRowsPicked DEF r
<1>9. QED BY <1>1, <1>2, <1>5, <1>7, <1>8

\* The rows of the list, by the record each began with.
LEMMA ListRowsAre ==
    ASSUME NEW s \in Seq(Record)
    PROVE  /\ IsSequence(List(s))
           /\ Len(List(s)) = Rank(Firsts(s), Len(s))
           /\ \A a \in Firsts(s) \cap (1 .. Len(s)) :
                 /\ s[a].type = "other" => List(s)[Rank(Firsts(s), a)] = s[a]
                 /\ s[a].type = "proc_start" =>
                       \E last : RowAt(s, Len(s), s[a].id, List(s)[Rank(Firsts(s), a)], last)
<1> DEFINE F == Firsts(s)
           n == Len(s)
<1>1. PICK m : /\ MergedAt(s, n, Parsed(s), m)
               /\ MergeEventsForList(Parsed(s), <<>>) =
                    [rows |-> SubSeq(m.buf, 1, m.len), pending |-> m.pending]
  BY ListMerged
<1>2. List(s) = SubSeq(m.buf, 1, m.len)
  BY <1>1 DEF List
<1>3. n \in Nat /\ m.len = Rank(F, n) /\ m.len \in Nat
  <2>1. m.len = Rank(F, n)
    BY <1>1 DEF MergedAt
  <2>2. QED BY <2>1, RankStep
<1>4. /\ IsSequence(List(s))
      /\ Len(List(s)) = m.len
      /\ \A k \in 1 .. m.len : List(s)[k] = m.buf[k]
  <2> DEFINE S == {m.buf[i] : i \in 1 .. m.len}
  <2>1. \A i \in 1 .. m.len : m.buf[i] \in S
    OBVIOUS
  <2> HIDE DEF S
  <2>2. /\ SubSeq(m.buf, 1, m.len) \in Seq(S)
        /\ Len(SubSeq(m.buf, 1, m.len)) = IF 1 <= m.len THEN m.len - 1 + 1 ELSE 0
        /\ \A i \in 1 .. m.len - 1 + 1 : SubSeq(m.buf, 1, m.len)[i] = m.buf[1 + i - 1]
    BY <1>3, <2>1, SubSeqProperties
  <2>3. IsSequence(SubSeq(m.buf, 1, m.len))
    BY <2>2 DEF IsSequence
  <2>4. QED BY <1>2, <1>3, <2>2, <2>3
<1>5. ASSUME NEW a \in F \cap (1 .. n)
      PROVE  /\ s[a].type = "other" => List(s)[Rank(F, a)] = s[a]
             /\ s[a].type = "proc_start" =>
                   \E last : RowAt(s, n, s[a].id, List(s)[Rank(F, a)], last)
  <2>1. Rank(F, a) \in 1 .. m.len
    <3> HIDE DEF F
    <3>1. QED BY <1>3, RankBounds
  <2>2. List(s)[Rank(F, a)] = m.buf[Rank(F, a)]
    BY <1>4, <2>1
  <2>3. CASE s[a].type = "other"
    BY <1>1, <2>2, <2>3 DEF MergedAt
  <2>4. CASE s[a].type = "proc_start"
    <3> DEFINE id == s[a].id
    <3>1. a \in 1 .. n /\ StartsAt(s, a, id) /\ id # NoId
          /\ \A j \in 1 .. a - 1 : ~StartsAt(s, j, id)
      BY <2>4 DEF Firsts, StartsAt
    <3>2. id \in Ids
      BY <2>4, RecordFields
    <3>3. id \in DOMAIN m.index
      BY <1>1, <3>1, <3>2 DEF MergedAt
    <3> HIDE DEF id
    <3>4. PICK b \in F \cap (1 .. n) :
            StartsAt(s, b, id) /\ \E last : RowAt(s, n, id, m.buf[Rank(F, b)], last)
      BY <1>1, <3>3 DEF MergedAt
    <3>5. s[b].type = "proc_start" /\ s[b].id = id
      BY <3>4 DEF StartsAt
    <3>6. \A j \in 1 .. b - 1 : ~StartsAt(s, j, id)
      BY <3>5 DEF Firsts
    <3>7. a = b
      <4>1. ~(b \in 1 .. a - 1) /\ ~(a \in 1 .. b - 1)
        BY <3>1, <3>4, <3>6
      <4>2. QED BY <3>1, <4>1
    <3>8. \E last : RowAt(s, n, id, List(s)[Rank(F, a)], last)
      BY <2>2, <3>4, <3>7
    <3>9. QED BY <2>4, <3>8 DEF id
  <2>5. QED BY <2>3, <2>4
<1>6. QED BY <1>3, <1>4, <1>5

\* With an id for every start there is a row for every start.
LEMMA StartsApart ==
    ASSUME NEW s \in Seq(Record), DistinctIds(s), NEW id, NEW i \in 1 .. Len(s),
           NEW j \in 1 .. Len(s), StartsAt(s, i, id), StartsAt(s, j, id)
    PROVE  i = j /\ id # NoId
<1> DEFINE S == StartsOf(s, id)
           n == Len(s)
<1>1. DOMAIN s = 1 .. n /\ n \in Nat
  OBVIOUS
<1>2. i \in S /\ j \in S /\ S \in SUBSET (1 .. n)
  BY <1>1 DEF StartsOf, StartsAt
<1>3. id \in Ids
  BY RecordFields DEF StartsAt
<1>4. id # NoId /\ Cardinality(S) <= 1
  BY <1>2, <1>3 DEF DistinctIds
<1>5. SUFFICES ASSUME i # j PROVE FALSE
  BY <1>4
<1>6. IsFiniteSet(S)
  <2>1. IsFiniteSet(1 .. n)
    BY <1>1, FS_Interval
  <2> HIDE DEF S
  <2>2. QED BY <1>2, <2>1, FS_Subset
<1>7. IsFiniteSet({i}) /\ Cardinality({i}) = 1 /\ j \notin {i}
  BY <1>5, FS_Singleton
<1>8. Cardinality({i} \cup {j}) = 2
  <2> DEFINE one == {i}
  <2>1. IsFiniteSet(one) /\ Cardinality(one) = 1 /\ j \notin one
    BY <1>7
  <2> HIDE DEF one
  <2>2. Cardinality(one \cup {j}) = Cardinality(one) + 1
    BY <2>1, FS_AddElement
  <2>3. Cardinality(one \cup {j}) = 2
    BY <2>1, <2>2
  <2>4. QED BY <2>3 DEF one
<1>9. {i} \cup {j} \in SUBSET S
  BY <1>2
<1>10. Cardinality({i} \cup {j}) <= Cardinality(S) /\ Cardinality(S) \in Nat
  <2> HIDE DEF S
  <2>1. QED BY <1>6, <1>9, FS_Subset, FS_CardinalityType
<1> DEFINE two == Cardinality({i} \cup {j})
           all == Cardinality(S)
<1>11. two = 2 /\ all <= 1 /\ two <= all /\ all \in Nat
  BY <1>4, <1>8, <1>10
<1> HIDE DEF two, all
<1>12. QED BY <1>11

LEMMA FirstsAreKept ==
    ASSUME NEW s \in Seq(Record), DistinctIds(s)
    PROVE  Firsts(s) = Kept(s)
<1>1. DOMAIN s = 1 .. Len(s)
  OBVIOUS
<1>2. ASSUME NEW a \in DOMAIN s, s[a].type = "proc_start"
      PROVE  s[a].id # NoId /\ \A j \in 1 .. a - 1 : ~StartsAt(s, j, s[a].id)
  <2>1. a \in 1 .. Len(s) /\ StartsAt(s, a, s[a].id)
    BY <1>1, <1>2 DEF StartsAt
  <2>2. s[a].id # NoId
    BY <2>1, StartsApart
  <2>3. ASSUME NEW j \in 1 .. a - 1, StartsAt(s, j, s[a].id) PROVE FALSE
    <3>1. j \in 1 .. Len(s) /\ j # a
      BY <2>1
    <3>2. QED BY <2>1, <2>3, <3>1, StartsApart
  <2>4. QED BY <2>2, <2>3
<1>3. QED BY <1>2 DEF Firsts, Kept

\* Both views have the commands of both, row by row.
LEMMA RowsAlike ==
    ASSUME NEW s \in Seq(Record), DistinctIds(s), NEW k \in 1 .. Rank(Kept(s), Len(s))
    PROVE  /\ List(s)[k].id = StartRows(s)[k].id
           /\ List(s)[k].cmd = StartRows(s)[k].cmd
           /\ {List(s)[k].result, StartRows(s)[k].result} \subseteq Results \cup {NoResult}
<1> DEFINE F == Kept(s)
           n == Len(s)
<1>1. n \in Nat /\ DOMAIN s = 1 .. n /\ Firsts(s) = F
  BY FirstsAreKept
<1>2. PICK a \in F \cap (1 .. n) : Rank(F, a) = k
  <2> HIDE DEF F
  <2>1. QED BY <1>1, RankHits DEF F
<1>3. StartRows(s)[k] = RowOf(s[a])
  <2> DEFINE r == RowsOf(s)
  <2>1. r \in Seq(View) /\ Len(r) = n /\ r[a] = RowOf(s[a])
    BY RowsOfRecords
  <2> HIDE DEF r, F
  <2>2. Picked(r, F)[Rank(F, a)] = r[a]
    BY <2>1, PickedRanks
  <2>3. StartRows(s) = Picked(r, F)
    BY StartRowsPicked DEF r, F
  <2>4. QED BY <1>2, <2>1, <2>2, <2>3
<1>4. s[a] \in Record /\ s[a].type \in {"proc_start", "other"}
  BY <1>1 DEF Kept
<1>5. CASE s[a].type = "other"
  <2>1. List(s)[k] = s[a]
    BY <1>1, <1>2, <1>5, ListRowsAre
  <2>2. StartRows(s)[k] = s[a]
    BY <1>3, <1>5 DEF RowOf
  <2>3. s[a].result \in Results \cup {NoResult}
    BY <1>4, RecordFields
  <2>4. QED BY <2>1, <2>2, <2>3
<1>6. CASE s[a].type = "proc_start"
  <2> DEFINE id  == s[a].id
             row == List(s)[k]
  <2>1. PICK last : RowAt(s, n, id, row, last)
    BY <1>1, <1>2, <1>6, ListRowsAre
  <2>2. StartsAt(s, a, id) /\ a \in 1 .. n
    BY <1>6 DEF StartsAt
  <2> HIDE DEF id, row
  <2>3. row \in Row /\ row.id = id
    <3>1. n \in 0 .. n
      BY <1>1
    <3>2. QED BY <2>1, <3>1, RowFields
  <2>4. row.cmd = s[a].cmd
    <3>1. CASE Awaiting(s, n, id, last) /\ row = MergedCommandFromStart(s[last])
      <4>1. last \in 1 .. n /\ StartsAt(s, last, id)
        BY <3>1 DEF Awaiting
      <4>2. last = a
        BY <2>2, <4>1, StartsApart
      <4>3. row = [type |-> "proc", id |-> s[a].id, cmd |-> s[a].cmd, result |-> NoResult]
        BY <1>4, <1>6, <3>1, <4>2, MergedRow
      <4>4. QED BY <4>3
    <3>2. ASSUME NEW b \in 1 .. n, Ended(s, n, id, b, last),
                 row = ApplyCommandEnd(MergedCommandFromStart(s[b]), s[last])
          PROVE  row.cmd = s[a].cmd
      <4>1. StartsAt(s, b, id) /\ last \in b + 1 .. n /\ EndsAt(s, last, id)
        BY <3>2 DEF Ended
      <4>2. b = a
        BY <2>2, <4>1, StartsApart
      <4>3. last \in 1 .. n /\ s[last].type = "proc_end"
        BY <4>1 DEF EndsAt
      <4>4. s[last] \in Record
        BY <1>1, <4>3
      <4>5. row = [type |-> "proc", id |-> s[a].id, cmd |-> s[a].cmd, result |-> s[last].result]
        BY <1>4, <1>6, <3>2, <4>2, <4>3, <4>4, EndedRow
      <4>6. QED BY <4>5
    <3>3. QED BY <2>1, <3>1, <3>2 DEF RowAt
  <2>5. StartRows(s)[k] = [type |-> "proc", id |-> s[a].id, cmd |-> s[a].cmd, result |-> NoResult]
    BY <1>3, <1>4, <1>6, MergedRow DEF RowOf
  <2>6. row.result \in Results \cup {NoResult}
    BY <2>3 DEF Row
  <2>7. QED BY <2>3, <2>4, <2>5, <2>6 DEF row, id
<1>7. QED BY <1>4, <1>5, <1>6

Heads(rows) == [i \in DOMAIN rows |-> <<rows[i].id, rows[i].cmd>>]

LEMMA SameShown ==
    ASSUME NEW s \in Seq(Record), DistinctIds(s), NEW p, NEW q, p.cmds = q.cmds,
           p.results = Results \cup {NoResult}, q.results = Results \cup {NoResult}
    PROVE  Heads(Matching(List(s), p)) = Heads(Matching(StartRows(s), q))
<1> DEFINE n == Len(s)
           a == List(s)
           b == StartRows(s)
           N == Rank(Kept(s), n)
           J == {i \in DOMAIN a : Matches(a[i], p)}
<1>1. n \in Nat /\ N \in Nat
  <2>1. n \in Nat
    OBVIOUS
  <2>2. QED BY <2>1, RankStep
<1>2. IsSequence(a) /\ Len(a) = N
  BY FirstsAreKept, ListRowsAre
<1>3. b \in Seq(View) /\ Len(b) = N
  <2> DEFINE r == RowsOf(s)
             I == Kept(s)
  <2>1. r \in Seq(View) /\ Len(r) = n
    BY RowsOfRecords
  <2>2. b = Picked(r, I)
    BY StartRowsPicked
  <2> HIDE DEF r, I, b
  <2>3. Picked(r, I) \in Seq(View) /\ Len(Picked(r, I)) = Rank(I, Len(r))
    BY <2>1, PickedRanks
  <2>4. QED BY <2>1, <2>2, <2>3 DEF I
<1>4. DOMAIN a = 1 .. N /\ DOMAIN b = 1 .. N
  BY <1>2, <1>3, PrintedOne
<1>5. \A k \in 1 .. N : /\ a[k].id = b[k].id /\ a[k].cmd = b[k].cmd
                        /\ Matches(a[k], p) <=> Matches(b[k], q)
  BY RowsAlike DEF Matches
<1>6. J = {i \in DOMAIN b : Matches(b[i], q)}
  <2> HIDE DEF a, b, N
  <2>1. QED BY <1>4, <1>5
<1>7. Matching(a, p) = Picked(a, J) /\ Matching(b, q) = Picked(b, J)
  BY <1>6 DEF Matching
<1>8. PICK S : a \in Seq(S)
  BY <1>2 DEF IsSequence
<1> DEFINE x == Picked(a, J)
           y == Picked(b, J)
<1> HIDE DEF a, b, N, J
<1>9. /\ x \in Seq(S) /\ Len(x) = Rank(J, N)
      /\ \A i \in J \cap (1 .. N) : x[Rank(J, i)] = a[i]
  BY <1>2, <1>8, PickedRanks
<1>10. /\ y \in Seq(View) /\ Len(y) = Rank(J, N)
       /\ \A i \in J \cap (1 .. N) : y[Rank(J, i)] = b[i]
  BY <1>3, PickedRanks
<1> HIDE DEF x, y
<1>11. ASSUME NEW k \in 1 .. Rank(J, N) PROVE x[k].id = y[k].id /\ x[k].cmd = y[k].cmd
  <2>1. PICK i \in J \cap (1 .. N) : Rank(J, i) = k
    BY <1>1, RankHits
  <2>2. x[k] = a[i] /\ y[k] = b[i]
    BY <1>9, <1>10, <2>1
  <2>3. QED BY <1>5, <2>2
<1>12. DOMAIN x = 1 .. Rank(J, N) /\ DOMAIN y = 1 .. Rank(J, N)
  BY <1>9, <1>10
<1>13. Heads(x) = Heads(y)
  BY <1>11, <1>12 DEF Heads
<1>14. QED BY <1>7, <1>13 DEF x, y, a, b

\* What is collected is the last of what the query shows of a view.
Collected(s, q) ==
    IF q.ends THEN Matching(List(s), q) ELSE Matching(StartRows(s), q)

LEMMA StreamCollects ==
    ASSUME NEW s \in Seq(Record), NEW q, NEW n \in Nat
    PROVE  /\ Matching(StartRows(s), q) \in Seq(View)
           /\ CollectFilteredEventsStreaming(s, n, q) = LastN(Matching(StartRows(s), q), n)
<1>1. Matching(StartRows(s), q) \in Seq(View)
  <2> DEFINE r == RowsOf(s)
             I == Seen(s, q)
  <2>1. r \in Seq(View)
    BY RowsOfRecords
  <2>2. Matching(StartRows(s), q) = Picked(r, I)
    BY StartsShown
  <2> HIDE DEF r, I
  <2>3. QED BY <2>1, <2>2, PickedRanks
<1>2. CollectFilteredEventsStreaming(s, n, q) = Windowed(Matching(StartRows(s), q), n)
  BY StartsOfParsed DEF CollectFilteredEventsStreaming
<1>3. QED BY <1>1, <1>2, WindowShows

LEMMA Collects ==
    ASSUME NEW s \in Seq(Record), NEW q, q.ends \in BOOLEAN, NEW n \in Nat
    PROVE  CollectFilteredEvents(s, n, q, <<>>).rows = LastN(Collected(s, q), n)
<1>1. CASE q.ends
  <2>1. CollectFilteredEvents(s, n, q, <<>>).rows = Windowed(Matching(List(s), q), n)
    BY <1>1 DEF CollectFilteredEvents, List
  <2>2. PICK S : List(s) \in Seq(S)
    BY ListRowsAre DEF IsSequence
  <2> DEFINE rows == List(s)
             I == {i \in DOMAIN rows : Matches(rows[i], q)}
  <2>3. Matching(rows, q) = Picked(rows, I)
    BY DEF Matching
  <2> HIDE DEF rows, I
  <2>4. Picked(rows, I) \in Seq(S)
    BY <2>2, PickedRanks DEF rows
  <2>5. Windowed(Matching(rows, q), n) = LastN(Matching(rows, q), n)
    BY <2>3, <2>4, WindowShows
  <2>6. QED BY <1>1, <2>1, <2>5 DEF Collected, rows
<1>2. CASE ~q.ends
  <2>1. CollectFilteredEvents(s, n, q, <<>>).rows = CollectFilteredEventsStreaming(s, n, q)
    BY <1>2 DEF CollectFilteredEvents
  <2>2. QED BY <1>2, <2>1, StreamCollects DEF Collected
<1>3. QED BY <1>1, <1>2

LEMMA LastOfAll == \A rows : LastN(rows, 0) = rows
  BY DEF LastN

\* The join changes no rows of a query that does not ask for ends.
LEMMA CommandsAgree ==
    ASSUME JoinAssumption, LogInv
    PROVE  SameCommands
<1> SUFFICES ASSUME DistinctIds(log), NEW q \in Queries, q.results = Results \cup {NoResult}
             PROVE  LET shown(ends) ==
                            LET rows == CollectFilteredEvents(log, 0,
                                            [q EXCEPT !.ends = ends], <<>>).rows
                            IN  [i \in DOMAIN rows |-> <<rows[i].id, rows[i].cmd>>]
                    IN  shown(TRUE) = shown(FALSE)
  BY DEF SameCommands
<1> DEFINE with == [q EXCEPT !.ends = TRUE]
           without == [q EXCEPT !.ends = FALSE]
           a == CollectFilteredEvents(log, 0, with, <<>>).rows
           b == CollectFilteredEvents(log, 0, without, <<>>).rows
<1>1. log \in Seq(Record)
  BY DEF LogInv
<1>2. q \in [cmds : SUBSET Commands, ends : BOOLEAN, results : SUBSET (Results \cup {NoResult})]
  BY DEF JoinAssumption
<1>3. /\ with.ends = TRUE /\ with.cmds = q.cmds /\ with.results = Results \cup {NoResult}
      /\ without.ends = FALSE /\ without.cmds = q.cmds
      /\ without.results = Results \cup {NoResult}
  BY <1>2
<1> HIDE DEF with, without
<1>4. a = Matching(List(log), with)
  <2>1. with.ends \in BOOLEAN /\ 0 \in Nat
    BY <1>3
  <2>2. a = LastN(Collected(log, with), 0)
    BY <1>1, <2>1, Collects
  <2>3. Collected(log, with) = Matching(List(log), with)
    BY <1>3 DEF Collected
  <2>4. QED BY <2>2, <2>3, LastOfAll
<1>5. b = Matching(StartRows(log), without)
  <2>1. without.ends \in BOOLEAN /\ 0 \in Nat
    BY <1>3
  <2>2. b = LastN(Collected(log, without), 0)
    BY <1>1, <2>1, Collects
  <2>3. Collected(log, without) = Matching(StartRows(log), without)
    BY <1>3 DEF Collected
  <2>4. QED BY <2>2, <2>3, LastOfAll
<1>6. Heads(a) = Heads(b)
  <2>1. with.cmds = without.cmds
    BY <1>3
  <2> HIDE DEF a, b
  <2>2. Heads(Matching(List(log), with)) = Heads(Matching(StartRows(log), without))
    BY <1>1, <1>3, <2>1, SameShown
  <2>3. QED BY <1>4, <1>5, <2>2
<1>7. QED BY <1>6 DEF Heads, a, b, with, without

-----------------------------------------------------------------------------
(* A compressed log read backwards.                                        *)

\* What a query shows of a single record.
LEMMA RowSeen ==
    ASSUME NEW s \in Seq(Record), NEW q, NEW i \in 1 .. Len(s)
    PROVE  /\ Matching(MergedEventWithoutCommandEnd(s[i]), q) =
                 IF i \in Seen(s, q) THEN <<RowsOf(s)[i]>> ELSE <<>>
           /\ RowsOf(s)[i] \in View
           /\ Matching(MergedEventWithoutCommandEnd(s[i]), q) \in Seq(View)
<1> DEFINE row == RowOf(s[i])
           shown == MergedEventWithoutCommandEnd(s[i])
<1>1. s[i] \in Record /\ i \in DOMAIN s /\ RowsOf(s)[i] = row
  BY RowsOfRecords
<1>2. row \in View /\ shown = IF s[i].type \in {"proc_start", "other"} THEN <<row>> ELSE <<>>
  BY <1>1, RowOfRecord
<1>3. i \in Seen(s, q) <=> s[i].type \in {"proc_start", "other"} /\ Matches(row, q)
  BY <1>1 DEF Seen, Kept
<1> HIDE DEF row, shown
<1>4. Matching(shown, q) = IF i \in Seen(s, q) THEN <<row>> ELSE <<>>
  <2>1. CASE s[i].type \in {"proc_start", "other"}
    <3>1. shown = <<row>>
      BY <1>2, <2>1
    <3>2. Matching(shown, q) = IF Matches(row, q) THEN <<row>> ELSE <<>>
      BY <3>1, MatchingOne
    <3>3. QED BY <1>3, <2>1, <3>2
  <2>2. CASE s[i].type \notin {"proc_start", "other"}
    <3>1. shown = <<>>
      BY <1>2, <2>2
    <3>2. Matching(shown, q) = <<>>
      BY <3>1, MatchingOne
    <3>3. QED BY <1>3, <2>2, <3>2
  <2>3. QED BY <2>1, <2>2
<1>5. <<row>> \in Seq(View) /\ <<>> \in Seq(View)
  BY <1>2
<1>6. QED BY <1>1, <1>2, <1>4, <1>5 DEF shown

\* The scan has, behind record i, the last n rows that are seen there.
BackAt(s, q, n, i, x) ==
    LET I == Seen(s, q)
        all == Rank(I, Len(s))
    IN  /\ x \in Seq(View)
        /\ Len(x) = IF all - Rank(I, i) >= n THEN n ELSE all - Rank(I, i)
        /\ \A a \in I \cap (i + 1 .. Len(s)) :
              all - Rank(I, a) < n => x[Len(x) - (all - Rank(I, a))] = RowsOf(s)[a]

LEMMA BackStep ==
    ASSUME NEW s \in Seq(Record), NEW q, NEW n \in Nat \ {0}, NEW i \in Nat, i + 1 <= Len(s),
           NEW newer, BackAt(s, q, n, i + 1, newer)
    PROVE  BackAt(s, q, n, i,
               IF Len(newer) >= n THEN newer
               ELSE Matching(MergedEventWithoutCommandEnd(s[i + 1]), q) \o newer)
<1> DEFINE I == Seen(s, q)
           all == Rank(I, Len(s))
           shown == Matching(MergedEventWithoutCommandEnd(s[i + 1]), q)
           row == RowsOf(s)[i + 1]
<1>1. Len(s) \in Nat /\ i + 1 \in 1 .. Len(s) /\ i + 1 \in Nat
  OBVIOUS
<1>2. /\ all \in Nat /\ Rank(I, i) \in Nat /\ Rank(I, i + 1) \in Nat
      /\ Rank(I, i + 1) = IF i + 1 \in I THEN Rank(I, i) + 1 ELSE Rank(I, i)
      /\ Rank(I, i + 1) <= all
  <2> HIDE DEF I
  <2>1. QED BY <1>1, RankStep, RankGrows
<1>3. /\ newer \in Seq(View)
      /\ Len(newer) = IF all - Rank(I, i + 1) >= n THEN n ELSE all - Rank(I, i + 1)
      /\ \A a \in I \cap (i + 1 + 1 .. Len(s)) :
            all - Rank(I, a) < n => newer[Len(newer) - (all - Rank(I, a))] = RowsOf(s)[a]
  BY DEF BackAt
<1>4. row \in View /\ shown = IF i + 1 \in I THEN <<row>> ELSE <<>>
  BY <1>1, RowSeen
<1>5. ASSUME NEW a \in I \cap (i + 1 .. Len(s))
      PROVE  /\ a = i + 1 \/ a \in I \cap (i + 1 + 1 .. Len(s))
             /\ Rank(I, a) \in Nat /\ Rank(I, a) <= all
             /\ a # i + 1 => Rank(I, i + 1) < Rank(I, a)
  <2> HIDE DEF I
  <2>1. a \in Nat /\ a \in I /\ i + 1 <= a /\ a <= Len(s)
    BY <1>1
  <2>2. Rank(I, a) \in Nat /\ Rank(I, a) <= Rank(I, Len(s))
    BY <1>1, <2>1, RankGrows, RankStep
  <2>3. ASSUME a # i + 1 PROVE Rank(I, i + 1) < Rank(I, a)
    <3>1. i + 1 < a
      BY <1>1, <2>1, <2>3
    <3>2. QED BY <1>1, <2>1, <3>1, RankGrows
  <2>4. a = i + 1 \/ a \in I \cap (i + 1 + 1 .. Len(s))
    BY <1>1, <2>1
  <2>5. QED BY <2>2, <2>3, <2>4
<1> HIDE DEF I, all, shown, row
<1>6. CASE Len(newer) >= n
  <2>1. all - Rank(I, i + 1) >= n /\ Len(newer) = n
    BY <1>2, <1>3, <1>6
  <2>2. all - Rank(I, i) >= n
    BY <1>2, <2>1
  <2>3. ASSUME NEW a \in I \cap (i + 1 .. Len(s)), all - Rank(I, a) < n
        PROVE  newer[Len(newer) - (all - Rank(I, a))] = RowsOf(s)[a]
    <3>1. a # i + 1
      BY <1>2, <2>1, <2>3
    <3>2. QED BY <1>3, <1>5, <2>3, <3>1
  <2>4. BackAt(s, q, n, i, newer)
    BY <1>3, <2>1, <2>2, <2>3 DEF BackAt, I, all
  <2>5. QED BY <1>6, <2>4
<1>7. CASE ~(Len(newer) >= n) /\ i + 1 \in I
  <2> DEFINE one == <<row>>
             x == one \o newer
  <2>1. one \in Seq(View) /\ Len(one) = 1 /\ one[1] = row
    BY <1>4
  <2>2. /\ x \in Seq(View) /\ Len(x) = 1 + Len(newer)
        /\ \A k \in 1 .. 1 + Len(newer) : x[k] = IF k <= 1 THEN one[k] ELSE newer[k - 1]
    <3> HIDE DEF one
    <3>1. /\ one \o newer \in Seq(View) /\ Len(one \o newer) = Len(one) + Len(newer)
          /\ \A k \in 1 .. Len(one) + Len(newer) :
                (one \o newer)[k] = IF k <= Len(one) THEN one[k] ELSE newer[k - Len(one)]
      BY <1>3, <2>1, ConcatProperties
    <3>2. QED BY <2>1, <3>1
  <2>3. Len(newer) \in Nat /\ Len(newer) < n /\ Len(newer) = all - Rank(I, i + 1)
    BY <1>2, <1>3, <1>7
  <2> HIDE DEF one, x
  <2>4. Len(x) = (IF all - Rank(I, i) >= n THEN n ELSE all - Rank(I, i))
        /\ Len(x) = all - Rank(I, i)
    BY <1>2, <1>7, <2>2, <2>3
  <2>5. ASSUME NEW a \in I \cap (i + 1 .. Len(s)), all - Rank(I, a) < n
        PROVE  x[Len(x) - (all - Rank(I, a))] = RowsOf(s)[a]
    <3> DEFINE k == Len(x) - (all - Rank(I, a))
    <3>1. CASE a = i + 1
      <4>1. k = 1
        BY <1>2, <2>2, <2>3, <3>1
      <4>2. x[1] = row
        BY <2>1, <2>2, <2>3
      <4>3. QED BY <3>1, <4>1, <4>2 DEF row
    <3>2. CASE a # i + 1
      <4> DEFINE here == Rank(I, a)
                 next == Rank(I, i + 1)
      <4>0. /\ all \in Nat /\ next \in Nat /\ here \in Nat
            /\ Len(newer) = all - next /\ Len(x) = 1 + Len(newer)
            /\ next < here /\ here <= all
        BY <1>2, <1>5, <2>2, <2>3, <3>2
      <4>1. k - 1 = Len(newer) - (all - Rank(I, a))
        <5>1. k = Len(x) - (all - here)
          OBVIOUS
        <5> HIDE DEF k, here, next
        <5>2. k - 1 = Len(newer) - (all - here)
          BY <4>0, <5>1
        <5>3. QED BY <5>2 DEF here
      <4>2. k \in 1 .. 1 + Len(newer) /\ ~(k <= 1)
        <5>1. k = Len(x) - (all - here)
          OBVIOUS
        <5> HIDE DEF k, here, next
        <5>2. k = 1 + here - next
          BY <4>0, <5>1
        <5>3. QED BY <4>0, <5>2
      <4> HIDE DEF k
      <4>3. x[k] = newer[Len(newer) - (all - Rank(I, a))]
        BY <2>2, <4>1, <4>2
      <4>4. newer[Len(newer) - (all - Rank(I, a))] = RowsOf(s)[a]
        BY <1>3, <1>5, <2>5, <3>2
      <4>5. QED BY <4>3, <4>4 DEF k
    <3>3. QED BY <3>1, <3>2
  <2>6. BackAt(s, q, n, i, x)
    BY <2>2, <2>4, <2>5 DEF BackAt, I, all
  <2>7. shown \o newer = x
    BY <1>4, <1>7 DEF x, one
  <2>8. QED BY <1>7, <2>6, <2>7 DEF shown
<1>8. CASE ~(Len(newer) >= n) /\ i + 1 \notin I
  <2>1. shown \o newer = newer
    BY <1>3, <1>4, <1>8
  <2>2. Rank(I, i) = Rank(I, i + 1)
    BY <1>2, <1>8
  <2>3. \A a \in I \cap (i + 1 .. Len(s)) : a \in I \cap (i + 1 + 1 .. Len(s))
    BY <1>5, <1>8
  <2>4. BackAt(s, q, n, i, newer)
    BY <1>3, <2>2, <2>3 DEF BackAt, I, all
  <2>5. QED BY <1>8, <2>1, <2>4 DEF shown
<1>9. QED BY <1>6, <1>7, <1>8

LEMMA ScanShows ==
    ASSUME NEW s \in Seq(Record), NEW q, NEW n \in Nat \ {0}
    PROVE  ScanBack(s, n, q) = LastN(Picked(RowsOf(s), Seen(s, q)), n)
<1> DEFINE L == Len(s)
           Shows(i) == Matching(MergedEventWithoutCommandEnd(s[i]), q)
           Longer(i, newer) == IF Len(newer) >= n THEN newer ELSE Shows(i) \o newer
           step == [k \in 1 .. L |-> [t \in Seq(View) |-> Longer(L - k + 1, t)]]
           IsIt(f) == f = [i \in 0 .. Len(s) |->
                            IF i = Len(s) THEN <<>>
                            ELSE LET newer == f[i + 1] IN
                                 IF Len(newer) >= n THEN newer
                                 ELSE Matching(MergedEventWithoutCommandEnd(s[i + 1]), q) \o newer]
           found == CHOOSE f : IsIt(f)
<1>1. L \in Nat /\ <<>> \in Seq(View)
  OBVIOUS
<1>2. ASSUME NEW i \in 1 .. L, NEW t \in Seq(View) PROVE Longer(i, t) \in Seq(View)
  <2>1. Shows(i) \in Seq(View)
    BY RowSeen
  <2> HIDE DEF Shows
  <2>2. Shows(i) \o t \in Seq(View)
    BY <2>1, ConcatProperties
  <2>3. QED BY <2>2
<1> HIDE DEF Longer
<1>3. PICK g : IsSolution(g, Seq(View), L, <<>>, step)
  <2>1. IsStep(Seq(View), L, step)
    <3>1. \A k \in 1 .. L : L - k + 1 \in 1 .. L
      BY <1>1
    <3>2. \A k \in 1 .. L : \A t \in Seq(View) : Longer(L - k + 1, t) \in Seq(View)
      BY <1>2, <3>1
    <3>3. QED BY <3>2 DEF IsStep
  <2> HIDE DEF step, L
  <2>2. QED BY <1>1, <2>1, RecursionExists
<1>4. ASSUME NEW k \in 1 .. L PROVE g[k] = Longer(L - k + 1, g[k - 1])
  <2>1. k - 1 \in 0 .. L
    BY <1>1
  <2>2. g[k - 1] \in Seq(View) /\ g[k] = step[k][g[k - 1]]
    BY <1>3, <2>1 DEF IsSolution
  <2>3. QED BY <2>2
<1> DEFINE f == [i \in 0 .. L |-> g[L - i]]
<1>5. IsIt(f)
  <2>1. ASSUME NEW i \in 0 .. Len(s)
        PROVE  f[i] = IF i = Len(s) THEN <<>> ELSE Longer(i + 1, f[i + 1])
    <3>1. CASE i = Len(s)
      <4>1. L - i = 0
        BY <1>1, <3>1
      <4>2. g[0] = <<>>
        BY <1>3 DEF IsSolution
      <4>3. QED BY <3>1, <4>1, <4>2
    <3>2. CASE i # Len(s)
      <4> DEFINE k == L - i
      <4>1. k \in 1 .. L /\ L - k + 1 = i + 1 /\ k - 1 = L - (i + 1) /\ i + 1 \in 0 .. L
        BY <1>1, <3>2
      <4>2. f[i] = g[k] /\ f[i + 1] = g[L - (i + 1)]
        BY <4>1
      <4> HIDE DEF k, f
      <4>3. g[k] = Longer(i + 1, g[L - (i + 1)])
        BY <1>4, <4>1
      <4>4. QED BY <3>2, <4>2, <4>3
    <3>3. QED BY <3>1, <3>2
  <2>2. f = [i \in 0 .. Len(s) |-> f[i]]
    OBVIOUS
  <2> HIDE DEF f
  <2>3. QED BY <2>1, <2>2 DEF Longer, Shows
<1>6. IsIt(found)
  <2> HIDE DEF IsIt
  <2>1. QED BY <1>5
<1>7. ScanBack(s, n, q) = found[0]
  BY DEF ScanBack
<1> HIDE DEF found
<1>8. ASSUME NEW i \in 0 .. Len(s)
      PROVE  found[i] = IF i = Len(s) THEN <<>> ELSE Longer(i + 1, found[i + 1])
  BY <1>6 DEF Longer, Shows
<1> DEFINE T == {k \in Nat : k <= L => BackAt(s, q, n, L - k, found[L - k])}
           I == Seen(s, q)
           all == Rank(I, L)
<1>9. 0 \in T
  <2>1. L \in 0 .. Len(s) /\ L - 0 = L
    BY <1>1
  <2>2. found[L] = <<>>
    BY <1>8, <2>1
  <2>3. L + 1 .. Len(s) = {}
    BY <1>1
  <2>4. all \in Nat
    <3> HIDE DEF I, L
    <3>1. QED BY <1>1, RankStep
  <2>5. BackAt(s, q, n, L, <<>>)
    BY <1>1, <2>3, <2>4 DEF BackAt
  <2>6. QED BY <2>1, <2>2, <2>5
<1>10. ASSUME NEW k \in Nat, k \in T PROVE k + 1 \in T
  <2> SUFFICES ASSUME k + 1 <= L PROVE BackAt(s, q, n, L - (k + 1), found[L - (k + 1)])
    OBVIOUS
  <2> DEFINE i == L - (k + 1)
  <2>1. i \in Nat /\ i + 1 <= Len(s) /\ i + 1 = L - k /\ i \in 0 .. Len(s) /\ i # Len(s)
    BY <1>1
  <2>2. BackAt(s, q, n, L - k, found[L - k])
    BY <1>1, <1>10
  <2> HIDE DEF i
  <2>3. BackAt(s, q, n, i + 1, found[i + 1])
    BY <2>1, <2>2
  <2>4. BackAt(s, q, n, i, Longer(i + 1, found[i + 1]))
    BY <2>1, <2>3, BackStep DEF Longer, Shows
  <2>5. found[i] = Longer(i + 1, found[i + 1])
    BY <1>8, <2>1
  <2>6. QED BY <2>4, <2>5 DEF i
<1>11. BackAt(s, q, n, 0, found[0])
  <2>1. L \in T
    <3> HIDE DEF T
    <3>1. QED BY <1>1, <1>9, <1>10, NatSetInduction
  <2>2. QED BY <1>1, <2>1
<1> DEFINE x == found[0]
           r == RowsOf(s)
           rows == Picked(r, I)
<1> HIDE DEF T, Longer, Shows
<1>12. /\ r \in Seq(View) /\ Len(r) = L
  BY RowsOfRecords
<1>13. rows \in Seq(View) /\ Len(rows) = all
       /\ \A a \in I \cap (1 .. L) : Rank(I, a) \in 1 .. all /\ rows[Rank(I, a)] = r[a]
  <2> HIDE DEF r, I, L
  <2>1. QED BY <1>12, PickedRanks
<1>14. all \in Nat /\ Rank(I, 0) = 0
  <2> HIDE DEF I, L
  <2>1. QED BY <1>1, RankStep
<1>15. /\ x \in Seq(View)
       /\ Len(x) = IF all >= n THEN n ELSE all
       /\ \A a \in I \cap (1 .. L) :
             all - Rank(I, a) < n => x[Len(x) - (all - Rank(I, a))] = r[a]
  <2>1. /\ x \in Seq(View)
        /\ Len(x) = IF all - Rank(I, 0) >= n THEN n ELSE all - Rank(I, 0)
        /\ \A a \in I \cap (0 + 1 .. L) :
             all - Rank(I, a) < n => x[Len(x) - (all - Rank(I, a))] = r[a]
    BY <1>11 DEF BackAt
  <2> HIDE DEF x, I, r, L
  <2>2. QED BY <1>14, <2>1
<1>16. /\ LastN(rows, n) \in Seq(View)
       /\ n >= all => LastN(rows, n) = rows
       /\ n <= all => /\ Len(LastN(rows, n)) = n
                      /\ \A k \in 1 .. n : LastN(rows, n)[k] = rows[all - n + k]
  <2> HIDE DEF rows, all
  <2>1. QED BY <1>13, LastNIs
<1>17. \A j \in 1 .. all : \E a \in I \cap (1 .. L) : Rank(I, a) = j
  <2> HIDE DEF I, L
  <2>1. QED BY <1>1, RankHits
<1> HIDE DEF x, I, r, L, rows, all
<1>18. CASE n >= all
  <2>1. Len(x) = all
    BY <1>14, <1>15, <1>18
  <2>2. ASSUME NEW k \in 1 .. all PROVE x[k] = rows[k]
    <3>1. PICK a \in I \cap (1 .. L) : Rank(I, a) = k
      BY <1>17
    <3>2. all - k < n /\ Len(x) - (all - k) = k
      BY <1>14, <1>18, <2>1
    <3>3. x[k] = r[a]
      BY <1>15, <3>1, <3>2
    <3>4. QED BY <1>13, <3>1, <3>3
  <2>3. x = rows
    BY <1>13, <1>15, <2>1, <2>2, SeqEqual
  <2>4. QED BY <1>7, <1>16, <1>18, <2>3 DEF x, rows, r, I
<1>19. CASE ~(n >= all)
  <2>1. Len(x) = n /\ n <= all
    BY <1>14, <1>15, <1>19
  <2>2. ASSUME NEW k \in 1 .. n PROVE x[k] = rows[all - n + k]
    <3> DEFINE j == all - n + k
    <3>1. j \in 1 .. all /\ all - j < n /\ Len(x) - (all - j) = k
      BY <1>14, <2>1
    <3> HIDE DEF j
    <3>2. PICK a \in I \cap (1 .. L) : Rank(I, a) = j
      BY <1>17, <3>1
    <3>3. x[k] = r[a]
      BY <1>15, <3>1, <3>2
    <3>4. QED BY <1>13, <3>2, <3>3 DEF j
  <2>3. x = LastN(rows, n)
    BY <1>15, <1>16, <2>1, <2>2, SeqEqual
  <2>4. QED BY <1>7, <2>3 DEF x, rows, r, I
<1>20. QED BY <1>18, <1>19

\* The decoded suffix begins behind the last torn record, or later.
LEMMA DecodedSuffix ==
    ASSUME NEW s \in Seq(Record)
    PROVE  \E d \in 1 .. Len(s) + 1 :
              \A from \in 1 .. Len(s) + 1 :
                 Decoded(s, from) = SubSeq(s, IF from < d THEN d ELSE from, Len(s))
<1> DEFINE T == TornAt(s)
           L == Len(s)
           Last(from) == CHOOSE i \in {from - 1} \cup T : \A j \in T : j <= i
<1>1. L \in Nat /\ T \subseteq 1 .. L
  BY DEF TornAt
<1>2. \A from \in 1 .. L + 1 :
          Decoded(s, from) = SubSeq(s, IF Last(from) < from THEN from ELSE Last(from) + 1, L)
  BY DEF Decoded
<1>3. ASSUME NEW from \in 1 .. L + 1, \E i \in {from - 1} \cup T : \A j \in T : j <= i
      PROVE  Last(from) \in {from - 1} \cup T /\ \A j \in T : j <= Last(from)
  BY <1>3
<1> HIDE DEF T, L, Last
<1>4. CASE T = {}
  <2>1. ASSUME NEW from \in 1 .. L + 1
        PROVE  Decoded(s, from) = SubSeq(s, IF from < 1 THEN 1 ELSE from, L)
    <3>1. Last(from) = from - 1
      BY <1>3, <1>4
    <3>2. Last(from) < from /\ ~(from < 1)
      BY <1>1, <3>1
    <3>3. QED BY <1>2, <3>2
  <2>2. 1 \in 1 .. L + 1
    BY <1>1
  <2>3. QED BY <2>1, <2>2 DEF L
<1>5. CASE T # {}
  <2>1. PICK t \in T : \A j \in T : j <= t
    <3>1. T \subseteq 0 .. L
      BY <1>1
    <3>2. QED BY <1>1, <1>5, <3>1, GreatestExists
  <2>2. t \in 1 .. L /\ t + 1 \in 1 .. L + 1
    BY <1>1
  <2>3. ASSUME NEW from \in 1 .. L + 1
        PROVE  Decoded(s, from) = SubSeq(s, IF from < t + 1 THEN t + 1 ELSE from, L)
    <3>1. \E i \in {from - 1} \cup T : \A j \in T : j <= i
      BY <2>1
    <3>2. Last(from) \in {from - 1} \cup T /\ t <= Last(from)
      BY <1>3, <3>1
    <3>3. CASE from < t + 1
      <4>1. Last(from) # from - 1
        BY <2>2, <3>2, <3>3
      <4>2. Last(from) \in T /\ Last(from) <= t /\ Last(from) \in 1 .. L
        BY <1>1, <2>1, <3>2, <4>1
      <4>3. Last(from) = t /\ ~(t < from)
        BY <2>2, <3>2, <3>3, <4>2
      <4>4. QED BY <1>2, <3>3, <4>3
    <3>4. CASE ~(from < t + 1)
      <4>1. Last(from) = from - 1 \/ Last(from) <= t
        BY <2>1, <3>2
      <4>2. Last(from) = from - 1 \/ Last(from) \in 1 .. L
        BY <1>1, <3>2
      <4>3. Last(from) < from
        BY <2>2, <3>4, <4>1, <4>2
      <4>4. QED BY <1>2, <3>4, <4>3
    <3>5. QED BY <3>3, <3>4
  <2>4. QED BY <2>2, <2>3 DEF L
<1>6. QED BY <1>4, <1>5

\* A suffix shows the last rows.
LEMMA SuffixSeen ==
    ASSUME NEW s \in Seq(Record), NEW q, NEW b \in 1 .. Len(s) + 1
    PROVE  LET t     == SubSeq(s, b, Len(s))
               whole == Picked(RowsOf(s), Seen(s, q))
               part  == Picked(RowsOf(t), Seen(t, q))
               c     == Rank(Seen(s, q), b - 1)
           IN  /\ t \in Seq(Record)
               /\ whole \in Seq(View) /\ part \in Seq(View)
               /\ c \in 0 .. Len(whole)
               /\ Len(part) = Len(whole) - c
               /\ \A k \in 1 .. Len(part) : part[k] = whole[c + k]
<1> DEFINE t     == SubSeq(s, b, Len(s))
           whole == Picked(RowsOf(s), Seen(s, q))
           part  == Picked(RowsOf(t), Seen(t, q))
           L == Len(s)
           I == Seen(s, q)
           J == Seen(t, q)
           c == Rank(I, b - 1)
           m == L - b + 1
<1>1. L \in Nat /\ b - 1 \in Nat /\ b - 1 <= L /\ m \in Nat /\ b - 1 + m = L
  OBVIOUS
<1>2. t \in Seq(Record) /\ Len(t) = m /\ \A i \in 1 .. m : t[i] = s[b - 1 + i]
  <2>1. \A i \in b .. L : s[i] \in Record
    BY <1>1
  <2>2. /\ SubSeq(s, b, L) \in Seq(Record)
        /\ Len(SubSeq(s, b, L)) = IF b <= L THEN L - b + 1 ELSE 0
        /\ \A i \in 1 .. L - b + 1 : SubSeq(s, b, L)[i] = s[b + i - 1]
    <3> HIDE DEF L
    <3>1. b \in Int /\ L \in Int
      BY <1>1
    <3>2. QED BY <2>1, <3>1, SubSeqProperties
  <2>3. \A i \in 1 .. m : b + i - 1 = b - 1 + i
    BY <1>1
  <2>4. QED BY <1>1, <2>2, <2>3
<1> HIDE DEF t
<1>3. ASSUME NEW i \in 1 .. m
      PROVE  /\ i \in J <=> b - 1 + i \in I
             /\ b - 1 + i \in 1 .. L
             /\ RowsOf(t)[i] = RowsOf(s)[b - 1 + i]
  <2>1. b - 1 + i \in 1 .. L
    BY <1>1
  <2>2. DOMAIN s = 1 .. L /\ DOMAIN t = 1 .. m /\ t[i] = s[b - 1 + i]
    BY <1>2
  <2>3. RowsOf(t)[i] = RowOf(t[i]) /\ RowsOf(s)[b - 1 + i] = RowOf(s[b - 1 + i])
    BY <1>2, <2>1 DEF RowsOf
  <2>4. QED BY <2>1, <2>2, <2>3 DEF Seen, Kept
<1> DEFINE T == {i \in Nat : i <= m => Rank(J, i) = Rank(I, b - 1 + i) - c}
<1> HIDE DEF I, J, m, L
<1>4. c \in Nat
  BY <1>1, RankStep
<1>5. 0 \in T
  <2>1. b - 1 + 0 = b - 1 /\ Rank(J, 0) = 0
    BY RankStep
  <2>2. QED BY <1>4, <2>1
<1>6. ASSUME NEW i \in Nat, i \in T PROVE i + 1 \in T
  <2> SUFFICES ASSUME i + 1 <= m PROVE Rank(J, i + 1) = Rank(I, b - 1 + (i + 1)) - c
    OBVIOUS
  <2> DEFINE p == b - 1 + i
  <2>1. Rank(J, i) = Rank(I, p) - c
    BY <1>1, <1>6
  <2>2. p \in Nat /\ b - 1 + (i + 1) = p + 1 /\ i + 1 \in 1 .. m
    BY <1>1
  <2> HIDE DEF p
  <2>3. i + 1 \in J <=> p + 1 \in I
    BY <1>3, <2>2
  <2>4. /\ Rank(J, i + 1) = IF i + 1 \in J THEN Rank(J, i) + 1 ELSE Rank(J, i)
        /\ Rank(I, p + 1) = IF p + 1 \in I THEN Rank(I, p) + 1 ELSE Rank(I, p)
        /\ Rank(I, p) \in Nat
    BY <2>2, RankStep
  <2> HIDE DEF c
  <2>5. Rank(J, i + 1) = Rank(I, p + 1) - c
    BY <1>4, <2>1, <2>3, <2>4
  <2>6. QED BY <2>2, <2>5
<1>7. \A i \in 0 .. m : Rank(J, i) = Rank(I, b - 1 + i) - c
  <2>1. Nat \subseteq T
    <3> HIDE DEF T
    <3>1. QED BY <1>5, <1>6, NatSetInduction
  <2>2. \A i \in 0 .. m : i \in Nat /\ i <= m
    BY <1>1
  <2>3. QED BY <2>1, <2>2
<1> HIDE DEF T
<1>8. /\ whole \in Seq(View) /\ Len(whole) = Rank(I, L)
      /\ \A a \in I \cap (1 .. L) : whole[Rank(I, a)] = RowsOf(s)[a]
  <2> DEFINE r == RowsOf(s)
  <2>1. r \in Seq(View) /\ Len(r) = L
    BY RowsOfRecords DEF L
  <2> HIDE DEF r
  <2>2. /\ Picked(r, I) \in Seq(View) /\ Len(Picked(r, I)) = Rank(I, L)
        /\ \A a \in I \cap (1 .. L) : Picked(r, I)[Rank(I, a)] = r[a]
    BY <2>1, PickedRanks
  <2>3. QED BY <2>2 DEF r, I
<1>9. /\ part \in Seq(View) /\ Len(part) = Rank(J, m)
      /\ \A a \in J \cap (1 .. m) : part[Rank(J, a)] = RowsOf(t)[a]
  <2> DEFINE r == RowsOf(t)
  <2>1. r \in Seq(View) /\ Len(r) = m
    BY <1>2, RowsOfRecords
  <2> HIDE DEF r
  <2>2. /\ Picked(r, J) \in Seq(View) /\ Len(Picked(r, J)) = Rank(J, m)
        /\ \A a \in J \cap (1 .. m) : Picked(r, J)[Rank(J, a)] = r[a]
    BY <2>1, PickedRanks
  <2>3. QED BY <2>2 DEF r, J
<1> HIDE DEF whole, part
<1>10. Len(part) = Len(whole) - c
  <2>1. m \in 0 .. m
    BY <1>1
  <2>2. QED BY <1>1, <1>7, <1>8, <1>9, <2>1
<1>11. c \in 0 .. Len(whole)
  <2>1. c <= Rank(I, L) /\ Rank(I, L) \in Nat
    BY <1>1, RankGrows, RankStep
  <2>2. QED BY <1>4, <1>8, <2>1
<1>12. ASSUME NEW k \in 1 .. Len(part) PROVE part[k] = whole[c + k]
  <2>1. PICK a \in J \cap (1 .. m) : Rank(J, a) = k
    BY <1>1, <1>9, RankHits
  <2>2. part[k] = RowsOf(s)[b - 1 + a]
    BY <1>3, <1>9, <2>1
  <2>3. b - 1 + a \in I \cap (1 .. L)
    BY <1>3, <2>1
  <2>4. Rank(I, b - 1 + a) = c + k
    <3>1. Rank(J, a) = Rank(I, b - 1 + a) - c
      BY <1>1, <1>7, <2>1
    <3>2. Rank(I, b - 1 + a) \in Nat /\ k \in Int
      BY <2>3, RankStep
    <3>3. QED BY <1>4, <2>1, <3>1, <3>2
  <2>5. QED BY <1>8, <2>2, <2>3, <2>4
<1>13. QED BY <1>2, <1>8, <1>9, <1>10, <1>11, <1>12 DEF whole, part, c, I, t

LEMMA LastOfLonger ==
    ASSUME NEW S, NEW rows \in Seq(S), NEW n \in Nat \ {0}, n <= Len(rows)
    PROVE  /\ LastN(rows, n) \in Seq(S) /\ Len(LastN(rows, n)) = n
           /\ \A k \in 1 .. n : LastN(rows, n)[k] = rows[Len(rows) - n + k]
<1>1. n \in Nat /\ n # 0
  OBVIOUS
<1>2. QED BY <1>1, LastNIs

LEMMA LastOfSuffix ==
    ASSUME NEW S, NEW whole \in Seq(S), NEW part \in Seq(S), NEW c \in 0 .. Len(whole),
           Len(part) = Len(whole) - c, \A k \in 1 .. Len(part) : part[k] = whole[c + k],
           NEW n \in Nat \ {0}, n <= Len(part)
    PROVE  LastN(part, n) = LastN(whole, n)
<1> DEFINE x == LastN(part, n)
           y == LastN(whole, n)
<1>1. n \in Nat /\ n # 0 /\ n <= Len(whole) /\ Len(whole) \in Nat /\ Len(part) \in Nat
  OBVIOUS
<1>2. /\ x \in Seq(S) /\ Len(x) = n
      /\ \A k \in 1 .. n : x[k] = part[Len(part) - n + k]
  BY <1>1, LastOfLonger
<1>3. /\ y \in Seq(S) /\ Len(y) = n
      /\ \A k \in 1 .. n : y[k] = whole[Len(whole) - n + k]
  BY <1>1, LastOfLonger
<1>4. ASSUME NEW k \in 1 .. n PROVE part[Len(part) - n + k] = whole[Len(whole) - n + k]
  <2> DEFINE j == Len(part) - n + k
  <2>1. j \in 1 .. Len(part) /\ c + j = Len(whole) - n + k
    BY <1>1
  <2> HIDE DEF j
  <2>2. part[j] = whole[c + j]
    BY <2>1
  <2>3. QED BY <2>1, <2>2 DEF j
<1> HIDE DEF x, y
<1>5. x = y
  BY <1>2, <1>3, <1>4, SeqEqual
<1>6. QED BY <1>5 DEF x, y

\* What the scan should find: the last rows of the readable rest.
LEMMA ScanTarget ==
    ASSUME NEW t \in Seq(Record), NEW q, NEW n \in Nat \ {0}
    PROVE  LastN(CollectFilteredEventsStreaming(t, 0, q), n) = ScanBack(t, n, q)
<1>1. CollectFilteredEventsStreaming(t, 0, q) = LastN(Matching(StartRows(t), q), 0)
  <2>1. 0 \in Nat
    OBVIOUS
  <2>2. QED BY <2>1, StreamCollects
<1>2. CollectFilteredEventsStreaming(t, 0, q) = Picked(RowsOf(t), Seen(t, q))
  BY <1>1, LastOfAll, StartsShown
<1>3. QED BY <1>2, ScanShows

\* A scan of fewer records that finds enough finds the same.
LEMMA LaterScan ==
    ASSUME NEW s \in Seq(Record), NEW q, NEW n \in Nat \ {0},
           NEW d \in 1 .. Len(s) + 1, NEW b \in 1 .. Len(s) + 1, d <= b,
           Len(ScanBack(SubSeq(s, b, Len(s)), n, q)) >= n
    PROVE  ScanBack(SubSeq(s, b, Len(s)), n, q) = ScanBack(SubSeq(s, d, Len(s)), n, q)
<1> DEFINE Rest(e) == SubSeq(s, e, Len(s))
           Rows(e) == Picked(RowsOf(Rest(e)), Seen(Rest(e), q))
           Count(e) == Rank(Seen(s, q), e - 1)
           whole == Picked(RowsOf(s), Seen(s, q))
<1>0. \A e \in 1 .. Len(s) + 1 :
         /\ Rest(e) \in Seq(Record) /\ whole \in Seq(View) /\ Rows(e) \in Seq(View)
         /\ Count(e) \in 0 .. Len(whole) /\ Len(Rows(e)) = Len(whole) - Count(e)
         /\ \A k \in 1 .. Len(Rows(e)) : Rows(e)[k] = whole[Count(e) + k]
  BY SuffixSeen
<1> DEFINE t == SubSeq(s, b, Len(s))
           late == Picked(RowsOf(t), Seen(t, q))
           cl == Rank(Seen(s, q), b - 1)
<1>1. /\ t \in Seq(Record) /\ whole \in Seq(View) /\ late \in Seq(View)
      /\ cl \in 0 .. Len(whole) /\ Len(late) = Len(whole) - cl
      /\ \A k \in 1 .. Len(late) : late[k] = whole[cl + k]
  BY <1>0
<1> DEFINE u == SubSeq(s, d, Len(s))
           early == Picked(RowsOf(u), Seen(u, q))
           ce == Rank(Seen(s, q), d - 1)
<1>2. /\ u \in Seq(Record) /\ early \in Seq(View)
      /\ ce \in 0 .. Len(whole) /\ Len(early) = Len(whole) - ce
      /\ \A k \in 1 .. Len(early) : early[k] = whole[ce + k]
  BY <1>0
<1>3. ce <= cl
  <2>1. d - 1 \in Nat /\ b - 1 \in Nat /\ d - 1 <= b - 1
    OBVIOUS
  <2>2. QED BY <2>1, RankGrows
<1> HIDE DEF t, u
<1>4. ScanBack(t, n, q) = LastN(late, n) /\ ScanBack(u, n, q) = LastN(early, n)
  BY <1>1, <1>2, ScanShows
<1>5. Len(LastN(late, n)) >= n
  BY <1>4 DEF t
<1> HIDE DEF whole, late, early, cl, ce
<1>6. n <= Len(late) /\ n <= Len(early)
  <2>1. Len(whole) \in Nat /\ Len(late) \in Nat /\ n \in Nat
    BY <1>1
  <2>2. n >= Len(late) => LastN(late, n) = late
    BY <1>1, <2>1, LastNIs
  <2>3. n <= Len(late)
    BY <1>5, <2>1, <2>2
  <2>4. QED BY <1>1, <1>2, <1>3, <2>1, <2>3
<1>7. LastN(late, n) = LastN(whole, n)
  BY <1>1, <1>6, LastOfSuffix
<1>8. LastN(early, n) = LastN(whole, n)
  BY <1>1, <1>2, <1>6, LastOfSuffix
<1>9. QED BY <1>4, <1>7, <1>8 DEF t, u

LEMMA TailShows ==
    ASSUME JoinAssumption, NEW s \in Seq(Record), NEW q, NEW n \in Nat \ {0}
    PROVE  \A i \in DOMAIN CollectTail(s, n, q) :
              CollectTail(s, n, q)[i] =
                  LastN(CollectFilteredEventsStreaming(Decoded(s, 1), 0, q), n)
<1> DEFINE size == Len(s)
           Found(w) == /\ Decoded(s, size - w + 1) # <<>>
                       /\ \/ Len(ScanBack(Decoded(s, size - w + 1), n, q)) >= n
                          \/ w = size
           Rows(w) == ScanBack(Decoded(s, size - w + 1), n, q)
           Wider(w) == IF w = 0 THEN 1 ELSE IF 2 * w > size THEN size ELSE 2 * w
           Body(f, w) == IF Found(w) THEN <<Rows(w)>>
                         ELSE IF w = size \/ w >= MaxWindow THEN <<>>
                         ELSE f[Wider(w)]
           IsIt(f) == f = [w \in 0 .. size |->
                LET part == Decoded(s, size - w + 1)
                    rows == ScanBack(part, n, q)
                IN  IF part # <<>> /\ (Len(rows) >= n \/ w = size) THEN <<rows>>
                    ELSE IF w = size \/ w >= MaxWindow THEN <<>>
                    ELSE f[IF w = 0 THEN 1 ELSE IF 2 * w > size THEN size ELSE 2 * w]]
           try == CHOOSE f : IsIt(f)
           first == IF InitialWindow > size THEN size ELSE InitialWindow
           target == ScanBack(Decoded(s, 1), n, q)
<1>1. size \in Nat
  OBVIOUS
<1>2. PICK d \in 1 .. size + 1 :
        \A from \in 1 .. size + 1 :
           Decoded(s, from) = SubSeq(s, IF from < d THEN d ELSE from, size)
  BY DecodedSuffix
<1>3. Decoded(s, 1) = SubSeq(s, d, size)
  <2>1. 1 \in 1 .. size + 1 /\ (IF 1 < d THEN d ELSE 1) = d
    BY <1>1
  <2>2. QED BY <1>2, <2>1
<1>4. SubSeq(s, d, size) \in Seq(Record)
  BY SuffixSeen
<1>5. LastN(CollectFilteredEventsStreaming(Decoded(s, 1), 0, q), n) = target
  BY <1>3, <1>4, ScanTarget
<1>6. CASE size = 0
  <2>1. CollectTail(s, n, q) = <<(<<>>)>>
    BY <1>6 DEF CollectTail
  <2>2. target = <<>>
    <3> DEFINE t == SubSeq(s, d, size)
               rows == Picked(RowsOf(t), Seen(t, q))
    <3>1. t \in Seq(Record) /\ Len(t) = 0
      <4>1. d = 1 /\ s = <<>>
        BY <1>6
      <4>2. QED BY <1>4, <1>6, <4>1
    <3> HIDE DEF t
    <3>2. RowsOf(t) \in Seq(View) /\ Len(RowsOf(t)) = 0
      BY <3>1, RowsOfRecords
    <3>3. rows \in Seq(View) /\ Len(rows) = 0
      <4> DEFINE r == RowsOf(t)
                 I == Seen(t, q)
      <4> HIDE DEF r, I
      <4>1. Picked(r, I) \in Seq(View) /\ Len(Picked(r, I)) = Rank(I, 0)
        BY <3>2, PickedRanks DEF r
      <4>2. Rank(I, 0) = 0
        BY <1>1, RankStep
      <4>3. QED BY <4>1, <4>2 DEF r, I
    <3>4. target = LastN(rows, n)
      BY <1>3, <3>1, ScanShows DEF t
    <3> HIDE DEF rows
    <3>5. LastN(rows, n) = rows /\ rows = <<>>
      BY <3>3 DEF LastN
    <3>6. QED BY <3>4, <3>5
  <2> HIDE DEF target
  <2>3. \A i \in DOMAIN CollectTail(s, n, q) : CollectTail(s, n, q)[i] = target
    BY <2>1, <2>2
  <2>4. QED BY <1>5, <2>3
<1>7. CASE size # 0
  <2>1. ASSUME NEW w \in 0 .. size, Found(w) PROVE Rows(w) = target
    <3> DEFINE from == size - w + 1
               b == IF from < d THEN d ELSE from
    <3>1. from \in 1 .. size + 1 /\ b \in 1 .. size + 1 /\ d <= b /\ (w = size => b = d)
      BY <1>1
    <3> HIDE DEF from, b
    <3>2. Decoded(s, from) = SubSeq(s, b, size)
      BY <1>2, <3>1 DEF b
    <3>3. CASE w = size
      BY <1>3, <3>1, <3>2, <3>3 DEF from
    <3>4. CASE w # size
      <4>1. Len(ScanBack(SubSeq(s, b, size), n, q)) >= n
        BY <2>1, <3>2, <3>4 DEF from
      <4>2. ScanBack(SubSeq(s, b, size), n, q) = ScanBack(SubSeq(s, d, size), n, q)
        BY <3>1, <4>1, LaterScan
      <4>3. QED BY <1>3, <3>2, <4>2 DEF from
    <3>5. QED BY <3>3, <3>4
  <2>2. ASSUME NEW w \in 0 .. size, w # size PROVE Wider(w) \in w + 1 .. size
    BY <1>1, <1>7, <2>2
  <2> DEFINE Upto(k, f) == \A w \in size - k .. size : f[w] = Body(f, w)
             T == {k \in Nat : k <= size => \E f : Upto(k, f)}
  <2> HIDE DEF Found, Rows, Wider
  <2>3. 0 \in T
    <3> DEFINE f == [w \in {size} |-> IF Found(w) THEN <<Rows(w)>> ELSE <<>>]
    <3>1. \A w \in size - 0 .. size : w = size
      BY <1>1
    <3>2. f[size] = Body(f, size)
      OBVIOUS
    <3> HIDE DEF f, Body
    <3>3. Upto(0, f)
      BY <3>1, <3>2
    <3>4. QED BY <3>3
  <2>4. ASSUME NEW k \in Nat, k \in T PROVE k + 1 \in T
    <3> SUFFICES ASSUME k + 1 <= size PROVE \E f : Upto(k + 1, f)
      OBVIOUS
    <3>1. PICK f : Upto(k, f)
      <4>1. k <= size
        BY <1>1
      <4> HIDE DEF Upto
      <4>2. QED BY <2>4, <4>1
    <3> DEFINE new == size - (k + 1)
               g == [w \in new .. size |-> IF w = new THEN Body(f, w) ELSE f[w]]
    <3>2. new \in 0 .. size /\ new # size /\ size - k = new + 1
      BY <1>1
    <3> HIDE DEF new
    <3>3. \A w \in new + 1 .. size : g[w] = f[w]
      BY <1>1, <3>2
    <3>4. g[new] = Body(f, new)
      BY <1>1, <3>2
    <3> HIDE DEF g
    <3>5. ASSUME NEW w \in new .. size PROVE Body(g, w) = Body(f, w)
      <4>1. CASE w = size
        BY <4>1
      <4>2. CASE w # size
        <5>1. w \in 0 .. size
          BY <1>1, <3>2
        <5>2. Wider(w) \in w + 1 .. size
          BY <2>2, <4>2, <5>1
        <5>3. Wider(w) \in new + 1 .. size
          BY <1>1, <3>2, <5>1, <5>2
        <5>4. g[Wider(w)] = f[Wider(w)]
          BY <3>3, <5>3
        <5>5. QED BY <5>4
      <4>3. QED BY <4>1, <4>2
    <3>6. ASSUME NEW w \in new .. size PROVE g[w] = Body(g, w)
      <4> HIDE DEF Body
      <4>1. CASE w = new
        BY <3>4, <3>5, <4>1
      <4>2. CASE w # new
        <5>1. w \in new + 1 .. size
          BY <1>1, <3>2, <4>2
        <5>2. f[w] = Body(f, w)
          BY <3>1, <3>2, <5>1
        <5>3. QED BY <3>3, <3>5, <5>1, <5>2
      <4>3. QED BY <4>1, <4>2
    <3>7. Upto(k + 1, g)
      BY <3>6 DEF new
    <3> HIDE DEF Upto
    <3>8. QED BY <3>7
  <2>5. size \in T
    <3> HIDE DEF T
    <3>1. QED BY <1>1, <2>3, <2>4, NatSetInduction
  <2>6. PICK f : Upto(size, f)
    <3>1. size <= size => \E f : Upto(size, f)
      <4> HIDE DEF Upto
      <4>1. QED BY <2>5
    <3> HIDE DEF Upto
    <3>2. QED BY <1>1, <3>1
  <2> DEFINE h == [w \in 0 .. size |-> f[w]]
  <2>7. ASSUME NEW w \in 0 .. size PROVE h[w] = Body(h, w)
    <3>1. f[w] = Body(f, w)
      <4>1. w \in size - size .. size
        BY <1>1
      <4>2. QED BY <2>6, <4>1
    <3>2. CASE w = size
      BY <3>1, <3>2
    <3>3. CASE w # size
      <4>1. Wider(w) \in w + 1 .. size
        BY <2>2, <3>3
      <4>2. Wider(w) \in 0 .. size
        BY <1>1, <4>1
      <4>3. h[Wider(w)] = f[Wider(w)]
        BY <4>2
      <4>4. QED BY <3>1, <4>3
    <3>4. QED BY <3>2, <3>3
  <2>8. IsIt(h)
    <3>1. h = [w \in 0 .. size |-> h[w]]
      OBVIOUS
    <3> HIDE DEF h
    <3>2. h = [w \in 0 .. size |-> Body(h, w)]
      <4> HIDE DEF Body
      <4>1. QED BY <2>7, <3>1
    <3>3. QED BY <3>2 DEF Found, Rows, Wider
  <2>9. IsIt(try)
    <3> HIDE DEF IsIt
    <3>1. QED BY <2>8
  <2>10. CollectTail(s, n, q) = try[first]
    BY <1>7 DEF CollectTail
  <2>11. ASSUME NEW w \in 0 .. size PROVE try[w] = Body(try, w)
    <3> HIDE DEF try
    <3>1. try = [v \in 0 .. size |-> Body(try, v)]
      BY <2>9 DEF Found, Rows, Wider
    <3> HIDE DEF Body
    <3>2. QED BY <3>1
  <2> HIDE DEF try
  <2> DEFINE Good(w) == \A i \in DOMAIN try[w] : try[w][i] = target
             G == {k \in Nat : \A w \in 0 .. size : size - k <= w => Good(w)}
  <2>12. ASSUME NEW w \in 0 .. size, w # size => Good(Wider(w)) PROVE Good(w)
    <3> HIDE DEF target
    <3>1. CASE Found(w)
      <4>1. try[w] = <<target>>
        BY <2>1, <2>11, <3>1 DEF Found, Rows
      <4>2. QED BY <4>1
    <3>2. CASE ~Found(w) /\ (w = size \/ w >= MaxWindow)
      <4>1. try[w] = <<>>
        BY <2>11, <3>2
      <4>2. QED BY <4>1
    <3>3. CASE ~Found(w) /\ ~(w = size \/ w >= MaxWindow)
      <4>1. try[w] = try[Wider(w)]
        BY <2>11, <3>3
      <4>2. QED BY <2>12, <3>3, <4>1
    <3>4. QED BY <3>1, <3>2, <3>3
  <2> HIDE DEF Good, target
  <2>13. 0 \in G
    <3>1. \A w \in 0 .. size : size - 0 <= w => w = size
      BY <1>1
    <3>2. Good(size)
      <4>1. size \in 0 .. size
        BY <1>1
      <4>2. QED BY <2>12, <4>1
    <3>3. QED BY <3>1, <3>2
  <2>14. ASSUME NEW k \in Nat, k \in G PROVE k + 1 \in G
    <3> SUFFICES ASSUME NEW w \in 0 .. size, size - (k + 1) <= w PROVE Good(w)
      OBVIOUS
    <3>1. CASE w = size
      BY <2>12, <3>1
    <3>2. CASE w # size
      <4>1. Wider(w) \in w + 1 .. size
        BY <2>2, <3>2
      <4>2. Wider(w) \in 0 .. size /\ size - k <= Wider(w)
        BY <1>1, <4>1
      <4>3. Good(Wider(w))
        BY <2>14, <4>2
      <4>4. QED BY <2>12, <4>3
    <3>3. QED BY <3>1, <3>2
  <2>15. Nat \subseteq G
    <3> HIDE DEF G
    <3>1. QED BY <2>13, <2>14, NatSetInduction
  <2>16. first \in 0 .. size /\ size - size <= first
    BY <1>1 DEF JoinAssumption
  <2>17. Good(first)
    <3> HIDE DEF first
    <3>1. QED BY <1>1, <2>15, <2>16
  <2> HIDE DEF first
  <2>18. \A i \in DOMAIN CollectTail(s, n, q) : CollectTail(s, n, q)[i] = target
    BY <2>10, <2>17 DEF Good
  <2>19. QED BY <1>5, <2>18
<1>8. QED BY <1>6, <1>7

\* A window shows the last of all rows, read forwards or backwards.
LEMMA WindowsAgree ==
    ASSUME JoinAssumption, LogInv
    PROVE  LastRowsAgree
<1> SUFFICES ASSUME NEW n \in Limits, NEW q \in Queries
             PROVE  /\ CollectFilteredEvents(log, n, q, <<>>).rows =
                           LastN(CollectFilteredEvents(log, 0, q, <<>>).rows, n)
                    /\ n > 0 =>
                           \A i \in DOMAIN CollectTail(log, n, q) :
                               CollectTail(log, n, q)[i] =
                                   LastN(CollectFilteredEventsStreaming(Decoded(log, 1), 0, q), n)
  BY DEF LastRowsAgree
<1>1. log \in Seq(Record) /\ n \in Nat /\ 0 \in Nat
  BY DEF LogInv, JoinAssumption
<1>2. q.ends \in BOOLEAN
  BY DEF JoinAssumption
<1>3. CollectFilteredEvents(log, n, q, <<>>).rows = LastN(Collected(log, q), n)
  BY <1>1, <1>2, Collects
<1>4. CollectFilteredEvents(log, 0, q, <<>>).rows = Collected(log, q)
  <2>1. CollectFilteredEvents(log, 0, q, <<>>).rows = LastN(Collected(log, q), 0)
    BY <1>1, <1>2, Collects
  <2>2. QED BY <2>1, LastOfAll
<1>5. ASSUME n > 0
      PROVE  \A i \in DOMAIN CollectTail(log, n, q) :
                CollectTail(log, n, q)[i] =
                    LastN(CollectFilteredEventsStreaming(Decoded(log, 1), 0, q), n)
  <2>1. n \in Nat \ {0}
    BY <1>1, <1>5
  <2>2. QED BY <1>1, <2>1, TailShows
<1>6. QED BY <1>3, <1>4, <1>5

\* The views of a log agree with each other: the ring of eventWindow and the
\* backward scan of collectTailEventsFromCompressedLog show the last rows of
\* the full list, whatever the windows, and a query that asks for no ends shows
\* the rows of one that does.
THEOREM ViewsDoAgree == Spec => []ViewsAgree
<1>1. LogInv => ViewsAgree
  BY WindowsAgree, CommandsAgree, JoinAssumption DEF ViewsAgree
<1>2. Init => LogInv
  BY LogInit, JoinAssumption
<1>3. LogInv /\ [Next]_vars => LogInv'
  BY LogStep, JoinAssumption
<1>4. QED BY <1>1, <1>2, <1>3, PTL DEF Spec
=============================================================================
