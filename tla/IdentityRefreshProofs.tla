------------------------ MODULE IdentityRefreshProofs ------------------------
(***************************************************************************)
(* For every set of names and ids, every number of changes and of errors:  *)
(* cached names are never older than the ids the guards compare with,      *)
(* published ids were true, and the identity map is closed only when       *)
(* nobody uses it.                                                         *)
(***************************************************************************)
EXTENDS IdentityRefresh, SequenceTheorems, TLAPS

Resolved == {"clear names", "clear homes", "compare", "update"}

Lookups == {NoLookup} \cup [cache : Caches, live : BOOLEAN, version : Nat]

RefreshTypes ==
    /\ versions \in Seq(Databases)
    /\ Version \in Nat \ {0}
    /\ since \in 1 .. Version
    /\ until \in 1 .. Version
    /\ published.until \in 0 .. Version
    /\ cached \in [Caches -> Nat]
    /\ lookup \in Lookups

\* What is in a cache, or will be stored in it, is not older than a version.
NotOlder(c, version) ==
    /\ cached[c] # NoVersion => cached[c] >= version
    /\ lookup.cache = c /\ lookup.live /\ lookup.version # NoVersion => lookup.version >= version

\* A cache that this pass has cleared holds nothing older than the pass.
ClearedCaches ==
    /\ \A c \in Caches : NotOlder(c, published.until)
    /\ step \in Resolved \ {"clear names"} => NotOlder("names", until)
    /\ step \in {"compare", "update"} => NotOlder("homes", until)

\* What this pass has resolved was so while it ran.
TrueAnswers ==
    step \in Resolved \cup {"resolve"} =>
        \A n \in DOMAIN values :
            \E v \in since .. until : v \in 1 .. Version /\ values[n] = versions[v][n]

Complete == step \in Resolved => DOMAIN values = Names

PublishedTrue ==
    \/ published = Nothing
    \/ \A n \in Names : \E v \in published.since .. published.until :
           v \in 1 .. Version /\ published.ids[n] = versions[v][n]

RefreshInv ==
    /\ RefreshTypes /\ ClearedCaches /\ TrueAnswers /\ Complete /\ PublishedTrue
    /\ MapOpenWhileUsed

\* AccountsChange keeps the databases there were.
LEMMA VersionsGrow ==
    ASSUME RefreshTypes, AccountsChange
    PROVE  /\ versions' \in Seq(Databases)
           /\ Version' = Version + 1
           /\ \A v \in 1 .. Version : versions'[v] = versions[v]
<1>1. PICK d \in Databases : versions' = Append(versions, d)
  BY DEF AccountsChange
<1>2. versions \in Seq(Databases)
  BY DEF RefreshTypes
<1>3. QED BY <1>1, <1>2, AppendProperties DEF Version

\* A new generation is empty, and no lookup under way can fill it.
LEMMA ClearEmpties ==
    ASSUME RefreshTypes, NEW c \in Caches, Clear(c)
    PROVE  /\ cached' \in [Caches -> Nat] /\ lookup' \in Lookups
           /\ cached'[c] = NoVersion
           /\ \A d \in Caches \ {c} : cached'[d] = cached[d]
           /\ lookup'.cache = lookup.cache /\ lookup'.version = lookup.version
           /\ lookup'.live = (lookup.live /\ lookup.cache # c)
<1>1. cached' = [cached EXCEPT ![c] = NoVersion] /\ cached \in [Caches -> Nat]
  BY DEF Clear, RefreshTypes
<1>2. CASE lookup = NoLookup
  <2>1. lookup' = lookup
    BY <1>2 DEF Clear, NoLookup, Caches
  <2>2. QED BY <1>1, <1>2, <2>1 DEF NoLookup, NoVersion, Lookups, Caches
<1>3. CASE lookup \in [cache : Caches, live : BOOLEAN, version : Nat]
  <2>1. lookup' \in [cache : Caches, live : BOOLEAN, version : Nat]
    BY <1>3 DEF Clear
  <2>2. /\ lookup'.cache = lookup.cache /\ lookup'.version = lookup.version
        /\ lookup'.live = (lookup.live /\ lookup.cache # c)
    BY <1>3 DEF Clear
  <2>3. QED BY <1>1, <2>1, <2>2 DEF NoVersion, Lookups
<1>4. QED BY <1>2, <1>3 DEF RefreshTypes, Lookups

\* New databases leave the answers true.
LEMMA AccountsChangeInv ==
    ASSUME RefreshInv, AccountsChange
    PROVE  RefreshInv'
<1>1. RefreshTypes'
  BY VersionsGrow DEF RefreshInv, RefreshTypes, AccountsChange, refresher
<1>2. ClearedCaches'
  BY DEF RefreshInv, RefreshTypes, ClearedCaches, NotOlder, Resolved, Caches, NoVersion,
     AccountsChange, refresher
<1>3. TrueAnswers'
  <2>1. \A v \in 1 .. Version : v \in 1 .. Version' /\ versions'[v] = versions[v]
    BY VersionsGrow DEF RefreshInv, RefreshTypes
  <2>2. QED BY <2>1 DEF RefreshInv, TrueAnswers, AccountsChange, refresher
<1>4. Complete'
  BY DEF RefreshInv, Complete, Resolved, AccountsChange, refresher
<1>5. PublishedTrue'
  <2>1. \A v \in 1 .. Version : v \in 1 .. Version' /\ versions'[v] = versions[v]
    BY VersionsGrow DEF RefreshInv, RefreshTypes
  <2>2. QED BY <2>1 DEF RefreshInv, PublishedTrue, AccountsChange, refresher
<1>6. MapOpenWhileUsed'
  BY DEF RefreshInv, MapOpenWhileUsed, PassEnds, AccountsChange, refresher
<1>7. QED BY <1>1, <1>2, <1>3, <1>4, <1>5, <1>6 DEF RefreshInv

\* A pass begins with nothing resolved.
LEMMA TickInv ==
    ASSUME RefreshInv, Tick
    PROVE  RefreshInv'
<1>0. versions' = versions /\ Version' = Version
  BY DEF Tick, Version
<1>1. RefreshTypes'
  BY <1>0 DEF RefreshInv, RefreshTypes, Tick
<1>2. ClearedCaches'
  BY <1>0 DEF RefreshInv, RefreshTypes, ClearedCaches, NotOlder, Resolved, Caches, NoVersion,
     Tick
<1>3. TrueAnswers'
  BY <1>0 DEF RefreshInv, RefreshTypes, TrueAnswers, Resolved, Tick
<1>4. Complete'
  BY <1>0 DEF RefreshInv, Complete, Resolved, Tick
<1>5. PublishedTrue'
  BY <1>0 DEF RefreshInv, RefreshTypes, PublishedTrue, Nothing, Tick
<1>6. MapOpenWhileUsed'
  BY <1>0 DEF RefreshInv, MapOpenWhileUsed, PassEnds, Tick
<1>7. QED BY <1>1, <1>2, <1>3, <1>4, <1>5, <1>6 DEF RefreshInv

\* An answer is the current database's.
LEMMA ResolveInv ==
    ASSUME RefreshInv, NEW n \in Names, Resolve(n)
    PROVE  RefreshInv'
<1>0. versions' = versions /\ Version' = Version
  BY DEF Resolve, Version
<1>1. RefreshTypes'
  <2>1. until' = Version /\ UNCHANGED <<since, published, cached, lookup>>
    BY DEF Resolve
  <2>2. QED BY <1>0, <2>1 DEF RefreshInv, RefreshTypes
<1>2. ClearedCaches'
  BY <1>0 DEF RefreshInv, RefreshTypes, ClearedCaches, NotOlder, Resolved, Caches, NoVersion,
     Resolve
<1>3. TrueAnswers'
  <2>1. /\ Version \in Nat \ {0} /\ since \in 1 .. Version /\ until \in 1 .. Version
        /\ until' = Version /\ since' = since /\ step = "resolve"
        /\ UNCHANGED <<published, cached, lookup>>
    BY DEF RefreshInv, RefreshTypes, Resolve
  <2>2. /\ n \in DOMAIN values' /\ values'[n] = versions[Version][n]
        /\ \A m \in DOMAIN values' \ {n} : m \in DOMAIN values /\ values'[m] = values[m]
    <3>1. values' = [m \in DOMAIN values \cup {n} |->
                       IF m = n THEN versions[Version][n] ELSE values[m]]
      BY DEF Resolve, Database
    <3>2. QED BY <3>1
  <2>3. \A m \in DOMAIN values : \E v \in since .. until : v \in 1 .. Version /\ values[m] = versions[v][m]
    BY <2>1 DEF RefreshInv, TrueAnswers
  <2>4. ASSUME NEW m \in DOMAIN values'
        PROVE  \E v \in since .. Version : v \in 1 .. Version /\ values'[m] = versions[v][m]
    <3>1. CASE m = n
      <4>1. Version \in since .. Version /\ Version \in 1 .. Version
        BY <2>1
      <4>2. QED BY <2>2, <3>1, <4>1
    <3>2. CASE m # n
      <4>1. m \in DOMAIN values /\ values'[m] = values[m]
        BY <2>2, <3>2
      <4>2. PICK v \in since .. until : v \in 1 .. Version /\ values[m] = versions[v][m]
        BY <2>3, <4>1
      <4>3. v \in since .. Version
        BY <2>1
      <4>4. QED BY <4>1, <4>2, <4>3
    <3>3. QED BY <3>1, <3>2
  <2>5. QED BY <1>0, <2>1, <2>4 DEF TrueAnswers
<1>4. Complete'
  BY <1>0 DEF RefreshInv, Complete, Resolved, Resolve
<1>5. PublishedTrue'
  BY <1>0 DEF RefreshInv, RefreshTypes, PublishedTrue, Nothing, Resolve
<1>6. MapOpenWhileUsed'
  BY <1>0 DEF RefreshInv, MapOpenWhileUsed, PassEnds, Resolve
<1>7. QED BY <1>1, <1>2, <1>3, <1>4, <1>5, <1>6 DEF RefreshInv

\* The cache of names holds nothing older than this pass.
LEMMA ClearNamesInv ==
    ASSUME RefreshInv, ClearNames
    PROVE  RefreshInv'
<1>0. versions' = versions /\ Version' = Version
  BY DEF ClearNames, Version
<1>1. RefreshTypes'
  BY <1>0, ClearEmpties DEF RefreshInv, RefreshTypes, ClearNames, Caches
<1>2. ClearedCaches'
  BY <1>0, ClearEmpties DEF RefreshInv, ClearedCaches, NotOlder, ClearNames, Caches,
     NoVersion, Resolved
<1>3. TrueAnswers'
  BY <1>0 DEF RefreshInv, RefreshTypes, TrueAnswers, Resolved, ClearNames
<1>4. Complete'
  BY <1>0 DEF RefreshInv, Complete, Resolved, ClearNames
<1>5. PublishedTrue'
  BY <1>0 DEF RefreshInv, RefreshTypes, PublishedTrue, Nothing, ClearNames
<1>6. MapOpenWhileUsed'
  BY <1>0 DEF RefreshInv, MapOpenWhileUsed, ClearNames
<1>7. QED BY <1>1, <1>2, <1>3, <1>4, <1>5, <1>6 DEF RefreshInv

\* The cache of homes holds nothing older than this pass.
LEMMA ClearHomesInv ==
    ASSUME RefreshInv, ClearHomes
    PROVE  RefreshInv'
<1>0. versions' = versions /\ Version' = Version
  BY DEF ClearHomes, Version
<1>1. RefreshTypes'
  BY <1>0, ClearEmpties DEF RefreshInv, RefreshTypes, ClearHomes, Caches
<1>2. ClearedCaches'
  BY <1>0, ClearEmpties DEF RefreshInv, ClearedCaches, NotOlder, ClearHomes, Caches,
     NoVersion, Resolved
<1>3. TrueAnswers'
  BY <1>0 DEF RefreshInv, RefreshTypes, TrueAnswers, Resolved, ClearHomes
<1>4. Complete'
  BY <1>0 DEF RefreshInv, Complete, Resolved, ClearHomes
<1>5. PublishedTrue'
  BY <1>0 DEF RefreshInv, RefreshTypes, PublishedTrue, Nothing, ClearHomes
<1>6. MapOpenWhileUsed'
  BY <1>0 DEF RefreshInv, MapOpenWhileUsed, ClearHomes
<1>7. QED BY <1>1, <1>2, <1>3, <1>4, <1>5, <1>6 DEF RefreshInv

\* A lookup begins with no answer.
LEMMA LookupStartsInv ==
    ASSUME RefreshInv, NEW c \in Caches, LookupStarts(c)
    PROVE  RefreshInv'
<1>0. versions' = versions /\ Version' = Version
  BY DEF LookupStarts, Version, refresher
<1>1. RefreshTypes'
  <2>1. lookup' \in Lookups /\ cached' \in [Caches -> Nat]
    BY DEF RefreshInv, RefreshTypes, Lookups, NoLookup, NoVersion, LookupStarts
  <2>2. QED BY <1>0, <2>1 DEF RefreshInv, RefreshTypes, LookupStarts, refresher
<1>2. ClearedCaches'
  BY <1>0 DEF RefreshInv, RefreshTypes, ClearedCaches, NotOlder, Resolved, Caches, NoVersion,
     LookupStarts, refresher
<1>3. TrueAnswers'
  BY <1>0 DEF RefreshInv, RefreshTypes, TrueAnswers, Resolved, LookupStarts, refresher
<1>4. Complete'
  BY <1>0 DEF RefreshInv, Complete, Resolved, LookupStarts, refresher
<1>5. PublishedTrue'
  BY <1>0 DEF RefreshInv, RefreshTypes, PublishedTrue, Nothing, LookupStarts, refresher
<1>6. MapOpenWhileUsed'
  BY <1>0 DEF RefreshInv, MapOpenWhileUsed, PassEnds, LookupStarts, refresher
<1>7. QED BY <1>1, <1>2, <1>3, <1>4, <1>5, <1>6 DEF RefreshInv

\* An answer is the current database's.
LEMMA LookupAnsweredInv ==
    ASSUME RefreshInv, LookupAnswered
    PROVE  RefreshInv'
<1>0. versions' = versions /\ Version' = Version
  BY DEF LookupAnswered, Version, refresher
<1>1. RefreshTypes'
  <2>1. lookup \in [cache : Caches, live : BOOLEAN, version : Nat]
    BY DEF RefreshInv, RefreshTypes, Lookups, LookupAnswered
  <2>2. lookup' \in [cache : Caches, live : BOOLEAN, version : Nat]
    BY <2>1 DEF RefreshInv, RefreshTypes, LookupAnswered
  <2>3. QED BY <1>0, <2>2 DEF RefreshInv, RefreshTypes, Lookups, LookupAnswered, refresher
<1>2. ClearedCaches'
  <2>1. lookup \in [cache : Caches, live : BOOLEAN, version : Nat]
    BY DEF RefreshInv, RefreshTypes, Lookups, LookupAnswered
  <2>2. lookup'.cache = lookup.cache /\ lookup'.live = lookup.live /\ lookup'.version = Version
    BY <2>1 DEF LookupAnswered
  <2>3. published.until <= Version /\ until <= Version /\ Version \in Nat
    BY DEF RefreshInv, RefreshTypes
  <2>4. cached' = cached /\ step' = step /\ until' = until /\ published' = published
    BY DEF LookupAnswered, refresher
  <2>5. QED BY <2>2, <2>3, <2>4 DEF RefreshInv, ClearedCaches, NotOlder, Caches
<1>3. TrueAnswers'
  BY <1>0 DEF RefreshInv, RefreshTypes, TrueAnswers, Resolved, LookupAnswered, refresher
<1>4. Complete'
  BY <1>0 DEF RefreshInv, Complete, Resolved, LookupAnswered, refresher
<1>5. PublishedTrue'
  BY <1>0 DEF RefreshInv, RefreshTypes, PublishedTrue, Nothing, LookupAnswered, refresher
<1>6. MapOpenWhileUsed'
  BY <1>0 DEF RefreshInv, MapOpenWhileUsed, PassEnds, LookupAnswered, refresher
<1>7. QED BY <1>1, <1>2, <1>3, <1>4, <1>5, <1>6 DEF RefreshInv

\* A name is kept by the generation it was looked up for.
LEMMA LookupStoredInv ==
    ASSUME RefreshInv, LookupStored
    PROVE  RefreshInv'
<1>0. versions' = versions /\ Version' = Version
  BY DEF LookupStored, Version, refresher
<1>1. RefreshTypes'
  <2>1. CASE lookup.live
    <3>1. cached' = [cached EXCEPT ![lookup.cache] = lookup.version] /\ cached \in [Caches -> Nat]
      BY <2>1 DEF RefreshInv, RefreshTypes, LookupStored
    <3>2. lookup.version \in Nat
      BY DEF RefreshInv, RefreshTypes, Lookups, NoLookup, NoVersion
    <3>3. cached' \in [Caches -> Nat]
      BY <3>1, <3>2
    <3>4. QED BY <1>0, <3>3 DEF RefreshInv, RefreshTypes, Lookups, LookupStored, refresher
  <2>2. CASE ~lookup.live
    BY <1>0, <2>2 DEF RefreshInv, RefreshTypes, Lookups, LookupStored, refresher
  <2>3. QED BY <2>1, <2>2
<1>2. ClearedCaches'
  BY <1>0 DEF RefreshInv, RefreshTypes, ClearedCaches, NotOlder, Resolved, Caches, NoVersion,
     LookupStored, refresher, NoLookup, Lookups
<1>3. TrueAnswers'
  BY <1>0 DEF RefreshInv, RefreshTypes, TrueAnswers, Resolved, LookupStored, refresher
<1>4. Complete'
  BY <1>0 DEF RefreshInv, Complete, Resolved, LookupStored, refresher
<1>5. PublishedTrue'
  BY <1>0 DEF RefreshInv, RefreshTypes, PublishedTrue, Nothing, LookupStored, refresher
<1>6. MapOpenWhileUsed'
  BY <1>0 DEF RefreshInv, MapOpenWhileUsed, PassEnds, LookupStored, refresher
<1>7. QED BY <1>1, <1>2, <1>3, <1>4, <1>5, <1>6 DEF RefreshInv

\* A failed pass changes nothing.
LEMMA ResolveFailsInv ==
    ASSUME RefreshInv, ResolveFails
    PROVE  RefreshInv'
<1>0. versions' = versions /\ Version' = Version
  BY DEF ResolveFails, Version
<1>1. RefreshTypes'
  BY <1>0 DEF RefreshInv, RefreshTypes, ResolveFails
<1>2. ClearedCaches'
  BY <1>0 DEF RefreshInv, RefreshTypes, ClearedCaches, NotOlder, Resolved, Caches, NoVersion,
     ResolveFails, PassEnds
<1>3. TrueAnswers'
  BY <1>0 DEF RefreshInv, RefreshTypes, TrueAnswers, Resolved, ResolveFails, PassEnds
<1>4. Complete'
  BY <1>0 DEF RefreshInv, Complete, Resolved, ResolveFails, PassEnds
<1>5. PublishedTrue'
  BY <1>0 DEF RefreshInv, RefreshTypes, PublishedTrue, Nothing, ResolveFails, PassEnds
<1>6. MapOpenWhileUsed'
  BY <1>0 DEF RefreshInv, MapOpenWhileUsed, PassEnds, ResolveFails
<1>7. QED BY <1>1, <1>2, <1>3, <1>4, <1>5, <1>6 DEF RefreshInv

\* Ids that are published already are not published again.
LEMMA CompareInv ==
    ASSUME RefreshInv, Compare
    PROVE  RefreshInv'
<1>0. versions' = versions /\ Version' = Version
  BY DEF Compare, Version
<1>1. RefreshTypes'
  BY <1>0 DEF RefreshInv, RefreshTypes, Compare
<1>2. ClearedCaches'
  BY <1>0 DEF RefreshInv, RefreshTypes, ClearedCaches, NotOlder, Resolved, Caches, NoVersion,
     Compare, PassEnds
<1>3. TrueAnswers'
  BY <1>0 DEF RefreshInv, RefreshTypes, TrueAnswers, Resolved, Compare, PassEnds
<1>4. Complete'
  BY <1>0 DEF RefreshInv, Complete, Resolved, Compare, PassEnds
<1>5. PublishedTrue'
  BY <1>0 DEF RefreshInv, RefreshTypes, PublishedTrue, Nothing, Compare, PassEnds
<1>6. MapOpenWhileUsed'
  BY <1>0 DEF RefreshInv, MapOpenWhileUsed, PassEnds, Compare
<1>7. QED BY <1>1, <1>2, <1>3, <1>4, <1>5, <1>6 DEF RefreshInv

\* What is published has been resolved.
LEMMA UpdateInv ==
    ASSUME RefreshInv, Update
    PROVE  RefreshInv'
<1>0. versions' = versions /\ Version' = Version
  BY DEF Update, Version
<1>1. RefreshTypes'
  BY <1>0 DEF RefreshInv, RefreshTypes, Update
<1>2. ClearedCaches'
  BY <1>0 DEF RefreshInv, RefreshTypes, ClearedCaches, NotOlder, Resolved, Caches, NoVersion,
     Update, PassEnds
<1>3. TrueAnswers'
  BY <1>0 DEF RefreshInv, RefreshTypes, TrueAnswers, Resolved, Update, PassEnds
<1>4. Complete'
  BY <1>0 DEF RefreshInv, Complete, Resolved, Update, PassEnds
<1>5. PublishedTrue'
  BY <1>0 DEF RefreshInv, RefreshTypes, PublishedTrue, Nothing, Update, TrueAnswers, Complete,
     Resolved
<1>6. MapOpenWhileUsed'
  BY <1>0 DEF RefreshInv, MapOpenWhileUsed, PassEnds, Update
<1>7. QED BY <1>1, <1>2, <1>3, <1>4, <1>5, <1>6 DEF RefreshInv

\* A failed update changes nothing.
LEMMA UpdateFailsInv ==
    ASSUME RefreshInv, UpdateFails
    PROVE  RefreshInv'
<1>0. versions' = versions /\ Version' = Version
  BY DEF UpdateFails, Version
<1>1. RefreshTypes'
  BY <1>0 DEF RefreshInv, RefreshTypes, UpdateFails
<1>2. ClearedCaches'
  BY <1>0 DEF RefreshInv, RefreshTypes, ClearedCaches, NotOlder, Resolved, Caches, NoVersion,
     UpdateFails, PassEnds
<1>3. TrueAnswers'
  BY <1>0 DEF RefreshInv, RefreshTypes, TrueAnswers, Resolved, UpdateFails, PassEnds
<1>4. Complete'
  BY <1>0 DEF RefreshInv, Complete, Resolved, UpdateFails, PassEnds
<1>5. PublishedTrue'
  BY <1>0 DEF RefreshInv, RefreshTypes, PublishedTrue, Nothing, UpdateFails, PassEnds
<1>6. MapOpenWhileUsed'
  BY <1>0 DEF RefreshInv, MapOpenWhileUsed, PassEnds, UpdateFails
<1>7. QED BY <1>1, <1>2, <1>3, <1>4, <1>5, <1>6 DEF RefreshInv

\* The worker ends.
LEMMA WorkerQuitsInv ==
    ASSUME RefreshInv, WorkerQuits
    PROVE  RefreshInv'
<1>0. versions' = versions /\ Version' = Version
  BY DEF WorkerQuits, Version
<1>1. RefreshTypes'
  BY <1>0 DEF RefreshInv, RefreshTypes, WorkerQuits
<1>2. ClearedCaches'
  BY <1>0 DEF RefreshInv, RefreshTypes, ClearedCaches, NotOlder, Resolved, Caches, NoVersion,
     WorkerQuits
<1>3. TrueAnswers'
  BY <1>0 DEF RefreshInv, RefreshTypes, TrueAnswers, Resolved, WorkerQuits
<1>4. Complete'
  BY <1>0 DEF RefreshInv, Complete, Resolved, WorkerQuits
<1>5. PublishedTrue'
  BY <1>0 DEF RefreshInv, RefreshTypes, PublishedTrue, Nothing, WorkerQuits
<1>6. MapOpenWhileUsed'
  BY <1>0 DEF RefreshInv, MapOpenWhileUsed, PassEnds, WorkerQuits
<1>7. QED BY <1>1, <1>2, <1>3, <1>4, <1>5, <1>6 DEF RefreshInv

\* The stop closes.
LEMMA StopClosesInv ==
    ASSUME RefreshInv, StopCloses
    PROVE  RefreshInv'
<1>0. versions' = versions /\ Version' = Version
  BY DEF StopCloses, Version, refresher
<1>1. RefreshTypes'
  BY <1>0 DEF RefreshInv, RefreshTypes, StopCloses, refresher
<1>2. ClearedCaches'
  BY <1>0 DEF RefreshInv, RefreshTypes, ClearedCaches, NotOlder, Resolved, Caches, NoVersion,
     StopCloses, refresher
<1>3. TrueAnswers'
  BY <1>0 DEF RefreshInv, RefreshTypes, TrueAnswers, Resolved, StopCloses, refresher
<1>4. Complete'
  BY <1>0 DEF RefreshInv, Complete, Resolved, StopCloses, refresher
<1>5. PublishedTrue'
  BY <1>0 DEF RefreshInv, RefreshTypes, PublishedTrue, Nothing, StopCloses, refresher
<1>6. MapOpenWhileUsed'
  BY <1>0 DEF RefreshInv, MapOpenWhileUsed, PassEnds, StopCloses, refresher
<1>7. QED BY <1>1, <1>2, <1>3, <1>4, <1>5, <1>6 DEF RefreshInv

\* The event loop returns.
LEMMA ReturnInv ==
    ASSUME RefreshInv, Return
    PROVE  RefreshInv'
<1>0. versions' = versions /\ Version' = Version
  BY DEF Return, Version, refresher
<1>1. RefreshTypes'
  BY <1>0 DEF RefreshInv, RefreshTypes, Return, refresher
<1>2. ClearedCaches'
  BY <1>0 DEF RefreshInv, RefreshTypes, ClearedCaches, NotOlder, Resolved, Caches, NoVersion,
     Return, refresher
<1>3. TrueAnswers'
  BY <1>0 DEF RefreshInv, RefreshTypes, TrueAnswers, Resolved, Return, refresher
<1>4. Complete'
  BY <1>0 DEF RefreshInv, Complete, Resolved, Return, refresher
<1>5. PublishedTrue'
  BY <1>0 DEF RefreshInv, RefreshTypes, PublishedTrue, Nothing, Return, refresher
<1>6. MapOpenWhileUsed'
  BY <1>0 DEF RefreshInv, MapOpenWhileUsed, PassEnds, Return, refresher
<1>7. QED BY <1>1, <1>2, <1>3, <1>4, <1>5, <1>6 DEF RefreshInv

\* The map closes after the worker has ended.
LEMMA MapClosesInv ==
    ASSUME RefreshInv, MapCloses
    PROVE  RefreshInv'
<1>0. versions' = versions /\ Version' = Version
  BY DEF MapCloses, Version, refresher
<1>1. RefreshTypes'
  BY <1>0 DEF RefreshInv, RefreshTypes, MapCloses, refresher
<1>2. ClearedCaches'
  BY <1>0 DEF RefreshInv, RefreshTypes, ClearedCaches, NotOlder, Resolved, Caches, NoVersion,
     MapCloses, refresher
<1>3. TrueAnswers'
  BY <1>0 DEF RefreshInv, RefreshTypes, TrueAnswers, Resolved, MapCloses, refresher
<1>4. Complete'
  BY <1>0 DEF RefreshInv, Complete, Resolved, MapCloses, refresher
<1>5. PublishedTrue'
  BY <1>0 DEF RefreshInv, RefreshTypes, PublishedTrue, Nothing, MapCloses, refresher
<1>6. MapOpenWhileUsed'
  BY <1>0 DEF RefreshInv, MapOpenWhileUsed, PassEnds, MapCloses, refresher
<1>7. QED BY <1>1, <1>2, <1>3, <1>4, <1>5, <1>6 DEF RefreshInv

\* The invariant holds in every reachable state.
LEMMA RefreshInvariant == Spec => []RefreshInv
<1>1. Init => RefreshInv
  <2>1. SUFFICES ASSUME Init PROVE RefreshInv
    OBVIOUS
  <2>2. PICK d \in Databases : versions = <<d>>
    <3>1. versions \in {<<d>> : d \in Databases}
      BY <2>1 DEF Init
    <3>2. QED BY <3>1
  <2>3. versions \in Seq(Databases) /\ Version = 1
    BY <2>2 DEF Version
  <2>4. cached \in [Caches -> Nat] /\ \A c \in Caches : cached[c] = NoVersion
    BY <2>1 DEF Init, NoVersion
  <2>5. lookup = NoLookup /\ published = Nothing /\ since = 1 /\ until = 1
        /\ step = "resolve" /\ values = <<>> /\ run = "starting"
    BY <2>1 DEF Init
  <2>6. QED
    BY <2>3, <2>4, <2>5 DEF RefreshInv, RefreshTypes, ClearedCaches, NotOlder, TrueAnswers,
       Complete, PublishedTrue, MapOpenWhileUsed, Resolved, Lookups, NoLookup, NoVersion,
       Nothing, Caches
<1>2. RefreshInv /\ [Next]_vars => RefreshInv'
  <2>1. ASSUME RefreshInv, Next PROVE RefreshInv'
    BY <2>1, AccountsChangeInv, TickInv, ResolveInv, ResolveFailsInv, ClearNamesInv,
       ClearHomesInv, CompareInv, UpdateInv, UpdateFailsInv, WorkerQuitsInv, LookupStartsInv,
       LookupAnsweredInv, LookupStoredInv, StopClosesInv, ReturnInv, MapClosesInv DEF Next,
       Refresh
  <2>2. ASSUME RefreshInv, UNCHANGED vars PROVE RefreshInv'
    BY <2>2 DEF vars, refresher, RefreshInv, RefreshTypes, ClearedCaches, NotOlder,
       TrueAnswers, Complete, PublishedTrue, MapOpenWhileUsed, Version
  <2>3. QED BY <2>1, <2>2
<1>3. QED BY <1>1, <1>2, PTL DEF Spec

\* No cached name is older than the ids the guards compare with.
THEOREM NamesAreNotOlderThanIds == Spec => []NamesFollowIds
<1>1. RefreshInv => NamesFollowIds
  BY DEF RefreshInv, ClearedCaches, NotOlder, NamesFollowIds
<1>2. QED BY <1>1, RefreshInvariant, PTL

\* Every published id was the account's while the pass that published it ran.
THEOREM SnapshotsWereTrue == Spec => []SnapshotTrue
<1>1. RefreshInv => SnapshotTrue
  BY DEF RefreshInv, PublishedTrue, SnapshotTrue
<1>2. QED BY <1>1, RefreshInvariant, PTL

\* The identity map is closed only after the worker has ended.
THEOREM MapOutlivesWorker == Spec => []MapOpenWhileUsed
<1>1. RefreshInv => MapOpenWhileUsed
  BY DEF RefreshInv
<1>2. QED BY <1>1, RefreshInvariant, PTL
=============================================================================
