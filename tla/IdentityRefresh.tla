--------------------------- MODULE IdentityRefresh ---------------------------
(***************************************************************************)
(* Account names in precd: the refresher goroutine of capture_filter_      *)
(* refresh_linux.go resolves the names of capture_filter to ids for the    *)
(* eBPF guards and invalidates the caches of the opposite direction, those *)
(* of identity_cache.go (user and group names) and collector_linux.go      *)
(* (home directories), while the event loop reads and fills them without a *)
(* lock, and while Run may be returning.                                   *)
(*                                                                         *)
(* The account database (external) is a list of versions; the name service *)
(* answers from the current one or fails.  A cache is seen through one id: *)
(* it holds the version the id's name was answered from.  A generation     *)
(* that was replaced can only be reached by a lookup that loaded it before.*)
(***************************************************************************)
EXTENDS Integers, Sequences

CONSTANTS
    Names,      \* user and group names in capture_filter
    Ids,        \* ids these accounts may have
    Missing,    \* no such account: the sentinel of refresh
    MaxChanges, \* changes of the database (bound)
    MaxErrors   \* errors of the name service and of map updates (bound)

ASSUME RefreshAssumption ==
    /\ Missing \notin Ids
    /\ MaxChanges \in Nat
    /\ MaxErrors \in Nat

VARIABLES
    versions,  \* the databases so far, the last one is current
    errors,    \* errors so far (bound)
    run,       \* Run: "starting", "running", "returning", "closed", "failed"
    shutdown,  \* the stop channel or the refresher's own is closed
    step,      \* where the refresher is
    values,    \* ids resolved in this pass, by name
    since,     \* version at the beginning of the pass (history)
    until,     \* version when its last name was resolved (history)
    current,   \* r.current
    published, \* the identity map, with the versions it is from (history)
    cached,    \* cache -> version held by its current generation
    lookup     \* the event loop's lookup under way

refresher == <<step, values, since, until, current, published>>
vars == <<versions, errors, run, shutdown, refresher, cached, lookup>>

Caches    == {"names", "homes"}  \* identityNames, userHomeCaches
NoVersion == 0
NoLookup  == [cache |-> "none", live |-> FALSE, version |-> NoVersion]
Databases == [Names -> Ids \cup {Missing}]
Version   == Len(versions)
Database  == versions[Version]

\* A snapshot of ids, resolved while the versions since..until were current.
Snapshots == [ids : Databases, since : Nat, until : Nat]
Nothing   == [ids |-> <<>>, since |-> 0, until |-> 0]

TypeOK ==
    /\ versions \in Seq(Databases)
    /\ run \in {"starting", "running", "returning", "closed", "failed"}
    /\ shutdown \in BOOLEAN
    /\ {since, until} \subseteq 1 .. Version
    /\ step \in {"idle", "resolve", "clear names", "clear homes", "compare",
                 "update", "done"}
    /\ step \in {"compare", "update"} => values \in Databases
    /\ {current, published} \subseteq Snapshots \cup {Nothing}
    /\ cached \in [Caches -> 0 .. Version]
    /\ lookup \in {NoLookup} \cup [cache : Caches, live : BOOLEAN, version : 0 .. Version]

\* newCaptureIdentityMap begins with a pass of its own.
Init ==
    /\ versions \in {<<d>> : d \in Databases}
    /\ errors = 0
    /\ run = "starting"
    /\ shutdown = FALSE
    /\ step = "resolve"
    /\ values = <<>>
    /\ since = 1
    /\ until = 1
    /\ current = Nothing
    /\ published = Nothing
    /\ cached = [c \in Caches |-> NoVersion]
    /\ lookup = NoLookup

\* An account is added, removed or renumbered.
AccountsChange ==
    /\ Version <= MaxChanges
    /\ \E d \in Databases \ {Database} : versions' = Append(versions, d)
    /\ UNCHANGED <<errors, run, shutdown, refresher, cached, lookup>>

-----------------------------------------------------------------------------
(* refresh, run once by newCaptureIdentityMap and then by the worker.      *)

\* The ticker fires; Go's select may take it even after a shutdown.
Tick ==
    /\ step = "idle"
    /\ run \in {"running", "returning"}
    /\ step' = "resolve"
    /\ values' = <<>>
    /\ since' = Version
    /\ UNCHANGED <<versions, errors, run, shutdown, until, current, published, cached,
                   lookup>>

\* The end of a pass: the first one lets Run go on, or fail.
PassEnds(ok) ==
    /\ step' = "idle"
    /\ run' = IF run # "starting" THEN run ELSE IF ok THEN "running" ELSE "failed"

\* An answer; unknown accounts get the sentinel.
Resolve(n) ==
    /\ step = "resolve"
    /\ n \notin DOMAIN values
    /\ values' = [m \in DOMAIN values \cup {n} |-> IF m = n THEN Database[n] ELSE values[m]]
    /\ until' = Version
    /\ step' = IF DOMAIN values' = Names THEN "clear names" ELSE step
    /\ UNCHANGED <<versions, errors, run, shutdown, since, current, published, cached,
                   lookup>>

\* Any other error ends the pass.
ResolveFails_AsUnknown ==
    /\ step = "resolve"
    /\ errors < MaxErrors
    /\ errors' = errors + 1
    /\ values' = [n \in Names |-> IF n \in DOMAIN values THEN values[n] ELSE Missing]
    /\ until' = Version
    /\ step' = "clear names"
    /\ UNCHANGED <<versions, run, shutdown, since, current, published, cached, lookup>>

ResolveFails ==
    /\ step = "resolve"
    /\ errors < MaxErrors
    /\ errors' = errors + 1
    /\ PassEnds(FALSE)
    /\ UNCHANGED <<versions, shutdown, values, since, until, current, published, cached, lookup>>

\* A new generation: lookups under way keep the old one.
Clear(c) ==
    /\ cached' = [cached EXCEPT ![c] = NoVersion]
    /\ lookup' = IF lookup.cache = c THEN [lookup EXCEPT !.live = FALSE] ELSE lookup

\* invalidateCaches, one cache after the other.
ClearNames ==
    /\ step = "clear names"
    /\ Clear("names")
    /\ step' = "clear homes"
    /\ UNCHANGED <<versions, errors, run, shutdown, values, since, until, current, published>>

ClearHomes ==
    /\ step = "clear homes"
    /\ Clear("homes")
    /\ step' = "compare"
    /\ UNCHANGED <<versions, errors, run, shutdown, values, since, until, current, published>>

\* slices.Equal: nothing to publish.
Compare_Remembers ==
    /\ step = "compare"
    /\ IF values = current.ids THEN PassEnds(TRUE) ELSE step' = "update" /\ UNCHANGED run
    /\ current' = [ids |-> values, since |-> since, until |-> until]
    /\ UNCHANGED <<versions, errors, shutdown, values, since, until, published, cached, lookup>>

Compare ==
    /\ step = "compare"
    /\ IF values = current.ids THEN PassEnds(TRUE) ELSE step' = "update" /\ UNCHANGED run
    /\ UNCHANGED <<versions, errors, shutdown, values, since, until, current, published,
                   cached, lookup>>

\* The map update replaces the whole snapshot.
Update ==
    /\ step = "update"
    /\ published' = [ids |-> values, since |-> since, until |-> until]
    /\ current' = published'
    /\ PassEnds(TRUE)
    /\ UNCHANGED <<versions, errors, shutdown, values, since, until, cached, lookup>>

UpdateFails ==
    /\ step = "update"
    /\ errors < MaxErrors
    /\ errors' = errors + 1
    /\ PassEnds(FALSE)
    /\ UNCHANGED <<versions, shutdown, values, since, until, current, published, cached, lookup>>

Refresh ==
    \/ \E n \in Names : Resolve(n)
    \/ ResolveFails \/ ClearNames \/ ClearHomes \/ Compare \/ Update \/ UpdateFails

-----------------------------------------------------------------------------
(* The event loop: user, group and lookupUserHome.                         *)

\* The cache misses: the lookup keeps the generation it loaded.
LookupStarts(c) ==
    /\ run = "running"
    /\ lookup = NoLookup
    /\ cached[c] = NoVersion
    /\ lookup' = [cache |-> c, live |-> TRUE, version |-> NoVersion]
    /\ UNCHANGED <<versions, errors, run, shutdown, refresher, cached>>

LookupAnswered ==
    /\ lookup # NoLookup
    /\ lookup.version = NoVersion
    /\ lookup' = [lookup EXCEPT !.version = Version]
    /\ UNCHANGED <<versions, errors, run, shutdown, refresher, cached>>

LookupStored_InCurrent ==
    /\ lookup.version # NoVersion
    /\ cached' = [cached EXCEPT ![lookup.cache] = lookup.version]
    /\ lookup' = NoLookup
    /\ UNCHANGED <<versions, errors, run, shutdown, refresher>>

LookupStored ==
    /\ lookup.version # NoVersion
    /\ cached' = IF lookup.live THEN [cached EXCEPT ![lookup.cache] = lookup.version]
                                ELSE cached
    /\ lookup' = NoLookup
    /\ UNCHANGED <<versions, errors, run, shutdown, refresher>>

-----------------------------------------------------------------------------
(* The end of Run.                                                         *)

\* The signal handler closes stop.
StopCloses ==
    /\ run = "running"
    /\ shutdown' = TRUE
    /\ UNCHANGED <<versions, errors, run, refresher, cached, lookup>>

Return_Unsignalled ==
    /\ run = "running"
    /\ lookup = NoLookup
    /\ run' = "returning"
    /\ UNCHANGED <<versions, errors, shutdown, refresher, cached, lookup>>

\* The event loop returns, for the stop or for an error: stopRefresh.
Return ==
    /\ run = "running"
    /\ lookup = NoLookup
    /\ run' = "returning"
    /\ shutdown' = TRUE
    /\ UNCHANGED <<versions, errors, refresher, cached, lookup>>

WorkerQuits ==
    /\ step = "idle"
    /\ shutdown
    /\ step' = "done"
    /\ UNCHANGED <<versions, errors, run, shutdown, values, since, until, current, published,
                   cached, lookup>>

\* The worker is joined, then the identity map is closed.
MapCloses_NoJoin ==
    /\ run = "returning"
    /\ run' = "closed"
    /\ UNCHANGED <<versions, errors, shutdown, refresher, cached, lookup>>

MapCloses ==
    /\ run = "returning"
    /\ step = "done"
    /\ run' = "closed"
    /\ UNCHANGED <<versions, errors, shutdown, refresher, cached, lookup>>

Next ==
    \/ AccountsChange
    \/ Tick \/ Refresh \/ WorkerQuits
    \/ (\E c \in Caches : LookupStarts(c)) \/ LookupAnswered \/ LookupStored
    \/ StopCloses \/ Return \/ MapCloses

Spec == Init /\ [][Next]_vars

\* Goroutines run, the ticker ticks, and Go's select does not ignore a closed
\* channel for ever.
FairSpec ==
    /\ Spec
    /\ WF_vars(Tick) /\ WF_vars(Refresh) /\ SF_vars(WorkerQuits) /\ WF_vars(MapCloses)

-----------------------------------------------------------------------------
(* Properties.                                                             *)

\* "Clear reverse lookups before accepting events under the new IDs", and
\* in-flight lookups "cannot repopulate the cache used for subsequent events":
\* no name in use is older than the ids the guards compare with.
NamesFollowIds ==
    \A c \in Caches : cached[c] # NoVersion => cached[c] >= published.until

\* "publishes a complete snapshot only after all lookups succeed": every
\* published id was the account's, or the account was missing, while the pass
\* ran.
SnapshotTrue ==
    published # Nothing =>
        \A n \in Names : \E v \in published.since .. published.until :
            published.ids[n] = versions[v][n]

\* "Join the worker before closing its eBPF map on every Run return path".
MapOpenWhileUsed == run = "closed" => step = "done"

\* README: "User/group additions, removals, and UID/GID changes take effect at
\* the next refresh", failed refreshes being retried: once the accounts stay as
\* they are, the guards compare with them, unless precd ends.
ChangesTakeEffect == <>[](shutdown \/ run = "failed" \/ published.ids = Database)

\* Run does return once its event loop has.
ReturnCompletes == run = "returning" ~> run = "closed"
=============================================================================
