----------------------------- MODULE SaveDedup -----------------------------
(***************************************************************************)
(* Suppression of repeated file_save records: shouldSuppressDuplicateFile- *)
(* Save of collector_linux.go.  A save of a (process, path) pair is        *)
(* accepted unless one was accepted less than a window before; the map of  *)
(* accepted times is swept once per window.  Times are the kernel's, taken *)
(* when the sample was emitted: samples of several CPUs come out of order, *)
(* and the subtractions are unsigned.  Accepted is not recorded: the event *)
(* loop asks first and applies scope, source and filter afterwards, so     *)
(* that an accepted save may leave no row.                                 *)
(***************************************************************************)
EXTENDS Integers, Sequences

CONSTANTS
    SavePids, \* processes that write
    Paths,    \* paths they write to
    Window,   \* file_save_dedup_sec, in clock ticks (0 disables)
    Skew,     \* how far behind the newest sample seen a sample may be
    Word,     \* 2^64
    MaxMono,  \* largest time (bound)
    MaxSaves  \* saves of a pair in a behaviour (bound)

ASSUME DedupAssumption ==
    /\ Window \in Nat
    /\ Skew \in Nat
    /\ MaxMono \in Nat
    /\ MaxSaves \in Nat
    /\ Word \in Nat
    /\ Word > MaxMono + Window

VARIABLES
    newest,          \* newest time seen (history)
    recentFileSaves, \* (process, path) -> time of its last accepted save
    lastFileSaveGC,  \* time of the last sweep, 0 before the first
    saves            \* (process, path) -> its saves, in the order judged (history)

dedup == <<newest, recentFileSaves, lastFileSaveGC, saves>>

Absent == -1

Keys == SavePids \X Paths

Save == [mono : Nat, accepted : BOOLEAN]

DedupTypeOK ==
    /\ newest \in Nat
    /\ recentFileSaves \in [Keys -> Nat \cup {Absent}]
    /\ lastFileSaveGC \in Nat
    /\ saves \in [Keys -> Seq(Save)]

DedupInit ==
    /\ newest = 0
    /\ recentFileSaves = [k \in Keys |-> Absent]
    /\ lastFileSaveGC = 0
    /\ saves = [k \in Keys |-> <<>>]

\* uint64 subtraction
Minus(a, b) == (a - b) % Word

SweepDue(mono) ==
    mono # 0 /\ (lastFileSaveGC = 0 \/ Minus(mono, lastFileSaveGC) >= Window)

Cutoff(mono) == IF mono > Window THEN Minus(mono, Window) ELSE 0

\* The map after the sweep of a save at time mono.
Swept_Never(mono) == recentFileSaves

Swept(mono) ==
    [k \in Keys |-> IF SweepDue(mono) /\ recentFileSaves[k] < Cutoff(mono)
                    THEN Absent ELSE recentFileSaves[k]]

Sweep(mono) == lastFileSaveGC' = IF SweepDue(mono) THEN mono ELSE lastFileSaveGC

\* A save of the pair is in the swept map, less than a window old.
Repeated_Signed(k, mono) ==
    LET last == Swept(mono)[k] IN
    last # Absent /\ (mono = 0 \/ Minus(mono, last) < Window)

Repeated(k, mono) ==
    LET last == Swept(mono)[k] IN
    last # Absent /\ (mono = 0 \/ mono <= last \/ Minus(mono, last) < Window)

Judged(k, mono, accepted) ==
    /\ newest' = IF mono > newest THEN mono ELSE newest
    /\ saves' = [saves EXCEPT ![k] = Append(@, [mono |-> mono, accepted |-> accepted])]

\* file_save_dedup_sec = 0: every save is accepted.
PassAll(k, mono) ==
    /\ Window = 0
    /\ Judged(k, mono, TRUE)
    /\ UNCHANGED <<recentFileSaves, lastFileSaveGC>>

Accept(k, mono) ==
    /\ Window > 0
    /\ ~Repeated(k, mono)
    /\ recentFileSaves' = [Swept(mono) EXCEPT ![k] = mono]
    /\ Sweep(mono)
    /\ Judged(k, mono, TRUE)

Suppress_Renews(k, mono) ==
    /\ Window > 0
    /\ Repeated(k, mono)
    /\ recentFileSaves' = [Swept(mono) EXCEPT ![k] = mono]
    /\ Sweep(mono)
    /\ Judged(k, mono, FALSE)

Suppress(k, mono) ==
    /\ Window > 0
    /\ Repeated(k, mono)
    /\ recentFileSaves' = Swept(mono)
    /\ Sweep(mono)
    /\ Judged(k, mono, FALSE)

\* dropFileStateByTGID: process p has ended.
Forget(p) ==
    /\ recentFileSaves' = [k \in Keys |-> IF k[1] = p THEN Absent
                                          ELSE recentFileSaves[k]]
    /\ saves' = [k \in Keys |-> IF k[1] = p THEN <<>> ELSE saves[k]]
    /\ UNCHANGED <<newest, lastFileSaveGC>>

DedupNext ==
    \/ \E k \in Keys, mono \in 1..MaxMono :
          /\ Len(saves[k]) < MaxSaves
          /\ mono + Skew >= newest
          /\ PassAll(k, mono) \/ Accept(k, mono) \/ Suppress(k, mono)
    \/ \E p \in SavePids : Forget(p)

DedupSpec == DedupInit /\ [][DedupNext]_dedup

-----------------------------------------------------------------------------
(* Properties.                                                             *)

\* README: "Repeated file_save events for the same process and path are
\* suppressed for file_save_dedup_sec seconds": two accepted saves of a pair
\* are a window apart, but for the skew of samples that come out of order.  A
\* row is an accepted save, so the rows of a pair are at least as far apart.
AcceptedApart ==
    \A k \in Keys : \A i, j \in DOMAIN saves[k] :
        i < j /\ saves[k][i].accepted /\ saves[k][j].accepted
            => saves[k][j].mono - saves[k][i].mono >= Window - Skew

\* A save is suppressed only for a save of the pair that was accepted less
\* than a window before it, or after it: a suppressed save does not prolong the
\* window.  That the accepted one left a row is not promised: the filter may
\* have rejected it afterwards, and the code suppresses the next all the same.
SuppressedForAnAccepted ==
    \A k \in Keys : \A j \in DOMAIN saves[k] :
        ~saves[k][j].accepted =>
            \E i \in 1 .. j - 1 :
                saves[k][i].accepted /\ saves[k][i].mono > saves[k][j].mono - Window

\* The map does not grow with the pairs ever written: none of its entries is
\* more than two windows older than the newest save.
MapSwept ==
    \A k \in Keys :
        recentFileSaves[k] # Absent =>
            recentFileSaves[k] + 2 * Window + Skew >= newest
=============================================================================
