--------------------------- MODULE LossAccounting ---------------------------
(***************************************************************************)
(* How precd accounts for lost perf samples: handleLostSamples and         *)
(* consumeLostSamplesForLog of collector_linux.go.  Losses arrive in       *)
(* batches at any time; those within one interval of the last proc_loss    *)
(* row are added up and reported by the next row.                          *)
(***************************************************************************)
EXTENDS Integers, Sequences

CONSTANTS
    LossActions,  \* values the config may give lost_samples_action
    Batches,      \* sizes of a lost record (positive numbers)
    Interval,     \* lostSamplesLogInterval, in clock ticks
    WriteResults, \* results WriteEvent may give (TRUE: no error)
    MaxTime,      \* clock ticks in a behaviour (bound)
    MaxLost       \* samples lost in a behaviour (bound)

ASSUME LossAssumption ==
    /\ LossActions \subseteq {"log", "ignore", "stop"}
    /\ Batches \subseteq Nat \ {0}
    /\ Interval \in Nat
    /\ WriteResults \subseteq BOOLEAN
    /\ MaxTime \in Nat
    /\ MaxLost \in Nat

VARIABLES
    action,         \* s.cfg.LostSamplesAction, fixed at the start
    now,            \* time.Now()
    running,        \* Run has not returned
    lostTotal,      \* samples lost since the start
    pendingLostLog, \* those in no row yet
    lastLostLogAt,  \* time of the last row, Never before the first
    rows            \* proc_loss rows written

vars == <<action, now, running, lostTotal, pendingLostLog, lastLostLogAt, rows>>

Never == -1

TypeOK ==
    /\ action \in LossActions
    /\ now \in Nat
    /\ running \in BOOLEAN
    /\ lostTotal \in Nat
    /\ pendingLostLog \in Nat
    /\ lastLostLogAt \in Nat \cup {Never}
    /\ rows \in Seq([lost : Nat, total : Nat, at : Nat])

Init ==
    /\ action \in LossActions
    /\ now = 0
    /\ running = TRUE
    /\ lostTotal = 0
    /\ pendingLostLog = 0
    /\ lastLostLogAt = Never
    /\ rows = <<>>

Tick ==
    /\ now < MaxTime
    /\ now' = now + 1
    /\ UNCHANGED <<action, running, lostTotal, pendingLostLog, lastLostLogAt, rows>>

\* The interval since the last row has not elapsed yet.
TooSoon == lastLostLogAt # Never /\ now - lastLostLogAt < Interval

\* lost_samples_action = "ignore": only the total counts.
LostIgnored(n) ==
    /\ action = "ignore"
    /\ lostTotal' = lostTotal + n
    /\ UNCHANGED <<action, now, running, pendingLostLog, lastLostLogAt, rows>>

\* Within the interval: the loss waits for a later row.
LostDeferred_Forgotten(n) ==
    /\ action # "ignore"
    /\ TooSoon
    /\ lostTotal' = lostTotal + n
    /\ running' = (action # "stop")
    /\ UNCHANGED <<action, now, pendingLostLog, lastLostLogAt, rows>>

LostDeferred(n) ==
    /\ action # "ignore"
    /\ TooSoon
    /\ lostTotal' = lostTotal + n
    /\ pendingLostLog' = pendingLostLog + n
    /\ running' = (action # "stop")
    /\ UNCHANGED <<action, now, lastLostLogAt, rows>>

\* A row for everything that waited and this loss; with "stop", or when it
\* cannot be written, Run returns.
LostLogged(n) ==
    /\ action # "ignore"
    /\ ~TooSoon
    /\ lostTotal' = lostTotal + n
    /\ pendingLostLog' = 0
    /\ lastLostLogAt' = now
    /\ \E ok \in WriteResults :
          /\ running' = (ok /\ action # "stop")
          /\ rows' = IF ok THEN Append(rows, [lost |-> pendingLostLog + n,
                                              total |-> lostTotal + n, at |-> now])
                           ELSE rows
    /\ UNCHANGED <<action, now>>

\* The stop channel is closed.
Stop ==
    /\ running' = FALSE
    /\ UNCHANGED <<action, now, lostTotal, pendingLostLog, lastLostLogAt, rows>>

Next ==
    \/ Tick
    \/ /\ running
       /\ \/ Stop
          \/ \E n \in Batches :
                /\ lostTotal + n <= MaxLost
                /\ LostIgnored(n) \/ LostDeferred(n) \/ LostLogged(n)

Spec == Init /\ [][Next]_vars

-----------------------------------------------------------------------------
(* Properties.                                                             *)

TotalOf(i) == IF i = 0 THEN 0 ELSE rows[i].total

\* README: "`proc_loss` notifications are aggregated and logged at most once per
\* second": rows are an interval apart, the total of every row is the total of
\* the row before it plus its own loss, and what no row reports yet is waiting
\* in pendingLostLog (consumeLostSamplesForLog takes and resets it in one step).
LossesAggregated ==
    /\ \A i \in DOMAIN rows :
          /\ rows[i].total = TotalOf(i - 1) + rows[i].lost
          /\ i > 1 => rows[i].at - rows[i - 1].at >= Interval
    /\ running /\ action # "ignore" =>
          lostTotal = TotalOf(Len(rows)) + pendingLostLog
=============================================================================
