----------------------------- MODULE RecoveryScan -----------------------------
(***************************************************************************)
(* recovery(windows, config) of labs/retry-recovery/simulate.py: it scans  *)
(* the windows of a complete run for the first stretch of consecutive      *)
(* windows, after the slowdown ended, whose successes come back to a       *)
(* fraction of the mean before it.  One action is one turn of the loop.    *)
(* Windows are numbered from 0; the fraction and the mean are rationals,   *)
(* compared by cross-multiplication.                                       *)
(***************************************************************************)
EXTENDS Integers, Functions

CONSTANTS
    WindowCount,        \* the windows of a complete run
    MaxSuccesses,       \* bound: the most successes of one window
    WindowSize,         \* window_seconds
    BaselineStart,      \* baseline_start_seconds
    TriggerStart, TriggerEnd,
    FractionNum, FractionDen,   \* recovery_fraction
    Consecutive         \* recovery_consecutive_windows

ASSUME RecoveryAssumption ==
    /\ WindowCount \in Nat /\ MaxSuccesses \in Nat
    /\ WindowSize \in Nat \ {0}
    /\ BaselineStart \in Nat /\ TriggerStart \in Nat /\ TriggerEnd \in Nat
    /\ BaselineStart < TriggerStart
    /\ FractionNum \in Nat /\ FractionDen \in Nat \ {0}
    /\ Consecutive \in Nat \ {0}

Windows == 0..(WindowCount - 1)

VARIABLES
    successes,          \* w['successes'] of every window
    w,                  \* the window the loop looks at next
    streak,
    verdict             \* what is returned, or Scanning

vars == <<successes, w, streak, verdict>>

Scanning == [state |-> "scanning"]
Censored == [state |-> "censored"]
Confirmed(start, after) ==
    [state |-> "confirmed", qualifying_start |-> start, confirmed_after_seconds |-> after]

Start(i) == i * WindowSize      \* window_start

(* The mean of the baseline windows is baseline_sum * WindowSize divided by  *)
(* TriggerStart - BaselineStart; a window qualifies when its successes reach *)
(* the fraction of a mean that is not zero.                                  *)
baseline_sum ==
    SumFunctionOnSet(successes,
                     {i \in Windows : BaselineStart <= Start(i) /\ Start(i) < TriggerStart})

FaultyQualifies(i) ==                       \* Faulty: any window does for no baseline
    successes[i] * FractionDen * (TriggerStart - BaselineStart)
        >= FractionNum * baseline_sum * WindowSize
Qualifies(i) ==
    /\ baseline_sum > 0
    /\ successes[i] * FractionDen * (TriggerStart - BaselineStart)
        >= FractionNum * baseline_sum * WindowSize

AfterTrigger(i) == Start(i) >= TriggerEnd

Init ==
    /\ successes \in [Windows -> 0..MaxSuccesses]
    /\ w = 0
    /\ streak = 0
    /\ verdict = Scanning

Look ==
    /\ verdict = Scanning
    /\ w < WindowCount
    /\ w' = w + 1
    /\ UNCHANGED successes

\* The slowdown had not ended when the window began.
Skip ==
    /\ Look
    /\ ~AfterTrigger(w)
    /\ UNCHANGED <<streak, verdict>>

FaultyMiss ==                               \* Faulty: the streak survives a miss
    /\ Look
    /\ AfterTrigger(w)
    /\ ~Qualifies(w)
    /\ UNCHANGED <<streak, verdict>>
Miss ==
    /\ Look
    /\ AfterTrigger(w)
    /\ ~Qualifies(w)
    /\ streak' = 0
    /\ UNCHANGED verdict

\* The streak grows; at the required length the scan returns.
Hit ==
    /\ Look
    /\ AfterTrigger(w)
    /\ Qualifies(w)
    /\ streak' = streak + 1
    /\ verdict' = IF streak + 1 = Consecutive
                  THEN LET end == Start(w) + WindowSize
                       IN  Confirmed(end - Consecutive * WindowSize, end - TriggerEnd)
                  ELSE Scanning

GiveUp ==
    /\ verdict = Scanning
    /\ w = WindowCount
    /\ verdict' = Censored
    /\ UNCHANGED <<successes, w, streak>>

Next == Skip \/ Miss \/ Hit \/ GiveUp

Spec == Init /\ [][Next]_vars

-----------------------------------------------------------------------------
\* What the verdict is meant to say, without a scan: window i begins a stretch
\* of Consecutive windows after the trigger that all qualify.
Recovers(i) ==
    /\ i \in Windows /\ i + Consecutive <= WindowCount
    /\ AfterTrigger(i)
    /\ \A j \in i..(i + Consecutive - 1) : Qualifies(j)

TypeOK ==
    /\ successes \in [Windows -> 0..MaxSuccesses]
    /\ w \in 0..WindowCount
    /\ streak \in 0..Consecutive
    /\ verdict \in {Scanning, Censored}
                   \cup [state : {"confirmed"}, qualifying_start : Int,
                         confirmed_after_seconds : Int]

\* A confirmed verdict reports the first stretch that recovers, with its start
\* and the end of its last window counted from the end of the trigger; a
\* censored one is given only when no stretch recovers.
VerdictCorrect ==
    /\ verdict.state = "confirmed" =>
        \E i \in Windows :
            /\ Recovers(i)
            /\ \A j \in Windows : Recovers(j) => i <= j
            /\ verdict = Confirmed(Start(i), (Start(i) + Consecutive * WindowSize) - TriggerEnd)
    /\ verdict = Censored => \A i \in Windows : ~Recovers(i)

\* Without successes before the trigger nothing counts as a recovery, however
\* many successes follow.
EmptyBaselineCensored ==
    (\A i \in Windows : Start(i) < TriggerStart => successes[i] = 0)
        => verdict.state # "confirmed"

\* Why the verdict is correct: the streak is the longest stretch of qualifying
\* windows that ends before w, and no stretch that recovers has gone by.
ScanInv ==
    /\ TypeOK
    /\ verdict = Scanning =>
        /\ streak < Consecutive
        /\ streak <= w
        /\ \A j \in (w - streak)..(w - 1) : AfterTrigger(j) /\ Qualifies(j)
        /\ \A i \in Windows : Recovers(i) => i >= w - streak
    /\ VerdictCorrect
=============================================================================
