-------------------------- MODULE RecoveryScanProofs --------------------------
(***************************************************************************)
(* The scan of recovery() is right for every number of windows, length of  *)
(* stretch, window and trigger: ScanInv is inductive.                      *)
(***************************************************************************)
EXTENDS RecoveryScan, FiniteSetTheorems, WellFoundedInduction, TLAPS

\* Start is an integer, and grows with the window.
LEMMA StartFacts ==
    /\ \A i \in Int : Start(i) \in Int
    /\ \A i, j \in Int : i <= j /\ AfterTrigger(i) => AfterTrigger(j)
<1> USE RecoveryAssumption DEF Start, AfterTrigger
<1>1. \A i \in Int : Start(i) \in Int
  OBVIOUS
<1>2. ASSUME NEW i \in Int, NEW j \in Int, i <= j, AfterTrigger(i) PROVE AfterTrigger(j)
  <2>1. j * WindowSize = i * WindowSize + (j - i) * WindowSize
    OBVIOUS
  <2>2. (j - i) * WindowSize >= 0
    BY <1>2
  <2> QED
    BY <1>2, <2>1, <2>2
<1> QED
  BY <1>1, <1>2

\* What a turn of the loop leaves alone: the successes decide what qualifies.
LEMMA SameWindows ==
    ASSUME successes' = successes
    PROVE  /\ \A i : Qualifies(i)' = Qualifies(i)
           /\ \A i : Recovers(i)' = Recovers(i)
BY DEF Qualifies, baseline_sum, Recovers

\* The part of ScanInv about a scan that goes on.
ScanningInv ==
    /\ streak < Consecutive
    /\ streak <= w
    /\ \A j \in (w - streak)..(w - 1) : AfterTrigger(j) /\ Qualifies(j)
    /\ \A i \in Windows : Recovers(i) => i >= w - streak

\* A step that goes on scanning has only ScanningInv to show.
LEMMA GoesOn ==
    ASSUME TypeOK', verdict' = Scanning, ScanningInv'
    PROVE  ScanInv'
BY DEF ScanInv, ScanningInv, VerdictCorrect, Scanning, Censored

LEMMA LookFacts ==
    ASSUME ScanInv, Look
    PROVE  /\ ScanningInv /\ TypeOK
           /\ w \in Windows /\ w \in Int /\ streak \in Int /\ 0 <= streak
           /\ w' = w + 1 /\ w' \in 0..WindowCount
           /\ successes' = successes
BY RecoveryAssumption DEF ScanInv, ScanningInv, Look, TypeOK, Windows

LEMMA InitScan == Init => ScanInv
<1> SUFFICES ASSUME Init PROVE ScanInv
  OBVIOUS
<1> USE RecoveryAssumption
<1>1. TypeOK
  BY DEF Init, TypeOK
<1>2. ScanningInv
  BY DEF Init, ScanningInv, Windows
<1> QED
  BY <1>1, <1>2 DEF Init, ScanInv, ScanningInv, VerdictCorrect, Scanning, Censored

\* Before the end of the trigger no streak has begun.
LEMMA SkipScan == ASSUME ScanInv, Skip PROVE ScanInv'
<1> USE RecoveryAssumption
<1>1. Look /\ ~AfterTrigger(w) /\ streak' = streak /\ verdict' = verdict /\ verdict = Scanning
  BY DEF Skip, Look
<1>2. streak = 0
  <2>1. SUFFICES ASSUME streak # 0 PROVE FALSE
    OBVIOUS
  <2>2. AfterTrigger(w - 1)
    BY <1>1, <2>1, LookFacts DEF ScanningInv
  <2> QED
    BY <1>1, <2>2, LookFacts, StartFacts
<1>3. ASSUME NEW i \in Windows, Recovers(i) PROVE i >= w + 1
  <2>1. i # w /\ i >= w
    BY <1>1, <1>2, <1>3, LookFacts DEF Recovers, ScanningInv
  <2> QED
    BY <2>1, LookFacts, <1>1 DEF Windows
<1>4. ScanningInv'
  BY <1>1, <1>2, <1>3, LookFacts, SameWindows DEF ScanningInv, Windows
<1>5. TypeOK'
  BY <1>1, LookFacts DEF TypeOK
<1> QED
  BY <1>1, <1>4, <1>5, GoesOn

\* A stretch that began within the streak would have to hold the missed window.
LEMMA MissScan == ASSUME ScanInv, Miss PROVE ScanInv'
<1> USE RecoveryAssumption
<1>1. Look /\ ~Qualifies(w) /\ streak' = 0 /\ verdict' = verdict /\ verdict = Scanning
  BY DEF Miss, Look
<1>2. ASSUME NEW i \in Windows, Recovers(i) PROVE i >= w + 1
  <2>1. i >= w - streak /\ streak < Consecutive /\ i \in Int
    BY <1>1, <1>2, LookFacts DEF ScanningInv, Windows
  <2>2. w \notin i..(i + Consecutive - 1)
    BY <1>1, <1>2 DEF Recovers
  <2>3. i + Consecutive - 1 >= w
    BY <1>1, <2>1, LookFacts
  <2> QED
    BY <1>1, <2>1, <2>2, <2>3, LookFacts
<1>3. ScanningInv'
  BY <1>1, <1>2, LookFacts, SameWindows DEF ScanningInv, Windows
<1>4. TypeOK'
  BY <1>1, LookFacts DEF TypeOK
<1> QED
  BY <1>1, <1>3, <1>4, GoesOn

\* The streak, with this window, is as long as it was and one more; a full one is
\* the first stretch that recovers.
LEMMA HitScan == ASSUME ScanInv, Hit PROVE ScanInv'
<1> USE RecoveryAssumption
<1>1. Look /\ AfterTrigger(w) /\ Qualifies(w) /\ streak' = streak + 1 /\ verdict = Scanning
  BY DEF Hit, Look
<1>2. \A j \in (w - streak)..w : AfterTrigger(j) /\ Qualifies(j)
  BY <1>1, LookFacts DEF ScanningInv
<1>3. streak + 1 \in 0..Consecutive
  BY <1>1, LookFacts DEF ScanningInv
<1>4. CASE streak + 1 # Consecutive
  <2>1. verdict' = Scanning
    BY <1>4 DEF Hit
  <2>2. TypeOK'
    BY <1>1, <1>3, <2>1, LookFacts DEF TypeOK
  <2>3. /\ w' - streak' = w - streak /\ w' - 1 = w
        /\ streak' < Consecutive /\ streak' <= w'
    BY <1>1, <1>3, <1>4, LookFacts DEF ScanningInv
  <2>4. \A j \in (w' - streak')..(w' - 1) : AfterTrigger(j) /\ Qualifies(j)'
    BY <1>1, <1>2, <2>3, LookFacts, SameWindows
  <2>5. \A j \in Windows : Recovers(j)' => j >= w' - streak'
    BY <1>1, <2>3, LookFacts, SameWindows DEF ScanningInv
  <2>6. ScanningInv'
    BY <2>3, <2>4, <2>5 DEF ScanningInv, AfterTrigger, Start, Windows
  <2> QED
    BY <2>1, <2>2, <2>6, GoesOn
<1>5. CASE streak + 1 = Consecutive
  <2>0. PICK i \in Int : i = w + 1 - Consecutive
    BY <1>1, LookFacts
  <2>1. verdict' = Confirmed((Start(w) + WindowSize) - Consecutive * WindowSize,
                             (Start(w) + WindowSize) - TriggerEnd)
    BY <1>5 DEF Hit
  <2>2. /\ i = w - streak /\ i \in Windows
        /\ i + Consecutive <= WindowCount /\ i + Consecutive - 1 = w
    <3>1. /\ streak \in Int /\ w \in Int /\ streak <= w /\ 0 <= streak
          /\ 0 <= w /\ w <= WindowCount - 1
      BY <1>1, LookFacts DEF ScanningInv, Windows
    <3> QED
      BY <2>0, <1>5, <3>1 DEF Windows
  <2>3. Recovers(i)
    BY <1>1, <1>2, <2>2, LookFacts DEF Recovers
  <2>4. \A j \in Windows : Recovers(j) => i <= j
    BY <1>1, <2>2, LookFacts DEF ScanningInv, Windows
  <2>5. /\ (Start(w) + WindowSize) - Consecutive * WindowSize = Start(i)
        /\ Start(w) + WindowSize = Start(i) + Consecutive * WindowSize
    <3>1. w = i + Consecutive - 1
      BY <2>2
    <3>2. /\ w * WindowSize + WindowSize = (w + 1) * WindowSize
          /\ (i + Consecutive) * WindowSize = i * WindowSize + Consecutive * WindowSize
      BY <1>1, <2>0, LookFacts
    <3>3. w + 1 = i + Consecutive
      BY <2>0, <3>1
    <3>4. (w + 1) * WindowSize = (i + Consecutive) * WindowSize
      BY <3>3
    <3>5. /\ w * WindowSize \in Int /\ i * WindowSize \in Int
          /\ Consecutive * WindowSize \in Int
      BY <1>1, <2>0, LookFacts
    <3>6. w * WindowSize + WindowSize = i * WindowSize + Consecutive * WindowSize
      BY <3>2, <3>4, Zenon
    <3> QED
      BY <3>5, <3>6 DEF Start
  <2>6. verdict' = Confirmed(Start(i), (Start(i) + Consecutive * WindowSize) - TriggerEnd)
    BY <2>1, <2>5
  <2>7. Start(i) \in Int /\ (Start(i) + Consecutive * WindowSize) - TriggerEnd \in Int
    BY <2>2, StartFacts
  <2>8. TypeOK'
    BY <1>1, <1>3, <2>6, <2>7, LookFacts DEF TypeOK, Confirmed
  <2>9. VerdictCorrect'
    <3>1. Recovers(i)' /\ \A j \in Windows : Recovers(j)' => i <= j
      BY <1>1, <2>3, <2>4, LookFacts, SameWindows
    <3>2. verdict' # Censored
      BY <2>6 DEF Confirmed, Censored
    <3> QED
      BY <2>2, <2>6, <3>1, <3>2 DEF VerdictCorrect
  <2> QED
    BY <2>6, <2>8, <2>9 DEF ScanInv, Confirmed, Scanning
<1> QED
  BY <1>4, <1>5

\* At the end, a stretch would have begun within the streak, which is too short.
LEMMA GiveUpScan == ASSUME ScanInv, GiveUp PROVE ScanInv'
<1> USE RecoveryAssumption
<1>1. /\ verdict = Scanning /\ verdict' = Censored /\ w = WindowCount
      /\ successes' = successes /\ w' = w /\ streak' = streak
  BY DEF GiveUp
<1>2. ScanningInv /\ TypeOK
  BY <1>1 DEF ScanInv, ScanningInv
<1>3. ASSUME NEW i \in Windows PROVE ~Recovers(i)
  BY <1>1, <1>2 DEF ScanningInv, Recovers, Windows, TypeOK
<1>4. TypeOK'
  BY <1>1, <1>2 DEF TypeOK
<1>5. VerdictCorrect'
  BY <1>1, <1>3, SameWindows DEF VerdictCorrect, Censored
<1> QED
  BY <1>1, <1>4, <1>5 DEF ScanInv, Censored, Scanning

LEMMA NextScan == ScanInv /\ [Next]_vars => ScanInv'
<1> SUFFICES ASSUME ScanInv, [Next]_vars PROVE ScanInv'
  OBVIOUS
<1>1. CASE UNCHANGED vars
  <2>1. successes' = successes /\ w' = w /\ streak' = streak /\ verdict' = verdict
    BY <1>1 DEF vars
  <2> QED
    BY <2>1, SameWindows DEF ScanInv, TypeOK, VerdictCorrect
<1> QED
  BY <1>1, SkipScan, MissScan, HitScan, GiveUpScan DEF Next

\* recovery() confirms the first stretch that recovers and censors only when there
\* is none, for every sequence of windows and every configuration.
THEOREM VerdictIsCorrect == Spec => []VerdictCorrect
<1>1. ScanInv => VerdictCorrect
  BY DEF ScanInv
<1> QED
  BY <1>1, InitScan, NextScan, PTL DEF Spec

-----------------------------------------------------------------------------
(* Nothing before the trigger.  The sum over the baseline is a recursive     *)
(* function on sets of windows; a smallest set with another sum than zero    *)
(* would lose an element and still have one.                                 *)

LEMMA ZerosSum ==
    ASSUME NEW f, NEW I, IsFiniteSet(I), \A i \in I : f[i] = 0
    PROVE  SumFunctionOnSet(f, I) = 0
<1> DEFINE one(s) == CHOOSE x \in s : TRUE
           Sums(g) == g = [s \in SUBSET I |->
                                IF s = {} THEN 0 ELSE f[one(s)] + g[s \ {one(s)}]]
           sum == CHOOSE g : Sums(g)
<1>1. SumFunctionOnSet(f, I) = sum[I]
  BY DEF SumFunctionOnSet, FoldFunctionOnSet, MapThenFoldSet
<1>2. \A s \in SUBSET I : s # {} => one(s) \in s /\ f[one(s)] = 0
  OBVIOUS
<1> HIDE DEF one, sum
<1>3. \E g : Sums(g)
  <2>1. PICK g : g = [s \in SUBSET I |-> 0]
    OBVIOUS
  <2>2. ASSUME NEW s \in SUBSET I
        PROVE  0 = IF s = {} THEN 0 ELSE f[one(s)] + g[s \ {one(s)}]
    BY <1>2, <2>1
  <2>3. Sums(g)
    BY <2>1, <2>2
  <2> QED
    BY <2>3
<1>4. Sums(sum)
  BY <1>3 DEF sum
<1> DEFINE T == {s \in SUBSET I : sum[s] # 0}
<1>5. SUFFICES ASSUME T # {} PROVE FALSE
  BY <1>1
<1>6. PICK s \in T : \A t \in T : <<t, s>> \notin StrictSubsetOrdering(I)
  <2>1. T \subseteq SUBSET I
    OBVIOUS
  <2> HIDE DEF T
  <2> QED
    BY <1>5, <2>1, FS_FiniteSubsetsOfFinite, FS_StrictSubsetOrderingWellFounded, WFMin
<1>7. s # {}
  BY <1>4
<1>8. sum[s] = 0 + sum[s \ {one(s)}]
  BY <1>2, <1>4, <1>7
<1>9. PICK t : t = s \ {one(s)}
  OBVIOUS
<1>10. t \in SUBSET I /\ t \subseteq s /\ t # s
  BY <1>2, <1>7, <1>9
<1>11. sum[t] # 0
  <2>1. sum[s] # 0
    OBVIOUS
  <2> QED
    BY <1>8, <1>9, <2>1
<1>12. <<t, s>> \in StrictSubsetOrdering(I)
  BY <1>10 DEF StrictSubsetOrdering
<1> QED
  BY <1>6, <1>10, <1>11, <1>12

\* If no window before the trigger has a success, no count of successes after it
\* is reported as a recovery.
THEOREM EmptyBaseline == Spec => []EmptyBaselineCensored
<1>1. ASSUME ScanInv, \A i \in Windows : Start(i) < TriggerStart => successes[i] = 0
      PROVE  verdict.state # "confirmed"
  <2> DEFINE B == {i \in Windows : BaselineStart <= Start(i) /\ Start(i) < TriggerStart}
  <2>1. IsFiniteSet(Windows)
    BY RecoveryAssumption, FS_Interval DEF Windows
  <2>2. IsFiniteSet(B) /\ \A i \in B : successes[i] = 0
    BY <1>1, <2>1, FS_Subset
  <2>3. baseline_sum = 0
    BY <2>2, ZerosSum DEF baseline_sum
  <2>4. \A i : ~Qualifies(i)
    BY <2>3 DEF Qualifies
  <2>5. \A i : ~Recovers(i)
    BY <2>4, RecoveryAssumption DEF Recovers, Windows
  <2> QED
    BY <1>1, <2>5 DEF ScanInv, VerdictCorrect
<1>2. ScanInv => EmptyBaselineCensored
  BY <1>1 DEF EmptyBaselineCensored
<1> QED
  BY <1>2, InitScan, NextScan, PTL DEF Spec
=============================================================================
