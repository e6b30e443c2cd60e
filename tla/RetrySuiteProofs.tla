--------------------------- MODULE RetrySuiteProofs ---------------------------
(***************************************************************************)
(* What a whole retry-recovery experiment guarantees for every matrix of   *)
(* configurations, budget and external timeout: the exit status tells      *)
(* whether each combination was run once to its cutoff, and the rows of a  *)
(* summary match the timelines beside it, with none left of an older one.  *)
(***************************************************************************)
EXTENDS RetrySuite, SequenceTheorems, FiniteSetTheorems, TLAPS

(* Division.  The quotient and remainder have names wherever they are used:  *)
(* the prover does not find them inside a product, and a product is hidden    *)
(* behind a name of its own.                                                  *)

LEMMA DivFacts ==
    ASSUME NEW n \in Nat, NEW k \in Nat \ {0}
    PROVE  \E q \in Nat, m \in 0..(k - 1) : q = n \div k /\ m = n % k /\ n = k * q + m
<1>1. PICK q : q = n \div k
  OBVIOUS
<1>2. PICK m : m = n % k
  OBVIOUS
<1>3. q \in Nat /\ m \in 0..(k - 1)
  BY <1>1, <1>2
<1>4. n = k * q + m
  BY <1>1, <1>2
<1> QED
  BY <1>1, <1>2, <1>3, <1>4

LEMMA DivUnique ==
    ASSUME NEW n \in Nat, NEW k \in Nat \ {0}, NEW q \in Nat, NEW m \in 0..(k - 1), n = k * q + m
    PROVE  n \div k = q /\ n % k = m
OBVIOUS

\* Less than j below, and less than k above: less than j * k.
LEMMA BelowProduct ==
    ASSUME NEW j \in Nat \ {0}, NEW k \in Nat \ {0}, NEW a \in 0..(k - 1), NEW b \in 0..(j - 1)
    PROVE  j * a + b \in 0..(j * k - 1)
<1>1. j * a \in Nat /\ j * k \in Nat /\ j * (k - 1 - a) \in Nat
  OBVIOUS
<1>2. j * k = j * a + j * (k - 1 - a) + j
  OBVIOUS
<1> QED
  BY <1>1, <1>2

Product(j, k, b) == b = j * k
Quotient(n, k, q) == q = n \div k

LEMMA DivTwice ==
    ASSUME NEW n \in Nat, NEW j \in Nat \ {0}, NEW k \in Nat \ {0}, NEW b, Product(j, k, b),
           NEW q \in Nat, Quotient(n, j, q), NEW c \in Nat, Quotient(q, k, c)
    PROVE  Quotient(n, b, c)
<1>1. PICK r \in 0..(j - 1) : n = j * q + r
  <2>1. PICK x \in Nat, r \in 0..(j - 1) : x = n \div j /\ r = n % j /\ n = j * x + r
    BY DivFacts
  <2>2. x = q
    BY <2>1 DEF Quotient
  <2> QED
    BY <2>1, <2>2
<1>2. PICK d \in 0..(k - 1) : q = k * c + d
  <2>1. PICK x \in Nat, d \in 0..(k - 1) : x = q \div k /\ d = q % k /\ q = k * x + d
    BY DivFacts
  <2>2. x = c
    BY <2>1 DEF Quotient
  <2> QED
    BY <2>1, <2>2
<1>3. PICK rest : rest = j * d + r
  OBVIOUS
<1>4. rest \in 0..(j * k - 1)
  BY <1>3, BelowProduct
<1>5. j * k \in Nat \ {0}
  OBVIOUS
<1>6. n = (j * k) * c + rest
  BY <1>1, <1>2, <1>3
<1>7. n \div (j * k) = c
  BY <1>4, <1>5, <1>6, DivUnique
<1> QED
  BY <1>7 DEF Product, Quotient

-----------------------------------------------------------------------------
(* The matrix.  Configuration counts in digits, with the lengths of the lists *)
(* as bases; each combination has one number.                                 *)

LEMMA ListFacts ==
    ASSUME NEW list, IsList(list)
    PROVE  /\ Len(list) \in Nat \ {0} /\ DOMAIN list = 1..Len(list)
           /\ \A i \in 0..(Len(list) - 1) : list[i + 1] \in Lists(list)
           /\ \A x \in Lists(list) : \E i \in 0..(Len(list) - 1) : x = list[i + 1]
           /\ \A i, j \in 0..(Len(list) - 1) : list[i + 1] = list[j + 1] => i = j
<1>1. Len(list) \in Nat /\ DOMAIN list = 1..Len(list) /\ Len(list) # 0
  BY LenProperties, EmptySeq DEF IsList
<1>2. \A i \in 0..(Len(list) - 1) : list[i + 1] \in Lists(list)
  BY <1>1 DEF Lists
<1>3. ASSUME NEW x \in Lists(list) PROVE \E i \in 0..(Len(list) - 1) : x = list[i + 1]
  <2>1. PICK i \in DOMAIN list : x = list[i]
    BY DEF Lists
  <2>2. i - 1 \in 0..(Len(list) - 1) /\ (i - 1) + 1 = i
    BY <1>1
  <2> QED
    BY <2>1, <2>2
<1>4. ASSUME NEW i \in 0..(Len(list) - 1), NEW j \in 0..(Len(list) - 1),
             list[i + 1] = list[j + 1], i # j
      PROVE  FALSE
  <2>1. i + 1 \in DOMAIN list /\ j + 1 \in DOMAIN list /\ i + 1 # j + 1
    BY <1>1, <1>4
  <2> QED
    BY <1>4, <2>1 DEF IsList
<1> QED
  BY <1>1, <1>2, <1>3, <1>4

\* n is the number with these digits.
Number(n, s, r, f, p) ==
    /\ s \in 0..(Len(Seeds) - 1) /\ r \in 0..(Len(Rates) - 1)
    /\ f \in 0..(Len(FaultModes) - 1) /\ p \in 0..(Len(Policies) - 1)
    /\ n = Len(Policies) * (Len(FaultModes) * (Len(Rates) * s + r) + f) + p

At(s, r, f, p) == [seed |-> Seeds[s + 1], rate |-> Rates[r + 1],
                   fault |-> FaultModes[f + 1], policy |-> Policies[p + 1]]

LEMMA Bases ==
    /\ Len(Seeds) \in Nat \ {0} /\ Len(Rates) \in Nat \ {0}
    /\ Len(FaultModes) \in Nat \ {0} /\ Len(Policies) \in Nat \ {0}
    /\ Combinations \in Nat \ {0}
<1>1. /\ Len(Seeds) \in Nat \ {0} /\ Len(Rates) \in Nat \ {0}
      /\ Len(FaultModes) \in Nat \ {0} /\ Len(Policies) \in Nat \ {0}
  BY ListFacts, RetrySuiteAssumption
<1> QED
  BY <1>1 DEF Combinations

\* The digits of a number, read as Configuration reads them.
LEMMA DigitsOfNumber ==
    ASSUME NEW n, NEW s, NEW r, NEW f, NEW p, Number(n, s, r, f, p)
    PROVE  n \in 0..(Combinations - 1) /\ Configuration(n) = At(s, r, f, p)
<1> DEFINE S == Len(Seeds)
           R == Len(Rates)
           F == Len(FaultModes)
           P == Len(Policies)
<1>1. S \in Nat \ {0} /\ R \in Nat \ {0} /\ F \in Nat \ {0} /\ P \in Nat \ {0}
  BY Bases
<1>2. s \in 0..(S - 1) /\ r \in 0..(R - 1) /\ f \in 0..(F - 1) /\ p \in 0..(P - 1)
  BY DEF Number
<1>3. PICK n2, n1 : n2 = R * s + r /\ n1 = F * n2 + f /\ n = P * n1 + p
  BY DEF Number
<1>3a. n2 = R * s + r
  BY <1>3
<1>3b. n1 = F * n2 + f
  BY <1>3
<1>3c. n = P * n1 + p
  BY <1>3
<1>4. Combinations = P * (F * (R * S))
  BY <1>1 DEF Combinations
<1>5. Configuration(n) =
        [seed |-> Seeds[n \div (P * F * R) + 1], rate |-> Rates[((n \div (P * F)) % R) + 1],
         fault |-> FaultModes[((n \div P) % F) + 1], policy |-> Policies[(n % P) + 1]]
  BY DEF Configuration
<1> HIDE DEF S, R, F, P
<1>6. R * S \in Nat \ {0} /\ F * (R * S) \in Nat \ {0} /\ P * F \in Nat \ {0}
  BY <1>1
<1>7. n2 \in 0..(R * S - 1)
  BY <1>1, <1>2, <1>3a, BelowProduct
<1>8. n1 \in 0..(F * (R * S) - 1)
  BY <1>1, <1>2, <1>3b, <1>6, <1>7, BelowProduct
<1>9. n \in 0..(P * (F * (R * S)) - 1)
  BY <1>1, <1>2, <1>3c, <1>6, <1>8, BelowProduct
<1>10. n \in Nat /\ n1 \in Nat /\ n2 \in Nat /\ s \in Nat
  BY <1>2, <1>7, <1>8, <1>9
<1>11. n \div P = n1 /\ n % P = p
  BY <1>1, <1>2, <1>3c, <1>10, DivUnique
<1>12. n1 \div F = n2 /\ n1 % F = f
  BY <1>1, <1>2, <1>3b, <1>10, DivUnique
<1>13. n2 \div R = s /\ n2 % R = r
  BY <1>1, <1>2, <1>3a, <1>10, DivUnique
<1>14. PICK b1, b2 : b1 = P * F /\ b2 = b1 * R
  OBVIOUS
<1>15. /\ Product(P, F, b1) /\ Product(b1, R, b2) /\ b1 \in Nat \ {0}
       /\ Quotient(n, P, n1) /\ Quotient(n1, F, n2) /\ Quotient(n2, R, s)
  BY <1>6, <1>11, <1>12, <1>13, <1>14 DEF Product, Quotient
<1>16. Quotient(n, b1, n2)
  BY <1>1, <1>10, <1>15, DivTwice
<1>17. Quotient(n, b2, s)
  BY <1>1, <1>10, <1>15, <1>16, DivTwice
<1>18. n \div (P * F) = n2 /\ n \div (P * F * R) = s
  BY <1>14, <1>16, <1>17 DEF Quotient
<1> QED
  BY <1>4, <1>5, <1>9, <1>11, <1>12, <1>13, <1>18 DEF At

\* Every number below Combinations has digits.
LEMMA NumberHasDigits ==
    ASSUME NEW n \in 0..(Combinations - 1)
    PROVE  \E s, r, f, p : Number(n, s, r, f, p)
<1> DEFINE S == Len(Seeds)
           R == Len(Rates)
           F == Len(FaultModes)
           P == Len(Policies)
<1>1. S \in Nat \ {0} /\ R \in Nat \ {0} /\ F \in Nat \ {0} /\ P \in Nat \ {0}
  BY Bases
<1>2. Combinations = P * (F * (R * S)) /\ n \in Nat /\ n < Combinations
  BY <1>1, Bases DEF Combinations
<1> HIDE DEF S, R, F, P
<1>3. PICK n1 \in Nat, p \in 0..(P - 1) : n1 = n \div P /\ p = n % P /\ n = P * n1 + p
  BY <1>1, <1>2, DivFacts
<1>4. n1 \in Nat /\ p \in 0..(P - 1) /\ n = P * n1 + p
  BY <1>3
<1>5. PICK n2 \in Nat, f \in 0..(F - 1) : n2 = n1 \div F /\ f = n1 % F /\ n1 = F * n2 + f
  BY <1>1, <1>4, DivFacts
<1>6. n2 \in Nat /\ f \in 0..(F - 1) /\ n1 = F * n2 + f
  BY <1>5
<1>7. PICK s \in Nat, r \in 0..(R - 1) : s = n2 \div R /\ r = n2 % R /\ n2 = R * s + r
  BY <1>1, <1>6, DivFacts
<1>8. s \in Nat /\ r \in 0..(R - 1) /\ n2 = R * s + r
  BY <1>7
<1>9. s < S
  <2>1. SUFFICES ASSUME s >= S PROVE FALSE
    BY <1>1, <1>8
  <2>2. R * s >= R * S
    BY <1>1, <1>8, <2>1
  <2>3. R * S \in Nat /\ n2 >= R * S
    BY <1>1, <1>8, <2>2
  <2>4. F * n2 >= F * (R * S)
    BY <1>1, <1>6, <2>3
  <2>5. F * (R * S) \in Nat /\ n1 >= F * (R * S)
    BY <1>1, <1>6, <2>3, <2>4
  <2>6. P * n1 >= P * (F * (R * S))
    BY <1>1, <1>4, <2>5
  <2> QED
    BY <1>1, <1>2, <1>4, <2>5, <2>6
<1>10. Number(n, s, r, f, p)
  BY <1>1, <1>4, <1>6, <1>8, <1>9 DEF Number, S, R, F, P
<1> QED
  BY <1>10

\* Each number below Combinations stands for another element of the matrix, and
\* none is left out.
LEMMA MatrixNumbered ==
    /\ \A n \in 0..(Combinations - 1) : Configuration(n) \in Matrix
    /\ \A m, n \in 0..(Combinations - 1) : Configuration(m) = Configuration(n) => m = n
    /\ \A x \in Matrix : \E n \in 0..(Combinations - 1) : Configuration(n) = x
<1>1. ASSUME NEW n \in 0..(Combinations - 1) PROVE Configuration(n) \in Matrix
  <2>1. PICK s, r, f, p : Number(n, s, r, f, p)
    BY NumberHasDigits
  <2>2. Configuration(n) = At(s, r, f, p)
    BY <2>1, DigitsOfNumber
  <2>3. Seeds[s + 1] \in Lists(Seeds) /\ Rates[r + 1] \in Lists(Rates)
    BY <2>1, ListFacts, RetrySuiteAssumption DEF Number
  <2>4. FaultModes[f + 1] \in Lists(FaultModes) /\ Policies[p + 1] \in Lists(Policies)
    BY <2>1, ListFacts, RetrySuiteAssumption DEF Number
  <2> QED
    BY <2>2, <2>3, <2>4 DEF At, Matrix
<1>2. ASSUME NEW m \in 0..(Combinations - 1), NEW n \in 0..(Combinations - 1),
             Configuration(m) = Configuration(n)
      PROVE  m = n
  <2>1. PICK s, r, f, p : Number(n, s, r, f, p)
    BY NumberHasDigits
  <2>2. PICK s2, r2, f2, p2 : Number(m, s2, r2, f2, p2)
    BY NumberHasDigits
  <2>3. At(s, r, f, p) = At(s2, r2, f2, p2)
    BY <1>2, <2>1, <2>2, DigitsOfNumber
  <2>4. /\ Seeds[s + 1] = Seeds[s2 + 1] /\ Rates[r + 1] = Rates[r2 + 1]
        /\ FaultModes[f + 1] = FaultModes[f2 + 1] /\ Policies[p + 1] = Policies[p2 + 1]
    BY <2>3 DEF At
  <2>5. s = s2 /\ r = r2
    BY <2>1, <2>2, <2>4, ListFacts, RetrySuiteAssumption DEF Number
  <2>6. f = f2 /\ p = p2
    BY <2>1, <2>2, <2>4, ListFacts, RetrySuiteAssumption DEF Number
  <2> QED
    BY <2>1, <2>2, <2>5, <2>6 DEF Number
<1>3. ASSUME NEW x \in Matrix PROVE \E n \in 0..(Combinations - 1) : Configuration(n) = x
  <2>1. /\ x.seed \in Lists(Seeds) /\ x.rate \in Lists(Rates)
        /\ x.fault \in Lists(FaultModes) /\ x.policy \in Lists(Policies)
        /\ x = [seed |-> x.seed, rate |-> x.rate, fault |-> x.fault, policy |-> x.policy]
    BY DEF Matrix
  <2>2. PICK s \in 0..(Len(Seeds) - 1) : x.seed = Seeds[s + 1]
    BY <2>1, ListFacts, RetrySuiteAssumption
  <2>3. PICK r \in 0..(Len(Rates) - 1) : x.rate = Rates[r + 1]
    BY <2>1, ListFacts, RetrySuiteAssumption
  <2>4. PICK f \in 0..(Len(FaultModes) - 1) : x.fault = FaultModes[f + 1]
    BY <2>1, ListFacts, RetrySuiteAssumption
  <2>5. PICK p \in 0..(Len(Policies) - 1) : x.policy = Policies[p + 1]
    BY <2>1, ListFacts, RetrySuiteAssumption
  <2>6. PICK n : Number(n, s, r, f, p)
    BY <2>2, <2>3, <2>4, <2>5 DEF Number
  <2>7. n \in 0..(Combinations - 1) /\ Configuration(n) = At(s, r, f, p)
    BY <2>6, DigitsOfNumber
  <2>8. x = At(s, r, f, p)
    BY <2>1, <2>2, <2>3, <2>4, <2>5 DEF At
  <2> QED
    BY <2>7, <2>8
<1> QED
  BY <1>1, <1>2, <1>3

LEMMA MatrixSize == IsFiniteSet(Matrix) /\ Cardinality(Matrix) = Combinations
<1>1. PICK numbers : numbers = 0..(Combinations - 1)
  OBVIOUS
<1>2. IsFiniteSet(numbers) /\ Cardinality(numbers) = Combinations
  BY <1>1, Bases, FS_Interval
<1>3. PICK f : f = [n \in numbers |-> Configuration(n)]
  OBVIOUS
<1>4. f \in Bijection(numbers, Matrix)
  BY <1>1, <1>3, MatrixNumbered DEF Bijection, Injection, Surjection, IsInjective
<1> QED
  BY <1>2, <1>4, FS_Bijection DEF ExistsBijection

-----------------------------------------------------------------------------
(* The runs of the matrix, and what the phases of the process say of them.    *)

RunSet == [config : Matrix, stop : {"observation_cutoff", "attempt_cap"}, arrivals : BOOLEAN]

\* The runs so far are the first configurations, in order; the budget stops the
\* matrix only before its end.
RunsInv ==
    /\ runs \in Seq(RunSet)
    /\ Len(runs) <= Combinations
    /\ \A n \in DOMAIN runs : runs[n].config = Configuration(n - 1)
    /\ stop_reason => Len(runs) < Combinations

\* A process that was not killed ends with its whole document, and its status is
\* that of the runs in it.
PhaseInv ==
    /\ pc \in {"boot", "loop"} => ~stop_reason
    /\ pc \in {"boot", "loop", "dump"} => status = Running
    /\ pc \notin {"boot", "loop", "dump"} =>
            status = Killed \/ (status = CompletionStatus /\ document = "whole")
    /\ pc = "export" => document = "whole"

SuiteInv == RunsInv /\ PhaseInv

LEMMA InitSuite == Init => SuiteInv
<1> SUFFICES ASSUME Init PROVE SuiteInv
  OBVIOUS
<1>1. /\ runs = << >> /\ ~stop_reason /\ pc = "boot" /\ status = Running
  BY DEF Init, Begin
<1>2. runs \in Seq(RunSet) /\ Len(runs) = 0 /\ DOMAIN runs = {}
  BY <1>1, EmptySeq
<1> QED
  BY <1>1, <1>2, Bases DEF SuiteInv, RunsInv, PhaseInv

\* One configuration more.
LEMMA SimulateSuite == ASSUME SuiteInv, Simulate PROVE SuiteInv'
<1>1. PICK run \in RunSet : /\ runs' = Append(runs, run)
                            /\ run.config = Configuration(Len(runs))
  <2>1. Len(runs) \in 0..(Combinations - 1)
    BY Bases, LenProperties DEF Simulate, SuiteInv, RunsInv
  <2>2. Configuration(Len(runs)) \in Matrix
    BY <2>1, MatrixNumbered
  <2>3. PICK stop \in {"observation_cutoff", "attempt_cap"}, arrivals \in BOOLEAN :
            runs' = Append(runs, [config |-> Configuration(Len(runs)),
                                  stop |-> stop, arrivals |-> arrivals])
    BY DEF Simulate
  <2>4. [config |-> Configuration(Len(runs)), stop |-> stop, arrivals |-> arrivals] \in RunSet
    BY <2>2 DEF RunSet
  <2> QED
    BY <2>3, <2>4
<1>2. runs \in Seq(RunSet) /\ Len(runs) < Combinations /\ Len(runs) \in Nat
  BY LenProperties DEF Simulate, SuiteInv, RunsInv
<1>3. /\ runs' \in Seq(RunSet) /\ Len(runs') = Len(runs) + 1
      /\ \A n \in 1..Len(runs) : runs'[n] = runs[n]
      /\ runs'[Len(runs) + 1] = run
  BY <1>1, <1>2, AppendProperties
<1>4. DOMAIN runs = 1..Len(runs) /\ DOMAIN runs' = 1..(Len(runs) + 1)
  BY <1>2, <1>3, LenProperties
<1>5. ASSUME NEW n \in DOMAIN runs' PROVE runs'[n].config = Configuration(n - 1)
  <2>1. CASE n \in 1..Len(runs)
    BY <1>3, <1>4, <2>1 DEF SuiteInv, RunsInv
  <2>2. CASE n = Len(runs) + 1
    BY <1>1, <1>2, <1>3, <2>2
  <2> QED
    BY <1>2, <1>4, <2>1, <2>2
<1>6. /\ ~stop_reason' /\ pc' = "loop" /\ status' = Running
  BY DEF Simulate, SuiteInv, PhaseInv
<1>7. Len(runs') <= Combinations
  BY <1>2, <1>3, Bases
<1> QED
  BY <1>3, <1>5, <1>6, <1>7 DEF SuiteInv, RunsInv, PhaseInv

LEMMA SameRuns ==
    ASSUME RunsInv, UNCHANGED <<runs, stop_reason>>
    PROVE  RunsInv' /\ CompletionStatus' = CompletionStatus
BY DEF RunsInv, CompletionStatus

LEMMA NextSuite == SuiteInv /\ [Next]_vars => SuiteInv'
<1> SUFFICES ASSUME SuiteInv, [Next]_vars PROVE SuiteInv'
  OBVIOUS
<1> USE DEF SuiteInv
<1>1. CASE UNCHANGED vars
  <2>1. UNCHANGED <<runs, stop_reason, pc, status, document>>
    BY <1>1 DEF vars
  <2> QED
    BY <2>1, SameRuns DEF PhaseInv
<1>2. CASE Boot
  <2>1. UNCHANGED <<runs, stop_reason, status>> /\ pc = "boot" /\ pc' = "loop"
    BY <1>2 DEF Boot
  <2> QED
    BY <2>1, SameRuns DEF PhaseInv
<1>3. CASE Simulate
  BY <1>3, SimulateSuite
<1>4. CASE BudgetStop
  <2>1. /\ runs' = runs /\ status' = status /\ pc = "loop" /\ pc' = "dump"
        /\ Len(runs) < Combinations
    BY <1>4 DEF BudgetStop
  <2>2. RunsInv'
    BY <2>1 DEF RunsInv
  <2> QED
    BY <2>1, <2>2 DEF PhaseInv
<1>5. CASE MatrixDone
  <2>1. UNCHANGED <<runs, stop_reason, status>> /\ pc = "loop" /\ pc' = "dump"
    BY <1>5 DEF MatrixDone
  <2> QED
    BY <2>1, SameRuns DEF PhaseInv
<1>6. CASE Dump
  <2>1. UNCHANGED <<runs, stop_reason>> /\ pc = "dump"
    BY <1>6 DEF Dump
  <2>2. \/ pc' = pc /\ status' = status
        \/ pc' = "exited" /\ status' = CompletionStatus /\ document' = "whole"
    BY <1>6 DEF Dump
  <2> QED
    BY <2>1, <2>2, SameRuns DEF PhaseInv
<1>7. CASE Kill
  <2>1. UNCHANGED <<runs, stop_reason, document>> /\ pc' = "exited" /\ status' = Killed
    BY <1>7 DEF Kill
  <2> QED
    BY <2>1, SameRuns DEF PhaseInv
<1>8. CASE Unreadable \/ CloseSummary
  <2>1. /\ UNCHANGED <<runs, stop_reason, document, status>>
        /\ pc \in {"exited", "export"} /\ pc' = "idle"
    BY <1>8 DEF Unreadable, CloseSummary
  <2> QED
    BY <2>1, SameRuns DEF PhaseInv
<1>9. CASE OpenSummary
  <2>1. /\ UNCHANGED <<runs, stop_reason, document, status>>
        /\ pc = "exited" /\ pc' = "export" /\ document = "whole"
    BY <1>9 DEF OpenSummary
  <2> QED
    BY <2>1, SameRuns DEF PhaseInv
<1>10. CASE ExportRun
  <2>1. /\ UNCHANGED <<runs, stop_reason, document, status>>
        /\ pc = "export" /\ pc' \in {"export", "idle"}
    BY <1>10 DEF ExportRun
  <2> QED
    BY <2>1, SameRuns DEF PhaseInv
<1>11. CASE Again
  <2>1. runs' = << >> /\ ~stop_reason' /\ pc' = "boot" /\ status' = Running
    BY <1>11 DEF Again
  <2>2. runs' \in Seq(RunSet) /\ Len(runs') = 0 /\ DOMAIN runs' = {}
    BY <2>1, EmptySeq
  <2> QED
    BY <2>1, <2>2, Bases DEF RunsInv, PhaseInv
<1> QED
  BY <1>1, <1>2, <1>3, <1>4, <1>5, <1>6, <1>7, <1>8, <1>9, <1>10, <1>11
  DEF Next, Main, Export

LEMMA SuiteInvariance == Spec => []SuiteInv
BY InitSuite, NextSuite, PTL DEF Spec

-----------------------------------------------------------------------------
\* Exit status 0 comes exactly with a whole document in which every combination
\* of any matrix occurs once and reached its cutoff; status 2 with a whole
\* document that lacks that; anything less only after a kill.
THEOREM StatusIsTrue == Spec => []StatusTrue
<1>1. ASSUME SuiteInv PROVE StatusTrue
  <2> DEFINE ran == {n \in DOMAIN runs : runs[n].stop = "observation_cutoff"}
             complete == /\ {runs[n].config : n \in ran} = Matrix
                         /\ Cardinality(DOMAIN runs) = Cardinality(Matrix)
             all == /\ Len(runs) = Combinations /\ ~stop_reason
                    /\ \A n \in DOMAIN runs : runs[n].stop = "observation_cutoff"
  <2>1. /\ Len(runs) \in Nat /\ DOMAIN runs = 1..Len(runs) /\ Combinations \in Nat
        /\ \A n \in DOMAIN runs : runs[n].config = Configuration(n - 1)
        /\ stop_reason => Len(runs) < Combinations
    BY <1>1, Bases, LenProperties DEF SuiteInv, RunsInv
  <2>2. Cardinality(DOMAIN runs) = Len(runs)
    BY <2>1, FS_Interval
  <2>3. ASSUME all PROVE complete
    <3>1. ran = 1..Combinations
      BY <2>1, <2>3
    <3>2. ASSUME NEW x \in Matrix PROVE \E n \in ran : runs[n].config = x
      <4>1. PICK m \in 0..(Combinations - 1) : Configuration(m) = x
        BY MatrixNumbered
      <4>2. m + 1 \in ran /\ (m + 1) - 1 = m
        BY <2>1, <3>1
      <4> QED
        BY <2>1, <4>1, <4>2
    <3>3. ASSUME NEW n \in ran PROVE runs[n].config \in Matrix
      <4>1. n - 1 \in 0..(Combinations - 1)
        BY <2>1, <3>1
      <4> QED
        BY <2>1, <4>1, MatrixNumbered
    <3> QED
      BY <2>2, <2>3, <3>2, <3>3, MatrixSize
  <2>4. ASSUME complete PROVE all
    <3>1. Len(runs) = Combinations
      BY <2>2, <2>4, MatrixSize
    <3>2. ASSUME NEW n \in DOMAIN runs PROVE runs[n].stop = "observation_cutoff"
      <4>1. n - 1 \in 0..(Combinations - 1)
        BY <2>1, <3>1
      <4>2. Configuration(n - 1) \in {runs[m].config : m \in ran}
        BY <2>4, <4>1, MatrixNumbered
      <4>3. PICK m \in ran : Configuration(n - 1) = runs[m].config
        BY <4>2
      <4>4. m - 1 \in 0..(Combinations - 1) /\ Configuration(m - 1) = Configuration(n - 1)
        BY <2>1, <3>1, <4>3
      <4>5. m = n
        BY <2>1, <4>1, <4>3, <4>4, MatrixNumbered
      <4> QED
        BY <4>3, <4>5
    <3> QED
      BY <2>1, <3>1, <3>2
  <2>5. CompletionStatus = IF all THEN 0 ELSE 2
    BY DEF CompletionStatus
  <2> HIDE DEF all
  <2>6. status \in {0, 2} => document = "whole" /\ status = CompletionStatus
    BY <1>1 DEF SuiteInv, PhaseInv, Killed, Running
  <2>7. pc = "idle" /\ document # "whole" => status = Killed
    BY <1>1 DEF SuiteInv, PhaseInv
  <2>8. (status = 0 => complete) /\ (status = 2 => ~complete)
    BY <2>3, <2>4, <2>5, <2>6
  <2> QED
    BY <2>6, <2>7, <2>8 DEF StatusTrue
<1> QED
  BY <1>1, SuiteInvariance, PTL

-----------------------------------------------------------------------------
\* The files of the export directory, and the rows they share with the document.
RowsInv == pc \in {"export", "idle"} /\ document = "whole" => RowsMatch

FilesInv ==
    /\ summary \in Seq(RunSet)
    /\ DOMAIN timelines = 0..(Combinations - 1)
    /\ RowsInv

LEMMA InitFiles == Init => FilesInv
<1> SUFFICES ASSUME Init PROVE FilesInv
  OBVIOUS
<1>1. summary = << >> /\ pc = "boot" /\ DOMAIN timelines = 0..(Combinations - 1)
  BY DEF Init, Begin
<1>2. summary \in Seq(RunSet)
  BY <1>1, EmptySeq
<1> QED
  BY <1>1, <1>2 DEF FilesInv, RowsInv, RowsMatch

\* One run more: its timeline is written over what was there, then perhaps its row.
LEMMA ExportRunFiles == ASSUME SuiteInv, FilesInv, ExportRun PROVE FilesInv'
<1>1. PICK k : k = Len(summary)
  OBVIOUS
<1>2. PICK run : run = runs[k + 1]
  OBVIOUS
<1>3. /\ runs \in Seq(RunSet) /\ Len(runs) \in Nat /\ Len(runs) <= Combinations
      /\ DOMAIN runs = 1..Len(runs)
  BY LenProperties DEF SuiteInv, RunsInv
<1>4. summary \in Seq(RunSet) /\ k \in Nat /\ k < Len(runs) /\ DOMAIN summary = 1..k
  BY <1>1, LenProperties DEF FilesInv, ExportRun
<1>5. run \in RunSet
  <2>1. k + 1 \in 1..Len(runs)
    BY <1>3, <1>4
  <2> QED
    BY <1>2, <1>3, <2>1, ElementOfSeq
<1>6. k \in 0..(Combinations - 1)
  BY <1>3, <1>4, Bases
<1>7. timelines' = [timelines EXCEPT ![k] = run] /\ runs' = runs /\ document' = document
  BY <1>1, <1>2 DEF ExportRun, TimelineNumber
<1>8. /\ DOMAIN timelines' = 0..(Combinations - 1) /\ timelines'[k] = run
      /\ \A i \in 0..(Combinations - 1) : i # k => timelines'[i] = timelines[i]
  BY <1>6, <1>7 DEF FilesInv
<1>9. pc = "export" /\ document = "whole"
  BY DEF ExportRun, SuiteInv, PhaseInv
<1>10. \A i \in 1..k : /\ summary[i] = runs[i] /\ timelines'[i - 1] = runs[i]
  <2>1. SUFFICES ASSUME NEW i \in 1..k
                 PROVE  summary[i] = runs[i] /\ timelines'[i - 1] = runs[i]
    OBVIOUS
  <2>2. summary[i] = runs[i] /\ timelines[i - 1] = runs[i]
    BY <1>4, <1>9 DEF FilesInv, RowsInv, RowsMatch
  <2>3. i - 1 \in 0..(Combinations - 1) /\ i - 1 # k
    BY <1>4, <1>6, Bases
  <2> QED
    BY <1>8, <2>2, <2>3
<1>11. CASE summary' = Append(summary, run)
  <2>1. /\ summary' \in Seq(RunSet) /\ Len(summary') = k + 1
        /\ \A i \in 1..k : summary'[i] = summary[i]
        /\ summary'[k + 1] = run
    BY <1>1, <1>4, <1>5, <1>11, AppendProperties
  <2>2. DOMAIN summary' = 1..(k + 1)
    BY <2>1, LenProperties
  <2>3. ASSUME NEW i \in 1..(k + 1)
        PROVE  summary'[i] = runs'[i] /\ timelines'[i - 1] = runs'[i]
    <3>1. CASE i \in 1..k
      BY <1>7, <1>10, <2>1, <3>1
    <3>2. CASE i = k + 1
      <4>1. i - 1 = k
        BY <1>4, <3>2
      <4> QED
        BY <1>2, <1>7, <1>8, <2>1, <3>2, <4>1
    <3> QED
      BY <1>4, <3>1, <3>2
  <2>4. Len(summary') <= Len(runs')
    BY <1>3, <1>4, <1>7, <2>1
  <2>5. RowsInv'
    BY <2>2, <2>3, <2>4 DEF RowsInv, RowsMatch
  <2> QED
    BY <1>8, <2>1, <2>5 DEF FilesInv
<1>12. CASE summary' = summary
  <2>1. Len(summary') <= Len(runs')
    BY <1>1, <1>3, <1>4, <1>7, <1>12
  <2>2. RowsInv'
    BY <1>4, <1>7, <1>10, <1>12, <2>1 DEF RowsInv, RowsMatch
  <2> QED
    BY <1>4, <1>8, <1>12, <2>2 DEF FilesInv
<1> QED
  BY <1>1, <1>2, <1>11, <1>12 DEF ExportRun

LEMMA NextFiles == SuiteInv /\ FilesInv /\ [Next]_vars => FilesInv'
<1> SUFFICES ASSUME SuiteInv, FilesInv, [Next]_vars PROVE FilesInv'
  OBVIOUS
<1> USE DEF FilesInv, RowsInv, RowsMatch
<1>1. CASE UNCHANGED vars
  BY <1>1 DEF vars
<1>2. CASE Boot
  BY <1>2 DEF Boot, ExportUntouched
<1>3. CASE Simulate
  BY <1>3 DEF Simulate, ExportUntouched
<1>4. CASE BudgetStop \/ MatrixDone
  BY <1>4 DEF BudgetStop, MatrixDone, ExportUntouched
<1>5. CASE Dump
  BY <1>5 DEF Dump, ExportUntouched
<1>6. CASE Kill
  BY <1>6 DEF Kill, ExportUntouched
<1>7. CASE Unreadable
  BY <1>7 DEF Unreadable, ExportUntouched
<1>8. CASE OpenSummary
  <2>1. summary' = << >> /\ timelines' = timelines /\ runs' = runs
    BY <1>8 DEF OpenSummary
  <2>2. summary' \in Seq(RunSet) /\ Len(summary') = 0 /\ DOMAIN summary' = {}
    BY <2>1, EmptySeq
  <2>3. Len(runs') \in Nat
    BY <2>1, LenProperties DEF SuiteInv, RunsInv
  <2> QED
    BY <2>1, <2>2, <2>3
<1>9. CASE ExportRun
  BY <1>9, ExportRunFiles
<1>10. CASE CloseSummary
  BY <1>10 DEF CloseSummary
<1>11. CASE Again
  BY <1>11 DEF Again
<1> QED
  BY <1>1, <1>2, <1>3, <1>4, <1>5, <1>6, <1>7, <1>8, <1>9, <1>10, <1>11
  DEF Next, Main, Export

\* A status of 0 vouches for the directory too: there are as many runs as it can
\* hold timelines, and an export that is through has replaced them all.
LEMMA LeftOver ==
    ASSUME SuiteInv, FilesInv, pc = "idle", status = 0, Len(summary) = Len(runs)
    PROVE  NoneLeftOver
<1>1. SUFFICES ASSUME NEW n \in DOMAIN timelines
               PROVE  n < Len(runs) /\ timelines[n] = runs[n + 1]
  BY DEF NoneLeftOver
<1>2. document = "whole" /\ CompletionStatus = 0
  BY DEF SuiteInv, PhaseInv, Killed
<1>3. Len(runs) = Combinations
  BY <1>2 DEF CompletionStatus
<1>4. n \in 0..(Combinations - 1) /\ Combinations \in Nat
  BY Bases DEF FilesInv
<1>5. DOMAIN summary = 1..Len(summary)
  BY LenProperties DEF FilesInv
<1>6. PICK i : i = n + 1 /\ i - 1 = n /\ i \in 1..Combinations
  BY <1>4
<1>7. timelines[i - 1] = runs[i]
  BY <1>2, <1>3, <1>5, <1>6 DEF FilesInv, RowsInv, RowsMatch
<1> QED
  BY <1>3, <1>4, <1>6, <1>7

\* For any matrix and any number of experiments exported to one directory: row i
\* of the summary and timeline i show the i-th run of the exported document,
\* also when the export failed on a run without arrivals, whatever files earlier
\* exports left; and of those none is left when the export of a complete
\* experiment is through.
THEOREM SummaryMatches == Spec => []SummaryMatchesTimelines
<1>1. Init => SuiteInv /\ FilesInv
  BY InitSuite, InitFiles
<1>2. (SuiteInv /\ FilesInv) /\ [Next]_vars => (SuiteInv /\ FilesInv)'
  BY NextSuite, NextFiles
<1>3. SuiteInv /\ FilesInv => SummaryMatchesTimelines
  BY LeftOver DEF FilesInv, RowsInv, SummaryMatchesTimelines
<1> QED
  BY <1>1, <1>2, <1>3, PTL DEF Spec
=============================================================================
