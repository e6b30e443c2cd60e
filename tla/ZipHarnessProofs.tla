---------------------------- MODULE ZipHarnessProofs ----------------------------
(***************************************************************************)
(* What the zip harness guarantees for every corpus, ceiling and buffer:   *)
(* a reader observes a prefix of its listing, the ceilings are exact, what *)
(* is compared is complete, and exit status 0 vouches for every run.       *)
(*                                                                         *)
(* The bytes of a listing are a recursive sum.  That it has a value, and   *)
(* which, is shown by induction: from the well-foundedness of the natural  *)
(* numbers, in the form of a statement about sets.                         *)
(***************************************************************************)
EXTENDS ZipHarness, SequenceTheorems, FiniteSetTheorems, WellFoundedInduction, TLAPS

-----------------------------------------------------------------------------
(* Induction.                                                                *)

LEMMA NatSets ==
    ASSUME NEW S, 0 \in S, \A n \in Nat : n \in S => n + 1 \in S
    PROVE  Nat \subseteq S
<1> DEFINE T == Nat \ S
<1>1. SUFFICES ASSUME T # {} PROVE FALSE
  OBVIOUS
<1>2. PICK x \in T : \A y \in T : <<y, x>> \notin OpToRel(<, Nat)
  <2>1. T \subseteq Nat
    OBVIOUS
  <2> HIDE DEF T
  <2> QED
    BY <1>1, <2>1, NatLessThanWellFounded, WFMin
<1>3. x \in Nat /\ x \notin S
  OBVIOUS
<1>4. x # 0
  BY <1>3
<1>5. x - 1 \in Nat /\ (x - 1) + 1 = x
  BY <1>3, <1>4
<1>6. x - 1 \in T
  BY <1>3, <1>5
<1>7. <<x - 1, x>> \in OpToRel(<, Nat)
  BY <1>3, <1>5 DEF OpToRel
<1> QED
  BY <1>2, <1>6, <1>7

-----------------------------------------------------------------------------
(* The bytes of a listing.                                                   *)

\* g holds the sums of items up to n.
SumsUp(g, items, n) ==
    g = [k \in 0..n |-> IF k = 0 THEN 0 ELSE g[k - 1] + items[k].data.size]

LEMMA SumsValues ==
    ASSUME NEW items, NEW n \in Nat, NEW g, SumsUp(g, items, n)
    PROVE  /\ g[0] = 0
           /\ \A k \in 0..(n - 1) : g[k + 1] = g[k] + items[k + 1].data.size
<1>1. g[0] = 0
  BY DEF SumsUp
<1>2. ASSUME NEW k \in 0..(n - 1) PROVE g[k + 1] = g[k] + items[k + 1].data.size
  <2>1. (k + 1) - 1 = k /\ k + 1 \in 0..n /\ k + 1 # 0
    OBVIOUS
  <2> QED
    BY <2>1 DEF SumsUp
<1> QED
  BY <1>1, <1>2

LEMMA SumsExist == ASSUME NEW items, NEW n \in Nat PROVE \E g : SumsUp(g, items, n)
<1> DEFINE S == {m \in Nat : \E g : SumsUp(g, items, m)}
<1>1. 0 \in S
  <2>1. SumsUp([k \in 0..0 |-> 0], items, 0)
    BY DEF SumsUp
  <2> QED
    BY <2>1
<1>2. ASSUME NEW m \in Nat, m \in S PROVE m + 1 \in S
  <2>1. PICK g : SumsUp(g, items, m)
    BY <1>2
  <2>2. PICK h : h = [k \in 0..(m + 1) |-> IF k = 0 THEN 0 ELSE g[k - 1] + items[k].data.size]
    OBVIOUS
  <2>3. ASSUME NEW k \in 1..(m + 1) PROVE h[k - 1] = g[k - 1]
    <3>1. k - 1 \in 0..m /\ k - 1 \in 0..(m + 1)
      OBVIOUS
    <3>2. h[k - 1] = IF k - 1 = 0 THEN 0 ELSE g[(k - 1) - 1] + items[k - 1].data.size
      BY <2>2, <3>1
    <3>3. g[k - 1] = IF k - 1 = 0 THEN 0 ELSE g[(k - 1) - 1] + items[k - 1].data.size
      BY <2>1, <3>1 DEF SumsUp
    <3> QED
      BY <3>2, <3>3
  <2>4. ASSUME NEW k \in 0..(m + 1)
        PROVE  (IF k = 0 THEN 0 ELSE g[k - 1] + items[k].data.size)
                = (IF k = 0 THEN 0 ELSE h[k - 1] + items[k].data.size)
    <3>1. k # 0 => k \in 1..(m + 1)
      OBVIOUS
    <3> QED
      BY <2>3, <3>1
  <2>5. h = [k \in 0..(m + 1) |-> IF k = 0 THEN 0 ELSE h[k - 1] + items[k].data.size]
    BY <2>2, <2>4
  <2>6. SumsUp(h, items, m + 1)
    BY <2>5 DEF SumsUp
  <2> QED
    BY <2>6
<1> HIDE DEF S
<1>3. Nat \subseteq S
  BY <1>1, <1>2, NatSets
<1> QED
  BY <1>3 DEF S

LEMMA SizesSum ==
    ASSUME NEW items, NEW n \in Nat
    PROVE  \E g : SumsUp(g, items, n) /\ Sizes(items, n) = g[n]
<1> DEFINE sum == CHOOSE g :
        g = [k \in 0..n |-> IF k = 0 THEN 0 ELSE g[k - 1] + items[k].data.size]
<1>1. SumsUp(sum, items, n)
  BY SumsExist DEF SumsUp
<1>2. Sizes(items, n) = sum[n]
  BY DEF Sizes
<1> QED
  BY <1>1, <1>2

LEMMA SumsAgree ==
    ASSUME NEW items, NEW m \in Nat, NEW n \in Nat, NEW g, NEW h,
           SumsUp(g, items, m), SumsUp(h, items, n)
    PROVE  \A k \in Nat : k <= m /\ k <= n => g[k] = h[k]
<1> DEFINE S == {k \in Nat : k <= m /\ k <= n => g[k] = h[k]}
<1>0. /\ g[0] = 0 /\ \A k \in 0..(m - 1) : g[k + 1] = g[k] + items[k + 1].data.size
      /\ h[0] = 0 /\ \A k \in 0..(n - 1) : h[k + 1] = h[k] + items[k + 1].data.size
  <2>1. /\ g[0] = 0
        /\ \A k \in 0..(m - 1) : g[k + 1] = g[k] + items[k + 1].data.size
    BY SumsValues
  <2>2. /\ h[0] = 0
        /\ \A k \in 0..(n - 1) : h[k + 1] = h[k] + items[k + 1].data.size
    BY SumsValues
  <2> QED
    BY <2>1, <2>2
<1>1. 0 \in S
  BY <1>0
<1>2. ASSUME NEW k \in Nat, k \in S PROVE k + 1 \in S
  <2>1. SUFFICES ASSUME k + 1 <= m, k + 1 <= n PROVE g[k + 1] = h[k + 1]
    OBVIOUS
  <2>2. g[k] = h[k] /\ k \in 0..(m - 1) /\ k \in 0..(n - 1)
    BY <1>2, <2>1
  <2> QED
    BY <1>0, <2>2
<1> HIDE DEF S
<1>3. Nat \subseteq S
  BY <1>1, <1>2, NatSets
<1> QED
  BY <1>3 DEF S

LEMMA SizesStep ==
    ASSUME NEW items
    PROVE  /\ Sizes(items, 0) = 0
           /\ \A n \in Nat : Sizes(items, n + 1) = Sizes(items, n) + items[n + 1].data.size
<1>1. Sizes(items, 0) = 0
  <2>1. PICK g : SumsUp(g, items, 0) /\ Sizes(items, 0) = g[0]
    BY SizesSum
  <2> QED
    BY <2>1, SumsValues
<1>2. ASSUME NEW n \in Nat PROVE Sizes(items, n + 1) = Sizes(items, n) + items[n + 1].data.size
  <2>1. PICK g : SumsUp(g, items, n) /\ Sizes(items, n) = g[n]
    BY SizesSum
  <2>2. n + 1 \in Nat /\ n \in 0..((n + 1) - 1)
    OBVIOUS
  <2>3. PICK h : SumsUp(h, items, n + 1) /\ Sizes(items, n + 1) = h[n + 1]
    BY <2>2, SizesSum
  <2>4. h[n + 1] = h[n] + items[n + 1].data.size
    BY <2>2, <2>3, SumsValues
  <2>5. g[n] = h[n]
    BY <2>1, <2>2, <2>3, SumsAgree
  <2> QED
    BY <2>1, <2>3, <2>4, <2>5
<1> QED
  BY <1>1, <1>2

\* The bytes of more entries are no fewer.
LEMMA SizesGrow ==
    ASSUME NEW items, NEW m \in Nat, \A i \in 1..m : items[i].data.size \in Nat
    PROVE  \A n \in 0..m : Sizes(items, n) \in Nat /\ Sizes(items, n) <= Sizes(items, m)
<1> DEFINE S == {n \in Nat : n <= m => Sizes(items, n) \in Nat}
<1>1. 0 \in S
  BY SizesStep
<1>2. ASSUME NEW n \in Nat, n \in S PROVE n + 1 \in S
  <2>1. SUFFICES ASSUME n + 1 <= m PROVE Sizes(items, n + 1) \in Nat
    OBVIOUS
  <2>2. n + 1 \in 1..m /\ Sizes(items, n) \in Nat
    BY <1>2, <2>1
  <2> QED
    BY <2>2, SizesStep
<1> HIDE DEF S
<1>3. \A n \in 0..m : Sizes(items, n) \in Nat
  <2>1. Nat \subseteq S
    BY <1>1, <1>2, NatSets
  <2> QED
    BY <2>1 DEF S
<1> DEFINE D == {d \in Nat : d <= m => Sizes(items, m - d) <= Sizes(items, m)}
<1>4. 0 \in D
  BY <1>3
<1>5. ASSUME NEW d \in Nat, d \in D PROVE d + 1 \in D
  <2>1. SUFFICES ASSUME d + 1 <= m PROVE Sizes(items, m - (d + 1)) <= Sizes(items, m)
    OBVIOUS
  <2>2. PICK k \in Nat : k = m - (d + 1)
    BY <2>1
  <2>3. k + 1 = m - d /\ k + 1 \in 1..m /\ k \in 0..m /\ m \in 0..m /\ k + 1 \in 0..m
    BY <2>1, <2>2
  <2>4. Sizes(items, k + 1) <= Sizes(items, m)
    BY <1>5, <2>1, <2>3
  <2>5. Sizes(items, k + 1) = Sizes(items, k) + items[k + 1].data.size
    BY SizesStep
  <2>6. Sizes(items, k) \in Nat /\ Sizes(items, m) \in Nat /\ items[k + 1].data.size \in Nat
    BY <1>3, <2>3
  <2>7. Sizes(items, k) <= Sizes(items, m)
    BY <2>4, <2>5, <2>6
  <2> QED
    BY <2>2, <2>7
<1> HIDE DEF D
<1>6. Nat \subseteq D
  BY <1>4, <1>5, NatSets
<1>7. ASSUME NEW n \in 0..m PROVE Sizes(items, n) <= Sizes(items, m)
  <2>1. m - n \in Nat /\ m - n <= m /\ m - (m - n) = n
    OBVIOUS
  <2> QED
    BY <1>6, <2>1 DEF D
<1> QED
  BY <1>3, <1>7

-----------------------------------------------------------------------------
(* Listings and what is observed of them.                                    *)

Data == [size : Nat, marked : BOOLEAN]
Entry == [name : STRING, data : Data]

LEMMA ListingType ==
    ASSUME fixture \in DOMAIN Corpus, NEW reader
    PROVE  Listing(Archive, reader) \in Seq(Entry)
<1>1. PICK archive : archive = Archive
  OBVIOUS
<1>2. /\ archive.records \in Seq([name : STRING, central : STRING, data : Data])
      /\ archive.order \in Seq(Nat)
      /\ \A j \in DOMAIN archive.order : archive.order[j] \in DOMAIN archive.records
  <2>1. Corpus[fixture] \in [records : Seq([name : STRING, central : STRING, data : Data]),
                             order : Seq(Nat)]
    BY ZipHarnessAssumption, LenProperties, ElementOfSeq DEF Data
  <2> QED
    BY <1>1, <2>1, ZipHarnessAssumption DEF Archive
<1>3. PICK m, n \in Nat : DOMAIN archive.records = 1..m /\ DOMAIN archive.order = 1..n
  BY <1>2, LenProperties
<1>4. \A i \in DOMAIN archive.records :
            archive.records[i] \in [name : STRING, central : STRING, data : Data]
  BY <1>2, LenProperties, ElementOfSeq
<1>5. CASE reader = "java-stream"
  <2>1. Listing(archive, reader) \in [1..m -> Entry]
    BY <1>3, <1>4, <1>5 DEF Listing, Entry
  <2> QED
    BY <1>1, <1>3, <2>1, SeqDef
<1>6. CASE reader # "java-stream"
  <2>1. Listing(archive, reader) \in [1..n -> Entry]
    BY <1>2, <1>3, <1>4, <1>6 DEF Listing, Entry
  <2> QED
    BY <1>1, <1>3, <2>1, SeqDef
<1> QED
  BY <1>5, <1>6

LEMMA ListingFacts ==
    ASSUME fixture \in DOMAIN Corpus, NEW reader, NEW list, list = Listing(Archive, reader)
    PROVE  /\ Len(list) \in Nat /\ DOMAIN list = 1..Len(list)
           /\ \A i \in 1..Len(list) : list[i].data.size \in Nat
<1>1. list \in Seq(Entry)
  BY ListingType
<1>2. Len(list) \in Nat /\ DOMAIN list = 1..Len(list)
  BY <1>1, LenProperties
<1>3. ASSUME NEW i \in 1..Len(list) PROVE list[i].data.size \in Nat
  <2>1. list[i] \in Entry
    BY <1>1, ElementOfSeq
  <2> QED
    BY <2>1 DEF Entry, Data
<1> QED
  BY <1>2, <1>3

\* What a reader has observed after n whole entries.
Whole(list, n) == [i \in 1..n |-> Observed(list[i])]

LEMMA WholeGrows ==
    ASSUME NEW list, NEW n \in Nat
    PROVE  /\ Len(Whole(list, n)) = n
           /\ Append(Whole(list, n), Observed(list[n + 1])) = Whole(list, n + 1)
<1> DEFINE S == {Observed(list[i]) : i \in 1..(n + 1)}
<1>1. Whole(list, n) \in [1..n -> S] /\ Whole(list, n + 1) \in [1..(n + 1) -> S]
  BY DEF Whole
<1>2. Observed(list[n + 1]) \in S
  OBVIOUS
<1> HIDE DEF S
<1>3. Whole(list, n) \in Seq(S) /\ Whole(list, n + 1) \in Seq(S)
  BY <1>1, SeqDef
<1>4. Len(Whole(list, n)) = n /\ Len(Whole(list, n + 1)) = n + 1
  <2>1. /\ DOMAIN Whole(list, n) = 1..n /\ DOMAIN Whole(list, n + 1) = 1..(n + 1)
    BY DEF Whole
  <2> QED
    BY <1>3, <2>1, LenProperties
<1>5. PICK s : s = Append(Whole(list, n), Observed(list[n + 1]))
  OBVIOUS
<1>6. /\ s \in Seq(S) /\ Len(s) = n + 1
      /\ \A i \in 1..n : s[i] = Whole(list, n)[i]
      /\ s[n + 1] = Observed(list[n + 1])
  BY <1>2, <1>3, <1>4, <1>5, AppendProperties
<1>7. \A i \in 1..(n + 1) : s[i] = Whole(list, n + 1)[i]
  BY <1>6 DEF Whole
<1>8. s = Whole(list, n + 1)
  BY <1>3, <1>4, <1>6, <1>7, SeqEqual
<1> QED
  BY <1>4, <1>5, <1>8

LEMMA WholeEmpty == ASSUME NEW list PROVE Whole(list, 0) = << >>
BY DEF Whole

-----------------------------------------------------------------------------
(* The invariants.  A reader has observed its first entries, whole, and its   *)
(* byte count is theirs and that of the entry it is in; a finished run is     *)
(* judged by the listing it was given.                                       *)

Reads == process \in {"reading", "entry"}
Listed == Listing(Archive, Reader)

PlaceInv ==
    /\ fixture \in DOMAIN Corpus
    /\ adapter \in 1..4
    /\ process \in {"none", "reading", "entry", "compared"}
    /\ Reads => adapter \in 1..3 /\ status = Running
    /\ process = "compared" => adapter = 4
    /\ status \in {Running, 0, 1}
    /\ status # Running => process = "compared" /\ fixture = Len(Corpus)
    /\ \E S : runs \in Seq(S)
    /\ Len(runs) = adapter - 1

ReadInv ==
    /\ ~Reads => entries = << >> /\ total = 0
    /\ Reads =>
        LET list == Listed
            n == Len(entries)
        IN  /\ n \in 0..Len(list) /\ n <= MaxEntries
            /\ entries = Whole(list, n)
            /\ total \in 0..MaxBytes
            /\ process = "reading" => total = Sizes(list, n)
            /\ process = "entry" =>
                /\ n < Len(list) /\ n < MaxEntries
                /\ got \in 0..list[n + 1].data.size
                /\ total = Sizes(list, n) + got

Exceeds(list) == Len(list) > MaxEntries \/ Sizes(list, Len(list)) > MaxBytes

Judged(list, classification, observation) ==
    /\ classification = "limit-exceeded" => Exceeds(list)
    /\ classification \in {"success", "success-with-warning"} =>
            ~Exceeds(list) /\ observation = Whole(list, Len(list))

RunsInv ==
    \A a \in DOMAIN runs :
        Judged(Listing(Archive, Adapters[a]), runs[a].classification, runs[a].entries)

HarnessInv == PlaceInv /\ ReadInv /\ RunsInv

LEMMA RunsFacts ==
    ASSUME PlaceInv
    PROVE  DOMAIN runs = 1..(adapter - 1) /\ adapter - 1 \in Nat
<1>1. PICK S : runs \in Seq(S)
  BY DEF PlaceInv
<1>2. Len(runs) \in Nat /\ DOMAIN runs = 1..Len(runs)
  BY <1>1, LenProperties
<1> QED
  BY <1>2 DEF PlaceInv

\* What is known of a reader that runs.
LEMMA ReadsFacts ==
    ASSUME HarnessInv, Reads
    PROVE  LET list == Listed
               n == Len(entries)
           IN  /\ n \in 0..Len(list) /\ n <= MaxEntries /\ Len(list) \in Nat
               /\ \A i \in 1..Len(list) : list[i].data.size \in Nat
               /\ entries = Whole(list, n) /\ total \in 0..MaxBytes /\ total \in Nat
               /\ Sizes(list, n) \in Nat /\ Sizes(list, Len(list)) \in Nat
               /\ Sizes(list, n) <= Sizes(list, Len(list))
               /\ n < Len(list) =>
                    /\ Sizes(list, n + 1) = Sizes(list, n) + list[n + 1].data.size
                    /\ Sizes(list, n + 1) <= Sizes(list, Len(list))
                    /\ list[n + 1].data.size \in Nat
               /\ MaxBytes \in Nat /\ MaxEntries \in Nat
<1>1. PICK list, n : list = Listed /\ n = Len(entries)
  OBVIOUS
<1>2. /\ n \in 0..Len(list) /\ n <= MaxEntries
      /\ entries = Whole(list, n) /\ total \in 0..MaxBytes /\ total \in Nat
  BY <1>1 DEF HarnessInv, ReadInv
<1>3. /\ Len(list) \in Nat /\ \A i \in 1..Len(list) : list[i].data.size \in Nat
  BY <1>1, ListingFacts DEF HarnessInv, PlaceInv, Listed
<1>4. \A k \in 0..Len(list) : Sizes(list, k) \in Nat /\ Sizes(list, k) <= Sizes(list, Len(list))
  BY <1>3, SizesGrow
<1>5. n < Len(list) =>
            /\ Sizes(list, n + 1) = Sizes(list, n) + list[n + 1].data.size
            /\ n + 1 \in 0..Len(list) /\ n + 1 \in 1..Len(list)
  BY <1>2, <1>3, SizesStep
<1>6. Len(list) \in 0..Len(list)
  BY <1>3
<1> QED
  BY <1>1, <1>2, <1>3, <1>4, <1>5, <1>6, ZipHarnessAssumption

-----------------------------------------------------------------------------
(* The end of a run.                                                         *)

LEMMA RunEnds ==
    ASSUME HarnessInv, Reads, NEW classification, NEW observation,
           RecordRun(classification, observation),
           Judged(Listed, classification, observation)
    PROVE  HarnessInv'
<1>1. /\ runs' = Append(runs, [classification |-> classification, entries |-> observation])
      /\ adapter' = adapter + 1 /\ process' = "none"
      /\ entries' = << >> /\ total' = 0
      /\ UNCHANGED <<fixture, status>>
  BY DEF RecordRun
<1>2. adapter \in 1..3 /\ status = Running
  BY DEF HarnessInv, PlaceInv
<1>3. PICK run : run = [classification |-> classification, entries |-> observation]
  OBVIOUS
<1>4. PICK S : runs \in Seq(S)
  BY DEF HarnessInv, PlaceInv
<1>5. runs \in Seq(S \cup {run}) /\ run \in S \cup {run}
  BY <1>4, SeqMonotonic
<1>6. /\ runs' \in Seq(S \cup {run}) /\ Len(runs') = Len(runs) + 1
      /\ \A a \in 1..Len(runs) : runs'[a] = runs[a]
      /\ runs'[Len(runs) + 1] = run
  BY <1>1, <1>3, <1>5, AppendProperties
<1>7. Len(runs) = adapter - 1 /\ DOMAIN runs = 1..Len(runs) /\ DOMAIN runs' = 1..adapter
  BY <1>2, <1>4, <1>6, LenProperties DEF HarnessInv, PlaceInv
<1>8. PlaceInv'
  BY <1>1, <1>2, <1>6, <1>7 DEF HarnessInv, PlaceInv, Reads
<1>9. ReadInv'
  BY <1>1 DEF ReadInv, Reads
<1>10. RunsInv'
  <2> SUFFICES ASSUME NEW a \in 1..adapter
               PROVE  Judged(Listing(Archive, Adapters[a]), runs'[a].classification, runs'[a].entries)
    BY <1>1, <1>7 DEF RunsInv, Archive, Judged, Exceeds
  <2>1. CASE a = adapter
    <3>1. runs'[a] = run
      BY <1>2, <1>6, <1>7, <2>1
    <3> QED
      BY <1>3, <2>1, <3>1 DEF Listed, Reader
  <2>2. CASE a # adapter
    <3>1. a \in 1..Len(runs)
      BY <1>2, <1>7, <2>2
    <3> QED
      BY <1>6, <1>7, <3>1 DEF HarnessInv, RunsInv
  <2> QED
    BY <2>1, <2>2
<1> QED
  BY <1>8, <1>9, <1>10 DEF HarnessInv

\* A report without a limit is judged only if it is a success.
LEMMA ReportEnds ==
    ASSUME HarnessInv, Reads, NEW code, NEW error, Report(code, error),
           error \in {"limit", "refused", "none"},
           error = "limit" => Exceeds(Listed),
           error = "none" => ~Exceeds(Listed) /\ entries = Whole(Listed, Len(Listed)),
           error = "refused" => code = 2
    PROVE  HarnessInv'
<1>1. PICK noisy \in BOOLEAN : RecordRun(Classification(code, error, noisy), entries)
  BY DEF Report
<1>2. Judged(Listed, Classification(code, error, noisy), entries)
  BY DEF Judged, Classification
<1> QED
  BY <1>1, <1>2, RunEnds

-----------------------------------------------------------------------------
(* The steps.                                                                *)

LEMMA InitHarness == Init => HarnessInv
<1> SUFFICES ASSUME Init PROVE HarnessInv
  OBVIOUS
<1> USE DEF Init
<1>1. fixture \in DOMAIN Corpus
  BY ZipHarnessAssumption, LenProperties, EmptySeq
<1>2. runs \in Seq({}) /\ Len(runs) = 0 /\ DOMAIN runs = {}
  BY EmptySeq
<1>3. PlaceInv
  BY <1>1, <1>2 DEF PlaceInv, Reads, Running
<1>4. ReadInv /\ RunsInv
  BY <1>2 DEF ReadInv, RunsInv, Reads
<1> QED
  BY <1>3, <1>4 DEF HarnessInv

\* A reader goes on: what was finished stays.
LEMMA ReaderGoesOn ==
    ASSUME HarnessInv, Reads, Reads', Harness, ReadInv'
    PROVE  HarnessInv'
<1>1. PlaceInv'
  BY DEF HarnessInv, PlaceInv, Harness, Reads
<1>2. RunsInv'
  BY DEF HarnessInv, RunsInv, Harness, Archive, Judged, Exceeds
<1> QED
  BY <1>1, <1>2 DEF HarnessInv

LEMMA StartHarness == ASSUME HarnessInv, Start PROVE HarnessInv'
<1>1. /\ process = "none" /\ adapter \in 1..3 /\ status = Running /\ process' = "reading"
      /\ UNCHANGED <<fixture, adapter, runs, failed, control, status, entries, total, got>>
  BY DEF HarnessInv, PlaceInv, Start, Harness, Adapters
<1>2. entries = << >> /\ total = 0
  BY <1>1 DEF HarnessInv, ReadInv, Reads
<1>3. PlaceInv'
  BY <1>1 DEF HarnessInv, PlaceInv, Reads
<1>4. RunsInv'
  BY <1>1 DEF HarnessInv, RunsInv, Archive, Judged, Exceeds
<1>5. ReadInv'
  <2>1. PICK list : list = Listed
    OBVIOUS
  <2>2. Listed' = list
    BY <1>1, <2>1 DEF Listed, Archive, Reader
  <2>3. Len(list) \in Nat
    BY <2>1, ListingFacts DEF HarnessInv, PlaceInv, Listed
  <2>4. Len(entries) = 0 /\ entries = Whole(list, 0) /\ Sizes(list, 0) = 0
    BY <1>2, EmptySeq, WholeEmpty, SizesStep
  <2>5. entries' = entries /\ total' = 0 /\ Reads' /\ 0 <= MaxEntries /\ 0 \in 0..MaxBytes
    BY <1>1, <1>2, ZipHarnessAssumption DEF Reads
  <2> QED
    BY <1>1, <2>2, <2>3, <2>4, <2>5 DEF ReadInv
<1> QED
  BY <1>3, <1>4, <1>5 DEF HarnessInv

\* The ends of a run.
LEMMA EndHarness ==
    ASSUME HarnessInv, Timeout \/ Crash \/ Succeed \/ Refuse \/ EntryCeiling
    PROVE  HarnessInv'
<1>1. Reads
  BY DEF Timeout, Crash, Succeed, Refuse, EntryCeiling, Reads
<1>2. CASE Timeout \/ Crash
  <2>1. PICK c \in {"timeout", "adapter-error"} : RecordRun(c, << >>)
    BY <1>2 DEF Timeout, Crash
  <2>2. Judged(Listed, c, << >>)
    BY <2>1 DEF Judged
  <2> QED
    BY <1>1, <2>1, <2>2, RunEnds
<1>3. CASE Succeed
  <2>1. /\ process = "reading" /\ Len(entries) = Len(Listed) /\ Report(0, "none")
    BY <1>3 DEF Succeed, AllRead, Listed
  <2>2. total = Sizes(Listed, Len(entries))
    BY <1>1, <2>1 DEF HarnessInv, ReadInv
  <2>3. ~Exceeds(Listed) /\ entries = Whole(Listed, Len(Listed))
    BY <1>1, <2>1, <2>2, ReadsFacts DEF Exceeds
  <2> QED
    BY <1>1, <2>1, <2>3, ReportEnds
<1>4. CASE Refuse
  BY <1>1, <1>4, ReportEnds DEF Refuse
<1>5. CASE EntryCeiling
  <2>1. Len(entries) # Len(Listed) /\ Len(entries) >= MaxEntries /\ Report(2, "limit")
    BY <1>5 DEF EntryCeiling, AllRead, Listed
  <2>2. Exceeds(Listed)
    BY <1>1, <2>1, ReadsFacts DEF Exceeds
  <2> QED
    BY <1>1, <2>1, <2>2, ReportEnds
<1> QED
  BY <1>2, <1>3, <1>4, <1>5

\* What is read of the entry that is due.
LEMMA DueFacts ==
    ASSUME HarnessInv, Reads, ~AllRead
    PROVE  /\ Len(entries) < Len(Listed) /\ Due = Listed[Len(entries) + 1]
           /\ Due.data.size \in Nat
           /\ Sizes(Listed, Len(entries) + 1) = Sizes(Listed, Len(entries)) + Due.data.size
           /\ Sizes(Listed, Len(entries) + 1) <= Sizes(Listed, Len(Listed))
           /\ Sizes(Listed, Len(entries)) \in Nat /\ Sizes(Listed, Len(Listed)) \in Nat
<1>1. Len(entries) # Len(Listed) /\ Due = Listed[Len(entries) + 1]
  BY DEF AllRead, Due, Listed
<1>2. Len(entries) < Len(Listed)
  BY <1>1, ReadsFacts
<1> QED
  BY <1>1, <1>2, ReadsFacts

\* One more whole entry.
LEMMA OneMoreEntry ==
    ASSUME HarnessInv, Reads, ~AllRead, Len(entries) < MaxEntries,
           entries' = Append(entries, Observed(Due)), process' = "reading", Harness,
           total' \in 0..MaxBytes, total' = Sizes(Listed, Len(entries)) + Due.data.size
    PROVE  HarnessInv'
<1>1. PICK list, n : list = Listed /\ n = Len(entries)
  OBVIOUS
<1>2. /\ n \in Nat /\ Len(list) \in Nat /\ n < Len(list) /\ n < MaxEntries /\ MaxEntries \in Nat
      /\ entries = Whole(list, n) /\ Due = list[n + 1]
  BY <1>1, ReadsFacts, DueFacts
<1>3. entries' = Whole(list, n + 1) /\ Len(entries') = n + 1
  <2>1. entries' = Append(Whole(list, n), Observed(list[n + 1])) /\ n + 1 \in Nat
    BY <1>2
  <2>2. Append(Whole(list, n), Observed(list[n + 1])) = Whole(list, n + 1)
    BY <1>2, WholeGrows
  <2>3. Len(Whole(list, n + 1)) = n + 1
    BY <2>1, WholeGrows
  <2> QED
    BY <2>1, <2>2, <2>3
<1>4. total' = Sizes(list, n + 1)
  BY <1>1, DueFacts
<1>5. Listed' = list
  BY <1>1 DEF Listed, Archive, Reader, Harness
<1>6. n + 1 \in 0..Len(list) /\ n + 1 <= MaxEntries
  BY <1>2
<1>7. ReadInv'
  BY <1>3, <1>4, <1>5, <1>6 DEF ReadInv, Reads
<1> QED
  BY <1>7, ReaderGoesOn DEF Reads

LEMMA PythonHarness == ASSUME HarnessInv, PythonEntry PROVE HarnessInv'
<1>1. process = "reading" /\ Reads /\ ~AllRead /\ Len(entries) < MaxEntries
  BY DEF PythonEntry, Readable, Reads
<1>2. PICK s, b : s = Due.data.size /\ b = Sizes(Listed, Len(entries))
  OBVIOUS
<1>3. /\ s \in Nat /\ total = b /\ total \in 0..MaxBytes /\ MaxBytes \in Nat
      /\ b + s <= Sizes(Listed, Len(Listed)) /\ Sizes(Listed, Len(Listed)) \in Nat
  BY <1>1, <1>2, DueFacts, ReadsFacts DEF HarnessInv, ReadInv
<1>4. /\ s <= (MaxBytes + 1) - total => PythonTotal = total + s
      /\ ~(s <= (MaxBytes + 1) - total) => PythonTotal = MaxBytes + 1
  <2>1. PythonTotal = total + Least(s, MaxBytes + 1 - total)
    BY <1>2 DEF PythonTotal
  <2> QED
    BY <1>3, <2>1 DEF Least
<1>5. CASE PythonTotal > MaxBytes /\ Report(2, "limit")
  <2>1. Exceeds(Listed)
    BY <1>3, <1>4, <1>5 DEF Exceeds
  <2> QED
    BY <1>1, <1>5, <2>1, ReportEnds
<1>6. CASE /\ PythonTotal <= MaxBytes /\ total' = PythonTotal
           /\ entries' = Append(entries, Observed(Due)) /\ Harness /\ process' = process
  <2>1. total' = b + s /\ total' \in 0..MaxBytes
    BY <1>3, <1>4, <1>6
  <2> QED
    BY <1>1, <1>2, <1>6, <2>1, OneMoreEntry
<1> QED
  BY <1>5, <1>6 DEF PythonEntry

LEMMA JavaHarness == ASSUME HarnessInv, JavaEntry \/ JavaEnd PROVE HarnessInv'
<1>1. CASE JavaEntry
  <2>1. /\ process = "reading" /\ Reads /\ ~AllRead /\ Len(entries) < MaxEntries
        /\ process' = "entry" /\ got' = 0 /\ Harness /\ UNCHANGED <<entries, total>>
    BY <1>1 DEF JavaEntry, Readable, Reads
  <2>2. PICK list, n : list = Listed /\ n = Len(entries)
    OBVIOUS
  <2>3. /\ n \in 0..Len(list) /\ n < Len(list) /\ n < MaxEntries /\ n <= MaxEntries
        /\ entries = Whole(list, n) /\ total \in 0..MaxBytes /\ total = Sizes(list, n)
        /\ list[n + 1].data.size \in Nat /\ Sizes(list, n) \in Nat
    BY <2>1, <2>2, DueFacts, ReadsFacts DEF HarnessInv, ReadInv
  <2>4. Listed' = list
    BY <2>1, <2>2 DEF Listed, Archive, Reader, Harness
  <2>6. 0 \in 0..list[n + 1].data.size /\ total = Sizes(list, n) + 0
    BY <2>3
  <2>5. ReadInv'
    BY <2>1, <2>2, <2>3, <2>4, <2>6 DEF ReadInv, Reads
  <2> QED
    BY <2>1, <2>5, ReaderGoesOn DEF Reads
<1>2. CASE JavaEnd
  <2>1. /\ process = "entry" /\ Reads /\ got = Due.data.size
        /\ entries' = Append(entries, Observed(Due)) /\ process' = "reading" /\ Harness
        /\ total' = total
    BY <1>2 DEF JavaEnd, Reads
  <2>2. /\ Len(entries) < Len(Listed) /\ Len(entries) < MaxEntries /\ total \in 0..MaxBytes
        /\ total = Sizes(Listed, Len(entries)) + got /\ Len(Listed) \in Nat
    BY <2>1, ReadsFacts DEF HarnessInv, ReadInv
  <2>3. ~AllRead
    BY <2>2 DEF AllRead, Listed
  <2> QED
    BY <2>1, <2>2, <2>3, OneMoreEntry
<1> QED
  BY <1>1, <1>2

\* A read is within the entry, so that the bytes read are no more than listed.
LEMMA JavaReadHarness == ASSUME HarnessInv, JavaRead PROVE HarnessInv'
<1>1. process = "entry" /\ Reads
  BY DEF JavaRead, Reads
<1>2. PICK list, n : list = Listed /\ n = Len(entries)
  OBVIOUS
<1>3. PICK s : s = list[n + 1].data.size
  OBVIOUS
<1>4. /\ n < Len(list) /\ n < MaxEntries /\ n \in 0..Len(list) /\ n <= MaxEntries
      /\ got \in 0..s /\ total = Sizes(list, n) + got /\ total \in 0..MaxBytes
      /\ Len(list) \in Nat /\ entries = Whole(list, n)
  BY <1>1, <1>2, <1>3, ReadsFacts DEF HarnessInv, ReadInv
<1>5. ~AllRead
  BY <1>2, <1>4 DEF AllRead, Listed
<1>6. /\ s \in Nat /\ Due.data.size = s /\ Sizes(list, n) \in Nat
      /\ Sizes(list, n) + s <= Sizes(list, Len(list)) /\ Sizes(list, Len(list)) \in Nat
      /\ MaxBytes \in Nat
  BY <1>1, <1>2, <1>3, <1>5, DueFacts, ReadsFacts
<1>7. PICK count \in 1..Least(ReadLimit, s - got) :
        \/ total + count > MaxBytes /\ Report(2, "limit")
        \/ /\ total + count <= MaxBytes
           /\ total' = total + count /\ got' = got + count
           /\ Harness /\ UNCHANGED <<process, entries>>
  BY <1>6 DEF JavaRead
<1>8. count \in Nat /\ count <= s - got
  <2>1. ReadLimit \in Int
    <3>1. Buffer \in Int /\ MaxBytes - total + 1 \in Int
      BY <1>4, <1>6, ZipHarnessAssumption
    <3> QED
      BY <3>1 DEF ReadLimit, Least
  <2>2. s - got \in Int
    BY <1>4, <1>6
  <2> QED
    BY <2>1, <2>2 DEF Least
<1>9. CASE total + count > MaxBytes /\ Report(2, "limit")
  <2>1. Sizes(list, Len(list)) > MaxBytes
    BY <1>4, <1>6, <1>8, <1>9
  <2> QED
    BY <1>1, <1>2, <1>9, <2>1, ReportEnds DEF Exceeds
<1>10. CASE /\ total + count <= MaxBytes
            /\ total' = total + count /\ got' = got + count
            /\ Harness /\ UNCHANGED <<process, entries>>
  <2>1. Listed' = list
    BY <1>2, <1>10 DEF Listed, Archive, Reader, Harness
  <2>2. /\ got' \in 0..s /\ total' = Sizes(list, n) + got' /\ total' \in 0..MaxBytes
    <3>1. got \in Nat /\ total \in Nat /\ got' = got + count /\ total' = total + count
      BY <1>4, <1>10
    <3>2. got' \in 0..s
      BY <1>4, <1>6, <1>8, <3>1
    <3>3. total' = Sizes(list, n) + got'
      BY <1>4, <1>6, <1>8, <3>1
    <3>4. total' \in 0..MaxBytes
      BY <1>6, <1>8, <1>10, <3>1
    <3> QED
      BY <3>2, <3>3, <3>4
  <2>3. ReadInv'
    BY <1>1, <1>2, <1>3, <1>4, <1>10, <2>1, <2>2 DEF ReadInv, Reads
  <2> QED
    BY <1>1, <1>10, <2>3, ReaderGoesOn DEF Reads
<1> QED
  BY <1>7, <1>9, <1>10

LEMMA MainHarness == ASSUME HarnessInv, Compare \/ NextArchive \/ Exit PROVE HarnessInv'
<1>0. Len(Corpus) \in Nat /\ DOMAIN Corpus = 1..Len(Corpus)
  BY ZipHarnessAssumption, LenProperties
<1>1. entries = << >> /\ total = 0 /\ UNCHANGED <<entries, total>> /\ ~Reads'
  BY DEF HarnessInv, ReadInv, Reads, Compare, NextArchive, Exit
<1>2. ReadInv'
  BY <1>1 DEF ReadInv
<1>3. CASE Compare
  <2>1. PlaceInv'
    BY <1>3 DEF Compare, HarnessInv, PlaceInv, Reads, Adapters
  <2>2. RunsInv'
    BY <1>3 DEF Compare, HarnessInv, RunsInv, Archive, Judged, Exceeds
  <2> QED
    BY <1>2, <2>1, <2>2 DEF HarnessInv
<1>4. CASE NextArchive
  <2>1. fixture' \in DOMAIN Corpus /\ status = Running
    BY <1>0, <1>4 DEF NextArchive, HarnessInv, PlaceInv
  <2>2. runs' \in Seq({}) /\ Len(runs') = 0 /\ DOMAIN runs' = {}
    BY <1>4, EmptySeq DEF NextArchive
  <2>3. PlaceInv'
    BY <1>4, <2>1, <2>2 DEF NextArchive, HarnessInv, PlaceInv, Reads
  <2>4. RunsInv'
    BY <2>2 DEF RunsInv
  <2> QED
    BY <1>2, <2>3, <2>4 DEF HarnessInv
<1>5. CASE Exit
  <2>1. PlaceInv'
    BY <1>5 DEF Exit, HarnessInv, PlaceInv, Reads
  <2>2. RunsInv'
    BY <1>5 DEF Exit, HarnessInv, RunsInv, Archive, Judged, Exceeds
  <2> QED
    BY <1>2, <2>1, <2>2 DEF HarnessInv
<1> QED
  BY <1>3, <1>4, <1>5

LEMMA HarnessInvariance == Spec => []HarnessInv
<1>1. ASSUME HarnessInv, UNCHANGED vars PROVE HarnessInv'
  <2>1. PlaceInv'
    BY <1>1 DEF vars, HarnessInv, PlaceInv, Reads
  <2>2. ReadInv'
    BY <1>1 DEF vars, HarnessInv, ReadInv, Reads, Listed, Archive, Reader
  <2>3. RunsInv'
    BY <1>1 DEF vars, HarnessInv, RunsInv, Archive, Judged, Exceeds
  <2> QED
    BY <2>1, <2>2, <2>3 DEF HarnessInv
<1>2. HarnessInv /\ [Next]_vars => HarnessInv'
  BY <1>1, StartHarness, EndHarness, PythonHarness, JavaHarness, JavaReadHarness, MainHarness
  DEF Next
<1> QED
  BY <1>2, InitHarness, PTL DEF Spec

-----------------------------------------------------------------------------
\* Whatever a reader does and whenever it is looked at, it has observed a prefix
\* of what the library lists, in whole entries and within both ceilings, and its
\* byte count is theirs.
THEOREM PrefixObserved == Spec => []ObservationIsPrefix
<1>1. ASSUME HarnessInv, Reads PROVE ObservationIsPrefix
  <2>1. PICK list, n : list = Listed /\ n = Len(entries)
    OBVIOUS
  <2>2. /\ n \in 0..Len(list) /\ n <= MaxEntries /\ Len(list) \in Nat
        /\ entries = Whole(list, n) /\ total \in 0..MaxBytes
        /\ Sizes(list, n) \in Nat /\ MaxBytes \in Nat /\ MaxEntries \in Nat
    BY <1>1, <2>1, ReadsFacts
  <2>3. n <= Least(MaxEntries, Len(list))
    BY <2>2 DEF Least
  <2>4. \A i \in DOMAIN entries : entries[i] = Observed(list[i])
    BY <2>2 DEF Whole
  <2>5. total <= MaxBytes
    BY <2>2
  <2>6. total = Sizes(list, n) + (IF process = "entry" THEN got ELSE 0)
    <3>1. process = "reading" => total = Sizes(list, n)
      BY <1>1, <2>1 DEF HarnessInv, ReadInv
    <3>2. process = "entry" => total = Sizes(list, n) + got
      BY <1>1, <2>1 DEF HarnessInv, ReadInv
    <3> QED
      BY <1>1, <2>2, <3>1, <3>2 DEF Reads
  <2> QED
    BY <2>1, <2>3, <2>4, <2>5, <2>6 DEF ObservationIsPrefix, Listed
<1>2. HarnessInv => ObservationIsPrefix
  BY <1>1 DEF ObservationIsPrefix, Reads
<1> QED
  BY <1>2, HarnessInvariance, PTL

\* A run ends as limit-exceeded only on a listing beyond a ceiling, and is
\* accepted only on one within both, however the reads were cut.
THEOREM CeilingsAreExact == Spec => []CeilingsExact
<1>1. HarnessInv => CeilingsExact
  BY DEF HarnessInv, RunsInv, Judged, Exceeds, CeilingsExact, Accepted
<1> QED
  BY <1>1, HarnessInvariance, PTL

\* A compared observation is the whole listing of its reader: a verdict of "no
\* marker" was read to the end, and readers disagree only where the directory
\* and the local records do.
THEOREM ComparisonsComplete == Spec => []ComparedIsComplete
<1>1. ASSUME HarnessInv PROVE ComparedIsComplete
  <2> DEFINE list(a) == Listing(Archive, Adapters[a])
  <2>1. ASSUME NEW a \in Accepted
        PROVE  /\ runs[a].entries = Whole(list(a), Len(list(a)))
               /\ Len(list(a)) \in Nat /\ DOMAIN list(a) = 1..Len(list(a))
    <3>1. /\ a \in DOMAIN runs
          /\ runs[a].classification \in {"success", "success-with-warning"}
      BY DEF Accepted
    <3>2. runs[a].entries = Whole(list(a), Len(list(a)))
      BY <1>1, <3>1 DEF HarnessInv, RunsInv, Judged
    <3> QED
      BY <1>1, <3>2, ListingFacts DEF HarnessInv, PlaceInv
  <2>2. ASSUME NEW a \in Accepted
        PROVE  /\ Len(runs[a].entries) = Len(list(a))
               /\ MarkerDecision(a) <=> \E i \in DOMAIN list(a) : list(a)[i].data.marked
    <3>1. PICK l, n : l = list(a) /\ n = Len(list(a))
      OBVIOUS
    <3>2. runs[a].entries = Whole(l, n) /\ n \in Nat /\ DOMAIN l = 1..n
      BY <2>1, <3>1
    <3>3. Len(runs[a].entries) = n
      BY <3>2, WholeGrows
    <3>4. /\ DOMAIN runs[a].entries = 1..n
          /\ \A i \in 1..n : runs[a].entries[i].marker = l[i].data.marked
      BY <3>2 DEF Whole, Observed
    <3>5. MarkerDecision(a) <=> \E i \in DOMAIN l : l[i].data.marked
      BY <3>2, <3>4 DEF MarkerDecision
    <3> QED
      BY <3>1, <3>3, <3>5
  <2>3. ASSUME Archive.order = [i \in DOMAIN Archive.records |-> i],
               \A i \in DOMAIN Archive.records :
                    Archive.records[i].name = Archive.records[i].central
        PROVE  ~accepted_entry_sequence_disagreement
    <3>1. PICK archive : archive = Archive
      OBVIOUS
    <3>2. /\ archive.order = [i \in DOMAIN archive.records |-> i]
          /\ \A i \in DOMAIN archive.records : archive.records[i].name = archive.records[i].central
      BY <2>3, <3>1
    <3>3. PICK l : l = [i \in DOMAIN archive.records |->
                            [name |-> archive.records[i].name, data |-> archive.records[i].data]]
      OBVIOUS
    <3>4. ASSUME NEW reader PROVE Listing(archive, reader) = l
      <4>1. CASE reader = "java-stream"
        BY <3>3, <4>1 DEF Listing
      <4>2. CASE reader # "java-stream"
        <5>1. DOMAIN archive.order = DOMAIN archive.records
          BY <3>2
        <5>2. \A i \in DOMAIN archive.records : archive.order[i] = i
          BY <3>2
        <5>3. Listing(archive, reader) =
                [i \in DOMAIN archive.order |->
                    [name |-> archive.records[archive.order[i]].central,
                     data |-> archive.records[archive.order[i]].data]]
          BY <4>2 DEF Listing
        <5>4. \A i \in DOMAIN archive.records :
                    [name |-> archive.records[archive.order[i]].central,
                     data |-> archive.records[archive.order[i]].data] =
                    [name |-> archive.records[i].name, data |-> archive.records[i].data]
          BY <3>2, <5>2
        <5> QED
          BY <3>3, <5>1, <5>3, <5>4
      <4> QED
        BY <4>1, <4>2
    <3>5. \A a \in Accepted : runs[a].entries = Whole(l, Len(l))
      BY <2>1, <3>1, <3>4
    <3>6. {runs[a].entries : a \in Accepted} \subseteq {Whole(l, Len(l))}
      BY <3>5
    <3>7. PICK x, S : x = Whole(l, Len(l)) /\ S = {runs[a].entries : a \in Accepted}
      OBVIOUS
    <3>8. IsFiniteSet({x}) /\ Cardinality({x}) = 1 /\ S \in SUBSET {x}
      BY <3>6, <3>7, FS_Singleton
    <3>9. Cardinality(S) <= 1 /\ Cardinality(S) \in Nat
      BY <3>8, FS_Subset, FS_CardinalityType
    <3>10. ~(Cardinality(S) > 1)
      BY <3>9
    <3> QED
      BY <3>7, <3>10 DEF accepted_entry_sequence_disagreement
  <2> QED
    BY <2>2, <2>3 DEF ComparedIsComplete
<1>2. HarnessInv => ComparedIsComplete
  BY <1>1
<1> QED
  BY <1>2, HarnessInvariance, PTL

-----------------------------------------------------------------------------
(* The exit status.  A run that failed is remembered in failed, and one of    *)
(* the control that is no plain success makes control false.                 *)

Broken == \E a \in DOMAIN runs : runs[a].classification \in Failure
Odd == fixture = 1 /\ \E a \in DOMAIN runs : runs[a].classification # "success"
Unproven == (fixture > 1 \/ process = "compared") /\ ~control

Doomed == (failed \/ Odd \/ Unproven) /\ status # 0

ExitInv ==
    /\ failed \in BOOLEAN /\ control \in BOOLEAN
    /\ Broken => failed
    /\ process = "compared" /\ Odd => ~control
    /\ failed \/ Odd \/ Unproven => status # 0

LEMMA InitExit == Init => ExitInv
<1> SUFFICES ASSUME Init PROVE ExitInv
  OBVIOUS
<1>1. DOMAIN runs = {}
  BY EmptySeq DEF Init
<1>2. ~Broken /\ ~Odd
  BY <1>1 DEF Broken, Odd
<1>3. failed = FALSE /\ control = FALSE /\ process = "none" /\ status # 0
  BY DEF Init, Running
<1> QED
  BY <1>2, <1>3 DEF ExitInv

\* A finished run is remembered.
LEMMA RunRemembered ==
    ASSUME HarnessInv, ExitInv, Reads, NEW classification, NEW observation,
           RecordRun(classification, observation)
    PROVE  ExitInv' /\ (Doomed => Doomed')
<1>1. /\ runs' = Append(runs, [classification |-> classification, entries |-> observation])
      /\ failed' = (failed \/ classification \in Failure)
      /\ process' = "none" /\ UNCHANGED <<fixture, control, status>>
  BY DEF RecordRun
<1>2. PICK run : run = [classification |-> classification, entries |-> observation]
  OBVIOUS
<1>3. PICK S : runs \in Seq(S)
  BY DEF HarnessInv, PlaceInv
<1>4. runs \in Seq(S \cup {run}) /\ run \in S \cup {run}
  BY <1>3, SeqMonotonic
<1>5. /\ runs' \in Seq(S \cup {run}) /\ Len(runs') = Len(runs) + 1
      /\ \A a \in 1..Len(runs) : runs'[a] = runs[a]
      /\ runs'[Len(runs) + 1] = run
  BY <1>1, <1>2, <1>4, AppendProperties
<1>6. /\ DOMAIN runs = 1..Len(runs) /\ DOMAIN runs' = 1..(Len(runs) + 1) /\ Len(runs) \in Nat
  BY <1>3, <1>5, LenProperties
<1>7. \A a \in DOMAIN runs' : (a \in DOMAIN runs /\ runs'[a] = runs[a]) \/ runs'[a] = run
  <2> SUFFICES ASSUME NEW a \in DOMAIN runs'
               PROVE  (a \in DOMAIN runs /\ runs'[a] = runs[a]) \/ runs'[a] = run
    OBVIOUS
  <2>1. a \in 1..Len(runs) \/ a = Len(runs) + 1
    BY <1>6
  <2> QED
    BY <1>5, <1>6, <2>1
<1>8. \A a \in DOMAIN runs : a \in DOMAIN runs' /\ runs'[a] = runs[a]
  BY <1>5, <1>6
<1>9. status # 0 /\ status' = status
  BY <1>1 DEF HarnessInv, PlaceInv, Running
<1>10. Broken' => failed'
  <2> SUFFICES ASSUME Broken' PROVE failed'
    OBVIOUS
  <2>1. PICK a \in DOMAIN runs' : runs'[a].classification \in Failure
    BY DEF Broken
  <2>2. CASE a \in DOMAIN runs /\ runs'[a] = runs[a]
    BY <1>1, <2>1, <2>2 DEF Broken, ExitInv
  <2>3. CASE runs'[a] = run
    <3>1. run.classification = classification
      BY <1>2
    <3> QED
      BY <1>1, <2>1, <2>3, <3>1
  <2> QED
    BY <1>7, <2>2, <2>3
<1>11. failed' \in BOOLEAN /\ control' \in BOOLEAN
  BY <1>1 DEF ExitInv
<1>12. ExitInv'
  BY <1>1, <1>9, <1>10, <1>11 DEF ExitInv
<1>13. Odd => Odd'
  BY <1>1, <1>8 DEF Odd
<1>14. Unproven => Unproven' \/ process = "compared"
  BY <1>1 DEF Unproven
<1> QED
  BY <1>1, <1>9, <1>12, <1>13, <1>14 DEF Doomed, Reads

\* A step that finishes no run, archive or experiment leaves what the exit
\* status will be decided from.
LEMMA RunsOn ==
    ASSUME ExitInv, Harness, process # "compared", process' # "compared"
    PROVE  ExitInv' /\ (Doomed => Doomed')
<1>1. UNCHANGED <<fixture, runs, failed, control, status>>
  BY DEF Harness
<1>2. (Broken' <=> Broken) /\ (Odd' <=> Odd)
  BY <1>1 DEF Broken, Odd
<1>3. Unproven' <=> Unproven
  BY <1>1 DEF Unproven
<1> QED
  BY <1>1, <1>2, <1>3 DEF ExitInv, Doomed

LEMMA ReportRemembered ==
    ASSUME HarnessInv, ExitInv, Reads, NEW code, NEW error, Report(code, error)
    PROVE  ExitInv' /\ (Doomed => Doomed')
<1>1. PICK noisy \in BOOLEAN : RecordRun(Classification(code, error, noisy), entries)
  BY DEF Report
<1>2. PICK classification : classification = Classification(code, error, noisy)
  OBVIOUS
<1> QED
  BY <1>1, <1>2, RunRemembered

LEMMA ReaderRemembered ==
    ASSUME HarnessInv, ExitInv,
           \/ Start \/ Timeout \/ Crash \/ Succeed \/ Refuse \/ EntryCeiling
           \/ PythonEntry \/ JavaEntry \/ JavaRead \/ JavaEnd
    PROVE  ExitInv' /\ (Doomed => Doomed')
<1>1. CASE Start
  BY <1>1, RunsOn DEF Start
<1>2. CASE Timeout \/ Crash
  <2>1. Reads /\ \E c : RecordRun(c, << >>)
    BY <1>2 DEF Timeout, Crash, Reads
  <2> QED
    BY <2>1, RunRemembered
<1>3. CASE Succeed \/ Refuse \/ EntryCeiling
  <2>1. Reads /\ \E code, error : Report(code, error)
    BY <1>3 DEF Succeed, Refuse, EntryCeiling, Reads
  <2> QED
    BY <2>1, ReportRemembered
<1>4. CASE PythonEntry
  <2>1. process = "reading" /\ Reads
    BY <1>4 DEF PythonEntry, Reads
  <2>2. Report(2, "limit") \/ (Harness /\ process' = process)
    BY <1>4 DEF PythonEntry
  <2> QED
    BY <2>1, <2>2, RunsOn, ReportRemembered
<1>5. CASE JavaRead
  <2>1. process = "entry" /\ Reads
    BY <1>5 DEF JavaRead, Reads
  <2>2. Report(2, "limit") \/ (Harness /\ process' = process)
    BY <1>5 DEF JavaRead
  <2> QED
    BY <2>1, <2>2, RunsOn, ReportRemembered
<1>6. CASE JavaEntry \/ JavaEnd
  BY <1>6, RunsOn DEF JavaEntry, JavaEnd
<1> QED
  BY <1>1, <1>2, <1>3, <1>4, <1>5, <1>6

\* The control is judged once, on the first archive, and an odd run refutes it.
LEMMA CompareRemembered ==
    ASSUME HarnessInv, ExitInv, Compare
    PROVE  ExitInv' /\ (Doomed => Doomed')
<1>1. /\ process = "none" /\ process' = "compared"
      /\ control' = IF fixture = 1 THEN ControlPasses ELSE control
      /\ UNCHANGED <<fixture, runs, failed, status>>
  BY DEF Compare
<1>2. status # 0
  BY <1>1 DEF HarnessInv, PlaceInv, Running
<1>3. (Broken' <=> Broken) /\ (Odd' <=> Odd)
  BY <1>1 DEF Broken, Odd
<1>4. control' \in BOOLEAN
  <2>1. ControlPasses \in BOOLEAN
    BY DEF ControlPasses
  <2> QED
    BY <1>1, <2>1 DEF ExitInv
<1>5. Odd => fixture = 1 /\ ~ControlPasses
  BY DEF Odd, ControlPasses
<1>6. Odd => ~control'
  BY <1>1, <1>5
<1>7. Unproven => Unproven' \/ fixture = 1
  BY <1>1 DEF Unproven
<1>8. Unproven => Unproven'
  <2>1. fixture \in Nat
    BY ZipHarnessAssumption, LenProperties DEF HarnessInv, PlaceInv
  <2>2. Unproven => fixture > 1
    BY <1>1 DEF Unproven
  <2> QED
    BY <1>7, <2>1, <2>2
<1>9. ExitInv'
  BY <1>1, <1>2, <1>3, <1>4, <1>6 DEF ExitInv
<1> QED
  BY <1>1, <1>2, <1>3, <1>8, <1>9 DEF Doomed

\* What was odd about the control stays in control when its runs are dropped.
LEMMA NextArchiveRemembered ==
    ASSUME HarnessInv, ExitInv, NextArchive
    PROVE  ExitInv' /\ (Doomed => Doomed')
<1>1. /\ process = "compared" /\ process' = "none" /\ runs' = << >>
      /\ fixture < Len(Corpus) /\ fixture' = fixture + 1
      /\ UNCHANGED <<failed, control, status>>
  BY DEF NextArchive
<1>2. Len(Corpus) \in Nat /\ fixture \in 1..Len(Corpus)
  BY ZipHarnessAssumption, LenProperties DEF HarnessInv, PlaceInv
<1>3. status # 0
  BY <1>1, <1>2 DEF HarnessInv, PlaceInv, Running
<1>4. DOMAIN runs' = {}
  BY <1>1, EmptySeq
<1>5. ~Broken' /\ ~Odd'
  BY <1>4 DEF Broken, Odd
<1>6. fixture' > 1
  BY <1>1, <1>2
<1>7. Odd \/ Unproven => Unproven'
  BY <1>1, <1>6 DEF Unproven, ExitInv
<1>8. ExitInv'
  BY <1>1, <1>3, <1>5 DEF ExitInv
<1> QED
  BY <1>1, <1>3, <1>7, <1>8 DEF Doomed

LEMMA ExitRemembered ==
    ASSUME HarnessInv, ExitInv, Exit
    PROVE  ExitInv' /\ (Doomed => Doomed')
<1>1. /\ process = "compared"
      /\ status' = IF failed \/ ~control THEN 1 ELSE 0
      /\ UNCHANGED <<fixture, process, runs, failed, control>>
  BY DEF Exit
<1>2. (Broken' <=> Broken) /\ (Odd' <=> Odd) /\ (Unproven' <=> Unproven)
  BY <1>1 DEF Broken, Odd, Unproven
<1>3. failed \/ Odd \/ Unproven => failed \/ ~control
  BY <1>1 DEF ExitInv, Unproven
<1>4. failed \/ Odd \/ Unproven => status' # 0
  BY <1>1, <1>3
<1> QED
  BY <1>1, <1>2, <1>4 DEF ExitInv, Doomed

LEMMA Remembers ==
    ASSUME HarnessInv, ExitInv, [Next]_vars
    PROVE  ExitInv' /\ (Doomed => Doomed')
<1>1. CASE UNCHANGED vars
  <2>1. UNCHANGED <<fixture, process, runs, failed, control, status>>
    BY <1>1 DEF vars
  <2>2. (Broken' <=> Broken) /\ (Odd' <=> Odd) /\ (Unproven' <=> Unproven)
    BY <2>1 DEF Broken, Odd, Unproven
  <2> QED
    BY <2>1, <2>2 DEF ExitInv, Doomed
<1> QED
  BY <1>1, ReaderRemembered, CompareRemembered, NextArchiveRemembered, ExitRemembered DEF Next

\* A timeout, a broken run, a ceiling, or a control that some reader did not read
\* plainly: from then on the harness cannot exit with 0, although it forgets the
\* runs of an archive when it goes on to the next.
THEOREM ExitVouches == Spec => ExitTrue
<1> DEFINE Seen ==
        \/ \E a \in DOMAIN runs : runs[a].classification
                \in {"timeout", "adapter-error", "limit-exceeded"}
        \/ fixture = 1 /\ \E a \in DOMAIN runs : runs[a].classification # "success"
<1>1. ExitInv /\ Seen => Doomed
  <2>1. Seen => Broken \/ Odd
    BY DEF Broken, Odd, Failure
  <2> QED
    BY <2>1 DEF ExitInv, Doomed
<1>2. Doomed => status # 0
  BY DEF Doomed
<1>3. HarnessInv /\ ExitInv /\ [Next]_vars => ExitInv' /\ (Doomed => Doomed')
  BY Remembers
<1> QED
  BY <1>1, <1>2, <1>3, InitExit, HarnessInvariance, PTL DEF Spec, ExitTrue
=============================================================================
