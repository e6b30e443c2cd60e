-------------------------- MODULE CausalTraceProofs ---------------------------
(***************************************************************************)
(* What the bookkeeping of Trace guarantees for any number of replicas,    *)
(* operations and calls: replicas are causally closed, synchronize never   *)
(* meets a missing predecessor, and it delivers everything.  The documents *)
(* show exactly what was seen.  That Yjs puts it in the same order         *)
(* everywhere is left to the model checker; given that, elements stay      *)
(* between their neighbours, and replicas that have seen the same show the *)
(* same list.  Every schedule of the corpus is a use of the class, so its  *)
(* measures are complete and, with Yjs agreeing, equal on every replica.   *)
(***************************************************************************)
EXTENDS MusicTraces, SequenceTheorems, FiniteSetTheorems, WellFoundedInduction, TLAPS

\* The operations an operation depends on were made before it.
Topological == \A n \in Ops : operations[n].dependencies \subseteq 1..(n - 1)

\* The receiver that the loop is at has seen the operations before its next one.
LoopInv ==
    /\ sync \in [rest : Seq(Replicas), next : Int]
    /\ Looping /\ sync.rest # << >> =>
            \A n \in Ops : n < sync.next => n \in seen[Head(sync.rest)]

BookInv ==
    /\ \E S : operations \in Seq(S)
    /\ seen \in [Replicas -> SUBSET Ops]
    /\ Topological
    /\ CausallyClosed
    /\ LoopInv
    /\ NeverThrown

-----------------------------------------------------------------------------
\* No operation, nothing seen.
LEMMA InitBook == Init => BookInv
<1> SUFFICES ASSUME Init PROVE BookInv
  OBVIOUS
<1> USE DEF Init
<1>1. operations \in Seq({}) /\ Len(operations) = 0 /\ Ops = {}
  BY EmptySeq DEF Ops
<1>2. seen \in [Replicas -> SUBSET Ops]
  OBVIOUS
<1>3. sync \in [rest : Seq(Replicas), next : Int] /\ ~Looping /\ sync # Thrown
  BY EmptySeq DEF Idle, Looping, Thrown
<1>4. \A r \in Replicas : seen[r] = {}
  OBVIOUS
<1> QED
  BY <1>1, <1>2, <1>3, <1>4
  DEF BookInv, Topological, CausallyClosed, LoopInv, NeverThrown

\* What a step leaves alone stays true.
LEMMA SameBook ==
    ASSUME BookInv, UNCHANGED <<operations, seen>>, LoopInv', sync' # Thrown
    PROVE  BookInv'
BY DEF BookInv, Topological, CausallyClosed, NeverThrown, Ops, Thrown

\* Insertion: the new operation has the largest number and depends on what its
\* author has seen.
LEMMA InsertBook == ASSUME BookInv, NEW r \in Replicas, NEW index, Insert(r, index) PROVE BookInv'
<1> DEFINE n == Len(operations) + 1
<1>1. PICK item :
        /\ operations' = Append(operations, item)
        /\ item.dependencies = seen[r]
        /\ seen' = [seen EXCEPT ![r] = @ \cup {n}]
        /\ ~Looping /\ sync' = sync
  BY DEF Insert, Dependencies
<1>2. PICK S : operations \in Seq(S)
  BY DEF BookInv
<1>3. operations \in Seq(S \cup {item})
  BY <1>2, SeqMonotonic
<1>4. /\ operations' \in Seq(S \cup {item})
      /\ Len(operations') = n
      /\ \A m \in 1..Len(operations) : operations'[m] = operations[m]
      /\ operations'[n] = item
  BY <1>1, <1>3, AppendProperties
<1>5. Len(operations) \in Nat /\ n \in Nat
  BY <1>2, LenProperties
<1>6. Ops' = Ops \cup {n} /\ n \notin Ops
  BY <1>4, <1>5 DEF Ops
<1>7. seen \in [Replicas -> SUBSET Ops]
  BY DEF BookInv
<1>8. seen' \in [Replicas -> SUBSET Ops']
  BY <1>1, <1>6, <1>7
<1>9. Topological'
  <2>1. ASSUME NEW m \in Ops' PROVE operations'[m].dependencies \subseteq 1..(m - 1)
    <3>1. CASE m = n
      BY <3>1, <1>1, <1>4, <1>5, <1>7 DEF Ops
    <3>2. CASE m \in Ops
      BY <3>2, <1>4 DEF BookInv, Topological, Ops
    <3> QED
      BY <3>1, <3>2, <1>6
  <2> QED
    BY <2>1 DEF Topological
<1>10. CausallyClosed'
  <2>1. ASSUME NEW t \in Replicas, NEW m \in seen'[t]
        PROVE  operations'[m].dependencies \subseteq seen'[t]
    <3>1. seen[t] \subseteq seen'[t]
      BY <1>1, <1>7
    <3>2. CASE m \in seen[t]
      <4>1. operations'[m] = operations[m]
        BY <3>2, <1>4, <1>7 DEF Ops
      <4> QED
        BY <4>1, <3>1, <3>2 DEF BookInv, CausallyClosed
    <3>3. CASE m \notin seen[t]
      <4>1. t = r /\ m = n
        BY <3>3, <1>1, <1>7
      <4> QED
        BY <4>1, <1>1, <1>4, <3>1
    <3> QED
      BY <3>2, <3>3
  <2> QED
    BY <2>1 DEF CausallyClosed
<1>11. LoopInv' /\ NeverThrown'
  BY <1>1 DEF BookInv, LoopInv, NeverThrown, Looping, Thrown
<1> QED
  BY <1>4, <1>8, <1>9, <1>10, <1>11 DEF BookInv

\* Receiving an operation whose dependencies were checked.
LEMMA ReceiveBook ==
    ASSUME BookInv, NEW n \in Ops, NEW to \in Replicas, MayDeliver(n, to), Receive(n, to),
           LoopInv', sync' # Thrown
    PROVE  BookInv'
<1>1. /\ seen \in [Replicas -> SUBSET Ops]
      /\ operations' = operations
      /\ seen' = [seen EXCEPT ![to] = @ \cup {n}]
  BY DEF BookInv, Receive
<1>2. seen' \in [Replicas -> SUBSET Ops']
  BY <1>1 DEF Ops
<1>3. CausallyClosed'
  <2>1. ASSUME NEW t \in Replicas, NEW m \in seen'[t]
        PROVE  operations'[m].dependencies \subseteq seen'[t]
    <3>1. seen[t] \subseteq seen'[t]
      BY <1>1
    <3>2. CASE m \in seen[t]
      BY <3>1, <3>2, <1>1 DEF BookInv, CausallyClosed
    <3>3. CASE m \notin seen[t]
      BY <3>1, <3>3, <1>1 DEF MayDeliver
    <3> QED
      BY <3>2, <3>3
  <2> QED
    BY <2>1 DEF CausallyClosed
<1> QED
  BY <1>1, <1>2, <1>3 DEF BookInv, Topological, NeverThrown, Ops, Thrown

\* The loop: an operation it skips was seen, one it delivers may be delivered,
\* because everything before it was seen, and so it never throws.
LEMMA LoopFacts ==
    ASSUME BookInv, AtOperation(sync.next)
    PROVE  /\ sync.next \in Ops /\ Head(sync.rest) \in Replicas
           /\ MayDeliver(sync.next, Head(sync.rest))
<1>1. /\ Looping /\ sync.rest # << >> /\ sync.next \in Ops
      /\ sync.rest \in Seq(Replicas)
      /\ \A n \in Ops : n < sync.next => n \in seen[Head(sync.rest)]
  BY DEF AtOperation, BookInv, LoopInv
<1>2. Head(sync.rest) \in Replicas
  BY <1>1, HeadTailProperties
<1>3. operations[sync.next].dependencies \subseteq 1..(sync.next - 1)
  BY <1>1 DEF BookInv, Topological
<1>4. Len(operations) \in Nat
  BY LenProperties DEF BookInv
<1>5. \A m \in 1..(sync.next - 1) : m \in Ops /\ m < sync.next
  BY <1>1, <1>4 DEF Ops
<1> QED
  BY <1>1, <1>2, <1>3, <1>5 DEF MayDeliver

LEMMA AdvancedFacts ==
    ASSUME BookInv, sync' = Advanced, operations' = operations,
           AtOperation(sync.next), sync.next \in seen'[Head(sync.rest)],
           \A n \in Ops : n \in seen[Head(sync.rest)] => n \in seen'[Head(sync.rest)]
    PROVE  LoopInv' /\ sync' # Thrown
<1>1. sync \in [rest : Seq(Replicas), next : Int] /\ sync.next \in Ops /\ sync.next > 0
  BY DEF BookInv, LoopInv, AtOperation, Looping
<1>2. sync'.rest = sync.rest /\ sync'.next = sync.next + 1
  BY <1>1 DEF Advanced
<1>3. sync' \in [rest : Seq(Replicas), next : Int]
  BY <1>1 DEF Advanced
<1>4. sync' # Thrown
  BY <1>1, <1>2 DEF Thrown
<1>5. Ops' = Ops /\ \A n \in Ops : n \in Int
  BY LenProperties DEF Ops, BookInv
<1>6. ASSUME NEW n \in Ops, n < sync.next + 1 PROVE n \in seen'[Head(sync.rest)]
  <2>1. CASE n = sync.next
    BY <2>1
  <2>2. CASE n # sync.next
    <3>1. n < sync.next
      BY <2>2, <1>1, <1>5, <1>6
    <3> QED
      BY <3>1, <1>1 DEF BookInv, LoopInv, AtOperation
  <2> QED
    BY <2>1, <2>2
<1> QED
  BY <1>2, <1>3, <1>4, <1>5, <1>6 DEF LoopInv, Looping

LEMMA SyncStepBook == ASSUME BookInv, SyncStep PROVE BookInv'
<1>1. CASE SyncSeen
  <2>1. LoopInv' /\ sync' # Thrown
    BY <1>1, AdvancedFacts DEF SyncSeen
  <2> QED
    BY <2>1, <1>1, SameBook DEF SyncSeen
<1>2. CASE SyncDeliver
  <2>1. /\ AtOperation(sync.next)
        /\ Head(sync.rest) \in Replicas /\ sync.next \in Ops
        /\ MayDeliver(sync.next, Head(sync.rest))
    BY <1>2, LoopFacts DEF SyncDeliver
  <2>. Receive(sync.next, Head(sync.rest)) /\ sync' = Advanced
    BY <1>2, <2>1 DEF SyncDeliver
  <2>2. /\ operations' = operations
        /\ seen' = [seen EXCEPT ![Head(sync.rest)] = @ \cup {sync.next}]
        /\ seen \in [Replicas -> SUBSET Ops]
    BY DEF Receive, BookInv
  <2>3. /\ sync.next \in seen'[Head(sync.rest)]
        /\ \A n \in Ops : n \in seen[Head(sync.rest)] => n \in seen'[Head(sync.rest)]
    BY <2>1, <2>2
  <2>4. LoopInv' /\ sync' # Thrown
    BY <2>1, <2>2, <2>3, AdvancedFacts
  <2> QED
    BY <2>1, <2>4, ReceiveBook
<1>3. CASE SyncNextReceiver
  <2>1. sync.rest \in Seq(Replicas) /\ sync.rest # << >>
    BY <1>3 DEF SyncNextReceiver, BookInv, LoopInv
  <2>2. Tail(sync.rest) \in Seq(Replicas)
    BY <2>1, HeadTailProperties
  <2>3. sync' \in [rest : Seq(Replicas), next : Int] /\ sync' # Thrown /\ sync'.next = 1
    BY <1>3, <2>2 DEF SyncNextReceiver, Thrown
  <2>4. \A n \in Ops : ~(n < 1)
    BY LenProperties DEF Ops, BookInv
  <2>5. LoopInv'
    BY <1>3, <2>3, <2>4 DEF LoopInv, SyncNextReceiver, Ops
  <2> QED
    BY <1>3, <2>3, <2>5, SameBook DEF SyncNextReceiver
<1>4. CASE SyncReturn
  <2>1. LoopInv' /\ sync' # Thrown
    BY <1>4, EmptySeq DEF SyncReturn, LoopInv, Idle, Thrown, Looping
  <2> QED
    BY <1>4, <2>1, SameBook DEF SyncReturn
<1> QED
  BY <1>1, <1>2, <1>3, <1>4 DEF SyncStep

LEMMA SynchronizeBook ==
    ASSUME BookInv, NEW receivers \in Orders, Synchronize(receivers) PROVE BookInv'
<1>1. receivers \in Seq(Replicas)
  BY CausalTraceAssumption
<1>2. sync' \in [rest : Seq(Replicas), next : Int] /\ sync' # Thrown /\ sync'.next = 1
  BY <1>1 DEF Synchronize, Thrown
<1>3. \A n \in Ops : ~(n < 1)
  BY LenProperties DEF Ops, BookInv
<1>4. LoopInv'
  BY <1>2, <1>3 DEF LoopInv, Synchronize, Ops
<1> QED
  BY <1>2, <1>4, SameBook DEF Synchronize

LEMMA NextBook == BookInv /\ [Next]_vars => BookInv'
<1> SUFFICES ASSUME BookInv, [Next]_vars PROVE BookInv'
  OBVIOUS
<1>1. CASE \E r \in Replicas : \E index \in 0..Len(docs[r]) : Insert(r, index)
  BY <1>1, InsertBook
<1>2. CASE \E n \in Ops, to \in Replicas : Deliver(n, to)
  <2>1. PICK n \in Ops, to \in Replicas : Deliver(n, to)
    BY <1>2
  <2>2. LoopInv' /\ sync' # Thrown
    BY <2>1 DEF Deliver, BookInv, LoopInv, Looping, NeverThrown, Thrown
  <2> QED
    BY <2>1, <2>2, ReceiveBook DEF Deliver
<1>3. CASE \E receivers \in Orders : Synchronize(receivers)
  BY <1>3, SynchronizeBook
<1>4. CASE SyncStep
  BY <1>4, SyncStepBook
<1>5. CASE UNCHANGED vars
  BY <1>5 DEF vars, BookInv, Topological, CausallyClosed, LoopInv, NeverThrown, Looping, Ops, Thrown
<1> QED
  BY <1>1, <1>2, <1>3, <1>4, <1>5 DEF Next

LEMMA BookInvariance == Spec => []BookInv
BY InitBook, NextBook, PTL DEF Spec

-----------------------------------------------------------------------------
\* On every replica, the operations seen include the causes of each of them: the
\* check that deliver makes, and the dependencies that insert records, suffice.
THEOREM CausalClosure == Spec => []CausallyClosed
<1>1. BookInv => CausallyClosed
  BY DEF BookInv
<1> QED
  BY <1>1, BookInvariance, PTL

\* synchronize never throws "causal predecessor missing", whatever was delivered
\* before and in whichever order it visits the receivers.
THEOREM SynchronizeNeverThrows == Spec => []NeverThrown
<1>1. BookInv => NeverThrown
  BY DEF BookInv
<1> QED
  BY <1>1, BookInvariance, PTL

\* When synchronize is done with a receiver, that replica has seen everything.
THEOREM SynchronizeDelivers == Spec => SyncDelivers
<1> DEFINE Left == Looping /\ sync' # sync /\ (sync'.rest # sync.rest \/ ~Looping')
                    => \A n \in Ops : sync.rest # << >> => n \in seen'[Head(sync.rest)]
<1>1. ASSUME BookInv, [Next]_vars PROVE [Left]_vars
  <2>1. SUFFICES ASSUME Next, Looping, sync' # sync, sync'.rest # sync.rest \/ ~Looping',
                        NEW n \in Ops, sync.rest # << >>
                 PROVE  n \in seen'[Head(sync.rest)]
    BY <1>1
  <2>2. SyncStep
    BY <2>1 DEF Next, Insert, Deliver, Synchronize
  <2>3. ~SyncSeen /\ ~SyncDeliver
    <3>1. ASSUME sync' = Advanced, AtOperation(sync.next) PROVE FALSE
      <4>1. sync.next \in Int /\ sync.next > 0
        BY <1>1, <3>1 DEF AtOperation, BookInv, LoopInv, Looping
      <4>2. sync'.rest = sync.rest /\ sync'.next = sync.next + 1
        BY <1>1, <3>1 DEF Advanced, BookInv, LoopInv
      <4>3. sync'.next > 0
        BY <4>1, <4>2
      <4> QED
        BY <4>2, <4>3, <2>1 DEF Looping
    <3> QED
      BY <1>1, <3>1, LoopFacts DEF SyncSeen, SyncDeliver
  <2>4. SyncNextReceiver
    BY <2>1, <2>2, <2>3 DEF SyncStep, SyncReturn
  <2>5. n < sync.next
    BY <1>1, <2>4, LenProperties DEF SyncNextReceiver, Ops, BookInv, LoopInv
  <2> QED
    BY <1>1, <2>1, <2>4, <2>5 DEF BookInv, LoopInv, SyncNextReceiver
<1>2. BookInv /\ [Next]_vars => [Left]_vars
  BY <1>1
<1> QED
  BY <1>2, BookInvariance, PTL DEF Spec, SyncDelivers

-----------------------------------------------------------------------------
(* The documents.  The search for the place of an item is a recursive        *)
(* function; that it has a value is shown by induction, which the prover     *)
(* only takes as a statement about sets.                                     *)

LEMMA NatSets ==
    ASSUME NEW S, 0 \in S, \A n \in Nat : n \in S => n + 1 \in S
    PROVE  Nat \subseteq S
<1> DEFINE T == Nat \ S
<1>1. SUFFICES ASSUME T # {} PROVE FALSE
  OBVIOUS
<1>2. PICK x \in T : \A y \in T : <<y, x>> \notin OpToRel(<, Nat)
  <2>1. T \subseteq Nat
    OBVIOUS
  <2> HIDE DEF T
  <2> QED
    BY <1>1, <2>1, NatLessThanWellFounded, WFMin
<1>3. x \in Nat /\ x \notin S
  OBVIOUS
<1>4. x # 0
  BY <1>3
<1>5. x - 1 \in Nat /\ (x - 1) + 1 = x
  BY <1>3, <1>4
<1>6. x - 1 \in T
  BY <1>3, <1>5
<1>7. <<x - 1, x>> \in OpToRel(<, Nat)
  BY <1>3, <1>5 DEF OpToRel
<1> QED
  BY <1>2, <1>6, <1>7


\* The items between which the search takes place.
From(ops, doc, n) == IF ops[n].origin = None THEN 0 ELSE Position(doc, ops[n].origin)
Until(ops, doc, n) ==
    IF ops[n].right = None THEN Len(doc) + 1 ELSE Position(doc, ops[n].right)

(* An item is placed after its left neighbour, somewhere in the list, and    *)
(* before its right neighbour if that comes after the left one.              *)
LEMMA PlaceBounds ==
    ASSUME NEW ops, NEW doc, Len(doc) \in Nat, NEW n,
           ops[n].origin = None \/ \E i \in 1..Len(doc) : doc[i] = ops[n].origin,
           ops[n].right = None \/ \E i \in 1..Len(doc) : doc[i] = ops[n].right
    PROVE  /\ PlaceAfter(ops, doc, n) \in 0..Len(doc)
           /\ From(ops, doc, n) \in 0..PlaceAfter(ops, doc, n)
           /\ Until(ops, doc, n) \in 1..(Len(doc) + 1)
           /\ From(ops, doc, n) < Until(ops, doc, n)
                => PlaceAfter(ops, doc, n) < Until(ops, doc, n)
<1> DEFINE
        item == ops[n]
        first == IF item.origin = None THEN 0 ELSE Position(doc, item.origin)
        end == IF item.right = None THEN Len(doc) + 1 ELSE Position(doc, item.right)
        origin(i) == ops[doc[i]].origin
        Rival(i) == origin(i) = item.origin
        Below(i) == ~Rival(i) /\ \E j \in (first + 1)..(i - 1) : doc[j] = origin(i)
        Stops(i) ==
            \/ i >= end
            \/ /\ Rival(i)
               /\ ops[doc[i]].replica >= item.replica
               /\ ops[doc[i]].right = item.right
            \/ ~Rival(i) /\ ~Below(i)
        Passes(i, l) ==
            \/ Rival(i) /\ ops[doc[i]].replica < item.replica
            \/ Below(i) /\ Position(doc, origin(i)) <= l
        Reached(i) == \A j \in (first + 1)..i : ~Stops(j)
        After(i, l) == IF i <= first THEN first
                       ELSE IF Reached(i) /\ Passes(i, l) THEN i ELSE l
        Places(g, k) == g = [i \in 0..k |-> After(i, g[i - 1])]
        left == CHOOSE g : Places(g, Len(doc))
<1>1. PlaceAfter(ops, doc, n) = left[Len(doc)]
  BY DEF PlaceAfter
<1>2. /\ first \in 0..Len(doc) /\ end \in 1..(Len(doc) + 1)
      /\ first = From(ops, doc, n) /\ end = Until(ops, doc, n)
  BY DEF Position, From, Until
<1>3. \A i \in 0..Len(doc) : \A l :
            After(i, l) = first \/ (i > first /\ (After(i, l) = l \/ (After(i, l) = i /\ i < end)))
  BY <1>2
<1>4. \A l : After(0, l) = first
  BY <1>2
<1> HIDE DEF After, first, end, left
<1>5. \E g : Places(g, Len(doc))
  <2> DEFINE S == {m \in Nat : \E g : Places(g, m)}
  <2>1. 0 \in S
    <3>1. PICK g : g = [i \in 0..0 |-> first]
      OBVIOUS
    <3>2. g = [i \in 0..0 |-> After(i, g[i - 1])]
      BY <1>4, <3>1
    <3> QED
      BY <3>2
  <2>2. ASSUME NEW m \in Nat, m \in S PROVE m + 1 \in S
    <3>1. PICK g : Places(g, m)
      BY <2>2
    <3>2. PICK h : h = [i \in 0..(m + 1) |-> After(i, g[i - 1])]
      OBVIOUS
    <3>3. \A i \in 0..m : h[i] = g[i]
      BY <3>1, <3>2
    <3>4. ASSUME NEW i \in 0..(m + 1) PROVE After(i, g[i - 1]) = After(i, h[i - 1])
      <4>1. CASE i = 0
        BY <1>4, <4>1
      <4>2. CASE i # 0
        <5>1. i - 1 \in 0..m
          BY <4>2
        <5> QED
          BY <3>3, <5>1
      <4> QED
        BY <4>1, <4>2
    <3>5. h = [i \in 0..(m + 1) |-> After(i, h[i - 1])]
      BY <3>2, <3>4
    <3> QED
      BY <3>5
  <2> HIDE DEF S
  <2>3. Nat \subseteq S
    BY <2>1, <2>2, NatSets
  <2> QED
    BY <2>3 DEF S
<1>6. Places(left, Len(doc))
  BY <1>5 DEF left
<1>7. \A i \in 0..Len(doc) : left[i] = After(i, left[i - 1])
  BY <1>6
<1> HIDE DEF Places
<1> DEFINE Placed(l) == l \in first..Len(doc) /\ (first < end => l < end)
           T == {i \in Nat : i <= Len(doc) => Placed(left[i])}
<1>8. 0 \in T
  <2>1. left[0] = first
    BY <1>4, <1>7
  <2> QED
    BY <1>2, <2>1
<1>9. ASSUME NEW i \in Nat, i \in T PROVE i + 1 \in T
  <2>1. SUFFICES ASSUME i + 1 <= Len(doc) PROVE Placed(left[i + 1])
    OBVIOUS
  <2>2. i <= Len(doc) /\ i + 1 \in 0..Len(doc) /\ (i + 1) - 1 = i
    BY <2>1
  <2>3. Placed(left[i])
    BY <1>9, <2>2
  <2>4. left[i + 1] = After(i + 1, left[i])
    BY <1>7, <2>2
  <2> QED
    BY <1>2, <1>3, <2>2, <2>3, <2>4
<1> HIDE DEF T, Placed
<1>10. Nat \subseteq T
  BY <1>8, <1>9, NatSets
<1>11. Placed(left[Len(doc)])
  BY <1>10 DEF T
<1> QED
  BY <1>1, <1>2, <1>11 DEF Placed

\* new holds what doc holds, and e once more.
Enlarged(new, doc, e) == Len(new) = Len(doc) + 1 /\ ToSet(new) = ToSet(doc) \cup {e}

\* It holds e after the first p, and the others in their order.
Inserted(new, doc, p, e) ==
    /\ \A i \in 1..p : new[i] = doc[i]
    /\ new[p + 1] = e
    /\ \A i \in (p + 1)..Len(doc) : new[i + 1] = doc[i]

LEMMA InsertAtFacts ==
    ASSUME NEW S, NEW doc \in Seq(S), NEW p \in 0..Len(doc), NEW e \in S
    PROVE  /\ InsertAt(doc, p + 1, e) \in Seq(S)
           /\ Enlarged(InsertAt(doc, p + 1, e), doc, e)
           /\ Inserted(InsertAt(doc, p + 1, e), doc, p, e)
<1> DEFINE new == InsertAt(doc, p + 1, e)
           before == SubSeq(doc, 1, p)
           after == SubSeq(doc, p + 1, Len(doc))
<1>1. Len(doc) \in Nat /\ DOMAIN doc = 1..Len(doc) /\ \A i \in 1..Len(doc) : doc[i] \in S
  BY LenProperties, ElementOfSeq
<1>2. new = (before \o <<e>>) \o after
  <2>1. (p + 1) - 1 = p
    BY <1>1
  <2> QED
    BY <2>1 DEF InsertAt
<1>3. before \in Seq(S) /\ Len(before) = p /\ \A i \in 1..p : before[i] = doc[i]
  <2>1. p \in Int /\ p \in Nat /\ (p + 1) - 1 = p /\ \A i \in 1..p : doc[i] \in S
    BY <1>1
  <2> QED
    BY <2>1, SubSeqProperties
<1>4. /\ after \in Seq(S) /\ Len(after) = Len(doc) - p
      /\ \A i \in 1..(Len(doc) - p) : after[i] = doc[p + i]
  <2>1. PICK m, l : m = p + 1 /\ l = Len(doc)
    OBVIOUS
  <2>2. m \in Int /\ l \in Int /\ \A i \in m..l : doc[i] \in S
    BY <1>1, <2>1
  <2>3. /\ SubSeq(doc, m, l) \in Seq(S)
        /\ Len(SubSeq(doc, m, l)) = IF m <= l THEN l - m + 1 ELSE 0
        /\ \A i \in 1..(l - m + 1) : SubSeq(doc, m, l)[i] = doc[m + i - 1]
    BY <2>2, SubSeqProperties
  <2>4. l - m + 1 = Len(doc) - p /\ (m <= l \/ Len(doc) - p = 0)
    <3>1. l \in Nat /\ p \in 0..l
      BY <1>1, <2>1
    <3>2. l - m + 1 = l - p /\ (m <= l \/ l - p = 0)
      BY <2>1, <3>1
    <3> QED
      BY <2>1, <3>2
  <2>5. \A i \in 1..(Len(doc) - p) : m + i - 1 = p + i
    BY <1>1, <2>1
  <2> QED
    BY <2>1, <2>3, <2>4, <2>5
<1>5. <<e>> \in Seq(S) /\ Len(<<e>>) = 1 /\ <<e>>[1] = e
  OBVIOUS
<1>6. PICK front : front = before \o <<e>>
  OBVIOUS
<1> HIDE DEF before, after
<1>7. /\ front \in Seq(S) /\ Len(front) = p + 1
      /\ \A i \in 1..(p + 1) : front[i] = IF i <= p THEN before[i] ELSE <<e>>[i - p]
  BY <1>3, <1>5, <1>6, ConcatProperties
<1>8. \A i \in 1..(p + 1) : front[i] = IF i <= p THEN doc[i] ELSE e
  <2> SUFFICES ASSUME NEW i \in 1..(p + 1) PROVE front[i] = IF i <= p THEN doc[i] ELSE e
    OBVIOUS
  <2>1. CASE i <= p
    BY <1>3, <1>7, <2>1
  <2>2. CASE ~(i <= p)
    <3>1. i - p = 1
      BY <2>2
    <3> QED
      BY <1>5, <1>7, <2>2, <3>1
  <2> QED
    BY <2>1, <2>2
<1>9. /\ new \in Seq(S) /\ Len(new) = (p + 1) + (Len(doc) - p)
      /\ \A i \in 1..((p + 1) + (Len(doc) - p)) :
            new[i] = IF i <= p + 1 THEN front[i] ELSE after[i - (p + 1)]
  <2>1. new = front \o after
    BY <1>2, <1>6
  <2>2. /\ front \o after \in Seq(S)
        /\ Len(front \o after) = Len(front) + Len(after)
        /\ \A i \in 1..(Len(front) + Len(after)) :
              (front \o after)[i] = IF i <= Len(front) THEN front[i] ELSE after[i - Len(front)]
    BY <1>4, <1>7, ConcatProperties
  <2> HIDE DEF new
  <2> QED
    BY <1>4, <1>7, <2>1, <2>2
<1> HIDE DEF new
<1>10. Len(new) = Len(doc) + 1 /\ DOMAIN new = 1..(Len(doc) + 1)
  <2>1. (p + 1) + (Len(doc) - p) = Len(doc) + 1
    BY <1>1
  <2> QED
    BY <1>9, <2>1, LenProperties
<1>11. /\ \A i \in 1..p : new[i] = doc[i]
       /\ new[p + 1] = e
       /\ \A i \in (p + 1)..Len(doc) : new[i + 1] = doc[i]
  <2>0. (p + 1) + (Len(doc) - p) = Len(doc) + 1
    BY <1>1
  <2>1. ASSUME NEW i \in 1..p PROVE new[i] = doc[i]
    <3>1. i \in 1..(Len(doc) + 1) /\ i \in 1..(p + 1) /\ i <= p /\ i <= p + 1
      BY <1>1
    <3> QED
      BY <1>8, <1>9, <2>0, <3>1
  <2>2. new[p + 1] = e
    <3>1. p + 1 \in 1..(Len(doc) + 1) /\ p + 1 \in 1..(p + 1) /\ ~(p + 1 <= p)
      BY <1>1
    <3> QED
      BY <1>8, <1>9, <2>0, <3>1
  <2>3. ASSUME NEW i \in (p + 1)..Len(doc) PROVE new[i + 1] = doc[i]
    <3>1. i + 1 \in 1..(Len(doc) + 1) /\ ~(i + 1 <= p + 1)
      BY <1>1
    <3>2. (i + 1) - (p + 1) = i - p /\ i - p \in 1..(Len(doc) - p) /\ p + (i - p) = i
      BY <1>1
    <3> QED
      BY <1>4, <1>9, <2>0, <3>1, <3>2
  <2> QED
    BY <2>1, <2>2, <2>3
<1>12. ToSet(new) = ToSet(doc) \cup {e}
  <2>1. ASSUME NEW i \in 1..(Len(doc) + 1) PROVE new[i] \in ToSet(doc) \cup {e}
    <3>1. CASE i <= p
      BY <1>1, <1>11, <3>1 DEF ToSet
    <3>2. CASE i = p + 1
      BY <1>11, <3>2
    <3>3. CASE i > p + 1
      <4>1. i - 1 \in (p + 1)..Len(doc) /\ (i - 1) + 1 = i /\ i - 1 \in 1..Len(doc)
        BY <1>1, <3>3
      <4>2. new[i] = doc[i - 1]
        BY <1>11, <4>1
      <4> QED
        BY <1>1, <4>1, <4>2 DEF ToSet
    <3> QED
      BY <3>1, <3>2, <3>3
  <2>2. ASSUME NEW i \in 1..Len(doc) PROVE doc[i] \in ToSet(new)
    <3>1. CASE i <= p
      <4>1. i \in 1..p /\ i \in 1..(Len(doc) + 1)
        BY <1>1, <3>1
      <4> QED
        BY <1>10, <1>11, <4>1 DEF ToSet
    <3>2. CASE i > p
      <4>1. i \in (p + 1)..Len(doc) /\ i + 1 \in 1..(Len(doc) + 1)
        BY <1>1, <3>2
      <4> QED
        BY <1>10, <1>11, <4>1 DEF ToSet
    <3> QED
      BY <1>1, <3>1, <3>2
  <2>3. e \in ToSet(new)
    <3>1. p + 1 \in 1..(Len(doc) + 1)
      BY <1>1
    <3> QED
      BY <1>10, <1>11, <3>1 DEF ToSet
  <2>4. ToSet(new) \subseteq ToSet(doc) \cup {e}
    BY <1>10, <2>1 DEF ToSet
  <2>5. ToSet(doc) \subseteq ToSet(new)
    BY <1>1, <2>2 DEF ToSet
  <2> QED
    BY <2>3, <2>4, <2>5
<1> QED
  BY <1>9, <1>10, <1>11, <1>12 DEF new, Enlarged, Inserted

-----------------------------------------------------------------------------
(* What a replica shows.  The neighbours of an operation are among those it  *)
(* depends on, so that no update is ever set aside.                          *)

Neighboured ==
    \A n \in Ops : /\ operations[n].origin \in operations[n].dependencies \cup {None}
                   /\ operations[n].right \in operations[n].dependencies \cup {None}

Shown(doc, known) ==
    /\ doc \in Seq(known)
    /\ ToSet(doc) = known
    /\ IsFiniteSet(known) /\ Len(doc) = Cardinality(known)

DocInv ==
    /\ docs \in [Replicas -> Seq(Nat)]
    /\ \A r \in Replicas : Shown(docs[r], seen[r])
    /\ Neighboured

\* A document with one more element.
LEMMA OneMoreShown ==
    ASSUME NEW doc, NEW known, Shown(doc, known), NEW p \in 0..Len(doc), NEW n, n \notin known
    PROVE  Shown(InsertAt(doc, p + 1, n), known \cup {n})
<1>0. PICK S : S = known \cup {n}
  OBVIOUS
<1>1. doc \in Seq(S) /\ n \in S
  <2>1. known \subseteq S /\ doc \in Seq(known)
    BY <1>0 DEF Shown
  <2> QED
    BY <1>0, <2>1, SeqMonotonic
<1>2. PICK new : new = InsertAt(doc, p + 1, n)
  OBVIOUS
<1>3. new \in Seq(S) /\ Enlarged(new, doc, n)
  BY <1>1, <1>2, InsertAtFacts
<1>4. IsFiniteSet(known \cup {n}) /\ Cardinality(known \cup {n}) = Cardinality(known) + 1
  BY FS_AddElement DEF Shown
<1> QED
  BY <1>0, <1>2, <1>3, <1>4 DEF Shown, Enlarged

\* What a replica that is not concerned shows.
LEMMA OneChanged ==
    ASSUME BookInv, DocInv, NEW r \in Replicas, NEW doc, NEW known,
           docs' = [docs EXCEPT ![r] = doc], seen' = [seen EXCEPT ![r] = known],
           Shown(doc, known), known \subseteq Ops', Neighboured', Ops' \subseteq Nat
    PROVE  DocInv'
<1>1. docs \in [Replicas -> Seq(Nat)] /\ seen \in [Replicas -> SUBSET Ops]
  BY DEF BookInv, DocInv
<1>2. doc \in Seq(Nat)
  BY SeqMonotonic DEF Shown
<1>3. docs' \in [Replicas -> Seq(Nat)]
  BY <1>1, <1>2
<1>4. ASSUME NEW t \in Replicas PROVE Shown(docs'[t], seen'[t])
  <2>1. CASE t = r
    BY <1>1, <2>1
  <2>2. CASE t # r
    <3>1. docs'[t] = docs[t] /\ seen'[t] = seen[t]
      BY <1>1, <2>2
    <3> QED
      BY <3>1 DEF DocInv
  <2> QED
    BY <2>1, <2>2
<1> QED
  BY <1>3, <1>4 DEF DocInv

LEMMA InitDoc == Init => DocInv
<1> SUFFICES ASSUME Init PROVE DocInv
  OBVIOUS
<1>1. /\ operations = << >> /\ docs = [r \in Replicas |-> << >>]
      /\ seen = [r \in Replicas |-> {}]
  BY DEF Init
<1>2. << >> \in Seq({}) /\ << >> \in Seq(Nat) /\ Len(<< >>) = 0
  BY EmptySeq
<1>3. ToSet(<< >>) = {} /\ DOMAIN << >> = {}
  BY EmptySeq DEF ToSet
<1>4. IsFiniteSet({}) /\ Cardinality({}) = 0
  BY FS_EmptySet
<1>5. Ops = {}
  BY <1>1, <1>2 DEF Ops
<1>6. Shown(<< >>, {})
  BY <1>2, <1>3, <1>4 DEF Shown
<1> QED
  BY <1>1, <1>2, <1>5, <1>6 DEF DocInv, Neighboured

\* An insertion depends on the neighbours its author put it between.
LEMMA InsertDoc ==
    ASSUME BookInv, DocInv, NEW r \in Replicas, NEW index \in 0..Len(docs[r]), Insert(r, index)
    PROVE  DocInv'
<1>1. PICK n, doc : n = Len(operations) + 1 /\ doc = docs[r]
  OBVIOUS
<1>2. PICK item :
        /\ operations' = Append(operations, item)
        /\ item.dependencies = seen[r]
        /\ item.origin = IF index = 0 THEN None ELSE doc[index]
        /\ item.right = IF index = Len(doc) THEN None ELSE doc[index + 1]
        /\ seen' = [seen EXCEPT ![r] = @ \cup {n}]
        /\ docs' = [docs EXCEPT ![r] = InsertAt(doc, index + 1, n)]
  BY <1>1 DEF Insert, Dependencies
<1>3. PICK S : operations \in Seq(S)
  BY DEF BookInv
<1>4. operations \in Seq(S \cup {item}) /\ item \in S \cup {item}
  BY <1>3, SeqMonotonic
<1>5. /\ Len(operations') = n
      /\ \A m \in 1..Len(operations) : operations'[m] = operations[m]
      /\ operations'[n] = item
  BY <1>1, <1>2, <1>4, AppendProperties
<1>6. /\ Len(operations) \in Nat /\ n \in Nat
      /\ Ops' = Ops \cup {n} /\ n \notin Ops /\ Ops' \subseteq Nat
  BY <1>1, <1>3, <1>5, LenProperties DEF Ops
<1>7. seen \in [Replicas -> SUBSET Ops] /\ docs \in [Replicas -> Seq(Nat)]
  BY DEF BookInv, DocInv
<1>8. Shown(doc, seen[r]) /\ n \notin seen[r]
  BY <1>1, <1>6, <1>7 DEF DocInv
<1>9. Shown(InsertAt(doc, index + 1, n), seen[r] \cup {n})
  BY <1>1, <1>8, OneMoreShown
<1>10. item.origin \in item.dependencies \cup {None} /\ item.right \in item.dependencies \cup {None}
  <2>1. Len(doc) \in Nat /\ DOMAIN doc = 1..Len(doc) /\ ToSet(doc) = seen[r]
    BY <1>1, <1>7, <1>8, LenProperties DEF Shown
  <2>2. \A i \in 1..Len(doc) : doc[i] \in seen[r]
    BY <2>1 DEF ToSet
  <2>3. index # 0 => index \in 1..Len(doc)
    BY <1>1, <2>1
  <2>4. index # Len(doc) => index + 1 \in 1..Len(doc)
    BY <1>1, <2>1
  <2> QED
    BY <1>2, <2>2, <2>3, <2>4
<1>11. Neighboured'
  <2>1. ASSUME NEW m \in Ops'
        PROVE  /\ operations'[m].origin \in operations'[m].dependencies \cup {None}
               /\ operations'[m].right \in operations'[m].dependencies \cup {None}
    <3>1. CASE m = n
      BY <1>5, <1>10, <3>1
    <3>2. CASE m \in Ops
      BY <1>5, <3>2 DEF DocInv, Neighboured, Ops
    <3> QED
      BY <1>6, <3>1, <3>2
  <2> QED
    BY <2>1 DEF Neighboured
<1>12. PICK new, known : new = InsertAt(doc, index + 1, n) /\ known = seen[r] \cup {n}
  OBVIOUS
<1>13. /\ docs' = [docs EXCEPT ![r] = new] /\ seen' = [seen EXCEPT ![r] = known]
       /\ Shown(new, known) /\ known \subseteq Ops'
  BY <1>2, <1>6, <1>7, <1>9, <1>12
<1> QED
  BY <1>6, <1>11, <1>13, OneChanged

\* An update that may be delivered is never set aside: its neighbours are there.
LEMMA ReceiveDoc ==
    ASSUME BookInv, DocInv, NEW n \in Ops, NEW to \in Replicas, MayDeliver(n, to), Receive(n, to)
    PROVE  DocInv'
<1>1. PICK doc : doc = docs[to]
  OBVIOUS
<1>2. /\ docs' = [docs EXCEPT ![to] = ApplyUpdate(operations, doc, n)]
      /\ seen' = [seen EXCEPT ![to] = @ \cup {n}]
      /\ operations' = operations
  BY <1>1 DEF Receive, DocInv
<1>3. seen \in [Replicas -> SUBSET Ops] /\ Shown(doc, seen[to]) /\ docs \in [Replicas -> Seq(Nat)]
  BY <1>1 DEF BookInv, DocInv
<1>4. Ops' = Ops /\ Ops \subseteq Nat /\ Neighboured'
  BY <1>2 DEF Ops, DocInv, Neighboured
<1>5. /\ operations[n].origin \in seen[to] \cup {None}
      /\ operations[n].right \in seen[to] \cup {None}
  BY DEF MayDeliver, DocInv, Neighboured
<1>6. ToSet(doc) = seen[to] /\ Len(doc) \in Nat /\ DOMAIN doc = 1..Len(doc)
  BY <1>1, <1>3, LenProperties DEF Shown
<1>7. CASE n \in seen[to]
  <2>1. ApplyUpdate(operations, doc, n) = doc /\ seen[to] \cup {n} = seen[to]
    BY <1>6, <1>7 DEF ApplyUpdate
  <2>2. seen' = [seen EXCEPT ![to] = seen[to]] /\ docs' = [docs EXCEPT ![to] = doc]
    BY <1>2, <2>1
  <2> QED
    BY <1>3, <1>4, <2>2, OneChanged
<1>8. CASE n \notin seen[to]
  <2>1. ApplyUpdate(operations, doc, n) = Integrate(operations, doc, n)
    BY <1>5, <1>6, <1>8 DEF ApplyUpdate
  <2>2. operations[n].origin = None \/ \E i \in 1..Len(doc) : doc[i] = operations[n].origin
    BY <1>5, <1>6 DEF ToSet
  <2>9. operations[n].right = None \/ \E i \in 1..Len(doc) : doc[i] = operations[n].right
    BY <1>5, <1>6 DEF ToSet
  <2>3. PICK p : p = PlaceAfter(operations, doc, n)
    OBVIOUS
  <2>4. p \in 0..Len(doc)
    BY <1>6, <2>2, <2>3, <2>9, PlaceBounds
  <2>5. PICK new, known : new = InsertAt(doc, p + 1, n) /\ known = seen[to] \cup {n}
    OBVIOUS
  <2>6. Shown(new, known)
    BY <1>3, <1>8, <2>4, <2>5, OneMoreShown
  <2>7. docs' = [docs EXCEPT ![to] = new] /\ seen' = [seen EXCEPT ![to] = known]
    BY <1>2, <2>1, <2>3, <2>5 DEF Integrate
  <2>8. known \subseteq Ops'
    BY <1>3, <1>4, <2>5
  <2> QED
    BY <1>4, <2>6, <2>7, <2>8, OneChanged
<1> QED
  BY <1>7, <1>8

LEMMA SameDoc == ASSUME DocInv, UNCHANGED <<operations, docs, seen>> PROVE DocInv'
BY DEF DocInv, Neighboured, Ops

LEMMA NextDoc == BookInv /\ DocInv /\ [Next]_vars => DocInv'
<1> SUFFICES ASSUME BookInv, DocInv, [Next]_vars PROVE DocInv'
  OBVIOUS
<1>1. CASE \E r \in Replicas : \E index \in 0..Len(docs[r]) : Insert(r, index)
  BY <1>1, InsertDoc
<1>2. CASE \E n \in Ops, to \in Replicas : Deliver(n, to)
  BY <1>2, ReceiveDoc DEF Deliver
<1>3. CASE \E receivers \in Orders : Synchronize(receivers)
  BY <1>3, SameDoc DEF Synchronize
<1>4. CASE SyncDeliver
  <2>1. /\ Head(sync.rest) \in Replicas /\ sync.next \in Ops
        /\ MayDeliver(sync.next, Head(sync.rest))
    BY <1>4, LoopFacts DEF SyncDeliver
  <2>2. Receive(sync.next, Head(sync.rest))
    BY <1>4, <2>1 DEF SyncDeliver
  <2> QED
    BY <2>1, <2>2, ReceiveDoc
<1>5. CASE SyncSeen \/ SyncNextReceiver \/ SyncReturn
  BY <1>5, SameDoc DEF SyncSeen, SyncNextReceiver, SyncReturn
<1>6. CASE UNCHANGED vars
  BY <1>6, SameDoc DEF vars
<1> QED
  BY <1>1, <1>2, <1>3, <1>4, <1>5, <1>6 DEF Next, SyncStep

\* What the class believes a replica has seen is what the replica shows, each
\* element once, whatever was delivered late, twice or to its own author.
THEOREM SeenShown == Spec => []SeenIsShown
<1>1. BookInv /\ DocInv => SeenIsShown
  BY DEF DocInv, Shown, SeenIsShown
<1> QED
  BY <1>1, InitDoc, NextDoc, BookInvariance, PTL DEF Spec

-----------------------------------------------------------------------------
(* The order of the elements.  That an update finds its neighbours in the    *)
(* order in which its author saw them is what Yjs is relied on for.          *)

Distinct(doc) == \A i, j \in 1..Len(doc) : doc[i] = doc[j] => i = j

\* n is shown between the neighbours it was inserted between.
Between(ops, doc, n) ==
    /\ ops[n].origin # None => Position(doc, ops[n].origin) < Position(doc, n)
    /\ ops[n].right # None => Position(doc, n) < Position(doc, ops[n].right)

\* An author has seen what it made.
Authored ==
    \A n \in Ops : operations[n].replica \in Replicas /\ n \in seen[operations[n].replica]

OrderInv ==
    /\ Authored
    /\ \A r \in Replicas : /\ Distinct(docs[r])
                           /\ \A n \in seen[r] : Between(operations, docs[r], n)

LEMMA PositionOf ==
    ASSUME NEW S, NEW doc \in Seq(S), Distinct(doc), NEW m \in ToSet(doc)
    PROVE  /\ Position(doc, m) \in 1..Len(doc) /\ doc[Position(doc, m)] = m
           /\ \A i \in 1..Len(doc) : doc[i] = m => Position(doc, m) = i
<1>1. \E i \in 1..Len(doc) : doc[i] = m
  <2>1. DOMAIN doc = 1..Len(doc)
    BY LenProperties
  <2> QED
    BY <2>1 DEF ToSet
<1>2. Position(doc, m) \in 1..Len(doc) /\ doc[Position(doc, m)] = m
  BY <1>1 DEF Position
<1> QED
  BY <1>2 DEF Distinct

\* An insertion leaves the order of the others alone.
LEMMA OrderKept ==
    ASSUME NEW S, NEW doc \in Seq(S), Distinct(doc), NEW p \in 0..Len(doc),
           NEW e \in S, e \notin ToSet(doc), NEW new, new = InsertAt(doc, p + 1, e)
    PROVE  /\ Distinct(new) /\ Position(new, e) = p + 1
           /\ \A m \in ToSet(doc) :
                Position(new, m) = IF Position(doc, m) <= p THEN Position(doc, m)
                                                            ELSE Position(doc, m) + 1
<1>1. new \in Seq(S) /\ Enlarged(new, doc, e) /\ Inserted(new, doc, p, e)
  BY InsertAtFacts
<1>2. PICK l \in Nat : l = Len(doc)
  BY LenProperties
<1>3. /\ DOMAIN doc = 1..l /\ Len(new) = l + 1 /\ p \in 0..l
      /\ ToSet(new) = ToSet(doc) \cup {e}
  BY <1>1, <1>2, LenProperties DEF Enlarged
<1>4. \A i \in 1..l : doc[i] # e
  BY <1>3 DEF ToSet
<1>5. \A i \in 1..(l + 1) : new[i] = IF i <= p THEN doc[i] ELSE IF i = p + 1 THEN e ELSE doc[i - 1]
  <2> SUFFICES ASSUME NEW i \in 1..(l + 1)
               PROVE  new[i] = IF i <= p THEN doc[i] ELSE IF i = p + 1 THEN e ELSE doc[i - 1]
    OBVIOUS
  <2>1. CASE i <= p
    <3>1. i \in 1..p
      BY <1>3, <2>1
    <3> QED
      BY <1>1, <2>1, <3>1 DEF Inserted
  <2>2. CASE i = p + 1
    BY <1>1, <1>3, <2>2 DEF Inserted
  <2>3. CASE i > p + 1
    <3>1. i - 1 \in (p + 1)..l /\ (i - 1) + 1 = i /\ ~(i <= p) /\ i # p + 1
      BY <1>3, <2>3
    <3> QED
      BY <1>1, <1>2, <3>1 DEF Inserted
  <2> QED
    BY <1>3, <2>1, <2>2, <2>3
<1>6. \A i, j \in 1..l : doc[i] = doc[j] => i = j
  BY <1>2 DEF Distinct
<1>7. Distinct(new)
  <2>1. ASSUME NEW i \in 1..(l + 1), NEW j \in 1..(l + 1), new[i] = new[j] PROVE i = j
    <3> DEFINE a == IF i <= p THEN i ELSE i - 1
               b == IF j <= p THEN j ELSE j - 1
    <3>1. i # p + 1 => a \in 1..l /\ new[i] = doc[a]
      BY <1>3, <1>5
    <3>2. j # p + 1 => b \in 1..l /\ new[j] = doc[b]
      BY <1>3, <1>5
    <3>3. (i = p + 1 => new[i] = e) /\ (j = p + 1 => new[j] = e)
      BY <1>3, <1>5
    <3>4. CASE i = p + 1 \/ j = p + 1
      BY <1>4, <2>1, <3>1, <3>2, <3>3, <3>4
    <3>5. CASE i # p + 1 /\ j # p + 1
      <4>1. a = b
        BY <1>6, <2>1, <3>1, <3>2, <3>5
      <4> QED
        BY <1>3, <3>5, <4>1
    <3> QED
      BY <3>4, <3>5
  <2> QED
    BY <1>3, <2>1 DEF Distinct
<1>8. Position(new, e) = p + 1
  <2>1. p + 1 \in 1..(l + 1) /\ new[p + 1] = e /\ e \in ToSet(new)
    BY <1>3, <1>5
  <2> QED
    BY <1>1, <1>3, <1>7, <2>1, PositionOf
<1>9. ASSUME NEW m \in ToSet(doc)
      PROVE  Position(new, m) = IF Position(doc, m) <= p THEN Position(doc, m)
                                                         ELSE Position(doc, m) + 1
  <2>1. PICK i \in 1..l : i = Position(doc, m) /\ doc[i] = m
    BY <1>2, PositionOf
  <2>2. PICK k : k = IF i <= p THEN i ELSE i + 1
    OBVIOUS
  <2>3. k \in 1..(l + 1) /\ new[k] = m
    <3>1. CASE i <= p
      BY <1>3, <1>5, <2>1, <2>2, <3>1
    <3>2. CASE ~(i <= p)
      <4>1. k = i + 1 /\ k \in 1..(l + 1) /\ ~(k <= p) /\ k # p + 1 /\ k - 1 = i
        BY <1>3, <2>2, <3>2
      <4> QED
        BY <1>5, <2>1, <4>1
    <3> QED
      BY <3>1, <3>2
  <2>4. m \in ToSet(new)
    BY <1>3
  <2>5. Position(new, m) = k
    BY <1>1, <1>3, <1>7, <2>3, <2>4, PositionOf
  <2> QED
    BY <2>1, <2>2, <2>5
<1> QED
  BY <1>7, <1>8, <1>9

\* One insertion, by an author or on arrival: what is shown stays between its
\* neighbours, and the new element comes between its own.
LEMMA OrderChanged ==
    ASSUME NEW S, NEW doc \in Seq(S), Distinct(doc), NEW p \in 0..Len(doc), NEW e \in S,
           e \notin ToSet(doc), NEW new, new = InsertAt(doc, p + 1, e), NEW ops, NEW old,
           \A m \in ToSet(doc) : /\ ops[m] = old[m] /\ Between(old, doc, m)
                                 /\ ops[m].origin \in ToSet(doc) \cup {None}
                                 /\ ops[m].right \in ToSet(doc) \cup {None},
           ops[e].origin \in ToSet(doc) \cup {None}, ops[e].right \in ToSet(doc) \cup {None},
           From(ops, doc, e) <= p, p < Until(ops, doc, e)
    PROVE  Distinct(new) /\ \A m \in ToSet(doc) \cup {e} : Between(ops, new, m)
<1>1. /\ Distinct(new) /\ Position(new, e) = p + 1
      /\ \A m \in ToSet(doc) :
            Position(new, m) = IF Position(doc, m) <= p THEN Position(doc, m)
                                                        ELSE Position(doc, m) + 1
  BY OrderKept
<1>2. PICK l \in Nat : l = Len(doc) /\ p \in 0..l
  BY LenProperties
<1>3. \A m \in ToSet(doc) : Position(doc, m) \in 1..l
  BY <1>2, PositionOf
<1>4. Between(ops, new, e)
  <2>1. ASSUME ops[e].origin # None PROVE Position(new, ops[e].origin) < p + 1
    <3>1. PICK o : o = ops[e].origin /\ o \in ToSet(doc)
      BY <2>1
    <3>2. Position(doc, o) <= p
      BY <2>1, <3>1 DEF From
    <3> QED
      BY <1>1, <1>2, <1>3, <3>1, <3>2
  <2>2. ASSUME ops[e].right # None PROVE p + 1 < Position(new, ops[e].right)
    <3>1. PICK o : o = ops[e].right /\ o \in ToSet(doc)
      BY <2>2
    <3>2. p < Position(doc, o)
      BY <2>2, <3>1 DEF Until
    <3> QED
      BY <1>1, <1>2, <1>3, <3>1, <3>2
  <2> QED
    BY <1>1, <2>1, <2>2 DEF Between
<1>5. ASSUME NEW x \in ToSet(doc), NEW y \in ToSet(doc), Position(doc, x) < Position(doc, y)
      PROVE  Position(new, x) < Position(new, y)
  BY <1>1, <1>2, <1>3, <1>5
<1>6. ASSUME NEW m \in ToSet(doc) PROVE Between(ops, new, m)
  <2>1. ops[m].origin # None => Position(new, ops[m].origin) < Position(new, m)
    BY <1>5, <1>6 DEF Between
  <2>2. ops[m].right # None => Position(new, m) < Position(new, ops[m].right)
    BY <1>5, <1>6 DEF Between
  <2> QED
    BY <2>1, <2>2 DEF Between
<1> QED
  BY <1>1, <1>4, <1>6
\* The replica that changes, and the others.
LEMMA OrderStep ==
    ASSUME BookInv, DocInv, OrderInv, NEW r \in Replicas, NEW n, NEW p \in 0..Len(docs[r]),
           NEW doc, doc = InsertAt(docs[r], p + 1, n), docs' = [docs EXCEPT ![r] = doc],
           NEW known, known = seen[r] \cup {n}, seen' = [seen EXCEPT ![r] = known],
           \A m \in Ops : operations'[m] = operations[m],
           n \notin seen[r], Authored',
           operations'[n].origin \in seen[r] \cup {None},
           operations'[n].right \in seen[r] \cup {None},
           From(operations', docs[r], n) <= p, p < Until(operations', docs[r], n)
    PROVE  OrderInv'
<1>1. docs \in [Replicas -> Seq(Nat)] /\ seen \in [Replicas -> SUBSET Ops]
  BY DEF BookInv, DocInv
<1>2. ASSUME NEW t \in Replicas
      PROVE  /\ ToSet(docs[t]) = seen[t] /\ docs[t] \in Seq(seen[t]) /\ Distinct(docs[t])
             /\ \A m \in seen[t] : /\ operations'[m] = operations[m]
                                   /\ Between(operations, docs[t], m)
                                   /\ operations'[m].origin \in seen[t] \cup {None}
                                   /\ operations'[m].right \in seen[t] \cup {None}
  <2>1. Shown(docs[t], seen[t]) /\ seen[t] \subseteq Ops
    BY <1>1 DEF DocInv
  <2>2. ASSUME NEW m \in seen[t]
        PROVE  /\ operations[m].origin \in seen[t] \cup {None}
               /\ operations[m].right \in seen[t] \cup {None}
    BY <2>1 DEF BookInv, DocInv, CausallyClosed, Neighboured
  <2> QED
    BY <2>1, <2>2 DEF Shown, OrderInv
<1>3. PICK ops : ops = operations'
  OBVIOUS
<1>4. PICK old : old = operations
  OBVIOUS
<1>5. Distinct(doc) /\ \A m \in known : Between(ops, doc, m)
  <2>1. PICK was, S : was = docs[r] /\ S = seen[r] \cup {n}
    OBVIOUS
  <2>2. was \in Seq(S) /\ n \in S
    BY <1>2, <2>1, SeqMonotonic
  <2>3. /\ Distinct(was) /\ ToSet(was) = seen[r] /\ p \in 0..Len(was)
        /\ doc = InsertAt(was, p + 1, n)
    BY <1>2, <2>1
  <2>4. \A m \in ToSet(was) : /\ ops[m] = old[m] /\ Between(old, was, m)
                              /\ ops[m].origin \in ToSet(was) \cup {None}
                              /\ ops[m].right \in ToSet(was) \cup {None}
    BY <1>2, <1>3, <1>4, <2>1, <2>3
  <2>5. /\ ops[n].origin \in ToSet(was) \cup {None} /\ ops[n].right \in ToSet(was) \cup {None}
        /\ From(ops, was, n) <= p /\ p < Until(ops, was, n)
    BY <1>3, <2>1, <2>3 DEF From, Until
  <2>6. Distinct(doc) /\ \A m \in ToSet(was) \cup {n} : Between(ops, doc, m)
    BY <2>2, <2>3, <2>4, <2>5, OrderChanged
  <2> QED
    BY <2>3, <2>6
<1>6. ASSUME NEW t \in Replicas
      PROVE  Distinct(docs'[t]) /\ \A m \in seen'[t] : Between(ops, docs'[t], m)
  <2>1. CASE t = r
    BY <1>1, <1>5, <2>1
  <2>2. CASE t # r
    <3>1. docs'[t] = docs[t] /\ seen'[t] = seen[t]
      BY <1>1, <2>2
    <3>2. \A m \in seen[t] : Between(ops, docs[t], m)
      BY <1>2, <1>3 DEF Between
    <3> QED
      BY <1>2, <3>1, <3>2
  <2> QED
    BY <2>1, <2>2
<1> QED
  BY <1>3, <1>6 DEF OrderInv, Between

LEMMA InitOrder == Init => OrderInv
<1> SUFFICES ASSUME Init PROVE OrderInv
  OBVIOUS
<1>1. /\ operations = << >> /\ docs = [r \in Replicas |-> << >>]
      /\ seen = [r \in Replicas |-> {}]
  BY DEF Init
<1>2. Ops = {} /\ Len(<< >>) = 0
  BY <1>1, EmptySeq DEF Ops
<1>3. Distinct(<< >>)
  BY <1>2 DEF Distinct
<1> QED
  BY <1>1, <1>2, <1>3 DEF OrderInv, Authored

LEMMA InsertOrder ==
    ASSUME BookInv, DocInv, OrderInv, NEW r \in Replicas, NEW index \in 0..Len(docs[r]),
           Insert(r, index)
    PROVE  OrderInv'
<1>1. PICK n, doc : n = Len(operations) + 1 /\ doc = docs[r]
  OBVIOUS
<1>2. PICK item :
        /\ operations' = Append(operations, item)
        /\ item.replica = r
        /\ item.origin = IF index = 0 THEN None ELSE doc[index]
        /\ item.right = IF index = Len(doc) THEN None ELSE doc[index + 1]
        /\ seen' = [seen EXCEPT ![r] = @ \cup {n}]
        /\ docs' = [docs EXCEPT ![r] = InsertAt(doc, index + 1, n)]
  BY <1>1 DEF Insert
<1>3. PICK S : operations \in Seq(S)
  BY DEF BookInv
<1>4. operations \in Seq(S \cup {item}) /\ item \in S \cup {item}
  BY <1>3, SeqMonotonic
<1>5. /\ Len(operations') = n
      /\ \A m \in 1..Len(operations) : operations'[m] = operations[m]
      /\ operations'[n] = item
  BY <1>1, <1>2, <1>4, AppendProperties
<1>6. Ops' = Ops \cup {n} /\ n \notin Ops
  BY <1>1, <1>3, <1>5, LenProperties DEF Ops
<1>7. seen \in [Replicas -> SUBSET Ops] /\ docs \in [Replicas -> Seq(Nat)]
      /\ Shown(doc, seen[r]) /\ Distinct(doc)
  BY <1>1 DEF BookInv, DocInv, OrderInv
<1>8. /\ doc \in Seq(seen[r]) /\ ToSet(doc) = seen[r] /\ n \notin seen[r]
      /\ DOMAIN doc = 1..Len(doc) /\ Len(doc) \in Nat /\ index \in 0..Len(doc)
  BY <1>1, <1>6, <1>7, LenProperties DEF Shown
<1>9. \A i \in 1..Len(doc) : doc[i] \in seen[r] /\ Position(doc, doc[i]) = i
  <2>1. \A i \in 1..Len(doc) : doc[i] \in ToSet(doc)
    BY <1>8 DEF ToSet
  <2> QED
    BY <1>7, <1>8, <2>1, PositionOf
<1>10. item.origin \in seen[r] \cup {None} /\ item.right \in seen[r] \cup {None}
  <2>1. (index # 0 => index \in 1..Len(doc)) /\ (index # Len(doc) => index + 1 \in 1..Len(doc))
    <3>1. PICK l \in Nat : l = Len(doc) /\ index \in 0..l
      BY <1>8
    <3>2. (index # 0 => index \in 1..l) /\ (index # l => index + 1 \in 1..l)
      BY <3>1
    <3> QED
      BY <3>1, <3>2
  <2> QED
    BY <1>2, <1>9, <2>1
<1>11. From(operations', docs[r], n) <= index /\ index < Until(operations', docs[r], n)
  BY <1>1, <1>2, <1>5, <1>8, <1>9 DEF From, Until, None
<1>12. Authored'
  <2>1. ASSUME NEW m \in Ops'
        PROVE  operations'[m].replica \in Replicas /\ m \in seen'[operations'[m].replica]
    <3>1. CASE m = n
      BY <1>2, <1>5, <1>7, <3>1
    <3>2. CASE m \in Ops
      <4>1. operations'[m] = operations[m]
        BY <1>5, <3>2 DEF Ops
      <4> QED
        BY <1>2, <1>7, <3>2, <4>1 DEF OrderInv, Authored
    <3> QED
      BY <1>6, <3>1, <3>2
  <2> QED
    BY <2>1 DEF Authored
<1>13. PICK new, known : new = InsertAt(docs[r], index + 1, n) /\ known = seen[r] \cup {n}
  OBVIOUS
<1>14. docs' = [docs EXCEPT ![r] = new] /\ seen' = [seen EXCEPT ![r] = known]
  BY <1>1, <1>2, <1>7, <1>13
<1>15. \A m \in Ops : operations'[m] = operations[m]
  BY <1>5 DEF Ops
<1>16. /\ operations'[n].origin \in seen[r] \cup {None}
       /\ operations'[n].right \in seen[r] \cup {None}
  BY <1>5, <1>10
<1> QED
  BY <1>8, <1>11, <1>12, <1>13, <1>14, <1>15, <1>16, OrderStep

\* On arrival: the author shows both neighbours in their order, and the receiver
\* agrees with it.
LEMMA ReceiveOrder ==
    ASSUME BookInv, DocInv, OrderInv, ReplicasAgree, NEW n \in Ops, NEW to \in Replicas,
           MayDeliver(n, to), Receive(n, to)
    PROVE  OrderInv'
<1>1. PICK doc : doc = docs[to]
  OBVIOUS
<1>2. /\ docs' = [docs EXCEPT ![to] = ApplyUpdate(operations, doc, n)]
      /\ seen' = [seen EXCEPT ![to] = @ \cup {n}]
      /\ operations' = operations
  BY <1>1 DEF Receive, DocInv
<1>3. seen \in [Replicas -> SUBSET Ops] /\ Shown(doc, seen[to]) /\ docs \in [Replicas -> Seq(Nat)]
      /\ Distinct(doc)
  BY <1>1 DEF BookInv, DocInv, OrderInv
<1>4. Ops' = Ops
  BY <1>2 DEF Ops
<1>5. /\ operations[n].origin \in seen[to] \cup {None}
      /\ operations[n].right \in seen[to] \cup {None}
  BY DEF MayDeliver, DocInv, Neighboured
<1>6. ToSet(doc) = seen[to] /\ Len(doc) \in Nat /\ DOMAIN doc = 1..Len(doc) /\ doc \in Seq(seen[to])
  BY <1>1, <1>3, LenProperties DEF Shown
<1>7. Authored'
  <2>1. \A r \in Replicas : seen[r] \subseteq seen'[r]
    BY <1>2, <1>3
  <2> QED
    BY <1>2, <1>4, <2>1 DEF OrderInv, Authored
<1>8. CASE n \in seen[to]
  <2>1. ApplyUpdate(operations, doc, n) = doc /\ seen[to] \cup {n} = seen[to]
    BY <1>6, <1>8 DEF ApplyUpdate
  <2>2. seen' = seen /\ docs' = docs
    BY <1>1, <1>2, <1>3, <2>1
  <2> QED
    BY <1>2, <1>7, <2>2 DEF OrderInv, Between
<1>9. CASE n \notin seen[to]
  <2>1. ApplyUpdate(operations, doc, n) = Integrate(operations, doc, n)
    BY <1>5, <1>6, <1>9 DEF ApplyUpdate
  <2>2. operations[n].origin = None \/ \E i \in 1..Len(doc) : doc[i] = operations[n].origin
    BY <1>5, <1>6 DEF ToSet
  <2>3. operations[n].right = None \/ \E i \in 1..Len(doc) : doc[i] = operations[n].right
    BY <1>5, <1>6 DEF ToSet
  <2>4. PICK p : p = PlaceAfter(operations, doc, n)
    OBVIOUS
  <2>5. PICK a, b : a = From(operations, doc, n) /\ b = Until(operations, doc, n)
    OBVIOUS
  <2>6. p \in 0..Len(doc) /\ a \in 0..p /\ b \in 1..(Len(doc) + 1) /\ (a < b => p < b)
    BY <1>6, <2>2, <2>3, <2>4, <2>5, PlaceBounds
  <2>7. a < b
    <3>1. CASE operations[n].origin = None \/ operations[n].right = None
      BY <1>6, <2>5, <2>6, <3>1 DEF From, Until
    <3>2. CASE operations[n].origin # None /\ operations[n].right # None
      <4>1. PICK o, q : o = operations[n].origin /\ q = operations[n].right
        OBVIOUS
      <4>2. PICK r \in Replicas : n \in seen[r]
        BY DEF OrderInv, Authored
      <4>3. Between(operations, docs[r], n)
        BY <4>2 DEF OrderInv
      <4>4. o \in seen[to] \cap seen[r] /\ q \in seen[to] \cap seen[r]
        <5>1. operations[n].dependencies \subseteq seen[r]
          BY <4>2 DEF BookInv, CausallyClosed
        <5> QED
          BY <1>5, <3>2, <4>1, <5>1 DEF DocInv, Neighboured
      <4>5. Position(docs[r], o) < Position(docs[r], q)
        <5>1. Position(docs[r], o) < Position(docs[r], n)
              /\ Position(docs[r], n) < Position(docs[r], q)
          BY <3>2, <4>1, <4>3 DEF Between
        <5>2. /\ Position(docs[r], o) \in Nat /\ Position(docs[r], n) \in Nat
              /\ Position(docs[r], q) \in Nat
          <6>1. docs[r] \in Seq(Nat) /\ Distinct(docs[r]) /\ ToSet(docs[r]) = seen[r]
            BY <1>3 DEF DocInv, Shown, OrderInv
          <6>2. \A m \in seen[r] : Position(docs[r], m) \in 1..Len(docs[r])
            BY <6>1, PositionOf
          <6> QED
            BY <4>2, <4>4, <6>2
        <5> QED
          BY <5>1, <5>2
      <4>6. Position(doc, o) < Position(doc, q)
        BY <1>1, <4>4, <4>5 DEF ReplicasAgree
      <4> QED
        BY <2>5, <3>2, <4>1, <4>6 DEF From, Until
    <3> QED
      BY <3>1, <3>2
  <2>8. a <= p /\ p < b
    BY <2>6, <2>7
  <2>9. PICK new, known : new = InsertAt(docs[to], p + 1, n) /\ known = seen[to] \cup {n}
    OBVIOUS
  <2>10. docs' = [docs EXCEPT ![to] = new] /\ seen' = [seen EXCEPT ![to] = known]
    BY <1>1, <1>2, <2>1, <2>4, <2>9 DEF Integrate
  <2>11. /\ From(operations', docs[to], n) <= p /\ p < Until(operations', docs[to], n)
         /\ p \in 0..Len(docs[to])
    BY <1>1, <1>2, <2>5, <2>6, <2>8 DEF From, Until
  <2>12. /\ operations'[n].origin \in seen[to] \cup {None}
         /\ operations'[n].right \in seen[to] \cup {None}
         /\ \A m \in Ops : operations'[m] = operations[m]
    BY <1>2, <1>5
  <2> QED
    BY <1>7, <1>9, <2>9, <2>10, <2>11, <2>12, OrderStep
<1> QED
  BY <1>8, <1>9

LEMMA SameOrder == ASSUME OrderInv, UNCHANGED <<operations, docs, seen>> PROVE OrderInv'
BY DEF OrderInv, Authored, Between, Ops

LEMMA NextOrder == BookInv /\ DocInv /\ OrderInv /\ ReplicasAgree /\ [Next]_vars => OrderInv'
<1> SUFFICES ASSUME BookInv, DocInv, OrderInv, ReplicasAgree, [Next]_vars PROVE OrderInv'
  OBVIOUS
<1>1. CASE \E r \in Replicas : \E index \in 0..Len(docs[r]) : Insert(r, index)
  BY <1>1, InsertOrder
<1>2. CASE \E n \in Ops, to \in Replicas : Deliver(n, to)
  BY <1>2, ReceiveOrder DEF Deliver
<1>3. CASE \E receivers \in Orders : Synchronize(receivers)
  BY <1>3, SameOrder DEF Synchronize
<1>4. CASE SyncDeliver
  <2>1. /\ Head(sync.rest) \in Replicas /\ sync.next \in Ops
        /\ MayDeliver(sync.next, Head(sync.rest))
    BY <1>4, LoopFacts DEF SyncDeliver
  <2>2. Receive(sync.next, Head(sync.rest))
    BY <1>4, <2>1 DEF SyncDeliver
  <2> QED
    BY <2>1, <2>2, ReceiveOrder
<1>5. CASE SyncSeen \/ SyncNextReceiver \/ SyncReturn
  BY <1>5, SameOrder DEF SyncSeen, SyncNextReceiver, SyncReturn
<1>6. CASE UNCHANGED vars
  BY <1>6, SameOrder DEF vars
<1> QED
  BY <1>1, <1>2, <1>3, <1>4, <1>5, <1>6 DEF Next, SyncStep

\* What the lab relies on Yjs for is that replicas agree; given that, an element
\* stays between its neighbours on every replica, since an update looks for its
\* place only between them and its author had seen them in that order.
THEOREM NeighboursKept == Spec /\ []ReplicasAgree => []BetweenNeighbours
<1>1. OrderInv => BetweenNeighbours
  BY DEF OrderInv, Between, BetweenNeighbours
<1>2. Spec => []DocInv
  BY InitDoc, NextDoc, BookInvariance, PTL DEF Spec
<1> QED
  BY <1>1, <1>2, InitOrder, NextOrder, BookInvariance, PTL DEF Spec
-----------------------------------------------------------------------------
(* The corpus: its schedules are calls of the class, so that what holds of   *)
(* every use of the class holds of them, and each ends by synchronizing.     *)

IsCommand(c, k) ==
    \/ c.call = "insert" /\ c.replica \in Replicas
    \/ c.call = "deliver" /\ k > 1 /\ c.operation = 1 /\ c.to \in Replicas
    \/ c.call = "synchronize" /\ k > 1 /\ c.receivers \in Orders

\* It begins with an insertion and ends with a synchronization.
IsSchedule(s) ==
    /\ Len(s) \in Nat \ {0}
    /\ s[Len(s)].call = "synchronize"
    /\ \A k \in 1..Len(s) : IsCommand(s[k], k)

LEMMA Commands ==
    /\ \A r \in Replicas : \A i, k : IsCommand(insert(r, i), k)
    /\ \A r \in Replicas, k \in {2} : IsCommand(deliver(1, r), k)
    /\ \A receivers \in Orders : /\ synchronize(receivers).call = "synchronize"
                                 /\ \A k \in {2, 4, 5, 6} : IsCommand(synchronize(receivers), k)
BY DEF IsCommand, insert, deliver, synchronize

LEMMA Schedules ==
    ASSUME LabConstants
    PROVE  /\ \A receivers \in Orders : IsSchedule(backward(receivers))
           /\ IsSchedule(sequential) /\ IsSchedule(disjoint)
<1>0. 1 \in Replicas /\ 2 \in Replicas /\ 3 \in Replicas /\ Default \in Orders
  BY DEF LabConstants
<1>1. ASSUME NEW receivers \in Orders PROVE IsSchedule(backward(receivers))
  <2>1. PICK a, b, c, d, e :
            /\ a = insert(3, 0) /\ b = deliver(1, 1) /\ c = insert(1, 0) /\ d = insert(2, 0)
            /\ e = synchronize(receivers)
    OBVIOUS
  <2>2. PICK s : s = <<a, b, c, d, e>>
    OBVIOUS
  <2>3. s = backward(receivers)
    BY <2>1, <2>2, Zenon DEF backward
  <2>4. Len(s) = 5 /\ s[1] = a /\ s[2] = b /\ s[3] = c /\ s[4] = d /\ s[5] = e
    BY <2>2
  <2>5. /\ IsCommand(a, 1) /\ IsCommand(b, 2) /\ IsCommand(c, 3) /\ IsCommand(d, 4)
        /\ IsCommand(e, 5) /\ e.call = "synchronize"
    BY <1>0, <2>1, Commands
  <2>6. IsSchedule(s)
    BY <2>4, <2>5 DEF IsSchedule
  <2> QED
    BY <2>3, <2>6
<1>2. IsSchedule(sequential)
  <2>1. PICK a, b, c, d : /\ a = insert(3, 0) /\ b = insert(1, 0) /\ c = insert(2, 2)
                          /\ d = synchronize(Default)
    OBVIOUS
  <2>2. PICK s : s = <<a, d, b, d, c, d>>
    OBVIOUS
  <2>3. s = sequential
    BY <2>1, <2>2, Zenon DEF sequential
  <2>4. Len(s) = 6 /\ s[1] = a /\ s[2] = d /\ s[3] = b /\ s[4] = d /\ s[5] = c /\ s[6] = d
    BY <2>2
  <2>5. /\ IsCommand(a, 1) /\ IsCommand(d, 2) /\ IsCommand(b, 3) /\ IsCommand(d, 4)
        /\ IsCommand(c, 5) /\ IsCommand(d, 6) /\ d.call = "synchronize"
    BY <1>0, <2>1, Commands
  <2>6. IsSchedule(s)
    BY <2>4, <2>5 DEF IsSchedule
  <2> QED
    BY <2>3, <2>6
<1>3. IsSchedule(disjoint)
  <2>1. PICK a, b, c, d : /\ a = insert(3, 0) /\ b = insert(1, 0) /\ c = insert(2, 1)
                          /\ d = synchronize(Default)
    OBVIOUS
  <2>2. PICK s : s = <<a, d, b, c, d>>
    OBVIOUS
  <2>3. s = disjoint
    BY <2>1, <2>2, Zenon DEF disjoint
  <2>4. Len(s) = 5 /\ s[1] = a /\ s[2] = d /\ s[3] = b /\ s[4] = c /\ s[5] = d
    BY <2>2
  <2>5. /\ IsCommand(a, 1) /\ IsCommand(d, 2) /\ IsCommand(b, 3) /\ IsCommand(c, 4)
        /\ IsCommand(d, 5) /\ d.call = "synchronize"
    BY <1>0, <2>1, Commands
  <2>6. IsSchedule(s)
    BY <2>4, <2>5 DEF IsSchedule
  <2> QED
    BY <2>3, <2>6
<1> QED
  BY <1>1, <1>2, <1>3

\* The receivers of the last synchronization that are not still waiting for it
\* have seen everything.
SyncReached ==
    ~Ended /\ step > 1 /\ Schedule[step - 1].call = "synchronize" =>
        \A r \in Replicas : (Looping /\ r \in ToSet(sync.rest)) \/ Ops \subseteq seen[r]

CorpusInv ==
    /\ LabConstants
    /\ \E S : traces \in Seq(S)
    /\ Len(traces) <= Len(Names)
    /\ order \in Orders
    /\ step \in Nat \ {0}
    /\ step > 1 => Ops # {} /\ (~Ended => step - 1 \in 1..Len(Schedule))
    /\ SyncReached

\* What remains of the corpus begins with one of its schedules.
LEMMA Scheduled == ASSUME CorpusInv, ~Ended PROVE IsSchedule(Schedule)
<1>1. Len(Names) = 4
  BY DEF Names
<1>2. PICK i \in 1..4 : i = Len(traces) + 1
  <2>1. PICK l : l = Len(traces)
    OBVIOUS
  <2>2. l \in Nat
    BY <2>1, LenProperties DEF CorpusInv
  <2>3. l <= 4 /\ l # 4
    BY <1>1, <2>1 DEF CorpusInv, Ended
  <2> QED
    BY <2>1, <2>2, <2>3
<1>3. Name \in {"appendix-a-a9", "sequential-control", "disjoint-control", "inert-score-lanes"}
  BY <1>2 DEF Name, Names
<1>4. order \in Orders
  BY DEF CorpusInv
<1>5. CASE Name \in {"appendix-a-a9", "inert-score-lanes"}
  <2>1. Schedule = backward(order)
    BY <1>5 DEF Schedule
  <2> QED
    BY <1>4, <2>1, Schedules DEF CorpusInv
<1>6. CASE Name = "sequential-control"
  <2>1. Schedule = sequential
    BY <1>6 DEF Schedule
  <2> QED
    BY <2>1, Schedules DEF CorpusInv
<1>7. CASE Name = "disjoint-control"
  <2>1. Schedule = disjoint
    BY <1>7 DEF Schedule
  <2> QED
    BY <2>1, Schedules DEF CorpusInv
<1> QED
  BY <1>3, <1>5, <1>6, <1>7

\* The command that is due is the next one of its schedule.
LEMMA CommandDue ==
    ASSUME CorpusInv, NEW call, Due(call)
    PROVE  IsCommand(Schedule[step], step) /\ Schedule[step].call = call /\ ~Ended
           /\ step \in 1..Len(Schedule)
<1>1. ~Ended /\ step <= Len(Schedule) /\ Schedule[step].call = call
  BY DEF Due
<1>2. IsSchedule(Schedule) /\ step \in Nat \ {0}
  BY <1>1, Scheduled DEF CorpusInv
<1>3. step \in 1..Len(Schedule)
  BY <1>1, <1>2 DEF IsSchedule
<1> QED
  BY <1>1, <1>2, <1>3 DEF IsSchedule

\* Every step of the corpus is a call of the class, or begins with fresh replicas.
LEMMA CorpusCalls ==
    ASSUME BookInv, CorpusInv, MNext
    PROVE  Next \/ Init'
<1>1. CASE CallInsert
  <2>1. PICK c : c = Schedule[step] /\ IsCommand(c, step) /\ c.call = "insert"
    BY <1>1, CommandDue DEF CallInsert
  <2>2. c.replica \in Replicas /\ Insert(c.replica, c.index)
    BY <1>1, <2>1 DEF CallInsert, IsCommand
  <2>3. c.index \in 0..Len(docs[c.replica])
    BY <2>2 DEF Insert
  <2> QED
    BY <2>2, <2>3 DEF Next
<1>2. CASE CallDeliver
  <2>1. PICK c : c = Schedule[step] /\ IsCommand(c, step) /\ c.call = "deliver"
    BY <1>2, CommandDue DEF CallDeliver
  <2>2. step > 1 /\ c.operation = 1 /\ c.to \in Replicas /\ Deliver(1, c.to)
    BY <1>2, <2>1 DEF CallDeliver, IsCommand
  <2>3. 1 \in Ops
    <3>1. Len(operations) \in Nat /\ Ops # {}
      BY <2>2, LenProperties DEF BookInv, CorpusInv
    <3> QED
      BY <3>1 DEF Ops
  <2> QED
    BY <2>2, <2>3 DEF Next
<1>3. CASE CallSynchronize
  <2>1. PICK c : c = Schedule[step] /\ IsCommand(c, step) /\ c.call = "synchronize"
    BY <1>3, CommandDue DEF CallSynchronize
  <2>2. c.receivers \in Orders /\ Synchronize(c.receivers)
    BY <1>3, <2>1 DEF CallSynchronize, IsCommand
  <2> QED
    BY <2>2 DEF Next
<1>4. CASE InSynchronize
  BY <1>4 DEF InSynchronize, Next
<1>5. CASE Measure
  BY <1>5 DEF Measure, Init
<1> QED
  BY <1>1, <1>2, <1>3, <1>4, <1>5 DEF MNext

\* An element of a list is its first or comes after it.
LEMMA HeadOrTail ==
    ASSUME NEW S, NEW s \in Seq(S), s # << >>, NEW x \in ToSet(s)
    PROVE  x = Head(s) \/ x \in ToSet(Tail(s))
<1>1. PICK i \in 1..Len(s) : x = s[i]
  <2>1. DOMAIN s = 1..Len(s)
    BY LenProperties
  <2> QED
    BY <2>1 DEF ToSet
<1>2. Head(s) = s[1] /\ Len(s) \in Nat
  BY LenProperties
<1>3. CASE i = 1
  BY <1>1, <1>2, <1>3
<1>4. CASE i # 1
  <2>1. PICK t : t = Tail(s)
    OBVIOUS
  <2>2. /\ t \in Seq(S) /\ Len(t) = Len(s) - 1 /\ DOMAIN t = 1..Len(t)
        /\ \A k \in 1..Len(t) : t[k] = s[k + 1]
    <3>1. /\ t \in Seq(S) /\ Len(t) = Len(s) - 1
          /\ \A k \in 1..Len(t) : t[k] = s[k + 1]
      BY <2>1, HeadTailProperties
    <3> QED
      BY <3>1, LenProperties
  <2>3. i - 1 \in 1..Len(t) /\ (i - 1) + 1 = i
    BY <1>2, <1>4, <2>2
  <2>4. x = t[i - 1]
    BY <1>1, <2>2, <2>3
  <2> QED
    BY <2>1, <2>2, <2>3, <2>4 DEF ToSet
<1> QED
  BY <1>3, <1>4

\* What synchronize still owes, it owes to receivers it has not come to the end of.
LEMMA SyncPays ==
    ASSUME BookInv, SyncStep, NeverThrown', NEW r \in Replicas,
           (Looping /\ r \in ToSet(sync.rest)) \/ Ops \subseteq seen[r]
    PROVE  /\ operations' = operations
           /\ (Looping' /\ r \in ToSet(sync'.rest)) \/ Ops \subseteq seen'[r]
<1>1. /\ operations' = operations /\ seen[r] \subseteq seen'[r]
  BY DEF SyncStep, SyncSeen, SyncDeliver, SyncNextReceiver, SyncReturn, Receive, BookInv
<1>2. Looping /\ sync \in [rest : Seq(Replicas), next : Int]
  BY DEF SyncStep, SyncSeen, SyncDeliver, SyncNextReceiver, SyncReturn, AtOperation, BookInv,
         LoopInv
<1>3. CASE Ops \subseteq seen[r]
  BY <1>1, <1>3
<1>4. CASE r \in ToSet(sync.rest)
  <2>1. CASE sync' = Advanced
    <3>1. sync'.rest = sync.rest /\ sync'.next = sync.next + 1
      BY <1>2, <2>1 DEF Advanced
    <3>2. Looping'
      BY <1>2, <3>1 DEF Looping
    <3> QED
      BY <1>1, <1>4, <3>1, <3>2
  <2>2. CASE SyncNextReceiver
    <3>1. /\ sync.rest # << >> /\ sync.next > Len(operations)
          /\ sync'.rest = Tail(sync.rest) /\ sync'.next = 1
      BY <2>2 DEF SyncNextReceiver
    <3>2. CASE r = Head(sync.rest)
      <4>1. \A n \in Ops : n < sync.next
        BY <1>2, <3>1, LenProperties DEF Ops, BookInv
      <4>2. Ops \subseteq seen[r]
        BY <1>2, <3>1, <3>2, <4>1 DEF BookInv, LoopInv
      <4> QED
        BY <1>1, <4>2
    <3>3. CASE r # Head(sync.rest)
      <4>1. r \in ToSet(Tail(sync.rest))
        BY <1>2, <1>4, <3>1, <3>3, HeadOrTail
      <4>2. Looping'
        BY <3>1 DEF Looping
      <4> QED
        BY <1>1, <3>1, <4>1, <4>2
    <3> QED
      BY <3>2, <3>3
  <2>3. CASE SyncReturn
    <3>1. sync.rest = << >>
      BY <2>3 DEF SyncReturn
    <3>2. ToSet(<< >>) = {}
      BY EmptySeq DEF ToSet
    <3> QED
      BY <1>4, <3>1, <3>2
  <2>4. CASE sync' = Thrown
    BY <2>4 DEF NeverThrown, Thrown
  <2> QED
    BY <2>1, <2>2, <2>3, <2>4 DEF SyncStep, SyncSeen, SyncDeliver
<1> QED
  BY <1>3, <1>4

LEMMA CorpusStart == LabConstants /\ MInit => CorpusInv
<1> SUFFICES ASSUME LabConstants, MInit PROVE CorpusInv
  OBVIOUS
<1>1. traces = << >> /\ order \in Orders /\ step = 1
  BY DEF MInit
<1>2. << >> \in Seq({}) /\ Len(<< >>) = 0 /\ Len(Names) = 4
  BY EmptySeq DEF Names
<1> QED
  BY <1>1, <1>2 DEF CorpusInv, SyncReached

\* What is added to a list is all that comes to its elements.
LEMMA OneMoreTrace ==
    ASSUME NEW S, NEW s \in Seq(S), NEW x, NEW t, t = Append(s, x)
    PROVE  /\ t \in Seq(S \cup {x}) /\ Len(t) = Len(s) + 1 /\ Len(s) \in Nat
           /\ \A y \in ToSet(t) : y \in ToSet(s) \/ y = x
<1>1. s \in Seq(S \cup {x}) /\ x \in S \cup {x}
  BY SeqMonotonic
<1>2. /\ t \in Seq(S \cup {x}) /\ Len(t) = Len(s) + 1
      /\ \A i \in 1..Len(s) : t[i] = s[i]
      /\ t[Len(s) + 1] = x
  BY <1>1, AppendProperties
<1>3. DOMAIN t = 1..(Len(s) + 1) /\ DOMAIN s = 1..Len(s) /\ Len(s) \in Nat
  BY <1>2, LenProperties
<1>4. \A y \in ToSet(t) : y \in ToSet(s) \/ y = x
  BY <1>2, <1>3 DEF ToSet
<1> QED
  BY <1>2, <1>3, <1>4

LEMMA CorpusStep ==
    ASSUME BookInv, NeverThrown', CorpusInv, MNext
    PROVE  CorpusInv'
<1>0. step \in Nat \ {0} /\ order \in Orders /\ \E S : traces \in Seq(S)
  BY DEF CorpusInv
<1>1. ASSUME NEW call, Due(call), call # "synchronize", step' = step + 1,
             UNCHANGED <<traces, order>>, Ops' # {}
      PROVE  CorpusInv'
  <2>1. step \in 1..Len(Schedule) /\ Schedule[step].call = call /\ ~Ended
    BY <1>1, CommandDue
  <2>2. step' - 1 = step /\ step' > 1 /\ step' \in Nat \ {0}
    BY <1>0, <1>1
  <2>3. Schedule' = Schedule /\ (Ended' <=> Ended)
    BY <1>1 DEF Schedule, Name, Ended
  <2>4. SyncReached'
    BY <1>1, <2>1, <2>2, <2>3 DEF SyncReached
  <2> QED
    BY <1>1, <2>1, <2>2, <2>3, <2>4 DEF CorpusInv
<1>2. CASE CallInsert
  <2>1. PICK r, i : Insert(r, i) /\ Due("insert") /\ step' = step + 1
                    /\ UNCHANGED <<traces, order>>
    BY <1>2 DEF CallInsert
  <2>2. PICK item, S : operations' = Append(operations, item) /\ operations \in Seq(S)
    BY <2>1 DEF Insert, BookInv
  <2>3. Len(operations') = Len(operations) + 1 /\ Len(operations) \in Nat
    <3>1. operations \in Seq(S \cup {item}) /\ item \in S \cup {item}
      BY <2>2, SeqMonotonic
    <3> QED
      BY <2>2, <3>1, AppendProperties, LenProperties
  <2>4. Ops' # {}
    BY <2>3 DEF Ops
  <2> QED
    BY <1>1, <2>1, <2>4
<1>3. CASE CallDeliver
  <2>1. /\ Due("deliver") /\ step' = step + 1
        /\ UNCHANGED <<traces, order>> /\ operations' = operations
    BY <1>3 DEF CallDeliver, Deliver, Receive
  <2>2. step > 1
    BY <2>1, CommandDue DEF IsCommand
  <2>3. Ops' # {}
    BY <2>1, <2>2 DEF CorpusInv, Ops
  <2> QED
    BY <1>1, <2>1, <2>3
<1>4. CASE CallSynchronize
  <2>1. PICK c : c = Schedule[step] /\ IsCommand(c, step) /\ c.call = "synchronize"
    BY <1>4, CommandDue DEF CallSynchronize
  <2>2. /\ Synchronize(c.receivers) /\ step' = step + 1 /\ UNCHANGED <<traces, order>>
        /\ step > 1 /\ c.receivers \in Orders /\ step \in 1..Len(Schedule) /\ ~Ended
    BY <1>4, <2>1, CommandDue DEF CallSynchronize, IsCommand
  <2>3. /\ sync'.rest = c.receivers /\ sync'.next = 1 /\ operations' = operations
    BY <2>2 DEF Synchronize
  <2>4. Looping' /\ \A r \in Replicas : r \in ToSet(sync'.rest)
    BY <2>2, <2>3 DEF Looping, CorpusInv, LabConstants
  <2>5. step' - 1 = step /\ step' > 1 /\ step' \in Nat \ {0}
    BY <1>0, <2>2
  <2>6. Schedule' = Schedule /\ (Ended' <=> Ended) /\ Ops' = Ops
    BY <2>2, <2>3 DEF Schedule, Name, Ended, Ops
  <2>7. SyncReached'
    BY <2>4 DEF SyncReached
  <2> QED
    BY <2>2, <2>5, <2>6, <2>7 DEF CorpusInv
<1>5. CASE InSynchronize
  <2>1. SyncStep /\ UNCHANGED <<traces, order, step>>
    BY <1>5 DEF InSynchronize
  <2>2. operations' = operations
    BY <2>1 DEF SyncStep, SyncSeen, SyncDeliver, SyncNextReceiver, SyncReturn, Receive
  <2>3. Schedule' = Schedule /\ (Ended' <=> Ended) /\ Ops' = Ops
    BY <2>1, <2>2 DEF Schedule, Name, Ended, Ops
  <2>4. SyncReached'
    <3>1. ASSUME NEW r \in Replicas, (Looping /\ r \in ToSet(sync.rest)) \/ Ops \subseteq seen[r]
          PROVE  (Looping' /\ r \in ToSet(sync'.rest)) \/ Ops \subseteq seen'[r]
      BY <2>1, <3>1, SyncPays
    <3> QED
      BY <2>1, <2>3, <3>1 DEF SyncReached, CorpusInv
  <2> QED
    BY <2>1, <2>3, <2>4 DEF CorpusInv
<1>6. CASE Measure
  <2>1. /\ step' = 1 /\ order' \in Orders /\ ~Ended
    BY <1>6 DEF Measure
  <2>2. PICK t, x : t = traces' /\ t = Append(traces, x)
    BY <1>6 DEF Measure
  <2>3. PICK S : traces \in Seq(S)
    BY <1>0
  <2>4. t \in Seq(S \cup {x}) /\ Len(t) = Len(traces) + 1 /\ Len(traces) \in Nat
    BY <2>2, <2>3, OneMoreTrace
  <2>5. Len(traces) <= Len(Names) /\ Len(traces) # Len(Names) /\ Len(Names) = 4
    BY <2>1 DEF CorpusInv, Ended, Names
  <2>6. Len(traces') <= Len(Names) /\ \E X : traces' \in Seq(X)
    <3>1. PICK l, m : l = Len(traces) /\ m = Len(t)
      OBVIOUS
    <3>2. m = l + 1 /\ l \in Nat /\ l <= 4 /\ l # 4
      BY <2>4, <2>5, <3>1
    <3>3. m <= 4
      BY <3>2
    <3>4. traces' \in Seq(S \cup {x})
      BY <2>2, <2>4
    <3> QED
      BY <2>2, <2>5, <3>1, <3>3, <3>4
  <2>7. SyncReached'
    BY <2>1 DEF SyncReached
  <2> QED
    BY <2>1, <2>6, <2>7 DEF CorpusInv
<1> QED
  BY <1>2, <1>3, <1>4, <1>5, <1>6 DEF MNext

LEMMA FreshBook == Init' => BookInv'
BY InitBook, PTL

LEMMA FreshDoc == Init' => DocInv'
BY InitDoc, PTL

LEMMA CorpusNext ==
    BookInv /\ DocInv /\ CorpusInv /\ [MNext]_mvars => BookInv' /\ DocInv' /\ CorpusInv'
<1> SUFFICES ASSUME BookInv, DocInv, CorpusInv, [MNext]_mvars
             PROVE  BookInv' /\ DocInv' /\ CorpusInv'
  OBVIOUS
<1>1. CASE MNext
  <2>1. BookInv' /\ DocInv'
    BY <1>1, CorpusCalls, NextBook, NextDoc, FreshBook, FreshDoc
  <2>2. NeverThrown'
    BY <2>1 DEF BookInv
  <2> QED
    BY <1>1, <2>1, <2>2, CorpusStep
<1>2. CASE UNCHANGED mvars
  <2>1. /\ UNCHANGED vars /\ UNCHANGED <<operations, docs, seen, sync>>
        /\ UNCHANGED <<traces, order, step>>
    BY <1>2 DEF mvars, vars
  <2>2. BookInv' /\ DocInv'
    BY <2>1, NextBook, NextDoc
  <2>3. Schedule' = Schedule /\ (Ended' <=> Ended) /\ Ops' = Ops
    BY <2>1 DEF Schedule, Name, Ended, Ops
  <2>4. SyncReached'
    BY <2>1, <2>3 DEF CorpusInv, SyncReached, Looping
  <2> QED
    BY <2>1, <2>2, <2>3, <2>4 DEF CorpusInv
<1> QED
  BY <1>1, <1>2

LEMMA CorpusInvariance == LabConstants /\ MSpec => [](BookInv /\ DocInv /\ CorpusInv)
<1>1. LabConstants /\ MInit => BookInv /\ DocInv /\ CorpusInv
  BY InitBook, InitDoc, CorpusStart DEF MInit
<1> QED
  BY <1>1, CorpusNext, PTL DEF MSpec

\* When the measures are taken every replica has seen every operation.
LEMMA AllSeen ==
    ASSUME BookInv, CorpusInv, Measure, NEW r \in Replicas
    PROVE  seen[r] = Ops
<1>1. ~Ended /\ sync = Idle /\ step > Len(Schedule) /\ step \in Nat \ {0}
  BY DEF Measure, CorpusInv
<1>2. Len(Schedule) \in Nat \ {0} /\ Schedule[Len(Schedule)].call = "synchronize"
  BY <1>1, Scheduled DEF IsSchedule
<1>3. step > 1
  BY <1>1, <1>2
<1>4. step - 1 = Len(Schedule)
  <2>1. step - 1 \in 1..Len(Schedule)
    BY <1>1, <1>3 DEF CorpusInv
  <2> QED
    BY <1>1, <1>2, <2>1
<1>5. ~Looping
  BY <1>1 DEF Looping, Idle
<1>6. Ops \subseteq seen[r]
  BY <1>1, <1>2, <1>3, <1>4, <1>5 DEF CorpusInv, SyncReached
<1> QED
  BY <1>6 DEF BookInv

\* The measure all_operations_delivered holds of every trace so far.
Complete == \A t \in ToSet(traces) : t.all_operations_delivered

LEMMA CompleteNext == BookInv /\ CorpusInv /\ Complete /\ [MNext]_mvars => Complete'
<1> SUFFICES ASSUME BookInv, CorpusInv, Complete, [MNext]_mvars PROVE Complete'
  OBVIOUS
<1>1. CASE Measure
  <2>1. PICK t, x : t = traces' /\ t = Append(traces, x) /\ x = Finish
    BY <1>1 DEF Measure
  <2>2. PICK S : traces \in Seq(S)
    BY DEF CorpusInv
  <2>3. \A y \in ToSet(t) : y \in ToSet(traces) \/ y = x
    BY <2>1, <2>2, OneMoreTrace
  <2>4. \A r \in Replicas : Cardinality(seen[r]) = Len(operations)
    <3>1. PICK l \in Nat : l = Len(operations)
      BY LenProperties DEF BookInv
    <3>2. Cardinality(1..l) = l
      BY FS_Interval
    <3>3. \A r \in Replicas : seen[r] = 1..l
      BY <1>1, <3>1, AllSeen DEF Ops
    <3> QED
      BY <3>1, <3>2, <3>3
  <2>5. x.all_operations_delivered
    BY <2>1, <2>4 DEF Finish
  <2> QED
    BY <2>1, <2>3, <2>5 DEF Complete
<1>2. CASE traces' = traces
  BY <1>2 DEF Complete
<1> QED
  BY <1>1, <1>2 DEF MNext, mvars, CallInsert, CallDeliver, CallSynchronize, InSynchronize

\* No schedule of the corpus meets a missing predecessor, and when a trace is
\* measured every operation has reached every replica: of what the gate asks of
\* all traces (trace.mjs:129), delivery is certain, in whichever order
\* synchronize visits the receivers.
THEOREM CorpusDelivered == LabConstants /\ MSpec => [](NeverThrown /\ Complete)
<1>1. MInit => Complete
  <2>1. ToSet(<< >>) = {}
    BY EmptySeq DEF ToSet
  <2> QED
    BY <2>1 DEF MInit, Complete
<1>2. BookInv => NeverThrown
  BY DEF BookInv
<1> QED
  BY <1>1, <1>2, CorpusInvariance, CompleteNext, PTL DEF MSpec
-----------------------------------------------------------------------------
(* Agreement on the order of elements is agreement on the list.              *)

\* A list as long as the set of its elements shows none of them twice.
LEMMA ShownOnce == ASSUME NEW doc, NEW known, Shown(doc, known) PROVE Distinct(doc)
<1>1. doc \in Seq(known) /\ ToSet(doc) = known /\ IsFiniteSet(known)
  BY DEF Shown
<1>2. PICK l \in Nat : l = Len(doc) /\ l = Cardinality(known)
  BY <1>1, LenProperties DEF Shown
<1>3. doc \in [1..l -> known] /\ DOMAIN doc = 1..l
  BY <1>1, <1>2, LenProperties
<1>4. doc \in Surjection(1..l, known)
  BY <1>1, <1>3 DEF ToSet, Surjection
<1>5. IsFiniteSet(1..l) /\ Cardinality(1..l) = l
  BY <1>2, FS_Interval
<1>6. doc \in Injection(1..l, known)
  BY <1>1, <1>2, <1>4, <1>5, FS_SurjSameCardinalityImpliesInj
<1> QED
  BY <1>2, <1>6 DEF Injection, IsInjective, Distinct

\* The first place at which two lists differ.
FirstDifference(u, v, i) == u[i] # v[i] /\ \A k \in 1..(i - 1) : u[k] = v[k]

LEMMA Differences ==
    ASSUME NEW u, NEW v, NEW l \in Nat, \E j \in 1..l : u[j] # v[j]
    PROVE  \E i \in 1..l : FirstDifference(u, v, i)
<1>0. PICK j \in 1..l : u[j] # v[j]
  OBVIOUS
<1>1. PICK T : T = {i \in 1..l : u[i] # v[i]}
  OBVIOUS
<1>2. T \subseteq Nat /\ j \in T
  BY <1>0, <1>1
<1>3. PICK i \in T : \A k \in T : <<k, i>> \notin OpToRel(<, Nat)
  BY <1>2, NatLessThanWellFounded, WFMin
<1>4. i \in 1..l /\ u[i] # v[i]
  BY <1>1, <1>3
<1>5. ASSUME NEW k \in 1..(i - 1), u[k] # v[k] PROVE FALSE
  <2>1. k \in 1..l /\ k < i /\ k \in Nat /\ i \in Nat
    BY <1>4
  <2>2. k \in T
    BY <1>1, <1>5, <2>1
  <2>3. <<k, i>> \in OpToRel(<, Nat)
    BY <2>1 DEF OpToRel
  <2> QED
    BY <1>3, <2>2, <2>3
<1> QED
  BY <1>4, <1>5 DEF FirstDifference

\* Two lists put what they show in the same order.
SameOrdered(u, v) ==
    \A m, n \in ToSet(u) :
        Position(u, m) < Position(u, n) <=> Position(v, m) < Position(v, n)

LEMMA SameList ==
    ASSUME NEW S, NEW u \in Seq(S), NEW v \in Seq(S), Distinct(u), Distinct(v),
           Len(u) = Len(v), ToSet(u) = ToSet(v), SameOrdered(u, v)
    PROVE  u = v
<1>1. PICK l \in Nat : l = Len(u) /\ l = Len(v)
  BY LenProperties
<1>2. DOMAIN u = 1..l /\ DOMAIN v = 1..l
  BY <1>1, LenProperties
<1>3. SUFFICES ASSUME NEW j \in 1..l, u[j] # v[j] PROVE FALSE
  <2>1. ASSUME \A i \in 1..Len(u) : u[i] = v[i] PROVE u = v
    BY <2>1, SeqEqual
  <2> QED
    BY <1>1, <2>1
<1>4. PICK i \in 1..l : u[i] # v[i] /\ \A k \in 1..(i - 1) : u[k] = v[k]
  <2>1. \E i \in 1..l : u[i] # v[i]
    BY <1>3
  <2>2. \E i \in 1..l : FirstDifference(u, v, i)
    BY <2>1, Differences
  <2> QED
    BY <2>2 DEF FirstDifference
<1>5. PICK m, n : m = u[i] /\ n = v[i] /\ m \in ToSet(u) /\ n \in ToSet(u)
  BY <1>2, <1>4 DEF ToSet
<1>6. Position(u, m) = i /\ Position(v, n) = i
  BY <1>1, <1>4, <1>5, PositionOf
<1>7. PICK p \in 1..l : p = Position(v, m) /\ v[p] = m
  BY <1>1, <1>5, PositionOf
<1>8. PICK q \in 1..l : q = Position(u, n) /\ u[q] = n
  BY <1>1, <1>5, PositionOf
<1>9. i < p
  <2>1. p # i
    BY <1>4, <1>5, <1>7
  <2>2. ASSUME p < i PROVE FALSE
    <3>1. u[p] = m /\ p \in 1..l
      BY <1>4, <1>7, <2>2
    <3> QED
      BY <1>1, <1>4, <1>5, <2>1, <3>1 DEF Distinct
  <2> QED
    BY <1>4, <1>7, <2>1, <2>2
<1>10. i < q
  <2>1. q # i
    BY <1>4, <1>5, <1>8
  <2>2. ASSUME q < i PROVE FALSE
    <3>1. v[q] = n /\ q \in 1..l
      BY <1>4, <1>8, <2>2
    <3> QED
      BY <1>1, <1>4, <1>5, <2>1, <3>1 DEF Distinct
  <2> QED
    BY <1>4, <1>8, <2>1, <2>2
<1>11. Position(v, n) < Position(v, m) /\ ~(Position(u, n) < Position(u, m))
  BY <1>6, <1>7, <1>8, <1>9, <1>10
<1> QED
  BY <1>5, <1>11 DEF SameOrdered

\* Two replicas that have seen the same show the same list.
LEMMA AgreedLists ==
    ASSUME DocInv, ReplicasAgree, NEW r \in Replicas, NEW t \in Replicas, seen[r] = seen[t]
    PROVE  docs[r] = docs[t]
<1>1. PICK u, v, known : u = docs[r] /\ v = docs[t] /\ known = seen[r] /\ known = seen[t]
  OBVIOUS
<1>2. Shown(u, known) /\ Shown(v, known)
  BY <1>1 DEF DocInv
<1>3. Distinct(u) /\ Distinct(v)
  BY <1>2, ShownOnce
<1>4. /\ u \in Seq(known) /\ v \in Seq(known) /\ ToSet(u) = known /\ ToSet(v) = known
      /\ Len(u) = Len(v)
  BY <1>2 DEF Shown
<1>5. SameOrdered(u, v)
  BY <1>1, <1>4 DEF SameOrdered, ReplicasAgree
<1> QED
  BY <1>1, <1>3, <1>4, <1>5, SameList

\* Replicas that agree on the order of what they both show, and have seen the
\* same operations, show the same list: what replica_equality asks when finish
\* compares the values of the replicas (trace.mjs:54).
THEOREM SameSeenSameList ==
    Spec /\ []ReplicasAgree =>
        [](\A r, t \in Replicas : seen[r] = seen[t] => docs[r] = docs[t])
<1>1. DocInv /\ ReplicasAgree => \A r, t \in Replicas : seen[r] = seen[t] => docs[r] = docs[t]
  BY AgreedLists
<1>2. Spec => []DocInv
  BY InitDoc, NextDoc, BookInvariance, PTL DEF Spec
<1> QED
  BY <1>1, <1>2, PTL

\* A measure finds the same values on every replica.
LEMMA EqualMeasured ==
    ASSUME BookInv, DocInv, CorpusInv, ReplicasAgree, Measure
    PROVE  Finish.replica_equality
<1>1. ASSUME NEW r \in Replicas, NEW t \in Replicas PROVE Values(r) = Values(t)
  <2>1. seen[r] = seen[t]
    BY AllSeen
  <2>2. docs[r] = docs[t]
    BY <2>1, AgreedLists
  <2> QED
    BY <2>2 DEF Values
<1> QED
  BY <1>1 DEF Finish

\* The measure replica_equality holds of every trace so far.
Equal == \A t \in ToSet(traces) : t.replica_equality

LEMMA EqualNext ==
    BookInv /\ DocInv /\ CorpusInv /\ ReplicasAgree /\ Equal /\ [MNext]_mvars => Equal'
<1> SUFFICES ASSUME BookInv, DocInv, CorpusInv, ReplicasAgree, Equal, [MNext]_mvars
             PROVE  Equal'
  OBVIOUS
<1>1. CASE Measure
  <2>1. PICK t, x : t = traces' /\ t = Append(traces, x) /\ x = Finish
    BY <1>1 DEF Measure
  <2>2. PICK S : traces \in Seq(S)
    BY DEF CorpusInv
  <2>3. \A y \in ToSet(t) : y \in ToSet(traces) \/ y = x
    BY <2>1, <2>2, OneMoreTrace
  <2>4. x.replica_equality
    BY <1>1, <2>1, EqualMeasured
  <2> QED
    BY <2>1, <2>3, <2>4 DEF Equal
<1>2. CASE traces' = traces
  BY <1>2 DEF Equal
<1> QED
  BY <1>1, <1>2 DEF MNext, mvars, CallInsert, CallDeliver, CallSynchronize, InSynchronize

\* So every trace of the corpus has equal replicas, the other half of what the
\* gate asks of all traces (trace.mjs:129).
THEOREM CorpusEqual == LabConstants /\ MSpec /\ []ReplicasAgree => []Equal
<1>1. MInit => Equal
  <2>1. ToSet(<< >>) = {}
    BY EmptySeq DEF ToSet
  <2> QED
    BY <2>1 DEF MInit, Equal
<1> QED
  BY <1>1, CorpusInvariance, EqualNext, PTL DEF MSpec
=============================================================================
