------------------------------ MODULE CausalTrace ------------------------------
(***************************************************************************)
(* The class Trace of labs/music-traces/trace.mjs: three replicas of a     *)
(* shared list insert elements and deliver each other's updates, and every *)
(* delivery is checked against the operations that its author had seen.    *)
(* The lists are Yjs documents; how Yjs merges an update is external and   *)
(* modelled from the use the lab makes of it (fixed client IDs, insertions *)
(* of one element, no deletion).                                           *)
(*                                                                         *)
(* An operation is its number, from 1, and stands for the element it       *)
(* inserts: the lab's elements are unique.  A call that throws before it   *)
(* changes anything is no step; inside synchronize a throw is one.         *)
(***************************************************************************)
EXTENDS Integers, Sequences, SequencesExt, FiniteSets

CONSTANTS
    Replicas,           \* the replicas, named by their Yjs client IDs
    MaxOperations,      \* the operation ceiling of insert
    Orders              \* the receiver orders synchronize is called with

ASSUME CausalTraceAssumption ==
    /\ Replicas \subseteq Nat
    /\ MaxOperations \in Nat
    /\ Orders \subseteq Seq(Replicas)

VARIABLES
    operations,         \* [replica, dependencies, origin, right] of an operation
    docs,               \* the list of each replica
    seen,               \* the operations each replica has seen
    sync                \* the loop of synchronize: Idle, Thrown or [rest, next]

vars == <<operations, docs, seen, sync>>

Idle == [rest |-> << >>, next |-> 0]
Thrown == [rest |-> << >>, next |-> -1]
Looping == sync.next > 0

Ops == 1..Len(operations)
None == 0               \* no left or right neighbour

Init ==
    /\ operations = << >>
    /\ docs = [r \in Replicas |-> << >>]
    /\ seen = [r \in Replicas |-> {}]
    /\ sync = Idle

-----------------------------------------------------------------------------
(* Yjs.  An item knows the neighbours it was inserted between.  A replica    *)
(* that applies it looks at the items between those neighbours: items with   *)
(* the same left neighbour are ordered by client ID, an item that hangs on   *)
(* one that was passed is passed too, and anything else ends the search.     *)
Position(doc, n) == CHOOSE i \in 1..Len(doc) : doc[i] = n

PlaceAfter(ops, doc, n) ==
    LET item == ops[n]
        first == IF item.origin = None THEN 0 ELSE Position(doc, item.origin)
        end == IF item.right = None THEN Len(doc) + 1 ELSE Position(doc, item.right)
        origin(i) == ops[doc[i]].origin
        Rival(i) == origin(i) = item.origin
        Below(i) == ~Rival(i) /\ \E j \in (first + 1)..(i - 1) : doc[j] = origin(i)
        Stops(i) ==
            \/ i >= end
            \/ /\ Rival(i)
               /\ ops[doc[i]].replica >= item.replica
               /\ ops[doc[i]].right = item.right
            \/ ~Rival(i) /\ ~Below(i)
        Passes(i, l) ==
            \/ Rival(i) /\ ops[doc[i]].replica < item.replica
            \/ Below(i) /\ Position(doc, origin(i)) <= l
        Reached(i) == \A j \in (first + 1)..i : ~Stops(j)
        left[i \in 0..Len(doc)] ==         \* once the items up to i were looked at
            IF i <= first THEN first
            ELSE IF Reached(i) /\ Passes(i, left[i - 1]) THEN i ELSE left[i - 1]
    IN  left[Len(doc)]

FaultyIntegrate(ops, doc, n) ==             \* Faulty: where its author had put it
    LET item == ops[n]
    IN  InsertAt(doc, IF item.origin = None THEN 1 ELSE Position(doc, item.origin) + 1, n)
AppendingIntegrate(ops, doc, n) == Append(doc, n)  \* Faulty: in order of arrival
Integrate(ops, doc, n) == InsertAt(doc, PlaceAfter(ops, doc, n) + 1, n)

(* Applying an update again changes nothing; one whose neighbours are        *)
(* missing is set aside.                                                     *)
ApplyUpdate(ops, doc, n) ==
    IF n \in ToSet(doc) \/ ~({ops[n].origin, ops[n].right} \subseteq ToSet(doc) \cup {None})
    THEN doc
    ELSE Integrate(ops, doc, n)

-----------------------------------------------------------------------------
(* insert(id, index, value); the new operation depends on all its author saw *)
Dependencies(r) == seen[r]

Insert(r, index) ==
    /\ ~Looping
    /\ Len(operations) < MaxOperations
    /\ index \in 0..Len(docs[r])
    /\ LET n == Len(operations) + 1
           doc == docs[r]
       IN  /\ operations' = Append(operations,
                [replica |-> r, dependencies |-> Dependencies(r),
                 origin |-> IF index = 0 THEN None ELSE doc[index],
                 right |-> IF index = Len(doc) THEN None ELSE doc[index + 1]])
           /\ docs' = [docs EXCEPT ![r] = InsertAt(doc, index + 1, n)]
           /\ seen' = [seen EXCEPT ![r] = @ \cup {n}]
    /\ UNCHANGED sync

\* A causal predecessor is missing: deliver throws.
FaultyMayDeliver(n, to) == TRUE             \* Faulty: no check
MayDeliver(n, to) == operations[n].dependencies \subseteq seen[to]

Receive(n, to) ==
    /\ docs' = [docs EXCEPT ![to] = ApplyUpdate(operations, @, n)]
    /\ seen' = [seen EXCEPT ![to] = @ \cup {n}]
    /\ UNCHANGED operations

(* deliver(operationId, to), called from outside *)
Deliver(n, to) ==
    /\ ~Looping
    /\ MayDeliver(n, to)
    /\ Receive(n, to)
    /\ UNCHANGED sync

-----------------------------------------------------------------------------
(* synchronize(order): for every receiver, every operation it has not seen   *)
Synchronize(order) ==
    /\ ~Looping
    /\ sync' = [rest |-> order, next |-> 1]
    /\ UNCHANGED <<operations, docs, seen>>

FaultyAdvanced == [sync EXCEPT !.next = @ + 2]      \* Faulty: leaves one out
Advanced == [sync EXCEPT !.next = @ + 1]

AtOperation(n) == Looping /\ sync.rest # << >> /\ n = sync.next /\ n \in Ops

SyncSeen ==
    /\ AtOperation(sync.next)
    /\ sync.next \in seen[Head(sync.rest)]
    /\ sync' = Advanced
    /\ UNCHANGED <<operations, docs, seen>>

\* The throw of deliver passes through synchronize.
SyncDeliver ==
    /\ AtOperation(sync.next)
    /\ sync.next \notin seen[Head(sync.rest)]
    /\ IF MayDeliver(sync.next, Head(sync.rest))
       THEN Receive(sync.next, Head(sync.rest)) /\ sync' = Advanced
       ELSE sync' = Thrown /\ UNCHANGED <<operations, docs, seen>>

SyncNextReceiver ==
    /\ Looping
    /\ sync.rest # << >>
    /\ sync.next > Len(operations)
    /\ sync' = [rest |-> Tail(sync.rest), next |-> 1]
    /\ UNCHANGED <<operations, docs, seen>>

SyncReturn ==
    /\ Looping
    /\ sync.rest = << >>
    /\ sync' = Idle
    /\ UNCHANGED <<operations, docs, seen>>

SyncStep == SyncSeen \/ SyncDeliver \/ SyncNextReceiver \/ SyncReturn

Next ==
    \/ \E r \in Replicas : \E index \in 0..Len(docs[r]) : Insert(r, index)
    \/ \E n \in Ops, to \in Replicas : Deliver(n, to)
    \/ \E order \in Orders : Synchronize(order)
    \/ SyncStep

Spec == Init /\ [][Next]_vars

-----------------------------------------------------------------------------
\* The bookkeeping that the final measures rest on is true of the documents:
\* the elements a replica shows are those of the operations it has seen, each
\* once, whatever was delivered late, twice or to its own author.
SeenIsShown ==
    \A r \in Replicas : ToSet(docs[r]) = seen[r] /\ Len(docs[r]) = Cardinality(seen[r])

\* A replica that has seen an operation has seen everything its author had, so
\* that no replica shows an effect without its cause.
CausallyClosed ==
    \A r \in Replicas : \A n \in seen[r] : operations[n].dependencies \subseteq seen[r]

\* Any two replicas, at any time and however differently they were updated,
\* agree on the order of the elements they both show; those that have seen the
\* same operations show the same list.
ReplicasAgree ==
    \A r, t \in Replicas : \A m, n \in seen[r] \cap seen[t] :
        Position(docs[r], m) < Position(docs[r], n) <=> Position(docs[t], m) < Position(docs[t], n)

\* An element stays, on every replica, between the neighbours it was inserted
\* between.
BetweenNeighbours ==
    \A r \in Replicas : \A n \in seen[r] :
        LET item == operations[n]
            at(m) == Position(docs[r], m)
        IN  /\ item.origin # None => at(item.origin) < at(n)
            /\ item.right # None => at(n) < at(item.right)

\* The comment of synchronize ("Operations are generated in topological order")
\* is right: its loop never meets a missing predecessor.
NeverThrown == sync # Thrown

\* The receivers that the loop is done with have seen every operation; when
\* synchronize returns, all of its receivers have.
SyncDelivers ==
    [][Looping /\ sync' # sync /\ (sync'.rest # sync.rest \/ ~Looping')
            => \A n \in Ops : sync.rest # << >> => n \in seen'[Head(sync.rest)]]_vars
=============================================================================
