------------------------------ MODULE MusicTraces ------------------------------
(***************************************************************************)
(* runAll of labs/music-traces/trace.mjs: four fixed schedules of          *)
(* insertions and deliveries are run on fresh replicas, each is measured,  *)
(* and evidenceProblems decides whether the record may be published.       *)
(* backward takes the receiver order of its synchronization as an          *)
(* argument; the order is chosen from Orders here, as the lab's tests do.  *)
(***************************************************************************)
EXTENDS CausalTrace

VARIABLES
    traces,             \* the results so far
    order,              \* the order argument of this schedule
    step,               \* the next command of this schedule
    local               \* local_before_merge: the lists before synchronize

mvars == <<vars, traces, order, step, local>>

insert(r, index) == [call |-> "insert", replica |-> r, index |-> index]
deliver(n, to) == [call |-> "deliver", operation |-> n, to |-> to]
synchronize(receivers) == [call |-> "synchronize", receivers |-> receivers]

Default == <<1, 2, 3>>

\* The three replicas of the lab; synchronize visits each of them.
LabConstants ==
    /\ Replicas = {1, 2, 3}
    /\ Default \in Orders
    /\ \A receivers \in Orders : ToSet(receivers) = Replicas

(* The schedules, and the element that each of their operations inserts.     *)
FaultyBackward(receivers) ==                \* Faulty: the last edit is not concurrent
    <<insert(3, 0), deliver(1, 1), insert(1, 0), synchronize(Default),
      insert(2, 0), synchronize(receivers)>>
backward(receivers) ==
    <<insert(3, 0), deliver(1, 1), insert(1, 0), insert(2, 0), synchronize(receivers)>>
FaultySequential ==                         \* Faulty: the index of an older list
    <<insert(3, 0), synchronize(Default), insert(1, 0), synchronize(Default),
      insert(2, 1), synchronize(Default)>>
sequential ==
    <<insert(3, 0), synchronize(Default), insert(1, 0), synchronize(Default),
      insert(2, 2), synchronize(Default)>>
disjoint ==
    <<insert(3, 0), synchronize(Default), insert(1, 0), insert(2, 1), synchronize(Default)>>

Names == <<"appendix-a-a9", "sequential-control", "disjoint-control", "inert-score-lanes">>
Elements ==
    [name \in ToSet(Names) |->
        CASE name = "appendix-a-a9" -> <<"b", "a", "x">>
          [] name = "sequential-control" -> <<"b", "a", "x">>
          [] name = "disjoint-control" -> <<"|", "a", "x">>
          [] name = "inert-score-lanes" -> << <<"bd">>, <<"drums">>, <<"bass", "c2">> >>]

Name == Names[Len(traces) + 1]
Schedule ==
    CASE Name \in {"appendix-a-a9", "inert-score-lanes"} -> backward(order)
      [] Name = "sequential-control" -> sequential
      [] Name = "disjoint-control" -> disjoint

Values(r) == [i \in DOMAIN docs[r] |-> Elements[Name][docs[r][i]]]

-----------------------------------------------------------------------------
(* The measures of finish.                                                   *)

\* contiguous(values, run), for the operations of the run.
Contiguous(doc, run) ==
    \E start \in DOMAIN doc :
        /\ start + Len(run) - 1 <= Len(doc)
        /\ \A i \in DOMAIN run : doc[start + i - 1] = run[i]

RunOf(name) == IF name = "disjoint-control" THEN <<2, 1, 3>> ELSE <<2, 1>>

\* parseScore, of rows: a header selects the lane of the events after it.
Lanes == {"drums", "bass"}
LaneAt(rows, i) ==
    LET headers == {j \in 1..i : rows[j] \in Lanes}
    IN  IF headers = {} THEN "no lane" ELSE rows[Max(headers)]
Assignments(rows) ==
    {[lane |-> LaneAt(rows, i), event |-> rows[i]] :
        i \in {j \in DOMAIN rows : rows[j] \notin Lanes}}
ValidScore(rows) == rows # << >> /\ \A a \in Assignments(rows) : a.lane \in Lanes

Finish ==
    [name |-> Name,
     final |-> [r \in Replicas |-> Values(r)],
     replica_equality |-> \A r, t \in Replicas : Values(r) = Values(t),
     all_operations_delivered |-> \A r \in Replicas : Cardinality(seen[r]) = Len(operations),
     specified_run_contiguous |-> Contiguous(docs[1], RunOf(Name)),
     local_before_merge |-> local]

\* evidenceProblems: the traces that must not be published.
Problems(results) ==
    LET expected == [name \in {"sequential-control", "disjoint-control"} |->
                        IF name = "sequential-control" THEN <<"a", "b", "x">>
                                                       ELSE <<"a", "|", "x">>]
        Control(t) == t.name \in DOMAIN expected
    IN  {t.name : t \in {u \in ToSet(results) :
            \/ ~u.replica_equality
            \/ ~u.all_operations_delivered
            \/ Control(u) /\ \E r \in Replicas : u.final[r] # expected[u.name]}}
        \cup (IF [i \in DOMAIN results |-> results[i].name] = Names THEN {} ELSE {"corpus"})

-----------------------------------------------------------------------------
MInit ==
    /\ Init
    /\ traces = << >>
    /\ order \in Orders
    /\ step = 1
    /\ local = [r \in Replicas |-> << >>]

Ended == Len(traces) = Len(Names)
Due(call) == ~Ended /\ ~Looping /\ step <= Len(Schedule) /\ Schedule[step].call = call

CallInsert ==
    /\ Due("insert")
    /\ Insert(Schedule[step].replica, Schedule[step].index)
    /\ step' = step + 1
    /\ UNCHANGED <<traces, order, local>>

CallDeliver ==
    /\ Due("deliver")
    /\ Deliver(Schedule[step].operation, Schedule[step].to)
    /\ step' = step + 1
    /\ UNCHANGED <<traces, order, local>>

CallSynchronize ==
    /\ Due("synchronize")
    /\ Synchronize(Schedule[step].receivers)
    /\ local' = [r \in Replicas |-> Values(r)]
    /\ step' = step + 1
    /\ UNCHANGED <<traces, order>>

InSynchronize == SyncStep /\ UNCHANGED <<traces, order, step, local>>

\* The measures are taken, the documents destroyed, the next schedule begins.
Measure ==
    /\ ~Ended /\ sync = Idle
    /\ step > Len(Schedule)
    /\ traces' = Append(traces, Finish)
    /\ order' \in Orders
    /\ step' = 1
    /\ operations' = << >>
    /\ docs' = [r \in Replicas |-> << >>]
    /\ seen' = [r \in Replicas |-> {}]
    /\ local' = [r \in Replicas |-> << >>]
    /\ UNCHANGED sync

MNext == CallInsert \/ CallDeliver \/ CallSynchronize \/ InSynchronize \/ Measure

\* A program without input or output: it runs on.
MSpec == MInit /\ [][MNext]_mvars /\ WF_mvars(MNext)

-----------------------------------------------------------------------------
Result(name) == CHOOSE t \in ToSet(traces) : t.name = name

\* The corpus is run to its end, no call of a schedule throws or waits, and its
\* record passes the gate, whatever the receiver orders.
Passed == Ended /\ Problems(traces) = {}
CorpusPasses == <>Passed

\* What the corpus is there to show (trace.test.mjs:6-16, 38-47): the historical
\* schedule interleaves a run on every replica, in either receiver order, and
\* the controls keep theirs.
Interleaved ==
    \A t \in ToSet(traces) :
        /\ t.specified_run_contiguous
                <=> t.name \in {"sequential-control", "disjoint-control"}
        /\ t.name = "appendix-a-a9" => \A r \in Replicas : t.final[r] = <<"a", "x", "b">>

\* Agreement and syntax do not protect meaning (trace.test.mjs:48-57): the score
\* stays valid and all replicas agree, while the event that its author had put
\* under drums ends up under bass.
EventChangesLane ==
    Ended =>
        LET score == Result("inert-score-lanes")
            rows == FlattenSeq(score.final[1])
            before == FlattenSeq(score.local_before_merge[1])
        IN  /\ Assignments(before) = {[lane |-> "drums", event |-> "bd"]}
            /\ ValidScore(rows)
            /\ Assignments(rows) = {[lane |-> "bass", event |-> "c2"],
                                    [lane |-> "bass", event |-> "bd"]}

\* The two findings of the lab, on the same corpus.
CorpusShows == Interleaved /\ EventChangesLane
=============================================================================
