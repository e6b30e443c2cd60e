------------------------------ MODULE RetrySuite ------------------------------
(***************************************************************************)
(* One retry-recovery experiment from the command line to the CSV files:   *)
(* scripts/retry-lab.sh starts main of simulate.py under a hard external   *)
(* timeout, main runs the matrix of configurations and prints one JSON     *)
(* document, and export.py turns a captured document into a summary and    *)
(* timelines, in a directory that an earlier export may have filled.       *)
(* The simulator itself is RetrySim; here a run only has a configuration   *)
(* and the reason it stopped.  The clock counts ticks of wall time.        *)
(***************************************************************************)
EXTENDS Integers, Sequences, FiniteSets

CONSTANTS
    Seeds, Rates, FaultModes, Policies,     \* the lists of config.json
    Budget,             \* wall_clock_budget_seconds
    KillAfter,          \* the argument of timeout in the wrapper
    KillLatency,        \* bound: how late the kill may be
    MaxStep,            \* bound: the ticks one step may take
    MaxRounds           \* bound: experiments that share an export directory

\* The elements of a list; a list of the configuration names each of them once.
Lists(list) == {list[i] : i \in DOMAIN list}
IsList(list) ==
    /\ list \in Seq(Lists(list))
    /\ list # << >>
    /\ \A i, j \in DOMAIN list : i # j => list[i] # list[j]

ASSUME RetrySuiteAssumption ==
    /\ IsList(Seeds) /\ IsList(Rates) /\ IsList(FaultModes) /\ IsList(Policies)
    /\ {Budget, KillAfter, KillLatency, MaxStep, MaxRounds} \subseteq Nat

VARIABLES
    round,              \* which experiment this is
    pc,                 \* what the process does: see Phase
    clock,              \* since the wrapper started timeout
    started,            \* what main read from the clock first
    runs,               \* result['runs']
    stop_reason,        \* the budget ended the loop
    document,           \* what stdout holds: "none", "part" or "whole"
    status,             \* the exit status, or Running
    timelines,          \* timeline-NN.csv: the run each file shows
    summary             \* the rows of summary.csv

vars == <<round, pc, clock, started, runs, stop_reason, document, status, timelines, summary>>

Running == -1
Killed == 137
Phase == {"boot", "loop", "dump", "exited", "export", "idle"}
NoRun == [seed |-> "no such file"]

Combinations == Len(Seeds) * Len(Rates) * Len(FaultModes) * Len(Policies)

\* The n-th configuration, from 0, of itertools.product: its last list varies fastest.
Configuration(n) ==
    LET p == n % Len(Policies)
        f == (n \div Len(Policies)) % Len(FaultModes)
        r == (n \div (Len(Policies) * Len(FaultModes))) % Len(Rates)
        s == n \div (Len(Policies) * Len(FaultModes) * Len(Rates))
    IN  [seed |-> Seeds[s + 1], rate |-> Rates[r + 1],
         fault |-> FaultModes[f + 1], policy |-> Policies[p + 1]]

Begin ==
    /\ pc = "boot" /\ clock = 0 /\ started = 0
    /\ runs = << >> /\ stop_reason = FALSE
    /\ document = "none" /\ status = Running

Init ==
    /\ round = 1
    /\ Begin
    /\ timelines = [n \in 0..(Combinations - 1) |-> NoRun]
    /\ summary = << >>

\* A step takes some time; past KillAfter the process has little of it left.
Spend ==
    /\ clock' \in clock..(clock + MaxStep)
    /\ clock' <= KillAfter + KillLatency

ExportUntouched == UNCHANGED <<round, timelines, summary>>

-----------------------------------------------------------------------------
(* main                                                                      *)

Boot ==
    /\ pc = "boot"
    /\ Spend
    /\ started' = clock'
    /\ pc' = "loop"
    /\ ExportUntouched
    /\ UNCHANGED <<runs, stop_reason, document, status>>

Exhausted == clock - started >= Budget

\* One configuration is simulated: the run reaches the cutoff or the attempt
\* cap, and a schedule without any arrival leaves its counters empty.
Simulate ==
    /\ pc = "loop"
    /\ Len(runs) < Combinations
    /\ ~Exhausted
    /\ Spend
    /\ \E stop \in {"observation_cutoff", "attempt_cap"}, arrivals \in BOOLEAN :
        /\ stop = "attempt_cap" => arrivals
        /\ runs' = Append(runs, [config |-> Configuration(Len(runs)),
                                 stop |-> stop, arrivals |-> arrivals])
    /\ ExportUntouched
    /\ UNCHANGED <<pc, started, stop_reason, document, status>>

BudgetStop ==
    /\ pc = "loop"
    /\ Len(runs) < Combinations
    /\ Exhausted
    /\ stop_reason' = TRUE
    /\ pc' = "dump"
    /\ ExportUntouched
    /\ UNCHANGED <<clock, started, runs, document, status>>

MatrixDone ==
    /\ pc = "loop"
    /\ Len(runs) = Combinations
    /\ pc' = "dump"
    /\ ExportUntouched
    /\ UNCHANGED <<clock, started, runs, stop_reason, document, status>>

FaultyCompletionStatus ==                   \* Faulty: a capped run passes for a complete one
    IF Len(runs) = Combinations /\ ~stop_reason THEN 0 ELSE 2
FaultyAllCutoff ==                          \* Faulty: only the runs there are are looked at
    IF \A n \in DOMAIN runs : runs[n].stop = "observation_cutoff" THEN 0 ELSE 2
CompletionStatus ==
    IF /\ Len(runs) = Combinations
       /\ ~stop_reason
       /\ \A n \in DOMAIN runs : runs[n].stop = "observation_cutoff"
    THEN 0 ELSE 2

\* json.dump writes the document piece by piece; the process ends after it.
Dump ==
    /\ pc = "dump"
    /\ Spend
    /\ \/ /\ document = "none" /\ document' = "part"
          /\ UNCHANGED <<pc, status>>
       \/ /\ document = "part" /\ document' = "whole"
          /\ UNCHANGED <<pc, status>>
       \/ /\ document = "whole"
          /\ status' = CompletionStatus
          /\ pc' = "exited"
          /\ UNCHANGED document
    /\ ExportUntouched
    /\ UNCHANGED <<started, runs, stop_reason>>

\* timeout --signal=KILL: whatever the process was doing.
Kill ==
    /\ pc \in {"boot", "loop", "dump"}
    /\ clock >= KillAfter
    /\ status' = Killed
    /\ pc' = "exited"
    /\ ExportUntouched
    /\ UNCHANGED <<clock, started, runs, stop_reason, document>>

-----------------------------------------------------------------------------
(* export.py, on the captured stdout                                         *)

\* A document that is not whole does not parse, and nothing is written.
Unreadable ==
    /\ pc = "exited"
    /\ document # "whole"
    /\ pc' = "idle"
    /\ ExportUntouched
    /\ UNCHANGED <<clock, started, runs, stop_reason, document, status>>

\* summary.csv is opened afresh; timelines of an earlier export stay.
OpenSummary ==
    /\ pc = "exited"
    /\ document = "whole"
    /\ summary' = << >>
    /\ pc' = "export"
    /\ UNCHANGED <<round, clock, started, runs, stop_reason, document, status, timelines>>

(* The next run: its timeline is written, then its row; a run without        *)
(* arrivals has no such counter, and the export fails between the two.       *)
FaultyTimelineNumber == Len(summary) + 1    \* Faulty: numbered from one
TimelineNumber == Len(summary)

ExportRun ==
    /\ pc = "export"
    /\ Len(summary) < Len(runs)
    /\ LET run == runs[Len(summary) + 1]
       IN  /\ timelines' = [timelines EXCEPT ![TimelineNumber] = run]
           /\ \/ /\ run.arrivals
                 /\ summary' = Append(summary, run)
                 /\ UNCHANGED pc
              \/ /\ ~run.arrivals
                 /\ pc' = "idle"
                 /\ UNCHANGED summary
    /\ UNCHANGED <<round, clock, started, runs, stop_reason, document, status>>

CloseSummary ==
    /\ pc = "export"
    /\ Len(summary) = Len(runs)
    /\ pc' = "idle"
    /\ UNCHANGED <<round, clock, started, runs, stop_reason, document, status,
                   timelines, summary>>

\* Another experiment, exported to the same directory.
Again ==
    /\ pc = "idle"
    /\ round < MaxRounds
    /\ round' = round + 1
    /\ pc' = "boot" /\ clock' = 0 /\ started' = 0
    /\ runs' = << >> /\ stop_reason' = FALSE
    /\ document' = "none" /\ status' = Running
    /\ UNCHANGED <<timelines, summary>>

Main == Boot \/ Simulate \/ BudgetStop \/ MatrixDone \/ Dump
Export == Unreadable \/ OpenSummary \/ ExportRun \/ CloseSummary
Next == Main \/ Kill \/ Export \/ Again

Spec == Init /\ [][Next]_vars

-----------------------------------------------------------------------------
Matrix == [seed : Lists(Seeds), rate : Lists(Rates),
           fault : Lists(FaultModes), policy : Lists(Policies)]

\* Exit status 0 is the execution gate of the lab (README.md: "All 54
\* combinations are mandatory"): it is given only with a whole document in which
\* every combination occurs once and reached its cutoff, and whenever main ends
\* with such a document.  Status 2 comes with a whole document as well, so that
\* what ran is preserved; only a kill leaves none, or one that is cut off.
StatusTrue ==
    LET ran == {n \in DOMAIN runs : runs[n].stop = "observation_cutoff"}
        complete == /\ {runs[n].config : n \in ran} = Matrix
                    /\ Cardinality(DOMAIN runs) = Cardinality(Matrix)
    IN  /\ status \in {0, 2} => document = "whole"
        /\ status = 0 => complete
        /\ status = 2 => ~complete
        /\ pc = "idle" /\ document # "whole" => status = Killed

\* Row i of the summary and timeline i show the same run, the i-th of the document.
RowsMatch ==
    /\ Len(summary) <= Len(runs)
    /\ \A i \in DOMAIN summary : summary[i] = runs[i] /\ timelines[i - 1] = runs[i]

\* Every timeline in the directory is one of a run of the document.
NoneLeftOver ==
    \A n \in DOMAIN timelines :
        timelines[n] # NoRun => n < Len(runs) /\ timelines[n] = runs[n + 1]

\* However an export ends, and whatever earlier ones left in the directory, which
\* no export empties: rows and timelines match.  When the export of an experiment
\* with status 0 is through, no timeline of an earlier one is left, since all of
\* the matrix was run; only after status 2 or a kill can those past its rows be
\* of an earlier, longer export.
SummaryMatchesTimelines ==
    /\ pc \in {"export", "idle"} /\ document = "whole" => RowsMatch
    /\ pc = "idle" /\ status = 0 /\ Len(summary) = Len(runs) => NoneLeftOver
=============================================================================
