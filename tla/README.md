# Research labs: specification, model checking and proofs

The repository holds six small laboratories. Each runs an experiment and prints a
JSON record that is kept as evidence, so what must be right is the *record*: the
simulated system, the harness that observes it, the gate that decides whether a
record counts, and the exit status. This directory models the parts where that
is hard to see from the code or from its tests, checks them with TLC on small
instances, and proves the central facts with TLAPS for every value of the
parameters.

## 1. Inventory

| Part | State it keeps | Operations | What is hard |
|---|---|---|---|
| **retry-recovery simulator**, `labs/retry-recovery/simulate.py` `simulate` | a heap of events; requests ("originals"), attempts, the FIFO queue, the attempt in service, a token bucket, run and window counters | one handler per event kind: arrival, deadline, retry, timeout, complete, sample | five kinds of event may fall on one instant; late answers, stale timers and stale retries; queue, bucket and attempt cap at their limits; what is in the heap when the run ends |
| **recovery measure**, `recovery` | a streak | one pass over the windows | off-by-one at both ends, an empty baseline |
| **experiment and export**, `main`, `completion_status`, `export.py`, `scripts/retry-lab.sh` | the runs so far, the record on stdout, the CSV files | run the matrix, print, export | wall-clock budget against an external kill, a record that is cut off, an export that fails half way or into a used directory |
| **music-traces bookkeeping**, `labs/music-traces/trace.mjs` `Trace` | the operations, what each replica has seen, the Yjs documents | `insert`, `deliver`, `synchronize` | concurrent insertions, repeated and reordered deliveries, causality |
| **music-traces corpus and gate**, `runAll`, `finish`, `evidenceProblems` | the results of the schedules | four fixed schedules | results must not depend on receiver order; a merge that is valid and equal everywhere but means something else |
| **zip-differentials**, `run.py`, `probe.py`, `ZipProbe.java` | one reader process at a time, the runs on an archive, a failure flag | start, read, time out, classify, compare, exit | a reader that hangs or refuses half way; ceilings shared by all entries; partial observations |
| **approval-scope trace parser**, `labs/approval-scope/run.mjs` `parseTrace` | halves of calls, by process | join the lines, list programs and mutations | interleaved halves, processes killed in a call, reused process IDs, results that are not known |
| **approval-scope arms**, `observe`, `inventory`, the main block | directories and traces of one arm | install, commit, summarize; stop if a control fails | a control that passes vacuously, an install killed by its timeout |
| **exit-status**, `labs/exit-status/run.py` | observations by case | run all cases, then check all | a case that times out, checks across cases, truncated output |
| **pnpm-override-drift**, `labs/pnpm-override-drift/run.mjs` | one working directory with a lockfile | four pnpm commands in a row | a command changes the lockfile that the next one reads |
| **wrappers, images, workflows**, `scripts/`, `Dockerfile`s, `.github/workflows` | none | build, run under limits | only the external kill |

The labs do not interact: each is a program of its own. Inside a lab the parts
interact by calls, except where a process boundary lies between them: the reader
processes of zip-differentials (exit code, stdout, stderr, timeout), the traced
processes of approval-scope (the trace file), and the retry experiment (its
stdout, which the export reads later). All programs are single-threaded. The
concurrency is in what they simulate (clients and server), in what they observe
(traced processes, readers), and in the replicas of a shared list.

The behaviours that are hard to test are listed in `PROJECT.json` under
`hazards`, each at its line and with the properties that cover it.

## 2. Modules

| Module | Models | Extends / uses |
|---|---|---|
| `RetrySim` | `simulate`: one action per handler and branch | |
| `RequestLifecycle` | the abstract specification: what a client is promised | |
| `RetryLifecycle` | the refinement mapping from `RetrySim` to it | `RetrySim`, INSTANCE `RequestLifecycle` |
| `RetrySimProofs` | theorems about the server and the clients of the simulator | `RetrySim` |
| `RetryReportProofs` | theorems about its report and its end, and the refinement, step by step | `RetryLifecycle`, `RetrySimProofs` |
| `RecoveryScan`, `RecoveryScanProofs` | `recovery`: one action per turn of the loop; its theorems | |
| `RetrySuite`, `RetrySuiteProofs` | `main`, `completion_status`, the kill, `export.py`; their theorems | |
| `CausalTrace` | the class `Trace` | |
| `MusicTraces` | `runAll`, the measures and the gate | `CausalTrace` |
| `CausalTraceProofs` | theorems about the class and about the corpus | `CausalTrace`, `MusicTraces` |
| `ZipHarness`, `ZipHarnessProofs` | `run.py` with its readers; their theorems | |
| `ApprovalTrace` | traced processes, the lines strace writes, `parseTrace` | |
| `ApprovalArms` | `observe` arm by arm, the lifecycle scripts, the control gate | |
| `ApprovalProofs` | theorems about the parser and about the arms | `ApprovalTrace`, `ApprovalArms` |
| `ExitStatusLab`, `ExitStatusProofs` | the cases and what bash makes of them, `run_case`, `check`, `main`, the kill; theorems | |
| `MC...` | constants for TLC (a `.cfg` alone where numbers suffice) | the module of that name |

A definition marked *Faulty* is a slip one could make in the definition after it.
No specification uses it. Put in place of that definition, it makes a property
fail, and so shows that the property can notice such a slip; `PROJECT.json` lists
these under `mutants`.

### How state and actions correspond to the code

**RetrySim.** One action is one iteration of `while events`: it pops the least
event by (time, `PRIORITY`, serial) and runs its handler to the end, with all the
calls it makes (`terminate`, `launch`, `start`, `add`, `push`). A handler with
several ways through is several actions: `RetryStale`, `RetryDenied`,
`RetryLaunched`; `TimeoutAnswered`, `TimeoutFailed`. `launch` is three
alternatives (capped, rejected, admitted) that complete the calling handler.
`Finish` is the end of the loop. Names are those of the code. Differences:

* Time is counted in ticks; floats are rounded to a grid. This makes events fall
  on one instant far more often than floats do, which is what the order of
  handlers is about.
* The schedule is any nondecreasing sequence of times before the end, the jitter
  any value up to the limit: more than any seed gives.
* Serial numbers grow by three per handler, the most a handler may push. Only
  their order matters.
* An action is a whole handler because the simulator is one thread; `stopped`
  ends the loop in the same step, as the `if stopped: break` does.

**RequestLifecycle** knows only a clock and, for each request, a phase, the number
of tries and when the current one was sent. Its `Advance` says that time never
passes an open deadline or the timeout of the awaited attempt. `RetryLifecycle`
computes the phase from the status and from what is in the heap, on the server or
in the queue for that request. Refinement therefore also says that a pending
request always waits for something, unless the attempt cap halted the run.

**RetrySuite** keeps a wall clock that each step may advance; the clock of `main`
starts after that of the wrapper. The kill may come at any step past its time.
The record is printed in pieces. The export works run by run: timeline, then row,
and it stops between the two for a run that counted no arrival (`t['arrivals']`
is then a missing key). A second experiment may be exported to the same directory.

**CausalTrace.** `operations`, `seen` and the documents are those of the class;
an operation is its number and is also the element it inserts, since the lab's
elements are unique. The loop of `synchronize` is a state machine with one step
per operation and receiver, so that the throw in `deliver` has a state of its
own. How Yjs merges (`PlaceAfter`, `ApplyUpdate`) is external. It is the rule by
which Yjs places an inserted item, restricted to what the lab uses: insertions of
one element by replicas with fixed client IDs.

**MusicTraces** runs the four schedules as sequences of calls and applies
`contiguous`, `parseScore` and `evidenceProblems` to the result.

**ZipHarness.** A reader process goes from entry to entry. ZipProbe reads by the
buffer with short reads, probe.py reads an entry at once. At every point the
process may hang until its timeout, or die. Warnings are a free choice. What a
library lists and which entry it refuses is external, in `Listing` and `Conflict`.

**ApprovalArms.** An arm is a walk through `observe`: install, read the trace, read
the markers, commit, remove; then `main` looks at it. What an install does is
external: by default it runs the scripts that the lab found each command to run, but it
may also start nothing and claim success, run scripts it was told to leave out, fail, or
last until its timeout. After a timeout strace is gone while the install may go on: its
scripts start and end at any point up to the removal of the workspace, untraced. A trace
is the list of programs in it; how it gets there is `ApprovalTrace`. Each observation
carries, for the properties only, what really ran.

**ExitStatusLab.** `CASES` is the lab's list, each script a sequence of commands with
the effect on status, output and files that bash and the tool give it (`Effect`,
external). At every command that is not a builtin the world may turn out otherwise:
it fails, it hangs, or, in a published form, it does what its author meant
(`Intended`). `faults` notes where, so that `Truth` tells what happened in a case
without looking at what the harness kept. A timeout kills bash; the command that hung
may go on, end later, write into its directory if that is still there, and start an
agent. `stdout` is what was kept of the output, `stdout_sha256` all of it.

**ApprovalTrace.** Processes enter calls and return from them in any order. A call
that is the only one in flight is one line, another is split in two halves; a process may
be killed inside a call and its ID may be used again. `Lines`, `execs` and
`mutations` are `parseTrace`. The specification remembers what really happened,
and the invariants compare.

## 3. Runs

| Run | Question | Size |
|---|---|---|
| `retry_sim` | Server, clients, budget, counters, timeline, end of a run; refinement; termination | 3 arrivals, all 3 policies, with and without the slowdown |
| `retry_stop` (violation) | Does every reported window carry its sample? | same |
| `recovery_scan` | Is the verdict the first stretch that recovers? | all counts 0..2 of 8 windows |
| `retry_suite` | Does exit status 0 vouch for the matrix; do rows and timelines match? | 4 combinations, 2 experiments |
| `causal_trace` | Bookkeeping, causality, `synchronize` | 3 replicas, 3 insertions, 2 receiver orders |
| `causal_trace_deep` | Do replicas agree on every order? | 3 replicas, 4 insertions, single deliveries |
| `music_traces` | Does the corpus pass its gate and show what it should, in every receiver order? | the real corpus, 6 orders |
| `zip_harness` | Ceilings, comparison, exit status, termination | 13 archives, 3 readers |
| `approval_trace` | Does the parser recover what the processes did? | 2 processes, 3 calls |
| `approval_arms` | Does the gate let only true controls pass; do records say what ran? | both modes, all eight arms, two faults |
| `exit_status` | Does status 0 vouch for the finding; what does a hung case cost? | all 17 cases, two faults |
| `approval_interrupted` (violation) | And when a result is not known? | same, with `?` as a result |

### What the properties say

*Simulator.* `ServerConservation`: every admitted attempt is completed, in service
or waiting, once, and the counters say the same. `OneServerInOrder`: one at a time,
in the order of admission, never idle while one waits. `RequestConservation`:
each request has one outcome and is counted once. `LiveContinuation`: a pending
request has something coming that can settle or continue it. `AnswerInTime`,
`SuccessExplained`: a request succeeds exactly when an attempt is answered within
its timeout and the deadline, both inclusive, at that instant. `DeadlineKept`,
`RetrySpacing`, `RetryBudget` (over every interval, not only from the start),
`EndExplained` (what is complete when a run ends), `TimelineTrue` (windows against
the events themselves), `SettledForGood`, `RunEnds`, `ImplementsLifecycle`.

*Other parts.* `VerdictCorrect` compares the scan with a definition that does not scan.
`StatusTrue`: status 0 exactly with a whole record in which each combination
occurs once and reached its cutoff. `SummaryMatchesTimelines`: row i and timeline i
of an export show one run, and after the export of an experiment with status 0 no
timeline of an earlier one is left (`NoneLeftOver`). `SeenIsShown`, `CausallyClosed`,
`ReplicasAgree`, `BetweenNeighbours`, `NeverThrown`, `SyncDelivers`: see
`CausalTrace`. `CeilingsExact` bounds the readers on both sides. `ExitTrue` says
that one bad run anywhere is never followed by status 0. `ExecsExact` and
`MutationsExact` compare the parser's lists with what happened.
`CorpusPasses`: the corpus is run to its end, no call throws or waits, and its
record passes the gate. `CorpusShows`: it shows what it is there to show. `ControlsVouch`:
every arm that is no control was run after all controls had installed with success
and run no script, not even unseen after a timeout. `ArmTrue`: a record lists the
scripts, markers and hook exactly if the install ended by itself, and is at least sound
if it did not. `StatusExplained`: with status 0 each published form failed silently
and each corrected one did not; with 3 something went another way. `RecordTrue`: what
is left running by one case never shows in the record of another. `OnlyHungLeaveProcesses`
and `DocumentPrinted`: a hung case costs its own result, unless the hangs use up the limit of the
wrapper.

### Bounds, and why they are enough

* *Simulator.* Three requests fill the server and a queue of two, the least in which
  the order of service shows; a retry then finds it full. Three attempts per request
  reach two back-offs, of which the second meets the back-off cap. The slow service is
  longer than two timeouts, so late answers, unused work and retries that overtake
  their predecessor occur. The bucket of one token with half a token per tick is denied
  and refilled. The attempt cap of six is reached by busy runs only. The run of
  eight ticks in windows of two lets requests end before, at and after the cutoff.
* *Scan.* Eight windows: two in the baseline, four after the trigger, two in a row
  required; all 3^8 counts.
* *Experiment.* The time of a step may exceed what the budget or the kill leaves.
  Budget and kill are equal, as they are in the repository.
* *Trace.* Three replicas are the lab's. Four insertions are needed for an element
  to be compared with one that hangs on a third; `synchronize` adds no order of
  delivery that single deliveries do not have, so the deep run leaves it out.
* *Archives.* The fixtures' shapes, and archives with one entry or byte below, at
  and above the ceilings, in one entry or several; a buffer smaller than an entry.
* *Parser.* Three calls of two processes suffice for a call that is split while
  another one begins and ends, and for a process ID that is used again.

* *Arms and cases.* Two faults are the least in which one can hide another: two cases
  that are compared with each other, two controls, a timeout and a later arm. The
  help text fills the output limit of three exactly, so that what follows it is in the
  digest only. The limit of the wrapper is scaled with the faults: it leaves time for one
  hang of 20 seconds and not for two; the real one of 300 seconds cannot pay for all
  seventeen cases either. Only hangs take time that counts, so the kill comes while
  one is waited for.

Deadlock checking is off where the program really stops: a run, a scan, an
experiment, a corpus, a harness, a trace or a lab that has ended has no next step.

### Fairness

`RetrySim` and `MusicTraces` have weak fairness of the whole next-state relation:
one thread, no input, nothing to wait for. `ZipHarness` has it for the steps of
`run.py` and for the timeout that `subprocess.run` enforces, and for no step of a
reader: `HarnessEnds` holds although every reader may hang. `ExitStatusLab` has it for
the steps of `run.py`, its timeout and the kill, and for no command that was left
behind. A command that does not hang ends: that is what a hang is. `RecoveryScan`,
`RetrySuite`, `CausalTrace`, `ApprovalTrace` and `ApprovalArms` have none: their runs check safety
only.

### What the violations show

* `retry_stop`. `simulate.py:179` says of the windows of a run: "Zeros are explicit
  in every CSV window. Truncated runs expose only elapsed windows." Line 184 takes
  a window as elapsed when its end is not after the time of the stop. If the
  attempt cap stops the run exactly at the end of a window, the sample of this
  window, which has the lowest priority of its instant, is never taken; its row
  shows zeros for queue, service and pending requests that are not zero. With
  `arrival_override=[1, 2, 3]`, `attempt_cap=1` and a normal service of three
  seconds the code prints such a row, the second one. `EndExplained` and `TimelineTrue` hold, so
  only rows of stopped runs are concerned.
* `approval_interrupted`. The README of the lab promises "every successful
  `execve`"; the parser's pattern admits `?` as a result and takes all but `-1`
  for success. A call of which strace could not print the result is then listed as
  a program that was started. Without such results the parser is exact.

## 4. Proofs

Every theorem is for all values of the constants that the named assumptions admit:

* `RetrySimAssumption`: times and limits are naturals, a run has a duration and a window
  fits into it, the trigger does not end before it starts, a request may send an attempt.
  The schedule, the jitter, the policy and the length of every service are arbitrary.
* `RecoveryAssumption`: the baseline starts before the trigger; a window, the required
  stretch and the denominator of the fraction are not zero.
* `CausalTraceAssumption`: receiver orders are sequences of replicas.
* `ZipHarnessAssumption`: limits are naturals, the corpus is not empty, the central
  directory of an archive refers to its records, a buffer holds a byte.
* `ExitStatusAssumption`: limits are naturals, and of an output at least two texts are
  kept: no expectation of `CASES` looks further, and `OUTPUT_LIMIT` is 4096 bytes.
* `RetrySuiteAssumption`: each list of the configuration is a list, not empty, and names an
  element once, as `config.json` does.
* `ApprovalTraceAssumption`: of the calls that strace is told to report, all but `execve`
  and `openat` change files.
* `ApprovalArmsAssumption`: the number of faults is a natural, so any number of installs
  may go another way.

Some theorems have a hypothesis besides:

* `ExecsAreExact` and `MutationsAreExact` suppose `ResultsKnown`: strace printed the
  result of each call that returned. The run `approval_trace` satisfies it;
  `approval_interrupted` does not, and there the claim is false: the hypothesis is where
  the finding ends.
* `NeighboursKept`, `SameSeenSameList` and `CorpusEqual` suppose `[]ReplicasAgree`: two
  replicas put what they both show in one order. That is what the lab relies on Yjs for.
  `causal_trace_deep` finds it true of every use of the class with four insertions; each
  schedule of the corpus has three.
* `CorpusDelivered` and `CorpusEqual` suppose `LabConstants`: the replicas are 1, 2 and 3,
  as the constructor makes them, and an order of receivers visits each. The module of the
  run `music_traces` assumes the same, so TLC evaluates it. The theorems about the class do
  not need it and hold for any replicas.

**RetrySimProofs.** `TypeCorrect` is inductive as it stands, because `TypeOK` bounds the
bucket. `ServerConserves`, `ServerInOrder` and `QueueBounded` follow from `ServerInv`.
None of the three is inductive alone: that a completion concerns the attempt in service
has to be known from the heap, so the invariant ties the completion event in the heap to
`busy`, the queue to the attempts that were not started, in order, and the counters to
the sets of attempts. The proof has one lemma per action; the three alternatives of
`launch` are shared by arrivals and retries.

For the clients, each handler is first reduced to its effect on requests, attempts and
heap (`Effect`); the invariants are then proved from the effects, each with the help of
those before it:

| Invariant | Says | Gives |
|---|---|---|
| `ArrivesOnce` | a request is absent until the one arrival that the heap holds for it | `OutcomesStay`: every handler settles through `terminate`, which changes pending requests only |
| `DeadlineInv` | each pending request has its deadline in the heap, at its instant, and what was settled was settled by then | `DeadlinesKept` |
| `TimerInv` | an attempt that is neither answered nor timed out has its one timer in the heap; one that is answered is marked exactly if the answer was late | `AnswersInTime` |
| `ContinueInv` | a pending request has one live attempt or one scheduled retry, and not both; one settled otherwise than by its deadline has no live attempt | `ContinuationLives` |
| `AnswerInv` | an attempt answered in time settled its request at that instant, every success has one, and what is still on the server for an expired request ends after the deadline | `SuccessesExplained` |

The order of handlers at one instant matters in each: the completion, the deadline, the
timer and the retry of one request may all be due now, and the proofs use `Before` to
know which has run.

**RetryReportProofs.** `RequestsConserved` counts the moves of requests from one status
to another, with `ArrivesOnce` and `DeadlineInv` to know that each is counted once.
`BudgetHolds` needs `BudgetInv`, the same claim about the tokens that are there now: a
claim about intervals is inductive only if each interval knows what it left in the
bucket. `SpacingHolds` needs `SpacingInv` for the retry that is scheduled and not yet
sent. `EndsExplained` follows from `CapKept` (the cap is exceeded by nothing and stops
the run when reached) and `EndInv` (the heap holds whatever is still due).
`TimelineIsTrue` needs `TimelineInv`. The counters of a window are those of the events
so far (`CountersTrue`, one lemma per counter, from the effect of each handler and from
what its window counts), which holds at every step. Its gauges are true only from its sample
on, so the invariant follows each window that ends in the run through the heap
(`SampledOnce`): its sample is still waiting, or it was taken and everything left is
later. That nothing of its own instant is left is the priority of samples; that a row once
written stays true is that times already noted never change and new ones lie beyond the
end of the window. `GaugesRead` translates the queue, the server and the pending
requests of this moment into the times they noted, with `ServerInv` and `DeadlineInv`.
`LifecycleImplemented` proves the refinement: the initial states map to an initial
state, and each handler maps to one step of the life cycle or to a stutter.
`ContinueInv` is what makes `ClientView` a function of the state that changes for one
request at a time.

**RetrySuiteProofs.** `Configuration` reads a number in a mixed base whose digits are
positions in the four lists. `MatrixNumbered` shows that this is a bijection between the
numbers below `Combinations` and the matrix, so that so many runs with the first
configurations cover each combination once. `StatusIsTrue` then follows from `SuiteInv`:
the runs are the first configurations in order, the budget stops the loop only before
its end, and a process that was not killed leaves a whole document. `SummaryMatches`
adds that an export has written exactly the files before its next row (`FilesInv`).
For its second half (`LeftOver`) the two are put together: with status 0 there are as many runs as the
directory can hold timelines, so that an export which is through has replaced them all.

**RecoveryScanProofs.** `VerdictIsCorrect` follows from `ScanInv`: the streak is a
stretch of qualifying windows that ends before the next one, it is shorter than
required, and no stretch that recovers began before it. On a miss, a stretch that began
inside the streak would have to contain the missed window; at the end, it would not fit.
Before the end of the trigger the streak is empty because window starts grow.
`EmptyBaseline` needs that a baseline without successes sums up to nothing (`ZerosSum`).

**CausalTraceProofs.** `CausalClosure`, `SynchronizeNeverThrows` and
`SynchronizeDelivers` follow from `BookInv`: operations depend only on earlier ones
(`Topological`), replicas are causally closed, and the receiver that the loop is at has
seen every operation before the next one (`LoopInv`). With these the next operation's
dependencies have been seen, so the throw cannot happen; without `LoopInv` the claim is
not inductive. `SeenShown` is about the documents: by `DocInv` the neighbours that an
insertion names were seen by its author, so that with causal closure an update never
waits. The placement is a recursive search; that it has a value within the document is
shown by induction.

`NeighboursKept` needs `OrderInv`: no list shows an element twice, authors have seen what
they made, and every element a replica shows is between its neighbours. An insertion puts
its element there. An update searches only between the neighbours (`PlaceBounds`), so it
does too, provided that they are in the same order on the replica that receives it as on
the one that made it, and this is where agreement is needed: not for the pair of the new
element and some other, but for the two neighbours. `SameSeenSameList` is a fact about
lists (`SameList`): of two lists with the same elements, each shown once and in the same
order, the first place at which they differ would show an element too late in one of them.

The corpus makes only calls that the class admits (`CorpusCalls`: each step is one of
`Next`, or begins with fresh replicas), so all invariants of the class hold of it.
`CorpusDelivered` adds `CorpusInv`: since every schedule ends with a synchronization
(`Schedules`), a replica that the last one has come to the end of has seen everything, and
the others still wait for it (`SyncReached`).

**ZipHarnessProofs.** `ReadInv` says of the entry that is being read how much of it is
counted; with the sum of the entries before it (a recursive function of the listing) it
gives `PrefixObserved` and `CeilingsAreExact`, on both sides of each ceiling. `RunsInv`
keeps that for the runs of an archive until they are compared. `ExitVouches` is a
temporal claim without liveness, "a bad run is never followed by status 0". It is proved
from the invariant `ExitInv` and from `Doomed`, which is stable: the harness has failed,
or what it has read must make it fail.

**ApprovalProofs.** The parser is a fold over the lines. `OneMoreLine` says what
one more line does to it. `TraceInv` relates the fold of the lines so far to what the
processes did: its lines are the calls that returned, and for every process inside a
call, except the one whose line strace is still printing, the parser holds the first
half of that call. Of the other processes it says nothing: there the half of a process
that was killed may remain, and the next call under that ID either is one line or
overwrites it before it resumes.

For the arms, `ArmTrue` is about records that are done; what is inductive is that the
record in the making is true so far. `RanInv` ties the trace, the markers and the hook to
what has run: the trace lists all of it until strace is gone and a beginning of it from
then on, and the markers lag behind by the script that runs now. `NotedInv` says that what
was read is what was there, and by `WalkInv` an install that ended by itself leaves nothing
that could still add to it; after a timeout it can, and only an inclusion is kept. For
`ControlsVouch` `ControlInv` adds that a control in which nothing went another way has
nothing to run, and `DoneInv` that no control failed but the last one of an experiment
that is stopped. A control that passed ended with status 0, so its record is complete, and
an empty list of scripts means that none ran; it stands before every other arm because
`main` sorts the names (`NamesListed`, from what `Only` keeps of any sequence).
The proof found a slip of the model: two cases of `Scripts` both held for a pnpm
control, and only one of them was the code's.

**ExitStatusProofs.** `OnlyHung` follows from `ProcessInv`, which adds the moment when
the property is not yet due: until `gpgconf` has run, the current case may have an agent
without having hung; and every command left behind belongs to a case that hung. Nothing
in this proof depends on `Effect`. `RecordsAreTrue` follows from `RecordInv`: while the
script of a case that does not hang is running, its status, its output and the files of
its directory are the state that `Walk` reaches from its script and its fault after as
many commands (`Reached`). The state of a walk after n commands depends on what befell
the first n only (`WalkAgrees`), so a fault that is chosen later leaves it alone; a
script that is over stays as it is (`WalkStays`); and a command that was left behind
writes to the directory of a case that hung, which is another one. That status and output
have the values they should have needs what `Effect` does to them, for every command of
`CASES`.

`StatusIsExplained` adds `VerdictInv`: when the status is 0 or 3 all cases have been
recorded, the verdict is that of their observations, and nothing that it rests on changes
any more; until then only published forms work by accident, and what is kept of an output
is its beginning. By `RecordsAreTrue` what `check` compares is what the commands did
(`Checked`, one line for each form of an expectation). `CasesListed` says of each case
what it runs and what it expects, and from there the two directions part. If all cases
pass, each did what the lab finds of it (`AllVouched`): for a published form the exit and
the files it must show exclude that the job was done, for a corrected one the exit leaves
only the way in which it was done, and a published form of pihole that printed the help
text of the other case added no list. If no case went another way, each passes
(`AllPass`): its commands are run one after another (`ScriptRuns`) to the state its
expectation describes.

**Strengthenings.** The invariants above are stronger than what they prove. Those over
the simulator (`DeadlineInv`, `TimerInv`, `ContinueInv`, `AnswerInv`, `BudgetInv`,
`SpacingInv`, `CapKept`, `EndInv`, `TimelineInv`), over the harness (`ReadInv`, `RunsInv`,
`ExitInv`), over the exit-status lab (`RecordInv`, `VerdictInv`), over the arms (`ArmsInv`)
and over the replicas (`OrderInv`, `CorpusInv`) were also found true by TLC on the
instances of `retry_sim`, `zip_harness`, `exit_status`, `approval_arms`,
`causal_trace_deep` and `music_traces`.

**Induction.** The library's induction theorems take an operator as a parameter, which
the installed provers cannot instantiate. Where a recursive function has to be known for
every argument, induction is stated about a set instead (`NatSets`: a set with 0 and the
successor of each of its naturals contains the naturals), which follows from the
well-foundedness of the natural numbers.

**Only model-checked.** Liveness under fairness (`RunEnds`, `CorpusPasses`,
`HarnessEnds`, `DocumentPrinted`) and everything about ENABLED: the prover does not
treat them. `ReplicasAgree` is the convergence of Yjs's placement, which depends on the
order of all pairs of insertions; no inductive invariant is stated for it, and the
theorems that need it say so. `CorpusShows` is about one fixed corpus, which TLC covers
entirely; why no trace of it can be incomplete is `CorpusDelivered`.

## 5. What is not modelled, and why

* pnpm-override-drift: a straight line of four pnpm commands on one lockfile and one
  scan of a text. Whether a command rewrites the lockfile that the next one reads is up to pnpm, and is
  what the lab wants to find out: a model would assume the answer.
* Of approval-scope: `classify` (a case split over path prefixes, which its unit tests
  reach), `inventory`, and the extra observation of a sandbox that cannot be built.
  In `ApprovalArms` a removal that fails ends the program. A `git commit` that fails or
  runs into its timeout is left out, as is the kill by `approval-lab.sh` after 600
  seconds, which leaves no record.
* Of exit-status: `gpgconf`, which `run_case` calls without a timeout, is assumed to
  return, and `DocumentPrinted` rests on that. Left out: stderr, the handling of HTTP beyond status and body, `tool_versions`.
* bash, curl, gpg, Pi-hole, npm, pnpm, git, the sandbox and the kernel are external.
* Yjs, `zipfile`, `java.util.zip` and strace: only what the labs use of them.
  strace output that is cut off, and an exec by a thread that is not its process's
  leader, are left out.
* Rounding of floats in times, tokens and the recovery fraction.
* Hashes, versions, environment and formatting of the records; wrappers, images
  and workflows, except the kill.

Remarks met on the way, which no property is about:

* What happens at the very instant a window ends is counted in the next window but
  is part of the state that its gauges show, since the sample runs last.
* The budget in `config.json` and the external timeout are both 1800 seconds, and the
  external one starts first; the orderly stop can hardly win. The lab's README says
  that a hard timeout may leave no record. A kill between the last byte and the exit
  leaves a whole record with status 137.
* The export of an incomplete experiment into a used directory leaves the timelines of a
  longer, earlier export, and nothing in the directory says so. `SummaryMatchesTimelines`
  excludes it for complete ones, all with one configuration: a change of the
  configuration to a smaller matrix leaves timelines behind as well.

## 6. Plan

Done: the retry lab in full depth, the trace lab, the zip harness, the trace parser, the
arms with their gate, the exit-status lab. Proved: both sides of the simulator, its report
and its refinement; the scan; the suite and its export; the bookkeeping and the documents of the
trace lab, and its corpus, short of convergence; the zip harness; the trace parser; the arms; what the exit-status
lab records, what its status vouches for and what it leaves running.

Left, in this order:

1. *Prove.* An invariant for the convergence of documents.
2. *Extend.* The composition of `RetrySim` runs with the scan and the suite; `inventory`
   of approval-scope.
