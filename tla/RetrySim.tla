------------------------------- MODULE RetrySim -------------------------------
(***************************************************************************)
(* The discrete-event simulator of labs/retry-recovery/simulate.py:        *)
(* clients send requests ("originals") to one FIFO server with a bounded   *)
(* queue; an attempt that is not answered within a timeout is retried      *)
(* after a random back-off, under one of three policies, while the server  *)
(* is slow for some time.                                                  *)
(*                                                                         *)
(* One action is one iteration of the event loop: it pops the smallest     *)
(* event of the heap and runs that event's handler to its end.  Time is    *)
(* counted in ticks, the code's floats rounded to a grid; what is random   *)
(* in the code (the arrival schedule, the jitter) is chosen freely here.   *)
(* Requests and attempts are numbered from 1 instead of 0.                 *)
(*                                                                         *)
(* A definition marked "Faulty" is a slip one could make in the code of    *)
(* the definition after it.  The specification does not use it: it shows,  *)
(* put in that definition's place, that a property notices the slip.       *)
(***************************************************************************)
EXTENDS Integers, Sequences, FiniteSets

CONSTANTS
    MaxArrivals,        \* bound: the longest arrival schedule considered
    Policies,           \* the retry policies of the matrix
    FaultModes,         \* is the server slowed down during the trigger?
    Duration,           \* duration_seconds, and all times below, in ticks
    WindowSize,         \* window_seconds
    TriggerStart, TriggerEnd,
    NormalService, SlowService,
    AttemptTimeout, OriginalDeadline,
    BackoffBase, BackoffCap,
    MaxAttempts,        \* max_attempts_per_original
    TokenUnit,          \* the units one retry token is divided into
    RefillPerTick,      \* retry_tokens_per_second, in units per tick
    TokenCapacity,      \* retry_token_capacity, in whole tokens
    QueueCapacity,      \* waiting attempts, the one in service not counted
    AttemptCap          \* attempt_cap: attempts of a whole run

KnownPolicies == {"none", "jitter", "budget"}

ASSUME RetrySimAssumption ==
    /\ Policies \subseteq KnownPolicies
    /\ FaultModes \subseteq BOOLEAN
    /\ MaxArrivals \in Nat
    /\ Duration \in Nat \ {0} /\ WindowSize \in 1..Duration
    /\ TriggerStart \in Nat /\ TriggerEnd \in Nat /\ TriggerStart <= TriggerEnd
    /\ NormalService \in Nat /\ SlowService \in Nat
    /\ AttemptTimeout \in Nat /\ OriginalDeadline \in Nat
    /\ BackoffBase \in Nat /\ BackoffCap \in Nat
    /\ MaxAttempts \in Nat \ {0}
    /\ TokenUnit \in Nat \ {0} /\ RefillPerTick \in Nat /\ TokenCapacity \in Nat
    /\ QueueCapacity \in Nat /\ AttemptCap \in Nat

Requests == 1..MaxArrivals
WindowCount == (Duration + WindowSize - 1) \div WindowSize
Windows == 0..(WindowCount - 1)     \* window w covers the ticks from w * WindowSize

\* The order in which the handlers of one instant run: a smaller number first.
FaultyPriority == [deadline |-> 0, timeout |-> 1, complete |-> 2,    \* Faulty: answers last
                   retry |-> 3, arrival |-> 4, sample |-> 5]
PRIORITY == [complete |-> 0, deadline |-> 1, timeout |-> 2,
             retry |-> 3, arrival |-> 4, sample |-> 5]

FailureReason == {"queue_rejected", "deadline_expired", "attempts_exhausted", "budget_denied"}
Terminal == FailureReason \cup {"success"}

Phases == {"successes_pre_trigger", "successes_trigger", "successes_post_trigger"}
Counters == {"arrivals", "attempts", "admitted_attempts", "rejected_attempts",
             "dropped_arrivals", "attempt_timeouts", "completed_attempts",
             "unused_completions", "successes", "terminal_failures"}
            \cup Phases \cup FailureReason
Gauges == {"queue_depth_at_end", "in_service_at_end", "pending_originals_at_end"}

NoTime == -1            \* a time that was never assigned
Idle == 0               \* busy is None

Least(a, b) == IF a <= b THEN a ELSE b

VARIABLES
    run,                \* the arguments of simulate: [policy, fault, schedule]
    events,             \* the heap, as a set of [when, kind, value, serial]
    serial,             \* the next serial number
    originals,          \* [arrived, attempts, status, terminal_at] of a request
    attempts,           \* [original, sent, started, completed, timed_out] of an attempt
    queue,              \* the admitted attempts that wait for the server
    busy,               \* the attempt in service, or Idle
    tokens,             \* the retry bucket, in units
    token_updated,      \* when it was last refilled
    stopped,            \* the attempt cap was hit
    now,                \* simulated time
    totals,             \* the counters of the run
    windows,            \* the counters and end-of-window gauges of each window
    done                \* the event loop has ended

vars == <<run, events, serial, originals, attempts, queue, busy, tokens,
          token_updated, stopped, now, totals, windows, done>>

-----------------------------------------------------------------------------
(* The schedules that arrivals can return, rounded to ticks: nondecreasing,  *)
(* every time before the end of the run.                                     *)
Arrivals == {s \in UNION {[1..n -> 0..(Duration - 1)] : n \in 0..MaxArrivals} :
                \A i, j \in DOMAIN s : i <= j => s[i] <= s[j]}

Event(when, kind, value, n) ==
    [when |-> when, kind |-> kind, value |-> value, serial |-> n]

Init ==
    /\ run \in [policy : Policies, fault : FaultModes, schedule : Arrivals]
    /\ events = {Event(run.schedule[r], "arrival", r, r) : r \in DOMAIN run.schedule}
                \cup {Event(w * WindowSize, "sample", w, MaxArrivals + w) :
                        w \in 1..(Duration \div WindowSize)}
    /\ serial = MaxArrivals + WindowCount + 1
    /\ originals = [r \in Requests |->
            [arrived |-> NoTime, attempts |-> 0, status |-> "absent", terminal_at |-> NoTime]]
    /\ attempts = << >>
    /\ queue = << >>
    /\ busy = Idle
    /\ tokens = TokenCapacity * TokenUnit
    /\ token_updated = 0
    /\ stopped = FALSE
    /\ now = 0
    /\ totals = [k \in Counters |-> 0]
    /\ windows = [w \in Windows |-> [k \in Counters \cup Gauges |-> 0]]
    /\ done = FALSE

-----------------------------------------------------------------------------
(* The heap: tuples (time, priority, serial) in lexicographic order.         *)
Before(e, f) ==
    \/ e.when < f.when
    \/ /\ e.when = f.when
       /\ \/ PRIORITY[e.kind] < PRIORITY[f.kind]
          \/ PRIORITY[e.kind] = PRIORITY[f.kind] /\ e.serial < f.serial

IsNext(e) == e \in events /\ \A f \in events \ {e} : Before(e, f)

\* The loop pops e, whose kind is handled, and moves the clock to it.
Pop(e, kind) ==
    /\ ~done
    /\ IsNext(e)
    /\ e.when <= Duration
    /\ e.kind = kind
    /\ now' = e.when
    /\ UNCHANGED run

\* The handler of e pushes the events in new.  A handler pushes at most three;
\* it numbers them from serial on, and the numbers it does not use stay unused.
Push(e, new) ==
    /\ events' = (events \ {e}) \cup new
    /\ serial' = serial + 3

(* add(key) for every key in keys: no handler adds to a counter twice.  The  *)
(* last window also takes what happens at the very end of the run.           *)
FaultyWindowAt(t) == t \div WindowSize              \* Faulty: no last window
WindowAt(t) == Least(t \div WindowSize, WindowCount - 1)

Count(counts, keys) ==
    [k \in DOMAIN counts |-> IF k \in keys THEN counts[k] + 1 ELSE counts[k]]

Add(t, keys) ==
    /\ totals' = Count(totals, keys)
    /\ windows' = [windows EXCEPT ![WindowAt(t)] = Count(@, keys)]

-----------------------------------------------------------------------------
(* terminate(rid, reason) at time t, applied to the originals o, and the     *)
(* counters it increments: nothing happens to an original that is settled.   *)
Pending(o, r) == o[r].status = "pending"

FaultyTerminate(o, r, reason, t) ==                 \* Faulty: the last outcome wins
    [o EXCEPT ![r].status = reason, ![r].terminal_at = t]
ForgetfulTerminate(o, r, reason, t) ==              \* Faulty: a refused request is forgotten
    IF Pending(o, r) /\ reason # "queue_rejected"
    THEN [o EXCEPT ![r].status = reason, ![r].terminal_at = t]
    ELSE o
Terminate(o, r, reason, t) ==
    IF Pending(o, r)
    THEN [o EXCEPT ![r].status = reason, ![r].terminal_at = t]
    ELSE o

Phase(t) == CASE t < TriggerStart -> "successes_pre_trigger"
              [] t >= TriggerStart /\ t < TriggerEnd -> "successes_trigger"
              [] t >= TriggerEnd -> "successes_post_trigger"

FaultyTerminateCounts(o, r, reason) ==              \* Faulty: counts settled ones again
    IF reason = "success" THEN {"successes", Phase(o[r].arrived)}
    ELSE {"terminal_failures", reason}
TerminateCounts(o, r, reason) ==
    IF ~Pending(o, r) THEN {}
    ELSE IF reason = "success" THEN {"successes", Phase(o[r].arrived)}
    ELSE {"terminal_failures", reason}

\* How long the attempt that starts at t occupies the server.
ServiceTime(t) ==
    IF run.fault /\ TriggerStart <= t /\ t < TriggerEnd THEN SlowService ELSE NormalService

\* Waiting attempts are served in the order of their admission.
FaultyEnqueue(q, aid) == <<aid>> \o q               \* Faulty: last in, first out
Enqueue(q, aid) == Append(q, aid)

QueueFull == busy # Idle /\ Len(queue) >= QueueCapacity

CapHit == totals["attempts"] >= AttemptCap

(* launch(rid), called at the end of a handler that has already set the      *)
(* originals to o, counted keys and pushed the events in new.                *)
LaunchCapped(e, o, keys, new) ==
    /\ CapHit
    /\ stopped' = TRUE
    /\ done' = TRUE
    /\ originals' = o
    /\ Add(e.when, keys)
    /\ Push(e, new)
    /\ UNCHANGED <<attempts, queue, busy>>

LaunchRejected(e, r, o, keys, new) ==
    /\ ~CapHit
    /\ QueueFull
    /\ LET tried == [o EXCEPT ![r].attempts = @ + 1]
       IN  /\ originals' = Terminate(tried, r, "queue_rejected", e.when)
           /\ Add(e.when, keys \cup {"attempts", "rejected_attempts"}
                          \cup (IF tried[r].attempts = 1 THEN {"dropped_arrivals"} ELSE {})
                          \cup TerminateCounts(tried, r, "queue_rejected"))
    /\ Push(e, new)
    /\ UNCHANGED <<attempts, queue, busy, stopped, done>>

LaunchAdmitted(e, r, o, keys, new) ==
    /\ ~CapHit
    /\ ~QueueFull
    /\ originals' = [o EXCEPT ![r].attempts = @ + 1]
    /\ Add(e.when, keys \cup {"attempts", "admitted_attempts"})
    /\ LET aid == Len(attempts) + 1
           timer == Event(e.when + AttemptTimeout, "timeout", aid, serial + 1)
           sent(started) == [original |-> r, sent |-> e.when, started |-> started,
                             completed |-> NoTime, timed_out |-> FALSE]
       IN  \/ /\ busy = Idle
              /\ attempts' = Append(attempts, sent(e.when))
              /\ busy' = aid
              /\ Push(e, new \cup {timer, Event(e.when + ServiceTime(e.when),
                                                "complete", aid, serial + 2)})
              /\ UNCHANGED queue
           \/ /\ busy # Idle
              /\ attempts' = Append(attempts, sent(NoTime))
              /\ queue' = Enqueue(queue, aid)
              /\ Push(e, new \cup {timer})
              /\ UNCHANGED busy
    /\ UNCHANGED <<stopped, done>>

Launch(e, r, o, keys, new) ==
    \/ LaunchCapped(e, o, keys, new)
    \/ LaunchRejected(e, r, o, keys, new)
    \/ LaunchAdmitted(e, r, o, keys, new)

-----------------------------------------------------------------------------
(* The handlers of the event loop.                                           *)

\* A request arrives: its deadline is set and its first attempt is sent.
Arrival(e) ==
    /\ Pop(e, "arrival")
    /\ LET r == e.value
           arrived == [originals EXCEPT ![r] =
                [arrived |-> e.when, attempts |-> 0, status |-> "pending", terminal_at |-> NoTime]]
       IN  Launch(e, r, arrived, {"arrivals"},
                  {Event(e.when + OriginalDeadline, "deadline", r, serial)})
    /\ UNCHANGED <<tokens, token_updated>>

FaultyDeadlinePassed(e) ==                          \* Faulty: spares one that backs off
    /\ Pop(e, "deadline")
    /\ LET spared == \E f \in events : f.kind = "retry" /\ f.value = e.value
       IN  /\ originals' = IF spared THEN originals
                           ELSE Terminate(originals, e.value, "deadline_expired", e.when)
           /\ Add(e.when, IF spared THEN {}
                          ELSE TerminateCounts(originals, e.value, "deadline_expired"))
    /\ Push(e, {})
    /\ UNCHANGED <<attempts, queue, busy, tokens, token_updated, stopped, done>>
DeadlinePassed(e) ==
    /\ Pop(e, "deadline")
    /\ originals' = Terminate(originals, e.value, "deadline_expired", e.when)
    /\ Add(e.when, TerminateCounts(originals, e.value, "deadline_expired"))
    /\ Push(e, {})
    /\ UNCHANGED <<attempts, queue, busy, tokens, token_updated, stopped, done>>

\* The retry bucket at time t, refilled since token_updated and capped.
FaultyRefilled(t) == tokens + (t - token_updated) * RefillPerTick    \* Faulty: no capacity
Refilled(t) == Least(TokenCapacity * TokenUnit,
                     tokens + (t - token_updated) * RefillPerTick)

\* The back-off of a request is over but the request was settled meanwhile.
RetryStale(e) ==
    /\ Pop(e, "retry")
    /\ ~Pending(originals, e.value)
    /\ Push(e, {})
    /\ UNCHANGED <<originals, attempts, queue, busy, tokens, token_updated, stopped, done,
                   totals, windows>>

\* The shared bucket holds less than a token: the request is given up.
RetryDenied(e) ==
    /\ Pop(e, "retry")
    /\ Pending(originals, e.value)
    /\ run.policy = "budget"
    /\ Refilled(e.when) < TokenUnit
    /\ tokens' = Refilled(e.when)
    /\ token_updated' = e.when
    /\ originals' = Terminate(originals, e.value, "budget_denied", e.when)
    /\ Add(e.when, TerminateCounts(originals, e.value, "budget_denied"))
    /\ Push(e, {})
    /\ UNCHANGED <<attempts, queue, busy, stopped, done>>

\* The next attempt is sent; under the budget policy it costs a token.
RetryLaunched(e) ==
    /\ Pop(e, "retry")
    /\ Pending(originals, e.value)
    /\ \/ /\ run.policy = "budget"
          /\ Refilled(e.when) >= TokenUnit
          /\ tokens' = Refilled(e.when) - TokenUnit
          /\ token_updated' = e.when
       \/ /\ run.policy # "budget"
          /\ UNCHANGED <<tokens, token_updated>>
    /\ Launch(e, e.value, originals, {}, {})

\* The timer of an attempt that was answered in time.
TimeoutAnswered(e) ==
    /\ Pop(e, "timeout")
    /\ attempts[e.value].completed # NoTime
    /\ Push(e, {})
    /\ UNCHANGED <<originals, attempts, queue, busy, tokens, token_updated, stopped, done,
                   totals, windows>>

FaultyBackoffLimit(n) == Least(BackoffCap, BackoffBase * 2^n)   \* Faulty: one step ahead
BackoffLimit(n) == Least(BackoffCap, BackoffBase * 2^(n - 1))

\* An attempt times out.  It stays where it is on the server; its request, if
\* still pending, is given up or backs off for a random time up to the limit.
TimeoutFailed(e) ==
    /\ Pop(e, "timeout")
    /\ attempts[e.value].completed = NoTime
    /\ attempts' = [attempts EXCEPT ![e.value].timed_out = TRUE]
    /\ LET r == attempts[e.value].original
           last == run.policy = "none" \/ originals[r].attempts >= MaxAttempts
       IN  \/ /\ ~Pending(originals, r) \/ last
              /\ originals' = Terminate(originals, r, "attempts_exhausted", e.when)
              /\ Add(e.when, {"attempt_timeouts"}
                             \cup TerminateCounts(originals, r, "attempts_exhausted"))
              /\ Push(e, {})
           \/ /\ Pending(originals, r) /\ ~last
              /\ \E jitter \in 0..BackoffLimit(originals[r].attempts) :
                    Push(e, {Event(e.when + jitter, "retry", r, serial)})
              /\ Add(e.when, {"attempt_timeouts"})
              /\ UNCHANGED originals
    /\ UNCHANGED <<queue, busy, tokens, token_updated, stopped, done>>

\* The server finishes an attempt, useful or not, and takes the next one.
Complete(e) ==
    /\ Pop(e, "complete")
    /\ LET a == e.value
           r == attempts[a].original
           finished == [attempts EXCEPT ![a].completed = e.when]
       IN  /\ \/ /\ ~attempts[a].timed_out /\ Pending(originals, r)
                 /\ originals' = Terminate(originals, r, "success", e.when)
                 /\ Add(e.when, {"completed_attempts"}
                                \cup TerminateCounts(originals, r, "success"))
              \/ /\ attempts[a].timed_out \/ ~Pending(originals, r)
                 /\ Add(e.when, {"completed_attempts", "unused_completions"})
                 /\ UNCHANGED originals
           /\ \/ /\ queue = << >>
                 /\ attempts' = finished
                 /\ busy' = Idle
                 /\ Push(e, {})
                 /\ UNCHANGED queue
              \/ /\ queue # << >>
                 /\ attempts' = [finished EXCEPT ![Head(queue)].started = e.when]
                 /\ busy' = Head(queue)
                 /\ queue' = Tail(queue)
                 /\ Push(e, {Event(e.when + ServiceTime(e.when), "complete",
                                   Head(queue), serial)})
    /\ UNCHANGED <<tokens, token_updated, stopped, done>>

in_service == IF busy # Idle THEN 1 ELSE 0

\* The end of a window, after everything else of that instant.
Sample(e) ==
    /\ Pop(e, "sample")
    /\ windows' = [windows EXCEPT ![(e.when \div WindowSize) - 1] =
            [@ EXCEPT !["queue_depth_at_end"] = Len(queue),
                      !["in_service_at_end"] = in_service,
                      !["pending_originals_at_end"] =
                            Cardinality({r \in Requests : Pending(originals, r)})]]
    /\ Push(e, {})
    /\ UNCHANGED <<originals, attempts, queue, busy, tokens, token_updated, stopped, done, totals>>

\* The loop ends: no event is left, or the next one is beyond the end of the run.
FaultyFinish ==                                     \* Faulty: ends at Duration, not after
    /\ ~done
    /\ \A e \in events : e.when >= Duration
    /\ done' = TRUE
    /\ UNCHANGED <<run, events, serial, originals, attempts, queue, busy, tokens,
                   token_updated, stopped, now, totals, windows>>
StuckFinish ==                                      \* Faulty: waits for one more event
    /\ ~done
    /\ events # {} /\ \A e \in events : e.when > Duration
    /\ done' = TRUE
    /\ UNCHANGED <<run, events, serial, originals, attempts, queue, busy, tokens,
                   token_updated, stopped, now, totals, windows>>
Finish ==
    /\ ~done
    /\ \A e \in events : e.when > Duration
    /\ done' = TRUE
    /\ UNCHANGED <<run, events, serial, originals, attempts, queue, busy, tokens,
                   token_updated, stopped, now, totals, windows>>

Handle(e) ==
    \/ Arrival(e) \/ DeadlinePassed(e)
    \/ RetryStale(e) \/ RetryDenied(e) \/ RetryLaunched(e)
    \/ TimeoutAnswered(e) \/ TimeoutFailed(e)
    \/ Complete(e) \/ Sample(e)

Next == Finish \/ \E e \in events : Handle(e)

\* simulate runs in one thread that nothing interrupts.
Spec == Init /\ [][Next]_vars /\ WF_vars(Next)

-----------------------------------------------------------------------------
(* What the report of a finished run contains.                               *)

\* rows: only windows that have elapsed when the run ends.
Rows == {w \in Windows : (w + 1) * WindowSize <= now}

stop_reason == IF stopped THEN "attempt_cap" ELSE "observation_cutoff"

FaultyUnfinishedWork == Len(queue)                  \* Faulty: forgets the one in service
unfinished_server_work == Len(queue) + in_service

-----------------------------------------------------------------------------
(* Type correctness of the simulator's state.                                *)

Time == Nat
EventType == [when : Time, kind : DOMAIN PRIORITY, value : Nat, serial : Nat]
OriginalType == [arrived : Time \cup {NoTime}, attempts : Nat,
                 status : Terminal \cup {"absent", "pending"},
                 terminal_at : Time \cup {NoTime}]
AttemptType == [original : Requests, sent : Time, started : Time \cup {NoTime},
                completed : Time \cup {NoTime}, timed_out : BOOLEAN]

\* Every variable has its type: the type invariant of simulate's state.
TypeOK ==
    /\ run \in [policy : Policies, fault : FaultModes, schedule : Arrivals]
    /\ events \subseteq EventType
    /\ serial \in Nat
    /\ originals \in [Requests -> OriginalType]
    /\ attempts \in Seq(AttemptType)
    /\ queue \in Seq(DOMAIN attempts)
    /\ busy \in DOMAIN attempts \cup {Idle}
    /\ tokens \in 0..(TokenCapacity * TokenUnit)
    /\ token_updated \in 0..Duration
    /\ stopped \in BOOLEAN
    /\ now \in 0..Duration
    /\ totals \in [Counters -> Nat]
    /\ windows \in [Windows -> [Counters \cup Gauges -> Nat]]
    /\ done \in BOOLEAN

\* What the value of an event refers to, and when it can happen.
EventOK(e) ==
    /\ e.kind \in {"arrival", "deadline", "retry"} => e.value \in Requests
    /\ e.kind \in {"timeout", "complete"} => e.value \in DOMAIN attempts
    /\ e.when >= now

EventsOK == \A e \in events : EventOK(e)

ClockOK == token_updated <= now

-----------------------------------------------------------------------------
(* The server.                                                               *)

\* Every attempt sent was admitted or rejected, and every admitted one is
\* completed, waiting or in service: none is lost and a timeout removes none.
ServerConservation ==
    /\ totals["attempts"] = totals["admitted_attempts"] + totals["rejected_attempts"]
    /\ totals["admitted_attempts"] = Len(attempts)
    /\ totals["admitted_attempts"] = totals["completed_attempts"] + unfinished_server_work
    /\ totals["completed_attempts"] = totals["successes"] + totals["unused_completions"]

\* The server works on one attempt at a time, in order of admission, and is
\* never idle while one waits: attempt a starts when it is sent or when a - 1
\* ends, whichever is later, and keeps the service time fixed at its start,
\* even if the trigger ends meanwhile.
Served(a) ==
    LET this == attempts[a]
    IN  /\ this.started # NoTime =>
             \/ this.started = this.sent
                /\ (a > 1 => attempts[a - 1].completed \in 0..this.sent)
             \/ a > 1 /\ this.started > this.sent
                /\ this.started = attempts[a - 1].completed
        /\ this.started = NoTime => a > 1 /\ attempts[a - 1].completed = NoTime
        /\ this.completed # NoTime =>
             /\ this.started # NoTime
             /\ this.completed = this.started + ServiceTime(this.started)

OneServerInOrder == \A a \in DOMAIN attempts : Served(a)

\* The queue never holds more than its capacity, and the server is busy
\* whenever an attempt waits.
QueueBound ==
    /\ Len(queue) <= QueueCapacity
    /\ queue # << >> => busy # Idle

(* Why the server's properties hold: admitted attempts are completed in the   *)
(* order of their numbers, so that the completed ones are 1..c, the one in    *)
(* service is c + 1, and the queue holds the others in order.                 *)
ServerQueue ==
    LET c == totals["completed_attempts"]
    IN  /\ busy = Idle => queue = << >>
        /\ busy # Idle => busy = c + 1
        /\ \A i \in DOMAIN queue : queue[i] = c + 1 + i
        /\ Len(queue) <= QueueCapacity

ServerAttempts ==
    LET c == totals["completed_attempts"]
    IN  \A a \in DOMAIN attempts :
            /\ attempts[a].sent <= now /\ attempts[a].completed <= now
            /\ attempts[a].completed # NoTime <=> a <= c
            /\ attempts[a].started # NoTime <=> a <= c + in_service
            /\ Served(a)

\* The only completion in the heap is that of the attempt in service.
ServerEvents ==
    \A e \in events : e.kind = "complete" =>
        /\ e.value = busy
        /\ e.when = attempts[busy].started + ServiceTime(attempts[busy].started)
        /\ \A f \in events : f.kind = "complete" => f = e

ServerInv == ServerConservation /\ ServerQueue /\ ServerAttempts /\ ServerEvents

-----------------------------------------------------------------------------
(* The requests.                                                             *)

With(status) == {r \in Requests : originals[r].status = status}

\* Every request that arrived is pending, succeeded or failed for one reason,
\* and the counters of the report agree with the originals.
RequestConservation ==
    /\ totals["arrivals"] = totals["successes"] + totals["terminal_failures"]
                            + Cardinality(With("pending"))
    /\ totals["successes"] = Cardinality(With("success"))
    /\ totals["successes"] = totals["successes_pre_trigger"] + totals["successes_trigger"]
                             + totals["successes_post_trigger"]
    /\ \A reason \in FailureReason : totals[reason] = Cardinality(With(reason))
    /\ totals["rejected_attempts"] = totals["queue_rejected"]

\* What can still settle a pending request other than its deadline: an attempt
\* it still waits for, or a retry that is scheduled.
LiveAttempts(r) == {a \in DOMAIN attempts : /\ attempts[a].original = r
                                            /\ ~attempts[a].timed_out
                                            /\ attempts[a].completed = NoTime}
RetryEvents(r) == {e \in events : e.kind = "retry" /\ e.value = r}

\* While the run goes on, a pending request waits for exactly one attempt or
\* exactly one scheduled retry: it is never forgotten (no continuation left)
\* and never sends two attempts side by side.
LiveContinuation ==
    ~done => \A r \in With("pending") :
                Cardinality(LiveAttempts(r)) + Cardinality(RetryEvents(r)) = 1

\* An attempt counts as timed out exactly when its answer comes, or will come,
\* after its timeout: an answer at the very instant of the timeout is in time.
AnswerInTime ==
    \A a \in DOMAIN attempts :
        LET limit == attempts[a].sent + AttemptTimeout
        IN  IF attempts[a].completed = NoTime
            THEN IF attempts[a].timed_out THEN now >= limit
                 ELSE done \/ now <= limit
            ELSE attempts[a].timed_out <=> attempts[a].completed > limit

\* No request is pending after its deadline or settled later than that, and one
\* that is settled by its deadline is settled exactly then.
DeadlineKept ==
    \A r \in Requests :
        LET deadline == originals[r].arrived + OriginalDeadline
        IN  CASE originals[r].status = "absent" -> TRUE
              [] originals[r].status = "pending" -> now <= deadline
              [] originals[r].status = "deadline_expired" -> originals[r].terminal_at = deadline
              [] OTHER -> originals[r].terminal_at \in originals[r].arrived..deadline

\* A request succeeded exactly when one of its attempts was answered within the
\* attempt's timeout and by the request's deadline, at that very time; a late
\* answer never turns a failed request into a success.
InTime(a) ==
    LET r == attempts[a].original
    IN  /\ attempts[a].completed # NoTime
        /\ attempts[a].completed <= attempts[a].sent + AttemptTimeout
        /\ attempts[a].completed <= originals[r].arrived + OriginalDeadline

SuccessExplained ==
    \A r \in Requests :
        LET answers == {a \in DOMAIN attempts : attempts[a].original = r /\ InTime(a)}
        IN  /\ originals[r].status = "success" <=> answers # {}
            /\ \A a \in answers : originals[r].terminal_at = attempts[a].completed

\* A settled request stays settled, with the same outcome at the same time, and
\* an attempt that was answered or timed out stays so.
SettledForGood ==
    [][/\ \A r \in Requests : originals[r].status \in Terminal =>
            originals'[r] = originals[r]
       /\ \A a \in DOMAIN attempts :
            /\ a \in DOMAIN attempts'
            /\ attempts[a].completed # NoTime => attempts'[a] = attempts[a]
            /\ attempts[a].timed_out => attempts'[a].timed_out]_vars

-----------------------------------------------------------------------------
(* Retries.                                                                  *)

\* a is a later attempt of the same request than b.
Follows(a, b) == b < a /\ attempts[a].original = attempts[b].original

\* A request sends at most MaxAttempts attempts, one without a retry policy, and
\* each retry is sent after the previous attempt's timeout, later by no more
\* than the back-off limit of that attempt's number.
RetrySpacing ==
    /\ \A r \in Requests :
        originals[r].attempts <= IF run.policy = "none" THEN 1 ELSE MaxAttempts
    /\ \A a \in DOMAIN attempts :
        LET earlier == {b \in DOMAIN attempts : Follows(a, b)}
        IN  earlier # {} =>
              LET b == CHOOSE b \in earlier : \A c \in earlier : c <= b
                  limit == BackoffBase * 2^(Cardinality(earlier) - 1)
                  backoff == attempts[a].sent - (attempts[b].sent + AttemptTimeout)
              IN  0 <= backoff /\ backoff <= limit /\ backoff <= BackoffCap

\* Budget mode admits at most a burst of TokenCapacity retries plus the refill:
\* between any time and now, never more than the full bucket and what flowed in.
RetryBudget ==
    run.policy = "budget" =>
        \A s \in 0..now :
            LET retries == {a \in DOMAIN attempts :
                                /\ attempts[a].sent >= s
                                /\ \E b \in DOMAIN attempts : Follows(a, b)}
            IN  TokenUnit * Cardinality(retries)
                    <= TokenUnit * TokenCapacity + RefillPerTick * (now - s)

-----------------------------------------------------------------------------
(* The end of a run, and the timeline it reports.                            *)

\* A run never sends more attempts than its cap and is stopped only when it
\* would send another.  One that is not stopped has seen every arrival, has
\* settled every request whose deadline lies within the run, has completed all
\* service that ends by its end, and has all its windows elapsed.
EndExplained ==
    /\ totals["attempts"] <= AttemptCap
    /\ stopped => done /\ totals["attempts"] = AttemptCap
    /\ done /\ ~stopped =>
        /\ \A r \in DOMAIN run.schedule :
              /\ originals[r].arrived = run.schedule[r]
              /\ originals[r].arrived + OriginalDeadline <= Duration =>
                    originals[r].status \in Terminal
        /\ \A a \in DOMAIN attempts :
              attempts[a].completed = NoTime /\ attempts[a].started # NoTime =>
                    attempts[a].started + ServiceTime(attempts[a].started) > Duration
        /\ \A w \in Windows : (w + 1) * WindowSize <= Duration => w \in Rows

\* The gauges of window w agree with what the attempts and originals say of the
\* instant at which it ends.
GaugesTrue(w) ==
    LET end == (w + 1) * WindowSize
        open(from, to) == from # NoTime /\ from <= end /\ (to = NoTime \/ to > end)
    IN  /\ windows[w]["queue_depth_at_end"] =
              Cardinality({a \in DOMAIN attempts :
                                open(attempts[a].sent, attempts[a].started)})
        /\ windows[w]["in_service_at_end"] =
              Cardinality({a \in DOMAIN attempts :
                                open(attempts[a].started, attempts[a].completed)})
        /\ windows[w]["pending_originals_at_end"] =
              Cardinality({r \in Requests :
                                open(originals[r].arrived, originals[r].terminal_at)})

\* Window w counts what happened in it; the last one also what happened at the
\* very end of the run.
CountersTrue(w) ==
    LET within(t) == /\ t # NoTime
                     /\ w * WindowSize <= t
                     /\ t < (w + 1) * WindowSize \/ w = WindowCount - 1
    IN  /\ windows[w]["arrivals"] =
              Cardinality({r \in Requests : within(originals[r].arrived)})
        /\ windows[w]["successes"] =
              Cardinality({r \in With("success") : within(originals[r].terminal_at)})
        /\ windows[w]["completed_attempts"] =
              Cardinality({a \in DOMAIN attempts : within(attempts[a].completed)})

\* A run that is not stopped reports a true timeline: the counters of a window
\* are the events in it, the gauges the state at its end.
TimelineTrue ==
    ~stopped =>
        \A w \in Windows :
            /\ CountersTrue(w)
            /\ (w + 1) * WindowSize < now \/ (done /\ w \in Rows) => GaugesTrue(w)

\* simulate.py:179 says that truncated runs expose only elapsed windows.  Then
\* the rows of every run, stopped or not, show the state at the window's end.
RowsSampled == done => \A w \in Rows : GaugesTrue(w)

\* Every run ends.
RunEnds == <>done
=============================================================================
