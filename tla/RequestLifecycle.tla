--------------------------- MODULE RequestLifecycle ---------------------------
(***************************************************************************)
(* What the retry simulator promises for each request, seen by the client: *)
(* a request has one outcome, decided by its deadline; until then it waits *)
(* for one attempt, or for the back-off before the next one, and it makes  *)
(* a bounded number of attempts.  Server, queue, bucket and timers do not  *)
(* appear here.  RetrySim is shown to implement this specification.        *)
(***************************************************************************)
EXTENDS Integers

CONSTANTS
    Requests,
    MaxTries,       \* attempts per request
    Timeout,        \* how long the client waits for one attempt
    Deadline        \* how long it waits for the request

Failure == {"queue_rejected", "deadline_expired", "attempts_exhausted", "budget_denied"}

VARIABLES
    clock,          \* the time of the last step
    halted,         \* the experiment was cut short: nothing more is sent
    request         \* [phase, tries, arrived, sent] of each request

cvars == <<clock, halted, request>>

Open == {"waiting", "backing_off", "stranded"}

Init ==
    /\ clock = 0
    /\ halted = FALSE
    /\ request = [r \in Requests |->
                    [phase |-> "absent", tries |-> 0, arrived |-> 0, sent |-> 0]]

\* Time moves on; no open request outlives its deadline, and no attempt is
\* waited for longer than its timeout.
Advance(t) ==
    /\ ~halted
    /\ clock' = t
    /\ t >= clock
    /\ \A r \in Requests :
        /\ request[r].phase \in Open => t <= request[r].arrived + Deadline
        /\ request[r].phase = "waiting" => t <= request[r].sent + Timeout

Send(r, t) == [request EXCEPT ![r].phase = "waiting", ![r].tries = @ + 1, ![r].sent = t]

\* A request arrives and sends its first attempt; the attempt may be refused,
\* or the experiment halts before it is sent.
Arrive(r, t) ==
    /\ Advance(t)
    /\ request[r].phase = "absent"
    /\ \/ /\ request' = [request EXCEPT ![r] =
                [phase |-> "waiting", tries |-> 1, arrived |-> t, sent |-> t]]
          /\ UNCHANGED halted
       \/ /\ request' = [request EXCEPT ![r] =
                [phase |-> "queue_rejected", tries |-> 1, arrived |-> t, sent |-> 0]]
          /\ UNCHANGED halted
       \/ /\ request' = [request EXCEPT ![r] =
                [phase |-> "stranded", tries |-> 0, arrived |-> t, sent |-> 0]]
          /\ halted' = TRUE

\* The attempt waited for is answered.
Succeed(r, t) ==
    /\ Advance(t)
    /\ request[r].phase = "waiting"
    /\ request' = [request EXCEPT ![r].phase = "success", ![r].sent = 0]
    /\ UNCHANGED halted

\* The attempt waited for fails at its timeout, and the client backs off or
\* gives up; it gives up when its attempts are used up.
Fail(r, t) ==
    /\ Advance(t)
    /\ request[r].phase = "waiting"
    /\ t = request[r].sent + Timeout
    /\ \/ /\ request[r].tries < MaxTries
          /\ request' = [request EXCEPT ![r].phase = "backing_off", ![r].sent = 0]
       \/ request' = [request EXCEPT ![r].phase = "attempts_exhausted", ![r].sent = 0]
    /\ UNCHANGED halted

\* The back-off ends: the next attempt is sent, refused, not paid for, or not
\* sent because the experiment halts.
Retry(r, t) ==
    /\ Advance(t)
    /\ request[r].phase = "backing_off"
    /\ \/ /\ request' = Send(r, t)
          /\ UNCHANGED halted
       \/ /\ request' = [request EXCEPT ![r].phase = "queue_rejected", ![r].tries = @ + 1]
          /\ UNCHANGED halted
       \/ /\ request' = [request EXCEPT ![r].phase = "budget_denied"]
          /\ UNCHANGED halted
       \/ /\ request' = [request EXCEPT ![r].phase = "stranded"]
          /\ halted' = TRUE

\* The deadline settles whatever is still open.
Expire(r, t) ==
    /\ Advance(t)
    /\ request[r].phase \in {"waiting", "backing_off"}
    /\ t = request[r].arrived + Deadline
    /\ request' = [request EXCEPT ![r].phase = "deadline_expired", ![r].sent = 0]
    /\ UNCHANGED halted

\* Nothing that a client sees.
Pass(t) == Advance(t) /\ UNCHANGED <<halted, request>>

Step(t) ==
    \/ Pass(t)
    \/ \E r \in Requests :
        Arrive(r, t) \/ Succeed(r, t) \/ Fail(r, t) \/ Retry(r, t) \/ Expire(r, t)

\* Time jumps to whatever instant the next step happens at.
Next == clock' \in Nat /\ Step(clock')

Spec == Init /\ [][Next]_cvars
=============================================================================
