---------------------------- MODULE RetryLifecycle ----------------------------
(***************************************************************************)
(* The simulator implements the life cycle that RequestLifecycle promises  *)
(* a client: the refinement mapping.                                       *)
(***************************************************************************)
EXTENDS RetrySim

\* The phase of a request follows from its status and, while it is pending,
\* from what is on its way: an attempt it waits for or a scheduled retry.
PhaseOf(r) ==
    CASE originals[r].status # "pending" -> originals[r].status
      [] Pending(originals, r) /\ LiveAttempts(r) # {} -> "waiting"
      [] Pending(originals, r) /\ LiveAttempts(r) = {} /\ RetryEvents(r) # {} -> "backing_off"
      [] OTHER -> "stranded"

ClientView ==
    [r \in Requests |->
        [phase |-> PhaseOf(r),
         tries |-> originals[r].attempts,
         arrived |-> IF originals[r].status = "absent" THEN 0 ELSE originals[r].arrived,
         sent |-> IF PhaseOf(r) = "waiting"
                  THEN attempts[CHOOSE a \in LiveAttempts(r) : TRUE].sent
                  ELSE 0]]

Lifecycle == INSTANCE RequestLifecycle WITH
    MaxTries <- MaxAttempts,
    Timeout <- AttemptTimeout,
    Deadline <- OriginalDeadline,
    clock <- now,
    halted <- stopped,
    request <- ClientView

\* The simulation implements the client's life cycle: every run of the event
\* loop, seen through ClientView, is a behaviour of RequestLifecycle.
ImplementsLifecycle == Lifecycle!Spec
=============================================================================
