--------------------------- MODULE RetryReportProofs ---------------------------
(***************************************************************************)
(* What the report of the retry simulator says of the requests, for every  *)
(* value of its constants: the counters agree with the outcomes, retries   *)
(* keep their distance and their budget, a run that ends has settled what  *)
(* lies within it, and each window of its timeline shows what happened in  *)
(* that window.  Then, that the simulator implements the life cycle that   *)
(* RequestLifecycle promises a client: each iteration of the event loop,   *)
(* seen through ClientView, is a step of one request or none.              *)
(***************************************************************************)
EXTENDS RetryLifecycle, RetrySimProofs

-----------------------------------------------------------------------------
(* The counters of the requests.  Every handler moves at most one request     *)
(* from one status to another, and counts that move.                          *)

\* The counters that RequestConservation relates to the requests.
Tracked == {"arrivals", "successes", "terminal_failures", "rejected_attempts"}
           \cup Phases \cup FailureReason

Bumps(keys) == \A k \in Tracked : totals'[k] = IF k \in keys THEN totals[k] + 1 ELSE totals[k]

SameStatuses == \A q \in Requests : originals'[q].status = originals[q].status

Moves(r, from, to) ==
    /\ originals[r].status = from /\ originals'[r].status = to
    /\ \A q \in Requests : q # r => originals'[q].status = originals[q].status

FailureKeys(reason) == {"terminal_failures", reason}
                       \cup (IF reason = "queue_rejected" THEN {"rejected_attempts"} ELSE {})

Counted ==
    \/ SameStatuses /\ Bumps({})
    \/ \E r \in Requests : Moves(r, "absent", "pending") /\ Bumps({"arrivals"})
    \/ \E r \in Requests : /\ Moves(r, "absent", "queue_rejected")
                           /\ Bumps({"arrivals"} \cup FailureKeys("queue_rejected"))
    \/ \E r \in Requests, p \in Phases : /\ Moves(r, "pending", "success")
                                         /\ Bumps({"successes", p})
    \/ \E r \in Requests, reason \in FailureReason :
            Moves(r, "pending", reason) /\ Bumps(FailureKeys(reason))

LEMMA TrackedCounts ==
    ASSUME TypeInv, NEW t, NEW keys, Add(t, keys), NEW bumped, keys \cap Tracked = bumped
    PROVE  Bumps(bumped)
<1>1. Tracked \subseteq Counters
  BY DEF Tracked, Counters
<1> QED
  BY <1>1, AddCounts DEF Bumps

\* A request that is given up, if it is still pending.
LEMMA GiveUpCounts ==
    ASSUME TypeInv, NEW r \in Requests, NEW reason \in FailureReason \ {"queue_rejected"}, NEW t,
           originals' = Terminate(originals, r, reason, t),
           NEW keys, Add(t, keys), keys \cap Tracked = TerminateCounts(originals, r, reason)
    PROVE  Counted
<1>1. originals \in [Requests -> OriginalType]
  BY TypeFacts
<1>2. Bumps(TerminateCounts(originals, r, reason))
  BY TrackedCounts
<1>3. CASE Pending(originals, r)
  <2>1. Moves(r, "pending", reason)
    BY <1>1, <1>3 DEF Terminate, Moves, Pending, OriginalType
  <2>2. TerminateCounts(originals, r, reason) = FailureKeys(reason)
    BY <1>3 DEF TerminateCounts, FailureKeys, FailureReason
  <2> QED
    BY <1>2, <2>1, <2>2 DEF Counted
<1>4. CASE ~Pending(originals, r)
  <2>1. SameStatuses /\ TerminateCounts(originals, r, reason) = {}
    BY <1>4 DEF Terminate, SameStatuses, TerminateCounts
  <2> QED
    BY <1>2, <2>1 DEF Counted
<1> QED
  BY <1>3, <1>4

LEMMA LaunchCountsRequests ==
    ASSUME TypeInv, NEW e, e.when \in Nat, NEW r \in Requests,
           NEW o \in [Requests -> OriginalType], o[r].status = "pending",
           NEW keys \in SUBSET {"arrivals"}, NEW new, Launch(e, r, o, keys, new)
    PROVE  \/ originals'[r].status = "pending" /\ Bumps(keys)
           \/ /\ originals'[r].status = "queue_rejected"
              /\ Bumps(keys \cup FailureKeys("queue_rejected"))
<1> USE DEF Tracked, Phases, FailureReason
<1>1. CASE LaunchCapped(e, o, keys, new)
  <2>1. Add(e.when, keys) /\ keys \cap Tracked = keys /\ originals' = o
    BY <1>1 DEF LaunchCapped
  <2> QED
    BY <2>1, TrackedCounts
<1>2. CASE LaunchRejected(e, r, o, keys, new)
  <2> DEFINE tried == [o EXCEPT ![r].attempts = @ + 1]
             dropped == IF tried[r].attempts = 1 THEN {"dropped_arrivals"} ELSE {}
             all == keys \cup {"attempts", "rejected_attempts"} \cup dropped
                    \cup TerminateCounts(tried, r, "queue_rejected")
  <2>1. originals' = Terminate(tried, r, "queue_rejected", e.when) /\ Add(e.when, all)
    BY <1>2 DEF LaunchRejected
  <2>2. tried \in [Requests -> OriginalType] /\ tried[r].status = "pending"
    BY DEF OriginalType
  <2>3. dropped \subseteq {"dropped_arrivals"}
    OBVIOUS
  <2> HIDE DEF tried, dropped
  <2>4. TerminateCounts(tried, r, "queue_rejected") = {"terminal_failures", "queue_rejected"}
    BY <2>2 DEF TerminateCounts, Pending
  <2>5. all \cap Tracked = keys \cup FailureKeys("queue_rejected")
    BY <2>3, <2>4 DEF FailureKeys
  <2>6. originals'[r].status = "queue_rejected"
    BY <2>1, <2>2 DEF Terminate, Pending, OriginalType
  <2> HIDE DEF all
  <2> QED
    BY <2>1, <2>5, <2>6, TrackedCounts
<1>3. CASE LaunchAdmitted(e, r, o, keys, new)
  <2>1. /\ originals' = [o EXCEPT ![r].attempts = @ + 1]
        /\ Add(e.when, keys \cup {"attempts", "admitted_attempts"})
    BY <1>3 DEF LaunchAdmitted
  <2>2. originals'[r].status = "pending"
    BY <2>1 DEF OriginalType
  <2>3. (keys \cup {"attempts", "admitted_attempts"}) \cap Tracked = keys
    OBVIOUS
  <2> QED
    BY <2>1, <2>2, <2>3, TrackedCounts
<1> QED
  BY <1>1, <1>2, <1>3 DEF Launch

LEMMA ArrivalCounts == ASSUME TypeInv, ArrivesOnce, NEW e, Arrival(e) PROVE Counted
<1> DEFINE r == e.value
           arrived == [originals EXCEPT ![r] = [arrived |-> e.when, attempts |-> 0,
                                        status |-> "pending", terminal_at |-> NoTime]]
           new == {Event(e.when + OriginalDeadline, "deadline", r, serial)}
<1>1. Pop(e, "arrival") /\ Launch(e, r, arrived, {"arrivals"}, new)
  BY DEF Arrival
<1>2. e \in events /\ e.kind = "arrival" /\ r \in Requests /\ e.when \in Nat
  BY <1>1, PopFacts
<1>3. /\ arrived \in [Requests -> OriginalType] /\ arrived[r].status = "pending"
      /\ \A q \in Requests : q # r => arrived[q] = originals[q]
  BY <1>2, TypeFacts DEF OriginalType, Time
<1>4. originals[r].status = "absent"
  BY <1>2 DEF ArrivesOnce
<1>5. \A f \in new : f.kind # "arrival"
  BY DEF Event
<1> HIDE DEF arrived, new
<1>6. \A q \in Requests : q # r => originals'[q] = originals[q]
  BY <1>1, <1>2, <1>3, <1>5, LaunchChanges
<1>7. \/ originals'[r].status = "pending" /\ Bumps({"arrivals"})
      \/ /\ originals'[r].status = "queue_rejected"
         /\ Bumps({"arrivals"} \cup FailureKeys("queue_rejected"))
  <2>1. {"arrivals"} \in SUBSET {"arrivals"}
    OBVIOUS
  <2> QED
    BY <1>1, <1>2, <1>3, <2>1, LaunchCountsRequests
<1> QED
  BY <1>2, <1>4, <1>6, <1>7 DEF Counted, Moves

LEMMA RetryCounts ==
    ASSUME TypeInv, NEW e, RetryStale(e) \/ RetryDenied(e) \/ RetryLaunched(e)
    PROVE  Counted
<1>1. CASE RetryStale(e)
  BY <1>1 DEF RetryStale, Counted, SameStatuses, Bumps
<1>2. CASE RetryDenied(e)
  <2>1. e.value \in Requests
    BY <1>2, PopFacts DEF RetryDenied
  <2>2. TerminateCounts(originals, e.value, "budget_denied") \cap Tracked
          = TerminateCounts(originals, e.value, "budget_denied")
    BY DEF TerminateCounts, Tracked, FailureReason
  <2> QED
    BY <1>2, <2>1, <2>2, GiveUpCounts DEF RetryDenied, FailureReason
<1>3. CASE RetryLaunched(e)
  <2> DEFINE r == e.value
  <2>1. /\ Pop(e, "retry") /\ originals[r].status = "pending" /\ Launch(e, r, originals, {}, {})
    BY <1>3 DEF RetryLaunched, Pending
  <2>2. r \in Requests /\ e.when \in Nat /\ originals \in [Requests -> OriginalType]
    BY <2>1, PopFacts, TypeFacts
  <2>3. \A q \in Requests : q # r => originals'[q] = originals[q]
    BY <2>1, <2>2, LaunchChanges
  <2>4. \/ originals'[r].status = "pending" /\ Bumps({})
        \/ originals'[r].status = "queue_rejected" /\ Bumps(FailureKeys("queue_rejected"))
    <3>1. {} \in SUBSET {"arrivals"} /\ {} \cup FailureKeys("queue_rejected") = FailureKeys("queue_rejected")
      OBVIOUS
    <3>2. \/ originals'[r].status = "pending" /\ Bumps({})
          \/ /\ originals'[r].status = "queue_rejected"
             /\ Bumps({} \cup FailureKeys("queue_rejected"))
      BY <2>1, <2>2, <3>1, LaunchCountsRequests
    <3> QED
      BY <3>1, <3>2
  <2>5. "queue_rejected" \in FailureReason
    BY DEF FailureReason
  <2> QED
    BY <2>1, <2>2, <2>3, <2>4, <2>5 DEF Counted, Moves, SameStatuses
<1> QED
  BY <1>1, <1>2, <1>3

LEMMA DeadlineCounts == ASSUME TypeInv, NEW e, DeadlinePassed(e) PROVE Counted
<1>1. e.value \in Requests
  BY PopFacts DEF DeadlinePassed
<1>2. TerminateCounts(originals, e.value, "deadline_expired") \cap Tracked
        = TerminateCounts(originals, e.value, "deadline_expired")
  BY DEF TerminateCounts, Tracked, FailureReason
<1> QED
  BY <1>1, <1>2, GiveUpCounts DEF DeadlinePassed, FailureReason

LEMMA TimeoutCounts ==
    ASSUME TypeInv, NEW e, TimeoutAnswered(e) \/ TimeoutFailed(e)
    PROVE  Counted
<1>1. CASE TimeoutAnswered(e)
  BY <1>1 DEF TimeoutAnswered, Counted, SameStatuses, Bumps
<1>2. CASE TimeoutFailed(e)
  <2> DEFINE r == attempts[e.value].original
             keys == {"attempt_timeouts"} \cup TerminateCounts(originals, r, "attempts_exhausted")
  <2>1. \/ originals' = Terminate(originals, r, "attempts_exhausted", e.when) /\ Add(e.when, keys)
        \/ UNCHANGED originals /\ Add(e.when, {"attempt_timeouts"})
    BY <1>2 DEF TimeoutFailed
  <2>2. r \in Requests
    BY <1>2, PopFacts, AttemptFacts DEF TimeoutFailed
  <2>3. keys \cap Tracked = TerminateCounts(originals, r, "attempts_exhausted")
    BY DEF TerminateCounts, Tracked, FailureReason, Phases
  <2>4. {"attempt_timeouts"} \cap Tracked = {}
    BY DEF Tracked, FailureReason, Phases
  <2> HIDE DEF r, keys
  <2>5. CASE UNCHANGED originals /\ Add(e.when, {"attempt_timeouts"})
    BY <2>4, <2>5, TrackedCounts DEF Counted, SameStatuses
  <2> QED
    BY <2>1, <2>2, <2>3, <2>5, GiveUpCounts DEF FailureReason
<1> QED
  BY <1>1, <1>2

LEMMA AnswerCounts == ASSUME TypeInv, DeadlineInv, NEW e, Complete(e) PROVE Counted
<1> DEFINE r == attempts[e.value].original
<1>1. r \in Requests
  BY PopFacts, AttemptFacts DEF Complete
<1>2. originals \in [Requests -> OriginalType]
  BY TypeFacts
<1>3. CASE /\ Pending(originals, r) /\ originals' = Terminate(originals, r, "success", e.when)
           /\ Add(e.when, {"completed_attempts"} \cup TerminateCounts(originals, r, "success"))
  <2>1. originals[r].status = "pending"
    BY <1>3 DEF Pending
  <2>2. originals[r].arrived \in Int
    BY <1>1, <2>1, TypeFacts DEF DeadlineInv, Known
  <2>3. /\ TerminateCounts(originals, r, "success") = {"successes", Phase(originals[r].arrived)}
        /\ Phase(originals[r].arrived) \in Phases
    BY <1>3, <2>2, SuccessCounts
  <2> DEFINE p == Phase(originals[r].arrived)
  <2>4. Moves(r, "pending", "success")
    BY <1>1, <1>2, <1>3 DEF Terminate, Moves, Pending, OriginalType
  <2> HIDE DEF r, p
  <2>5. ({"completed_attempts"} \cup {"successes", p}) \cap Tracked = {"successes", p}
    BY <2>3 DEF Tracked, Phases, FailureReason, p
  <2>6. Bumps({"successes", p})
    BY <1>3, <2>3, <2>5, TrackedCounts DEF p
  <2> QED
    BY <1>1, <2>3, <2>4, <2>6 DEF Counted, p
<1>4. CASE UNCHANGED originals /\ Add(e.when, {"completed_attempts", "unused_completions"})
  <2>1. {"completed_attempts", "unused_completions"} \cap Tracked = {}
    BY DEF Tracked, Phases, FailureReason
  <2> QED
    BY <1>4, <2>1, TrackedCounts DEF Counted, SameStatuses
<1> QED
  BY <1>3, <1>4 DEF Complete

LEMMA EveryMoveCounted ==
    ASSUME TypeInv, ArrivesOnce, DeadlineInv, [Next]_vars
    PROVE  Counted
<1>1. CASE Finish \/ UNCHANGED vars \/ \E e \in events : Sample(e)
  BY <1>1 DEF Finish, vars, Sample, Counted, SameStatuses, Bumps
<1>2. ASSUME NEW e, Handle(e), ~Sample(e) PROVE Counted
  BY <1>2, ArrivalCounts, RetryCounts, DeadlineCounts, TimeoutCounts, AnswerCounts DEF Handle
<1> QED
  BY <1>1, <1>2 DEF Next

-----------------------------------------------------------------------------
(* From counting moves to counting requests.                                 *)

LEMMA WithFinite ==
    \A status : /\ IsFiniteSet(With(status)) /\ Cardinality(With(status)) \in Nat
                /\ IsFiniteSet(With(status)') /\ Cardinality(With(status)') \in Nat
<1>1. IsFiniteSet(Requests)
  BY FS_Interval, RetrySimAssumption DEF Requests
<1>2. \A status : With(status) \subseteq Requests /\ With(status)' \subseteq Requests
  BY DEF With
<1> QED
  BY <1>1, <1>2, FS_Subset, FS_CardinalityType

LEMMA MoveCards ==
    ASSUME NEW r \in Requests, NEW from, NEW to, from # to, Moves(r, from, to)
    PROVE  /\ Cardinality(With(from))' = Cardinality(With(from)) - 1
           /\ Cardinality(With(to))' = Cardinality(With(to)) + 1
           /\ \A s : s # from /\ s # to => Cardinality(With(s))' = Cardinality(With(s))
<1>1. With(from)' = With(from) \ {r} /\ r \in With(from)
  BY DEF With, Moves
<1>2. With(to)' = With(to) \cup {r} /\ r \notin With(to)
  BY DEF With, Moves
<1>3. \A s : s # from /\ s # to => With(s)' = With(s)
  BY DEF With, Moves
<1>4. Cardinality(With(from))' = Cardinality(With(from)) - 1
  BY <1>1, WithFinite, FS_RemoveElement
<1>5. Cardinality(With(to))' = Cardinality(With(to)) + 1
  BY <1>2, WithFinite, FS_AddElement
<1> QED
  BY <1>3, <1>4, <1>5

LEMMA ConservationStep ==
    ASSUME TypeInv, RequestConservation, Counted
    PROVE  RequestConservation'
<1> DEFINE card(s) == Cardinality(With(s))
<1>1. /\ \A k \in Tracked : totals[k] \in Nat
      /\ {"arrivals", "successes", "terminal_failures", "rejected_attempts",
          "successes_pre_trigger", "successes_trigger", "successes_post_trigger",
          "queue_rejected"} \subseteq Tracked
      /\ FailureReason \subseteq Tracked
  <2>1. Tracked \subseteq Counters
    BY DEF Tracked, Counters
  <2> QED
    BY <2>1, TypeFacts DEF Tracked, Phases, FailureReason
<1>2. \A s : card(s) \in Nat
  BY WithFinite
<1>3. /\ totals["arrivals"] = totals["successes"] + totals["terminal_failures"] + card("pending")
      /\ totals["successes"] = card("success")
      /\ totals["successes"] = totals["successes_pre_trigger"] + totals["successes_trigger"]
                               + totals["successes_post_trigger"]
      /\ \A reason \in FailureReason : totals[reason] = card(reason)
      /\ totals["rejected_attempts"] = totals["queue_rejected"]
  BY DEF RequestConservation
<1>4. "queue_rejected" \in FailureReason /\ "success" \notin FailureReason
      /\ "pending" \notin FailureReason /\ "absent" \notin FailureReason
      /\ "terminal_failures" \notin FailureReason /\ "rejected_attempts" \notin FailureReason
      /\ "arrivals" \notin FailureReason /\ "successes" \notin FailureReason
      /\ Phases \cap FailureReason = {}
      /\ Phases = {"successes_pre_trigger", "successes_trigger", "successes_post_trigger"}
  BY DEF FailureReason, Phases
<1> SUFFICES
      /\ totals'["arrivals"] = totals'["successes"] + totals'["terminal_failures"] + card("pending")'
      /\ totals'["successes"] = card("success")'
      /\ totals'["successes"] = totals'["successes_pre_trigger"] + totals'["successes_trigger"]
                                + totals'["successes_post_trigger"]
      /\ \A reason \in FailureReason : totals'[reason] = card(reason)'
      /\ totals'["rejected_attempts"] = totals'["queue_rejected"]
  BY DEF RequestConservation
<1>5. CASE SameStatuses /\ Bumps({})
  <2>1. \A s : card(s)' = card(s)
    <3>1. \A s : With(s)' = With(s)
      BY <1>5 DEF With, SameStatuses
    <3> QED
      BY <3>1
  <2> HIDE DEF card
  <2> QED
    BY <1>1, <1>3, <1>5, <2>1 DEF Bumps
<1>6. ASSUME NEW r \in Requests, Moves(r, "absent", "pending"), Bumps({"arrivals"})
      PROVE  /\ totals'["arrivals"] = totals'["successes"] + totals'["terminal_failures"] + card("pending")'
             /\ totals'["successes"] = card("success")'
             /\ totals'["successes"] = totals'["successes_pre_trigger"] + totals'["successes_trigger"]
                                       + totals'["successes_post_trigger"]
             /\ \A reason \in FailureReason : totals'[reason] = card(reason)'
             /\ totals'["rejected_attempts"] = totals'["queue_rejected"]
  <2>1. /\ card("pending")' = card("pending") + 1
        /\ \A s : s # "absent" /\ s # "pending" => card(s)' = card(s)
    BY <1>6, MoveCards
  <2> HIDE DEF card
  <2>2. /\ totals'["arrivals"] = totals["arrivals"] + 1 /\ totals'["successes"] = totals["successes"]
        /\ totals'["terminal_failures"] = totals["terminal_failures"]
        /\ totals'["rejected_attempts"] = totals["rejected_attempts"]
        /\ \A reason \in FailureReason : totals'[reason] = totals[reason]
        /\ \A q \in Phases : totals'[q] = totals[q]
    BY <1>1, <1>4, <1>6 DEF Bumps
  <2> QED
    BY <1>1, <1>2, <1>3, <1>4, <1>6, <2>1, <2>2
<1>7. ASSUME NEW r \in Requests, Moves(r, "absent", "queue_rejected"),
             Bumps({"arrivals"} \cup FailureKeys("queue_rejected"))
      PROVE  /\ totals'["arrivals"] = totals'["successes"] + totals'["terminal_failures"] + card("pending")'
             /\ totals'["successes"] = card("success")'
             /\ totals'["successes"] = totals'["successes_pre_trigger"] + totals'["successes_trigger"]
                                       + totals'["successes_post_trigger"]
             /\ \A reason \in FailureReason : totals'[reason] = card(reason)'
             /\ totals'["rejected_attempts"] = totals'["queue_rejected"]
  <2>1. /\ card("queue_rejected")' = card("queue_rejected") + 1
        /\ \A s : s # "absent" /\ s # "queue_rejected" => card(s)' = card(s)
    BY <1>7, MoveCards
  <2>2. {"arrivals"} \cup FailureKeys("queue_rejected")
          = {"arrivals", "terminal_failures", "queue_rejected", "rejected_attempts"}
    BY DEF FailureKeys
  <2> HIDE DEF card
  <2> QED
    BY <1>1, <1>2, <1>3, <1>4, <1>7, <2>1, <2>2 DEF Bumps
<1>8. ASSUME NEW r \in Requests, NEW p \in Phases, Moves(r, "pending", "success"),
             Bumps({"successes", p})
      PROVE  /\ totals'["arrivals"] = totals'["successes"] + totals'["terminal_failures"] + card("pending")'
             /\ totals'["successes"] = card("success")'
             /\ totals'["successes"] = totals'["successes_pre_trigger"] + totals'["successes_trigger"]
                                       + totals'["successes_post_trigger"]
             /\ \A reason \in FailureReason : totals'[reason] = card(reason)'
             /\ totals'["rejected_attempts"] = totals'["queue_rejected"]
  <2>1. /\ card("pending")' = card("pending") - 1 /\ card("success")' = card("success") + 1
        /\ \A s : s # "pending" /\ s # "success" => card(s)' = card(s)
    BY <1>8, MoveCards
  <2> HIDE DEF card
  <2>2. /\ totals'["arrivals"] = totals["arrivals"] /\ totals'["successes"] = totals["successes"] + 1
        /\ totals'["terminal_failures"] = totals["terminal_failures"]
        /\ totals'["rejected_attempts"] = totals["rejected_attempts"]
        /\ \A reason \in FailureReason : totals'[reason] = totals[reason]
        /\ \A q \in Phases : totals'[q] = IF q = p THEN totals[q] + 1 ELSE totals[q]
    <3>1. p \notin FailureReason /\ p \in {"successes_pre_trigger", "successes_trigger", "successes_post_trigger"}
      BY <1>4, <1>8
    <3> QED
      BY <1>1, <1>4, <1>8, <3>1 DEF Bumps
  <2> QED
    BY <1>1, <1>2, <1>3, <1>4, <1>8, <2>1, <2>2
<1>9. ASSUME NEW r \in Requests, NEW why \in FailureReason, Moves(r, "pending", why),
             Bumps(FailureKeys(why))
      PROVE  /\ totals'["arrivals"] = totals'["successes"] + totals'["terminal_failures"] + card("pending")'
             /\ totals'["successes"] = card("success")'
             /\ totals'["successes"] = totals'["successes_pre_trigger"] + totals'["successes_trigger"]
                                       + totals'["successes_post_trigger"]
             /\ \A reason \in FailureReason : totals'[reason] = card(reason)'
             /\ totals'["rejected_attempts"] = totals'["queue_rejected"]
  <2>1. /\ card("pending")' = card("pending") - 1 /\ card(why)' = card(why) + 1
        /\ \A s : s # "pending" /\ s # why => card(s)' = card(s)
    BY <1>4, <1>9, MoveCards
  <2> HIDE DEF card
  <2>2. /\ totals'["arrivals"] = totals["arrivals"] /\ totals'["successes"] = totals["successes"]
        /\ totals'["terminal_failures"] = totals["terminal_failures"] + 1
        /\ totals'["rejected_attempts"] = IF why = "queue_rejected" THEN totals["rejected_attempts"] + 1
                                          ELSE totals["rejected_attempts"]
        /\ \A reason \in FailureReason :
              totals'[reason] = IF reason = why THEN totals[reason] + 1 ELSE totals[reason]
        /\ \A q \in Phases : totals'[q] = totals[q]
    BY <1>1, <1>4, <1>9 DEF Bumps, FailureKeys
  <2> QED
    BY <1>1, <1>2, <1>3, <1>4, <1>9, <2>1, <2>2
<1> QED
  BY <1>5, <1>6, <1>7, <1>8, <1>9 DEF Counted

LEMMA InitConservation == Init => RequestConservation
<1> SUFFICES ASSUME Init PROVE RequestConservation
  OBVIOUS
<1>1. \A k \in Counters : totals[k] = 0
  BY DEF Init
<1>2. {"arrivals", "successes", "terminal_failures", "rejected_attempts", "successes_pre_trigger",
       "successes_trigger", "successes_post_trigger", "queue_rejected"} \cup FailureReason
        \subseteq Counters
  BY DEF Counters, Phases, FailureReason
<1>3. \A s : s # "absent" => With(s) = {}
  BY DEF Init, With
<1>4. \A s : s # "absent" => Cardinality(With(s)) = 0
  BY <1>3, FS_EmptySet
<1>5. \A reason \in FailureReason : reason # "absent"
  BY DEF FailureReason
<1>6. /\ totals["arrivals"] = 0 /\ totals["successes"] = 0 /\ totals["terminal_failures"] = 0
      /\ totals["rejected_attempts"] = 0 /\ totals["queue_rejected"] = 0
      /\ totals["successes_pre_trigger"] = 0 /\ totals["successes_trigger"] = 0
      /\ totals["successes_post_trigger"] = 0
      /\ \A reason \in FailureReason : totals[reason] = 0
  BY <1>1, <1>2
<1> QED
  BY <1>4, <1>5, <1>6 DEF RequestConservation

\* Every request that arrived is pending, succeeded or failed for one reason, and
\* each counter of the report is the number of requests it claims to count: no
\* handler settles a request without counting it, or counts it twice.
THEOREM RequestsConserved == Spec => []RequestConservation
<1>1. /\ TypeInv /\ ArrivesOnce /\ DeadlineInv /\ RequestConservation /\ [Next]_vars
      => RequestConservation'
  BY EveryMoveCounted, ConservationStep
<1> QED
  BY <1>1, InitConservation, TypeInvariance, DeadlineInvariance, PTL DEF Spec

-----------------------------------------------------------------------------
(* Which attempts are retries, and what a step does to them.                 *)

Earlier(a) == {b \in DOMAIN attempts : Follows(a, b)}

LEMMA OneAdded ==
    ASSUME TypeInv, NEW e, Effect(e)
    PROVE  \/ DOMAIN attempts' = DOMAIN attempts
           \/ /\ e.kind \in {"arrival", "retry"} /\ e.value \in Requests
              /\ AttemptAdded(e.value, e.when)
<1>1. CASE QuietEffect(e)
  BY <1>1 DEF QuietEffect
<1>2. CASE ArrivalEffect(e)
  BY <1>2 DEF ArrivalEffect, LaunchEffect
<1>3. CASE RetryEffect(e)
  BY <1>3 DEF RetryEffect, LaunchEffect
<1>4. CASE FailEffect(e)
  BY <1>4 DEF FailEffect
<1>5. CASE CompleteEffect(e)
  BY <1>5 DEF CompleteEffect, AttemptEnded
<1> QED
  BY <1>1, <1>2, <1>3, <1>4, <1>5 DEF Effect

\* The attempts before an attempt stay the same for good.
LEMMA EarlierStays ==
    ASSUME TypeInv, TypeInv', NEW e, Effect(e), NEW a \in DOMAIN attempts
    PROVE  Earlier(a)' = Earlier(a)
<1>1. /\ DOMAIN attempts \subseteq DOMAIN attempts'
      /\ \A b \in DOMAIN attempts : attempts'[b].original = attempts[b].original
  BY AttemptsStep
<1>2. DOMAIN attempts = 1..Len(attempts) /\ Len(attempts) \in Nat
  BY AttemptFacts
<1>3. DOMAIN attempts' \subseteq Nat
  BY <1>2, OneAdded DEF AttemptAdded, NextAttempt
<1>4. \A b \in DOMAIN attempts' : 1 <= b
  BY <1>2, OneAdded DEF AttemptAdded, NextAttempt
<1>5. \A b \in DOMAIN attempts' : b < a => b \in DOMAIN attempts
  BY <1>2, <1>3, <1>4
<1> QED
  BY <1>1, <1>5 DEF Earlier, Follows

\* The first attempt of a request is not a retry; only a retry event sends one.
LEMMA RetriesAdded ==
    ASSUME TypeInv, TypeInv', Known, NEW e, Effect(e),
           NEW a \in DOMAIN attempts' \ DOMAIN attempts
    PROVE  /\ a = NextAttempt /\ attempts'[a].sent = e.when /\ attempts'[a].original = e.value
           /\ Earlier(a)' = {b \in DOMAIN attempts : attempts[b].original = e.value}
           /\ e.kind = "arrival" => Earlier(a)' = {}
           /\ e.kind \in {"arrival", "retry"} /\ e.value \in Requests
<1>1. /\ e.kind \in {"arrival", "retry"} /\ e.value \in Requests /\ AttemptAdded(e.value, e.when)
  BY OneAdded
<1>2. a = NextAttempt
  BY <1>1 DEF AttemptAdded
<1>3. DOMAIN attempts = 1..Len(attempts) /\ Len(attempts) \in Nat
  BY AttemptFacts
<1>4. \A b \in DOMAIN attempts' : b < a <=> b \in DOMAIN attempts
  BY <1>1, <1>2, <1>3 DEF AttemptAdded, NextAttempt
<1>5. /\ DOMAIN attempts \subseteq DOMAIN attempts'
      /\ \A b \in DOMAIN attempts : attempts'[b].original = attempts[b].original
      /\ attempts'[a].original = e.value /\ attempts'[a].sent = e.when
  BY AttemptsStep
<1>6. Earlier(a)' = {b \in DOMAIN attempts : attempts[b].original = e.value}
  BY <1>4, <1>5 DEF Earlier, Follows
<1>7. ASSUME e.kind = "arrival" PROVE \A b \in DOMAIN attempts : attempts[b].original # e.value
  <2>1. originals[e.value].status = "absent"
    BY <1>7 DEF Effect, QuietEffect, ArrivalEffect, RetryEffect, FailEffect, CompleteEffect
  <2> QED
    BY <2>1 DEF Known
<1> QED
  BY <1>1, <1>2, <1>5, <1>6, <1>7

-----------------------------------------------------------------------------
(* The retry bucket.  What has been spent since any time s, and what is left  *)
(* in the bucket, never exceed a full bucket and what flowed in since s.      *)

Resent(s) == {a \in DOMAIN attempts : attempts[a].sent >= s /\ Earlier(a) # {}}

Spent(s) ==
    TokenUnit * Cardinality(Resent(s)) + tokens
        <= TokenUnit * TokenCapacity + RefillPerTick * (token_updated - s)

BudgetInv ==
    run.policy = "budget" =>
        /\ \A s \in 0..token_updated : Spent(s)
        /\ \A a \in Resent(0) : attempts[a].sent <= token_updated

\* Only a retry that is pending touches the bucket.
LEMMA TokenStep ==
    ASSUME TypeInv, NEW e \in events, Handle(e)
    PROVE  \/ UNCHANGED <<tokens, token_updated>>
              /\ (e.kind = "retry" /\ run.policy = "budget" => UNCHANGED attempts)
           \/ /\ e.kind = "retry" /\ run.policy = "budget" /\ token_updated' = e.when
              /\ \/ tokens' = Refilled(e.when) /\ UNCHANGED attempts
                 \/ tokens' = Refilled(e.when) - TokenUnit /\ Refilled(e.when) >= TokenUnit
<1>1. CASE Arrival(e)
  BY <1>1 DEF Arrival, Pop
<1>2. CASE DeadlinePassed(e)
  BY <1>2 DEF DeadlinePassed, Pop
<1>3. CASE RetryStale(e)
  BY <1>3 DEF RetryStale
<1>4. CASE RetryDenied(e)
  BY <1>4 DEF RetryDenied, Pop
<1>5. CASE RetryLaunched(e)
  BY <1>5 DEF RetryLaunched, Pop
<1>6. CASE TimeoutAnswered(e)
  BY <1>6 DEF TimeoutAnswered, Pop
<1>7. CASE TimeoutFailed(e)
  BY <1>7 DEF TimeoutFailed, Pop
<1>8. CASE Complete(e)
  BY <1>8 DEF Complete, Pop
<1>9. CASE Sample(e)
  BY <1>9 DEF Sample, Pop
<1> QED
  BY <1>1, <1>2, <1>3, <1>4, <1>5, <1>6, <1>7, <1>8, <1>9 DEF Handle

LEMMA ResentFinite ==
    ASSUME TypeInv, NEW s
    PROVE  IsFiniteSet(Resent(s)) /\ Cardinality(Resent(s)) \in Nat
<1>1. IsFiniteSet(DOMAIN attempts) /\ Resent(s) \subseteq DOMAIN attempts
  BY AttemptFacts, FS_Interval DEF Resent
<1> QED
  BY <1>1, FS_Subset, FS_CardinalityType

LEMMA ResentStep ==
    ASSUME TypeInv, TypeInv', Known, NEW e, Effect(e), NEW s \in Nat
    PROVE  \/ Resent(s)' = Resent(s)
           \/ /\ e.kind = "retry" /\ attempts' # attempts /\ s <= e.when
              /\ Resent(s)' = Resent(s) \cup {NextAttempt} /\ NextAttempt \notin Resent(s)
<1>1. /\ DOMAIN attempts \subseteq DOMAIN attempts'
      /\ \A b \in DOMAIN attempts : attempts'[b].sent = attempts[b].sent
  BY AttemptsStep
<1>2. \A a \in DOMAIN attempts : Earlier(a)' = Earlier(a)
  BY EarlierStays
<1>3. ASSUME NEW a \in DOMAIN attempts' \ DOMAIN attempts, attempts'[a].sent >= s, Earlier(a)' # {}
      PROVE  a = NextAttempt /\ e.kind = "retry" /\ attempts' # attempts /\ s <= e.when
  BY <1>3, RetriesAdded
<1> DEFINE added == {a \in DOMAIN attempts' \ DOMAIN attempts :
                        attempts'[a].sent >= s /\ Earlier(a)' # {}}
           after == {a \in DOMAIN attempts' : attempts'[a].sent >= s /\ Earlier(a)' # {}}
           before == {a \in DOMAIN attempts : attempts[a].sent >= s /\ Earlier(a) # {}}
<1>4. after = before \cup added
  BY <1>1, <1>2
<1>5. Resent(s)' = after /\ Resent(s) = before
  BY DEF Resent
<1>6. added = {} \/ /\ added = {NextAttempt} /\ e.kind = "retry" /\ attempts' # attempts
                    /\ s <= e.when /\ NextAttempt \notin DOMAIN attempts
  BY <1>3
<1> HIDE DEF added
<1> QED
  BY <1>4, <1>5, <1>6

LEMMA BudgetStep ==
    ASSUME TypeInv, TypeInv', Known, BudgetInv, NEW e \in events, Handle(e), Effect(e)
    PROVE  BudgetInv'
<1> SUFFICES ASSUME run.policy = "budget"
             PROVE  /\ \A s \in 0..token_updated' : Spent(s)'
                    /\ \A a \in Resent(0)' : attempts'[a].sent <= token_updated'
  <2>1. run' = run
    BY DEF Effect, Handled
  <2> QED
    BY <2>1 DEF BudgetInv
<1>1. /\ \A s \in 0..token_updated : Spent(s)
      /\ \A a \in Resent(0) : attempts[a].sent <= token_updated
  BY DEF BudgetInv
<1>2. /\ token_updated \in Nat /\ token_updated <= e.when /\ e.when \in Nat
      /\ tokens \in Nat /\ tokens <= TokenCapacity * TokenUnit
  BY TypeFacts, RetrySimAssumption, HandledFirst
<1>3. CASE /\ UNCHANGED <<tokens, token_updated>>
           /\ (e.kind = "retry" /\ run.policy = "budget" => UNCHANGED attempts)
  <2>1. \A s \in Nat : Resent(s)' = Resent(s)
    BY <1>3, ResentStep
  <2>2. \A s \in 0..token_updated' : Spent(s)'
    BY <1>1, <1>3, <2>1 DEF Spent
  <2>3. \A a \in Resent(0)' : a \in DOMAIN attempts /\ attempts'[a].sent = attempts[a].sent
    BY <2>1, AttemptsStep DEF Resent
  <2> QED
    BY <1>1, <1>3, <2>1, <2>2, <2>3
<1>4. CASE /\ e.kind = "retry" /\ token_updated' = e.when
           /\ \/ tokens' = Refilled(e.when) /\ UNCHANGED attempts
              \/ tokens' = Refilled(e.when) - TokenUnit /\ Refilled(e.when) >= TokenUnit
  <2> DEFINE filled == Refilled(e.when)
             full == TokenUnit * TokenCapacity
             inflow == RefillPerTick * (e.when - token_updated)
  <2>1. filled \in Nat /\ filled <= full /\ filled <= tokens + inflow
        /\ full \in Nat /\ inflow \in Nat /\ TokenUnit \in Nat /\ RefillPerTick \in Nat
    <3>1. /\ TokenCapacity * TokenUnit = full /\ full \in Nat
          /\ TokenUnit \in Nat /\ RefillPerTick \in Nat
      BY RetrySimAssumption
    <3>2. (e.when - token_updated) * RefillPerTick = inflow /\ inflow \in Nat
      <4>1. e.when - token_updated \in Nat /\ RefillPerTick \in Nat
        BY <1>2, RetrySimAssumption
      <4> QED
        BY <4>1
    <3>3. filled = Least(full, tokens + inflow)
      BY <3>1, <3>2 DEF Refilled
    <3>4. tokens + inflow \in Nat
      BY <1>2, <3>2
    <3> HIDE DEF filled, full, inflow
    <3> QED
      BY <3>1, <3>2, <3>3, <3>4, LeastNat
  <2>2. ASSUME NEW s \in 0..e.when PROVE Spent(s)'
    <3> DEFINE used == Cardinality(Resent(s))
               since == RefillPerTick * (token_updated - s)
               whole == RefillPerTick * (e.when - s)
    <3>1. used \in Nat /\ s \in Nat
      BY ResentFinite
    <3>2. TokenUnit * Cardinality(Resent(s))' + tokens' <= TokenUnit * used + filled
      <4>1. CASE Resent(s)' = Resent(s)
        <5>1. tokens' <= filled /\ tokens' \in Int
          BY <1>4, <2>1
        <5>2. TokenUnit * used \in Int
          BY <2>1, <3>1
        <5> HIDE DEF filled
        <5> QED
          BY <2>1, <4>1, <5>1, <5>2
      <4>2. CASE /\ attempts' # attempts /\ Resent(s)' = Resent(s) \cup {NextAttempt}
                 /\ NextAttempt \notin Resent(s)
        <5>1. Cardinality(Resent(s))' = used + 1
          BY <4>2, ResentFinite, FS_AddElement
        <5>2. tokens' = filled - TokenUnit
          BY <1>4, <4>2
        <5>3. TokenUnit * (used + 1) = TokenUnit * used + TokenUnit /\ TokenUnit * used \in Int
          BY <2>1, <3>1
        <5> HIDE DEF filled, used
        <5> QED
          BY <2>1, <5>1, <5>2, <5>3
      <4> QED
        BY <3>1, <4>1, <4>2, ResentStep
    <3>3. TokenUnit * used + filled <= full + whole
      <4>1. CASE s <= token_updated
        <5>1. TokenUnit * used + tokens <= full + since
          BY <1>1, <1>2, <3>1, <4>1 DEF Spent
        <5>2. since + inflow = whole /\ since \in Int /\ whole \in Int
          BY <1>2, <2>1, <3>1
        <5>3. TokenUnit * used \in Int
          BY <2>1, <3>1
        <5> HIDE DEF filled, full, inflow, used, since, whole
        <5> QED
          BY <1>2, <2>1, <5>1, <5>2, <5>3
      <4>2. CASE s > token_updated
        <5>1. Resent(s) = {}
          <6>1. \A a \in DOMAIN attempts : attempts[a].sent \in Nat
            BY AttemptFacts
          <6> QED
            BY <1>1, <1>2, <3>1, <4>2, <6>1 DEF Resent
        <5>2. used = 0
          BY <5>1, FS_EmptySet
        <5>3. TokenUnit * used = 0
          BY <2>1, <5>2
        <5>4. whole \in Nat
          <6>1. e.when - s \in Nat
            BY <1>2, <2>2
          <6> QED
            BY <2>1, <6>1
        <5> HIDE DEF filled, full, used, whole
        <5> QED
          BY <2>1, <5>3, <5>4
      <4> QED
        BY <1>2, <3>1, <4>1, <4>2
    <3>4. token_updated' = e.when
      BY <1>4
    <3>5. Spent(s)' <=> TokenUnit * Cardinality(Resent(s))' + tokens' <= full + whole
      BY <3>4 DEF Spent
    <3>6. /\ TokenUnit * Cardinality(Resent(s))' + tokens' \in Int
          /\ TokenUnit * used + filled \in Int /\ full + whole \in Int
      <4>1. Cardinality(Resent(s))' \in Nat
        <5>1. IsFiniteSet(Resent(s)')
          BY <3>1, ResentFinite, ResentStep, FS_AddElement
        <5> QED
          BY <5>1, FS_CardinalityType
      <4>2. TokenUnit * Cardinality(Resent(s))' \in Int /\ TokenUnit * used \in Int
        BY <2>1, <3>1, <4>1
      <4>3. tokens' \in Int
        BY <1>4, <2>1
      <4>4. whole \in Int
        BY <1>2, <2>1, <3>1
      <4> HIDE DEF filled, full, used, whole
      <4> QED
        BY <2>1, <4>2, <4>3, <4>4
    <3> HIDE DEF filled, full, used, whole
    <3> QED
      BY <3>2, <3>3, <3>5, <3>6
  <2>3. ASSUME NEW a \in Resent(0)' PROVE attempts'[a].sent <= e.when
    <3>1. a \in DOMAIN attempts'
      BY <2>3 DEF Resent
    <3>2. CASE a \in DOMAIN attempts
      <4>1. a \in Resent(0)
        <5>1. Resent(0)' = Resent(0) \/ Resent(0)' = Resent(0) \cup {NextAttempt}
          BY ResentStep
        <5>2. a # NextAttempt
          BY <3>2, AttemptFacts DEF NextAttempt
        <5> QED
          BY <2>3, <5>1, <5>2
      <4>2. attempts'[a].sent = attempts[a].sent /\ attempts[a].sent \in Nat
        BY <3>2, AttemptsStep, AttemptFacts
      <4> QED
        BY <1>1, <1>2, <4>1, <4>2
    <3>3. CASE a \notin DOMAIN attempts
      BY <1>2, <3>1, <3>3, AttemptsStep
    <3> QED
      BY <3>2, <3>3
  <2> QED
    BY <1>4, <2>2, <2>3
<1> QED
  BY <1>3, <1>4, TokenStep

LEMMA InitBudget == Init => BudgetInv
<1> SUFFICES ASSUME Init PROVE BudgetInv
  OBVIOUS
<1>1. attempts = << >> /\ tokens = TokenCapacity * TokenUnit /\ token_updated = 0
  BY DEF Init
<1>2. \A s : Resent(s) = {}
  BY <1>1 DEF Resent
<1>3. \A s : Cardinality(Resent(s)) = 0
  BY <1>2, FS_EmptySet
<1>4. Spent(0)
  BY <1>1, <1>3, RetrySimAssumption DEF Spent
<1>5. 0..token_updated = {0}
  BY <1>1
<1> QED
  BY <1>2, <1>4, <1>5 DEF BudgetInv

LEMMA BudgetBounds == TypeInv /\ BudgetInv => RetryBudget
<1> SUFFICES ASSUME TypeInv, BudgetInv, run.policy = "budget", NEW s \in 0..now
             PROVE  TokenUnit * Cardinality(Resent(s))
                        <= TokenUnit * TokenCapacity + RefillPerTick * (now - s)
  <2>1. \A s : Resent(s) = {a \in DOMAIN attempts :
                               /\ attempts[a].sent >= s
                               /\ \E b \in DOMAIN attempts : Follows(a, b)}
    BY DEF Resent, Earlier
  <2> QED
    BY <2>1 DEF RetryBudget
<1>1. /\ \A t \in 0..token_updated : Spent(t)
      /\ \A a \in Resent(0) : attempts[a].sent <= token_updated
  BY DEF BudgetInv
<1>2. token_updated \in Nat /\ token_updated <= now /\ now \in Nat /\ s \in Nat /\ tokens \in Nat
  BY TypeFacts, RetrySimAssumption
<1> DEFINE used == TokenUnit * Cardinality(Resent(s))
           full == TokenUnit * TokenCapacity
           since == RefillPerTick * (token_updated - s)
           flowed == RefillPerTick * (now - s)
           later == RefillPerTick * (now - token_updated)
<1>3. used \in Nat /\ full \in Nat /\ flowed \in Nat
  <2>1. Cardinality(Resent(s)) \in Nat /\ now - s \in Nat
    BY <1>2, ResentFinite
  <2> QED
    BY <2>1, RetrySimAssumption
<1>4. CASE s <= token_updated
  <2>1. used + tokens <= full + since
    BY <1>1, <1>2, <1>4 DEF Spent
  <2>2. since + later = flowed /\ since \in Int /\ later \in Nat
    <3>1. token_updated - s \in Int /\ now - token_updated \in Nat
      BY <1>2
    <3>2. since \in Int /\ later \in Nat
      BY <3>1, RetrySimAssumption
    <3> QED
      BY <1>2, <3>2, RetrySimAssumption
  <2> HIDE DEF used, full, since, flowed, later
  <2>3. used <= full + flowed
    BY <1>2, <1>3, <2>1, <2>2
  <2> QED
    BY <2>3 DEF used, full, flowed
<1>5. CASE s > token_updated
  <2>1. Resent(s) = {}
    <3>1. \A a \in DOMAIN attempts : attempts[a].sent \in Nat
      BY AttemptFacts
    <3> QED
      BY <1>1, <1>2, <1>5, <3>1 DEF Resent
  <2>2. Cardinality(Resent(s)) = 0
    BY <2>1, FS_EmptySet
  <2>3. used = 0
    BY <2>2, RetrySimAssumption
  <2> HIDE DEF used, full, flowed
  <2>4. used <= full + flowed
    BY <1>3, <2>3
  <2> QED
    BY <2>4 DEF used, full, flowed
<1> QED
  BY <1>2, <1>4, <1>5

LEMMA BudgetInvariance == Spec => []BudgetInv
<1>1. /\ TypeInv /\ TypeInv' /\ ServerInv /\ ArrivesOnce /\ DeadlineInv /\ BudgetInv /\ [Next]_vars
      => BudgetInv'
  <2> SUFFICES ASSUME TypeInv, TypeInv', ServerInv, ArrivesOnce, Known, BudgetInv, [Next]_vars
               PROVE  BudgetInv'
    BY DEF DeadlineInv
  <2>1. CASE Finish \/ UNCHANGED vars
    BY <2>1 DEF Finish, vars, BudgetInv, Spent, Resent, Earlier, Follows
  <2>2. ASSUME NEW e \in events, Handle(e) PROVE BudgetInv'
    BY <2>2, Effects, BudgetStep
  <2> QED
    BY <2>1, <2>2 DEF Next
<1> QED
  BY <1>1, InitBudget, TypeInvariance, ServerInvariance, DeadlineInvariance, PTL DEF Spec

\* Budget mode sends at most a burst of TokenCapacity retries and the refill: from
\* any time until now, never more than the full bucket and what flowed in since.
\* The bucket is refilled lazily, up to its capacity, only when a retry looks at it.
THEOREM BudgetHolds == Spec => []RetryBudget
BY BudgetInvariance, TypeInvariance, BudgetBounds, PTL

-----------------------------------------------------------------------------
(* Back-off.  A pending request counts its attempts, the one it waits for is  *)
(* its last, and a scheduled retry keeps its distance from that one.         *)

Of(r) == {a \in DOMAIN attempts : attempts[a].original = r}
Latest(b, S) == b \in S /\ \A c \in S : c <= b

MostAttempts == IF run.policy = "none" THEN 1 ELSE MaxAttempts

\* t is a time at which an attempt may follow b, the n-th of its request.
BackedOff(t, b, n) == t - (attempts[b].sent + AttemptTimeout) \in 0..BackoffLimit(n)

Numbered(r) == originals[r].status = "pending" => Cardinality(Of(r)) = originals[r].attempts

LastWaits(r) ==
    originals[r].status = "pending" => \A a \in LiveAttempts(r) : Latest(a, Of(r))

Scheduled(f) ==
    LET r == f.value
    IN  originals[r].status = "pending" =>
            /\ run.policy # "none" /\ originals[r].attempts < MaxAttempts
            /\ \E b : Latest(b, Of(r)) /\ BackedOff(f.when, b, originals[r].attempts)

Spaced(a) ==
    Earlier(a) # {} =>
        \E b : Latest(b, Earlier(a)) /\ BackedOff(attempts[a].sent, b, Cardinality(Earlier(a)))

SpacingInv ==
    /\ \A r \in Requests : /\ Numbered(r) /\ LastWaits(r)
                           /\ originals[r].attempts <= MostAttempts
    /\ \A f \in events : f.kind = "retry" => Scheduled(f)
    /\ \A a \in DOMAIN attempts : Spaced(a)

LEMMA OfFinite == ASSUME TypeInv, NEW r PROVE IsFiniteSet(Of(r)) /\ Cardinality(Of(r)) \in Nat
<1>1. IsFiniteSet(DOMAIN attempts) /\ Of(r) \subseteq DOMAIN attempts
  BY AttemptFacts, FS_Interval DEF Of
<1> QED
  BY <1>1, FS_Subset, FS_CardinalityType

\* An attempt that is sent is the last one of its request.
LEMMA AddedOf ==
    ASSUME TypeInv, NEW r \in Requests, NEW t, AttemptAdded(r, t)
    PROVE  /\ Of(r)' = Of(r) \cup {NextAttempt} /\ Latest(NextAttempt, Of(r)')
           /\ Cardinality(Of(r))' = Cardinality(Of(r)) + 1
           /\ \A q : q # r => Of(q)' = Of(q)
<1>1. DOMAIN attempts = 1..Len(attempts) /\ Len(attempts) \in Nat
  BY AttemptFacts
<1>2. Of(r)' = Of(r) \cup {NextAttempt} /\ NextAttempt \notin Of(r)
      /\ \A q : q # r => Of(q)' = Of(q)
  BY DEF Of, AttemptAdded
<1>3. \A c \in Of(r) \cup {NextAttempt} : c <= NextAttempt
  BY <1>1 DEF Of, NextAttempt
<1>4. Cardinality(Of(r))' = Cardinality(Of(r)) + 1
  BY <1>2, OfFinite, FS_AddElement
<1>5. Latest(NextAttempt, Of(r)')
  BY <1>2, <1>3, Zenon DEF Latest
<1> QED
  BY <1>2, <1>4, <1>5, Zenon

\* How a launch changes the number of attempts of its request, which was n.
Launched(e, r, n) ==
    \/ originals'[r].attempts = n /\ UNCHANGED attempts
    \/ originals'[r].attempts = n + 1 /\ originals'[r].status = "queue_rejected" /\ UNCHANGED attempts
    \/ originals'[r].attempts = n + 1 /\ AttemptAdded(r, e.when)

Tries(e, r) ==
    \/ /\ originals'[r].attempts = originals[r].attempts /\ Of(r)' = Of(r)
       /\ originals'[r].status = "pending" => originals[r].status = "pending"
    \/ /\ e.kind = "arrival" /\ e.value = r /\ originals[r].status = "absent"
       /\ Launched(e, r, 0)
    \/ /\ e.kind = "retry" /\ e.value = r /\ originals[r].status = "pending"
       /\ Launched(e, r, originals[r].attempts)

LEMMA TriesStep == ASSUME TypeInv, NEW e, Effect(e), NEW r \in Requests PROVE Tries(e, r)
<1>0. /\ DOMAIN attempts \subseteq DOMAIN attempts'
      /\ \A a \in DOMAIN attempts : attempts'[a].original = attempts[a].original
      /\ \A a \in DOMAIN attempts' \ DOMAIN attempts : attempts'[a].original = e.value
  BY AttemptsStep
<1>1. DOMAIN attempts' = DOMAIN attempts => Of(r)' = Of(r)
  BY <1>0 DEF Of
<1>2. r # e.value => Of(r)' = Of(r)
  BY <1>0 DEF Of
<1>3. CASE QuietEffect(e)
  BY <1>1, <1>3 DEF QuietEffect, SameRecord, SettledNow, Tries
<1>4. CASE ArrivalEffect(e)
  <2>1. CASE r = e.value
    BY <1>4, <2>1 DEF ArrivalEffect, LaunchEffect, Tries, Launched
  <2>2. CASE r # e.value
    BY <1>2, <1>4, <2>2 DEF ArrivalEffect, SameRecord, Tries
  <2> QED
    BY <2>1, <2>2
<1>5. CASE RetryEffect(e)
  <2>1. CASE r = e.value
    BY <1>5, <2>1 DEF RetryEffect, LaunchEffect, Tries, Launched
  <2>2. CASE r # e.value
    BY <1>2, <1>5, <2>2 DEF RetryEffect, SameRecord, Tries
  <2> QED
    BY <2>1, <2>2
<1>6. CASE FailEffect(e)
  BY <1>1, <1>6 DEF FailEffect, SameRecord, SettledNow, Tries
<1>7. CASE CompleteEffect(e)
  BY <1>1, <1>7 DEF CompleteEffect, AttemptEnded, SameRecord, SettledNow, Tries
<1> QED
  BY <1>3, <1>4, <1>5, <1>6, <1>7 DEF Effect

LEMMA NumberedStep ==
    ASSUME TypeInv, TypeInv', Known, SpacingInv, NEW e, Effect(e), NEW r \in Requests
    PROVE  Numbered(r)' /\ originals'[r].attempts <= MostAttempts'
<1>1. /\ Numbered(r) /\ originals[r].attempts <= MostAttempts /\ originals[r].attempts \in Nat
      /\ originals'[r].attempts \in Nat
  BY TypeFacts DEF SpacingInv, TypeInv, TypeOK, OriginalType
<1>2. MostAttempts' = MostAttempts /\ MostAttempts \in Nat /\ 1 <= MostAttempts
  BY HandledFirst, RetrySimAssumption DEF MostAttempts
<1>3. UNCHANGED attempts => Of(r)' = Of(r)
  BY DEF Of
<1>4. CASE /\ originals'[r].attempts = originals[r].attempts /\ Of(r)' = Of(r)
           /\ originals'[r].status = "pending" => originals[r].status = "pending"
  BY <1>1, <1>2, <1>4 DEF Numbered
<1>5. CASE originals[r].status = "absent" /\ Launched(e, r, 0)
  <2>1. Of(r) = {}
    BY <1>5 DEF Known, Of
  <2>2. Cardinality(Of(r)) = 0
    BY <2>1, FS_EmptySet
  <2>3. UNCHANGED attempts => Cardinality(Of(r))' = 0
    BY <1>3, <2>2
  <2>4. AttemptAdded(r, e.when) => Cardinality(Of(r))' = 1
    BY <2>2, AddedOf
  <2> QED
    BY <1>2, <1>5, <2>3, <2>4 DEF Launched, Numbered
<1>6. CASE /\ e.kind = "retry" /\ e.value = r /\ originals[r].status = "pending"
           /\ Launched(e, r, originals[r].attempts)
  <2>1. run.policy # "none" /\ originals[r].attempts < MaxAttempts
    BY <1>6, HandledFirst DEF SpacingInv, Scheduled
  <2>2. originals[r].attempts + 1 <= MostAttempts
    BY <1>1, <2>1, RetrySimAssumption DEF MostAttempts
  <2>3. UNCHANGED attempts => Cardinality(Of(r))' = originals[r].attempts
    BY <1>1, <1>3, <1>6 DEF Numbered
  <2>4. AttemptAdded(r, e.when) => Cardinality(Of(r))' = originals[r].attempts + 1
    BY <1>1, <1>6, AddedOf DEF Numbered
  <2> QED
    BY <1>1, <1>2, <1>6, <2>2, <2>3, <2>4 DEF Launched, Numbered
<1> QED
  BY <1>4, <1>5, <1>6, TriesStep DEF Tries

\* An attempt that is over does not come back to life.
LEMMA LiveStays ==
    ASSUME TypeInv, NEW e, Effect(e), NEW r, NEW a \in LiveAttempts(r)', a \in DOMAIN attempts
    PROVE  a \in LiveAttempts(r)
<1>1. attempts'[a].original = attempts[a].original
  BY AttemptsStep
<1>2. /\ attempts[a].timed_out => attempts'[a].timed_out
      /\ attempts[a].completed # NoTime => attempts'[a].completed # NoTime
  <2>1. e.when # NoTime
    BY HandledFirst DEF NoTime
  <2>2. CASE UNCHANGED attempts
    BY <2>2
  <2>3. CASE \E q, t : AttemptAdded(q, t)
    BY <2>3 DEF AttemptAdded
  <2>4. CASE FailEffect(e)
    <3>1. attempts' = [attempts EXCEPT ![e.value].timed_out = TRUE]
      BY <2>4 DEF FailEffect
    <3>2. attempts \in [DOMAIN attempts -> AttemptType]
      BY AttemptFacts
    <3> QED
      BY <3>1, <3>2 DEF AttemptType
  <2>5. CASE CompleteEffect(e)
    BY <2>1, <2>5 DEF CompleteEffect, AttemptEnded
  <2> QED
    BY <2>2, <2>3, <2>4, <2>5
       DEF Effect, QuietEffect, ArrivalEffect, RetryEffect, LaunchEffect
<1> QED
  BY <1>1, <1>2 DEF LiveAttempts

LEMMA LastWaitsStep ==
    ASSUME TypeInv, TypeInv', Known, ContinueInv, SpacingInv, NEW e, Effect(e), NEW r \in Requests
    PROVE  LastWaits(r)'
<1> SUFFICES ASSUME originals'[r].status = "pending", NEW a \in LiveAttempts(r)'
             PROVE  Latest(a, Of(r)')
  BY DEF LastWaits, Latest
<1>1. UNCHANGED attempts => LiveAttempts(r)' = LiveAttempts(r)
  BY DEF LiveAttempts
<1>2. CASE Of(r)' = Of(r) /\ originals[r].status = "pending"
  <2>1. a \in Of(r)'
    BY DEF LiveAttempts, Of
  <2>2. a \in DOMAIN attempts
    BY <1>2, <2>1 DEF Of
  <2>3. a \in LiveAttempts(r)
    BY <2>2, LiveStays
  <2> QED
    BY <1>2, <2>3 DEF SpacingInv, LastWaits
<1>3. CASE \/ originals[r].status = "absent" /\ Launched(e, r, 0)
           \/ e.kind = "retry" /\ e.value = r /\ Launched(e, r, originals[r].attempts)
  <2>1. LiveAttempts(r) = {}
    <3>1. CASE originals[r].status = "absent"
      BY <3>1, AbsentIsNew
    <3>2. CASE e.kind = "retry" /\ e.value = r
      <4>1. e \in RetryEvents(r) /\ Exclusive(r)
        BY <3>2, HandledFirst DEF RetryEvents, ContinueInv
      <4> QED
        BY <4>1 DEF Exclusive
    <3> QED
      BY <1>3, <3>1, <3>2
  <2>2. AttemptAdded(r, e.when)
    BY <1>1, <1>3, <2>1 DEF Launched
  <2>3. a \notin DOMAIN attempts
    BY <2>1, LiveStays
  <2>4. a = NextAttempt
    BY <2>2, <2>3 DEF AttemptAdded, LiveAttempts
  <2> QED
    BY <2>2, <2>4, AddedOf
<1> QED
  BY <1>2, <1>3, TriesStep DEF Tries

LEMMA ScheduledStep ==
    ASSUME TypeInv, TypeInv', Known, TimerInv, ContinueInv, SpacingInv, NEW e, Effect(e),
           NEW f \in events', f.kind = "retry"
    PROVE  Scheduled(f)'
<1> DEFINE q == f.value
<1>1. q \in Requests
  BY DEF TypeInv, EventsOK, EventOK
<1> SUFFICES ASSUME originals'[q].status = "pending"
             PROVE  /\ run'.policy # "none" /\ originals'[q].attempts < MaxAttempts
                    /\ \E b : /\ Latest(b, Of(q)')
                              /\ f.when - (attempts'[b].sent + AttemptTimeout)
                                    \in 0..BackoffLimit(originals'[q].attempts)
  BY DEF Scheduled, BackedOff, Latest
<1>2. \A b \in Of(q) : attempts'[b].sent = attempts[b].sent
  BY AttemptsStep DEF Of
<1>3. CASE f \in events \ {e}
  <2>1. originals[q].status # "absent"
    BY <1>3 DEF Known
  <2>2. ~(e.kind = "retry" /\ e.value = q)
    <3>1. Exclusive(q) /\ f \in RetryEvents(q)
      BY <1>1, <1>3 DEF ContinueInv, RetryEvents
    <3> QED
      BY <1>3, <3>1, HandledFirst DEF Exclusive, RetryEvents
  <2>3. /\ originals'[q].attempts = originals[q].attempts /\ Of(q)' = Of(q)
        /\ originals[q].status = "pending"
    BY <1>1, <2>1, <2>2, TriesStep DEF Tries
  <2>4. Scheduled(f) /\ run' = run
    BY <1>3, HandledFirst DEF SpacingInv
  <2>5. PICK b : Latest(b, Of(q)) /\ BackedOff(f.when, b, originals[q].attempts)
    BY <2>3, <2>4 DEF Scheduled
  <2>6. attempts'[b].sent = attempts[b].sent
    BY <1>2, <2>5 DEF Latest
  <2> QED
    BY <2>3, <2>4, <2>5, <2>6 DEF Scheduled, BackedOff
<1>4. CASE f \notin events \ {e}
  <2>1. PICK a : a = e.value
    OBVIOUS
  <2>2. e.kind = "timeout" /\ a \in DOMAIN attempts /\ q = attempts[a].original
    BY <1>4, <2>1, RetryEventsStep
  <2>3. FailEffect(e)
    BY <1>4, <2>2 DEF Effect, QuietEffect, ArrivalEffect, RetryEffect, CompleteEffect
  <2>4. /\ SameRecord(q) /\ originals[q].status = "pending"
        /\ run.policy # "none" /\ originals[q].attempts < MaxAttempts
        /\ f.when - e.when \in 0..BackoffLimit(originals[q].attempts)
        /\ attempts[a].completed = NoTime /\ DOMAIN attempts' = DOMAIN attempts
    BY <1>4, <2>1, <2>2, <2>3 DEF FailEffect
  <2>5. ~attempts[a].timed_out /\ e.when = attempts[a].sent + AttemptTimeout
    BY <2>1, <2>2, HandledFirst DEF TimerInv, TimerOK, Limit
  <2>6. a \in LiveAttempts(q)
    BY <2>2, <2>4, <2>5 DEF LiveAttempts
  <2>7. Latest(a, Of(q))
    BY <1>1, <2>4, <2>6 DEF SpacingInv, LastWaits
  <2>8. Of(q)' = Of(q) /\ attempts'[a].sent = attempts[a].sent
    BY <2>2, <2>4, AttemptsStep DEF Of
  <2> QED
    BY <2>4, <2>5, <2>7, <2>8, HandledFirst DEF SameRecord
<1> QED
  BY <1>3, <1>4

LEMMA SpacedStep ==
    ASSUME TypeInv, TypeInv', Known, SpacingInv, NEW e, Effect(e), NEW a \in DOMAIN attempts'
    PROVE  Spaced(a)'
<1> SUFFICES ASSUME Earlier(a)' # {}
             PROVE  \E b : /\ Latest(b, Earlier(a)')
                           /\ attempts'[a].sent - (attempts'[b].sent + AttemptTimeout)
                                 \in 0..BackoffLimit(Cardinality(Earlier(a)'))
  BY DEF Spaced, BackedOff, Latest
<1>1. \A b \in DOMAIN attempts : attempts'[b].sent = attempts[b].sent
  BY AttemptsStep
<1>2. CASE a \in DOMAIN attempts
  <2>1. Earlier(a)' = Earlier(a) /\ Spaced(a)
    BY <1>2, EarlierStays DEF SpacingInv
  <2>2. PICK b : Latest(b, Earlier(a)) /\ BackedOff(attempts[a].sent, b, Cardinality(Earlier(a)))
    BY <2>1 DEF Spaced
  <2>3. b \in DOMAIN attempts
    BY <2>2 DEF Latest, Earlier
  <2> QED
    BY <1>1, <1>2, <2>1, <2>2, <2>3 DEF BackedOff
<1>3. CASE a \notin DOMAIN attempts
  <2>1. PICK r : r = e.value
    OBVIOUS
  <2>2. /\ attempts'[a].sent = e.when /\ Earlier(a)' = Of(r) /\ e.kind = "retry" /\ r \in Requests
    BY <1>3, <2>1, RetriesAdded DEF Of
  <2>3. originals[r].status = "pending"
    BY <1>3, <2>1, <2>2 DEF Effect, QuietEffect, ArrivalEffect, RetryEffect, FailEffect, CompleteEffect
  <2>4. Scheduled(e) /\ Numbered(r)
    BY <2>2, HandledFirst DEF SpacingInv
  <2>5. PICK b : Latest(b, Of(r)) /\ BackedOff(e.when, b, originals[r].attempts)
    BY <2>1, <2>3, <2>4 DEF Scheduled
  <2>6. b \in DOMAIN attempts
    BY <2>5 DEF Latest, Of
  <2> QED
    BY <1>1, <2>2, <2>3, <2>4, <2>5, <2>6 DEF BackedOff, Numbered
<1> QED
  BY <1>2, <1>3

LEMMA InitSpacing == Init => SpacingInv
<1> SUFFICES ASSUME Init PROVE SpacingInv
  OBVIOUS
<1>1. /\ attempts = << >> /\ \A r \in Requests : originals[r].status = "absent"
      /\ \A r \in Requests : originals[r].attempts = 0
      /\ \A e \in events : e.kind \in {"arrival", "sample"}
  BY DEF Init, Event
<1>2. DOMAIN attempts = {}
  BY <1>1
<1>3. 0 <= MostAttempts
  BY RetrySimAssumption DEF MostAttempts
<1> QED
  BY <1>1, <1>2, <1>3 DEF SpacingInv, Numbered, LastWaits

LEMMA RestSpacing == ASSUME SpacingInv, Rest PROVE SpacingInv'
<1>1. UNCHANGED <<run, events, originals, attempts>>
  BY DEF Rest
<1>2. MostAttempts' = MostAttempts /\ \A r : Of(r)' = Of(r) /\ LiveAttempts(r)' = LiveAttempts(r)
  BY <1>1 DEF MostAttempts, Of, LiveAttempts
<1>3. \A a : Earlier(a)' = Earlier(a)
  BY <1>1 DEF Earlier, Follows
<1>4. \A r \in Requests : /\ Numbered(r)' /\ LastWaits(r)'
                          /\ originals'[r].attempts <= MostAttempts'
  BY <1>1, <1>2 DEF SpacingInv, Numbered, LastWaits
<1>5. \A f \in events' : f.kind = "retry" => Scheduled(f)'
  BY <1>1, <1>2 DEF SpacingInv, Scheduled, BackedOff
<1>6. \A a \in DOMAIN attempts' : Spaced(a)'
  BY <1>1, <1>3 DEF SpacingInv, Spaced, BackedOff
<1> QED
  BY <1>4, <1>5, <1>6 DEF SpacingInv

LEMMA SpacingInvariance == Spec => []SpacingInv
<1>1. /\ TypeInv /\ TypeInv' /\ ServerInv /\ ArrivesOnce /\ DeadlineInv /\ TimerInv /\ ContinueInv
      /\ SpacingInv /\ [Next]_vars
      => SpacingInv'
  <2> SUFFICES ASSUME TypeInv, TypeInv', ServerInv, ArrivesOnce, DeadlineInv, TimerInv,
                      ContinueInv, SpacingInv, [Next]_vars
               PROVE  SpacingInv'
    OBVIOUS
  <2>1. Known
    BY DEF DeadlineInv
  <2>2. ASSUME NEW e \in events, Effect(e) PROVE SpacingInv'
    <3>1. \A r \in Requests : Numbered(r)' /\ originals'[r].attempts <= MostAttempts'
      BY <2>1, <2>2, NumberedStep
    <3>2. \A r \in Requests : LastWaits(r)'
      BY <2>1, <2>2, LastWaitsStep
    <3>3. \A f \in events' : f.kind = "retry" => Scheduled(f)'
      BY <2>1, <2>2, ScheduledStep
    <3>4. \A a \in DOMAIN attempts' : Spaced(a)'
      BY <2>1, <2>2, SpacedStep
    <3> QED
      BY <3>1, <3>2, <3>3, <3>4 DEF SpacingInv
  <2> QED
    BY <2>2, Steps, RestSpacing
<1> QED
  BY <1>1, InitSpacing, TypeInvariance, ServerInvariance, DeadlineInvariance, TimerInvariance,
     ContinueInvariance, PTL DEF Spec

LEMMA SpacingBounds == TypeInv /\ SpacingInv => RetrySpacing
<1> SUFFICES ASSUME TypeInv, SpacingInv PROVE RetrySpacing
  OBVIOUS
<1>1. \A r \in Requests :
         originals[r].attempts <= IF run.policy = "none" THEN 1 ELSE MaxAttempts
  BY DEF SpacingInv, MostAttempts
<1>2. ASSUME NEW a \in DOMAIN attempts, NEW S, S = Earlier(a), S # {},
             NEW b, b = CHOOSE c \in S : \A d \in S : d <= c
      PROVE  LET backoff == attempts[a].sent - (attempts[b].sent + AttemptTimeout)
             IN  /\ 0 <= backoff /\ backoff <= BackoffBase * 2^(Cardinality(S) - 1)
                 /\ backoff <= BackoffCap
  <2>1. PICK c : Latest(c, S) /\ BackedOff(attempts[a].sent, c, Cardinality(S))
    BY <1>2 DEF SpacingInv, Spaced
  <2>2. S \subseteq Int
    BY <1>2, AttemptFacts DEF Earlier
  <2>3. b \in S /\ \A d \in S : d <= b
    BY <1>2, <2>1 DEF Latest
  <2>4. b = c
    BY <2>1, <2>2, <2>3 DEF Latest
  <2>5. Cardinality(S) \in Nat /\ Cardinality(S) # 0
    <3>1. S \subseteq DOMAIN attempts /\ IsFiniteSet(DOMAIN attempts)
      <4>1. DOMAIN attempts = 1..Len(attempts) /\ Len(attempts) \in Int
        BY AttemptFacts
      <4>2. IsFiniteSet(1..Len(attempts))
        BY <4>1, FS_Interval
      <4> QED
        BY <1>2, <4>1, <4>2 DEF Earlier
    <3>2. IsFiniteSet(S)
      BY <3>1, FS_Subset
    <3> QED
      BY <1>2, <3>2, FS_CardinalityType, FS_EmptySet
  <2>6. PICK n \in Nat : n = Cardinality(S) - 1
    BY <2>5
  <2>7. BackoffBase * 2^n \in Int /\ BackoffCap \in Nat
    BY <2>6, RetrySimAssumption
  <2>8. PICK limit \in Int : limit = BackoffBase * 2^(Cardinality(S) - 1)
    BY <2>6, <2>7
  <2>9. BackoffLimit(Cardinality(S)) = Least(BackoffCap, limit)
    BY <2>8 DEF BackoffLimit
  <2>10. BackoffLimit(Cardinality(S)) <= limit /\ BackoffLimit(Cardinality(S)) <= BackoffCap
         /\ BackoffLimit(Cardinality(S)) \in Int
    BY <2>7, <2>9 DEF Least
  <2> QED
    BY <2>1, <2>4, <2>7, <2>8, <2>10 DEF BackedOff
<1>3. \A a \in DOMAIN attempts : Earlier(a) = {b \in DOMAIN attempts : Follows(a, b)}
  BY DEF Earlier
<1> QED
  BY <1>1, <1>2, <1>3 DEF RetrySpacing

\* A request sends at most its allowed attempts, and each retry is sent after the
\* timeout of the attempt before it, later by no more than the back-off limit of
\* that attempt's number: the exponential base and the cap both hold.
THEOREM SpacingHolds == Spec => []RetrySpacing
BY SpacingInvariance, TypeInvariance, SpacingBounds, PTL

-----------------------------------------------------------------------------
(* The end of a run.  What lies within the run is in the heap until the clock *)
(* reaches it, and a run that is not stopped ends with an empty horizon.     *)

CapKept ==
    /\ totals["attempts"] <= AttemptCap
    /\ stopped => done /\ totals["attempts"] = AttemptCap

ArrivalDue(r) ==
    IF originals[r].status = "absent"
    THEN \E e \in events : e.kind = "arrival" /\ e.value = r /\ e.when = run.schedule[r]
    ELSE originals[r].arrived = run.schedule[r]

ServiceDue == busy # Idle => \E e \in events : e.kind = "complete"

WindowDue(n) == n * WindowSize <= now \/ \E e \in events : e.when = n * WindowSize

EndInv ==
    /\ \A r \in DOMAIN run.schedule : ArrivalDue(r)
    /\ ServiceDue
    /\ \A n \in 1..(Duration \div WindowSize) : WindowDue(n)
    /\ done /\ ~stopped => \A e \in events : e.when > Duration

\* A launch counts its attempt unless the cap is hit, which stops the run.
CapStep ==
    \/ UNCHANGED stopped /\ totals'["attempts"] = totals["attempts"] /\ (done => done')
    \/ UNCHANGED <<stopped, done>> /\ ~CapHit /\ totals'["attempts"] = totals["attempts"] + 1
    \/ CapHit /\ stopped' /\ done' /\ totals'["attempts"] = totals["attempts"]

LEMMA PlainCounts ==
    ASSUME TypeInv, NEW t, NEW keys, Add(t, keys)
    PROVE  totals'["attempts"] = IF "attempts" \in keys THEN totals["attempts"] + 1
                                 ELSE totals["attempts"]
BY AddCounts, CounterNames

LEMMA LaunchCap ==
    ASSUME TypeInv, NEW e, NEW r, NEW o, NEW keys, "attempts" \notin keys, NEW new,
           Launch(e, r, o, keys, new)
    PROVE  CapStep
<1>1. CASE LaunchCapped(e, o, keys, new)
  BY <1>1, PlainCounts DEF LaunchCapped, CapStep
<1>2. CASE LaunchRejected(e, r, o, keys, new)
  <2>1. PICK all : Add(e.when, all) /\ "attempts" \in all
    BY <1>2 DEF LaunchRejected
  <2>2. UNCHANGED <<stopped, done>> /\ ~CapHit
    BY <1>2 DEF LaunchRejected
  <2> QED
    BY <2>1, <2>2, PlainCounts DEF CapStep
<1>3. CASE LaunchAdmitted(e, r, o, keys, new)
  <2>1. Add(e.when, keys \cup {"attempts", "admitted_attempts"})
    BY <1>3 DEF LaunchAdmitted
  <2>2. UNCHANGED <<stopped, done>> /\ ~CapHit
    BY <1>3 DEF LaunchAdmitted
  <2> QED
    BY <2>1, <2>2, PlainCounts DEF CapStep
<1> QED
  BY <1>1, <1>2, <1>3 DEF Launch

LEMMA TerminateCountsPlain ==
    ASSUME NEW o, NEW r, NEW reason \in FailureReason \cup {"success"},
           reason = "success" => o[r].arrived \in Int
    PROVE  "attempts" \notin TerminateCounts(o, r, reason)
<1>1. CASE reason = "success"
  <2>1. Phase(o[r].arrived) # "attempts"
    BY <1>1, RetrySimAssumption DEF Phase
  <2> QED
    BY <1>1, <2>1 DEF TerminateCounts
<1>2. CASE reason # "success"
  BY <1>2 DEF TerminateCounts, FailureReason
<1> QED
  BY <1>1, <1>2

LEMMA NextCap == TypeInv /\ [Next]_vars => CapStep
<1> SUFFICES ASSUME TypeInv, [Next]_vars PROVE CapStep
  OBVIOUS
<1>1. CASE Finish \/ UNCHANGED vars
  BY <1>1 DEF Finish, vars, CapStep
<1>2. ASSUME NEW e, Handle(e) PROVE CapStep
  <2>1. CASE Arrival(e) \/ RetryLaunched(e)
    BY <2>1, LaunchCap DEF Arrival, RetryLaunched
  <2>2. CASE DeadlinePassed(e) \/ RetryDenied(e)
    BY <2>2, PlainCounts, TerminateCountsPlain DEF DeadlinePassed, RetryDenied, CapStep, FailureReason
  <2>3. CASE RetryStale(e) \/ TimeoutAnswered(e) \/ Sample(e)
    BY <2>3 DEF RetryStale, TimeoutAnswered, Sample, CapStep
  <2>4. CASE TimeoutFailed(e)
    <3>1. PICK r : \/ Add(e.when, {"attempt_timeouts"}
                                  \cup TerminateCounts(originals, r, "attempts_exhausted"))
                   \/ Add(e.when, {"attempt_timeouts"})
      BY <2>4 DEF TimeoutFailed
    <3> QED
      BY <2>4, <3>1, PlainCounts, TerminateCountsPlain DEF TimeoutFailed, CapStep, FailureReason
  <2>5. CASE Complete(e)
    <3>1. PICK r : /\ r = attempts[e.value].original
                   /\ \/ Add(e.when, {"completed_attempts"}
                                     \cup TerminateCounts(originals, r, "success"))
                      \/ Add(e.when, {"completed_attempts", "unused_completions"})
      BY <2>5 DEF Complete
    <3>2. originals[r].arrived \in Int
      <4>1. e.value \in DOMAIN attempts
        BY <2>5, PopFacts DEF Complete
      <4>2. r \in Requests
        BY <3>1, <4>1, AttemptFacts
      <4> QED
        BY <4>2, TypeFacts DEF OriginalType, Time, NoTime
    <3> QED
      BY <2>5, <3>1, <3>2, PlainCounts, TerminateCountsPlain DEF Complete, CapStep
  <2> QED
    BY <1>2, <2>1, <2>2, <2>3, <2>4, <2>5 DEF Handle
<1> QED
  BY <1>1, <1>2 DEF Next

LEMMA CapInvariance == Spec => []CapKept
<1>1. Init => CapKept
  <2>1. "attempts" \in Counters
    BY CounterNames
  <2> QED
    BY <2>1, RetrySimAssumption DEF Init, CapKept
<1>2. TypeInv /\ CapKept /\ [Next]_vars => CapKept'
  <2> SUFFICES ASSUME TypeInv, CapKept, [Next]_vars PROVE CapKept'
    OBVIOUS
  <2>1. totals["attempts"] \in Nat
    BY TypeFacts, CounterNames
  <2> QED
    BY <2>1, NextCap, RetrySimAssumption DEF CapKept, CapStep, CapHit
<1> QED
  BY <1>1, <1>2, TypeInvariance, PTL DEF Spec

\* Nothing leaves the heap before its time.
LEMMA EventsReached ==
    ASSUME TypeInv, NEW e, Effect(e), NEW f \in events
    PROVE  f \in events' \/ (f = e /\ f.when = now')
BY HandledFirst

LEMMA ArrivalDueStep ==
    ASSUME TypeInv, ArrivesOnce, NEW e, Effect(e), NEW r \in Requests, ArrivalDue(r)
    PROVE  ArrivalDue(r)'
<1>1. run' = run
  BY HandledFirst
<1>2. CASE originals[r].status # "absent"
  BY <1>1, <1>2, ArrivedStays DEF ArrivalDue
<1>3. CASE originals[r].status = "absent"
  <2>1. PICK f \in events : f.kind = "arrival" /\ f.value = r /\ f.when = run.schedule[r]
    BY <1>3 DEF ArrivalDue
  <2>2. CASE f = e
    <3>1. ArrivalEffect(e)
      BY <2>1, <2>2 DEF Effect, QuietEffect, RetryEffect, FailEffect, CompleteEffect
    <3>2. PICK o, new : o.arrived = e.when /\ o.status = "pending" /\ LaunchEffect(e, r, o, new)
      BY <2>1, <2>2, <3>1 DEF ArrivalEffect
    <3>3. originals'[r].arrived = e.when /\ originals'[r].status # "absent"
      BY <3>2 DEF LaunchEffect
    <3> QED
      BY <1>1, <2>1, <2>2, <3>3 DEF ArrivalDue
  <2>3. CASE f # e
    <3>1. f \in events'
      BY <2>3, EventsReached
    <3>2. ~(e.kind = "arrival" /\ e.value = r)
      BY <2>1, <2>3, HandledFirst DEF ArrivesOnce
    <3>3. SameRecord(r)
      BY <1>3, <3>2, RequestChanges DEF RequestChange
    <3> QED
      BY <1>1, <1>3, <2>1, <3>1, <3>3 DEF ArrivalDue, SameRecord
  <2> QED
    BY <2>2, <2>3
<1> QED
  BY <1>2, <1>3

\* Whoever makes the server busy puts its completion in the heap.
LEMMA ServiceDueStep ==
    ASSUME TypeInv, ServiceDue, NEW e, Handle(e)
    PROVE  ServiceDue'
<1>1. ASSUME NEW r, NEW o, NEW keys, NEW new, e.kind # "complete", Launch(e, r, o, keys, new)
      PROVE  ServiceDue'
  <2>1. CASE LaunchCapped(e, o, keys, new) \/ LaunchRejected(e, r, o, keys, new)
    BY <1>1, <2>1 DEF LaunchCapped, LaunchRejected, Push, ServiceDue
  <2>2. CASE LaunchAdmitted(e, r, o, keys, new)
    <3>1. CASE busy = Idle
      <4>1. PICK when, aid, n, more : Push(e, more) /\ Event(when, "complete", aid, n) \in more
        BY <2>2, <3>1 DEF LaunchAdmitted
      <4>2. Event(when, "complete", aid, n) \in events'
        BY <4>1 DEF Push
      <4>3. Event(when, "complete", aid, n).kind = "complete"
        BY DEF Event
      <4> QED
        BY <4>2, <4>3 DEF ServiceDue
    <3>2. CASE busy # Idle
      BY <1>1, <2>2, <3>2 DEF LaunchAdmitted, Push, ServiceDue
    <3> QED
      BY <3>1, <3>2
  <2> QED
    BY <1>1, <2>1, <2>2 DEF Launch
<1>2. CASE Arrival(e) \/ RetryLaunched(e)
  <2>1. e.kind # "complete"
    BY <1>2 DEF Arrival, RetryLaunched, Pop
  <2> QED
    BY <1>1, <1>2, <2>1 DEF Arrival, RetryLaunched
<1>3. CASE \/ DeadlinePassed(e) \/ RetryStale(e) \/ RetryDenied(e) \/ TimeoutAnswered(e)
           \/ TimeoutFailed(e) \/ Sample(e)
  BY <1>3 DEF DeadlinePassed, RetryStale, RetryDenied, TimeoutAnswered, TimeoutFailed, Sample,
              Pop, Push, ServiceDue
<1>4. CASE Complete(e)
  <2>1. CASE busy' = Idle
    BY <2>1 DEF ServiceDue
  <2>2. CASE busy' # Idle
    <3>1. PICK when, aid, n : Push(e, {Event(when, "complete", aid, n)})
      BY <1>4, <2>2 DEF Complete
    <3>2. Event(when, "complete", aid, n) \in events'
      BY <3>1 DEF Push
    <3>3. Event(when, "complete", aid, n).kind = "complete"
      BY DEF Event
    <3> QED
      BY <3>2, <3>3 DEF ServiceDue
  <2> QED
    BY <2>1, <2>2
<1> QED
  BY <1>2, <1>3, <1>4 DEF Handle

LEMMA RunStops ==
    ASSUME TypeInv, NEW e, Effect(e), done'
    PROVE  stopped'
<1>1. ~done
  BY HandledFirst
<1> QED
  BY <1>1 DEF Effect, QuietEffect, ArrivalEffect, RetryEffect, LaunchEffect, FailEffect, CompleteEffect

LEMMA ScheduledRequests == ASSUME TypeInv PROVE DOMAIN run.schedule \subseteq Requests
<1>1. run.schedule \in Arrivals
  BY DEF TypeInv, TypeOK
<1>2. PICK n \in 0..MaxArrivals : run.schedule \in [1..n -> 0..(Duration - 1)]
  BY <1>1 DEF Arrivals
<1> QED
  BY <1>2, RetrySimAssumption DEF Requests

LEMMA EndStep == ASSUME TypeInv, ArrivesOnce, ServerInv, EndInv, [Next]_vars PROVE EndInv'
<1>1. CASE UNCHANGED vars
  BY <1>1 DEF vars, EndInv, ArrivalDue, ServiceDue, WindowDue
<1>2. CASE Finish
  <2>1. UNCHANGED <<run, events, originals, busy, stopped, now>>
    BY <1>2 DEF Finish
  <2>2. \A e \in events' : e.when > Duration
    BY <1>2, <2>1 DEF Finish
  <2> QED
    BY <2>1, <2>2 DEF EndInv, ArrivalDue, ServiceDue, WindowDue
<1>3. ASSUME NEW e \in events, Handle(e) PROVE EndInv'
  <2>1. Effect(e)
    BY <1>3, Effects
  <2>2. ASSUME NEW r \in DOMAIN run'.schedule PROVE ArrivalDue(r)'
    <3>1. r \in DOMAIN run.schedule /\ r \in Requests
      BY <2>1, HandledFirst, ScheduledRequests
    <3> QED
      BY <2>1, <3>1, ArrivalDueStep DEF EndInv
  <2>3. ServiceDue'
    BY <1>3, ServiceDueStep DEF EndInv
  <2>4. ASSUME NEW n \in 1..(Duration \div WindowSize) PROVE WindowDue(n)'
    <3>1. n * WindowSize \in Int
      BY RetrySimAssumption
    <3>2. WindowDue(n)
      BY DEF EndInv
    <3>3. CASE n * WindowSize <= now
      BY <2>1, <3>1, <3>3, HandledFirst DEF WindowDue
    <3>4. CASE \E f \in events : f.when = n * WindowSize
      <4>1. PICK f \in events : f.when = n * WindowSize
        BY <3>4
      <4>2. f \in events' \/ now' = n * WindowSize
        BY <2>1, <4>1, EventsReached
      <4> QED
        BY <3>1, <4>1, <4>2 DEF WindowDue
    <3> QED
      BY <3>2, <3>3, <3>4 DEF WindowDue
  <2> QED
    BY <2>1, <2>2, <2>3, <2>4, RunStops DEF EndInv
<1> QED
  BY <1>1, <1>2, <1>3 DEF Next

LEMMA InitEnd == Init => EndInv
<1> SUFFICES ASSUME Init PROVE EndInv
  OBVIOUS
<1>1. TypeInv
  BY InitTypeInv
<1>2. /\ \A r \in DOMAIN run.schedule : Event(run.schedule[r], "arrival", r, r) \in events
      /\ \A w \in 1..(Duration \div WindowSize) :
            Event(w * WindowSize, "sample", w, MaxArrivals + w) \in events
      /\ \A r \in Requests : originals[r].status = "absent"
      /\ busy = Idle /\ done = FALSE
  BY DEF Init
<1>3. ASSUME NEW r \in DOMAIN run.schedule PROVE ArrivalDue(r)
  <2>1. r \in Requests
    BY <1>1, ScheduledRequests
  <2>2. Event(run.schedule[r], "arrival", r, r) \in events
    BY <1>2
  <2> QED
    BY <1>2, <2>1, <2>2 DEF ArrivalDue, Event
<1>4. ASSUME NEW n \in 1..(Duration \div WindowSize) PROVE WindowDue(n)
  <2>1. Event(n * WindowSize, "sample", n, MaxArrivals + n) \in events
    BY <1>2
  <2> QED
    BY <2>1 DEF WindowDue, Event
<1> QED
  BY <1>2, <1>3, <1>4 DEF EndInv, ServiceDue

LEMMA EndInvariance == Spec => []EndInv
BY EndStep, InitEnd, TypeInvariance, DeadlineInvariance, ServerInvariance, PTL DEF Spec

\* A window that ends within the run has its sample.
LEMMA WholeWindows ==
    ASSUME NEW n \in Nat \ {0}, n * WindowSize <= Duration
    PROVE  n \in 1..(Duration \div WindowSize)
<1>1. PICK q : q = Duration \div WindowSize
  OBVIOUS
<1>2. WindowSize \in Nat \ {0} /\ Duration \in Nat
  BY RetrySimAssumption
<1>3. q \in Nat
  BY <1>1, <1>2, DivNat
<1>4. Duration < WindowSize * (q + 1)
  BY <1>1, <1>2
<1>5. ASSUME n > q PROVE FALSE
  <2>1. n - (q + 1) \in Nat
    BY <1>3, <1>5
  <2>2. WindowSize * (n - (q + 1)) \in Nat
    BY <1>2, <2>1
  <2>3. WindowSize * (n - (q + 1)) = n * WindowSize - WindowSize * (q + 1)
    BY <1>2, <1>3
  <2>4. n * WindowSize \in Int /\ WindowSize * (q + 1) \in Int
    BY <1>2, <1>3
  <2> QED
    BY <1>2, <1>4, <2>2, <2>3, <2>4
<1> QED
  BY <1>1, <1>3, <1>5

\* The attempt in service is the only one that has started and not ended.
LEMMA InService ==
    ASSUME TypeInv, ServerInv, NEW a \in DOMAIN attempts,
           attempts[a].completed = NoTime, attempts[a].started # NoTime
    PROVE  busy # Idle /\ a = busy
<1> DEFINE c == totals["completed_attempts"]
<1>1. c \in Nat /\ a \in Nat
  BY TypeFacts, CounterNames, AttemptFacts
<1>2. ~(a <= c) /\ a <= c + in_service
  BY DEF ServerInv, ServerAttempts
<1>3. busy # Idle
  BY <1>1, <1>2 DEF in_service
<1>4. in_service = 1 /\ busy = c + 1
  BY <1>3 DEF in_service, ServerInv, ServerQueue
<1> HIDE DEF c
<1> QED
  BY <1>1, <1>2, <1>3, <1>4

LEMMA EndBounds ==
    TypeInv /\ ServerInv /\ DeadlineInv /\ CapKept /\ EndInv => EndExplained
<1> SUFFICES ASSUME TypeInv, ServerInv, DeadlineInv, CapKept, EndInv PROVE EndExplained
  OBVIOUS
<1>1. totals["attempts"] <= AttemptCap /\ (stopped => done /\ totals["attempts"] = AttemptCap)
  BY DEF CapKept
<1>2. ASSUME done /\ ~stopped
      PROVE  /\ \A r \in DOMAIN run.schedule :
                   /\ originals[r].arrived = run.schedule[r]
                   /\ originals[r].arrived + OriginalDeadline <= Duration =>
                         originals[r].status \in Terminal
             /\ \A a \in DOMAIN attempts :
                   attempts[a].completed = NoTime /\ attempts[a].started # NoTime =>
                         attempts[a].started + ServiceTime(attempts[a].started) > Duration
             /\ \A w \in Windows : (w + 1) * WindowSize <= Duration => w \in Rows
  <2>1. \A e \in events : e.when > Duration
    BY <1>2 DEF EndInv
  <2>2. ASSUME NEW r \in DOMAIN run.schedule
        PROVE  /\ originals[r].arrived = run.schedule[r]
               /\ originals[r].arrived + OriginalDeadline <= Duration =>
                     originals[r].status \in Terminal
    <3>1. r \in Requests /\ ArrivalDue(r)
      BY ScheduledRequests DEF EndInv
    <3>2. run.schedule[r] \in Int /\ run.schedule[r] < Duration /\ Duration \in Int
      <4>1. run.schedule \in Arrivals
        BY DEF TypeInv, TypeOK
      <4>2. PICK n \in 0..MaxArrivals : run.schedule \in [1..n -> 0..(Duration - 1)]
        BY <4>1 DEF Arrivals
      <4> QED
        BY <4>2, RetrySimAssumption
    <3>3. originals[r].status # "absent" /\ originals[r].arrived = run.schedule[r]
      BY <2>1, <3>1, <3>2 DEF ArrivalDue
    <3>4. ASSUME originals[r].status = "pending"
          PROVE  originals[r].arrived + OriginalDeadline > Duration
      <4>1. PICK e \in events : Expires(e, r)
        BY <3>1, <3>4 DEF DeadlineInv, DeadlinesSet
      <4>2. e.when = originals[r].arrived + OriginalDeadline
        BY <4>1 DEF DeadlineInv, DeadlinesSet, Expires
      <4> QED
        BY <2>1, <4>1, <4>2
    <3>5. originals[r].status \in Terminal \cup {"absent", "pending"}
      BY <3>1, TypeFacts DEF OriginalType
    <3>6. originals[r].arrived + OriginalDeadline \in Int
      BY <3>2, <3>3, RetrySimAssumption
    <3> QED
      BY <3>2, <3>3, <3>4, <3>5, <3>6
  <2>3. ASSUME NEW a \in DOMAIN attempts,
               attempts[a].completed = NoTime, attempts[a].started # NoTime
        PROVE  attempts[a].started + ServiceTime(attempts[a].started) > Duration
    <3>1. busy # Idle /\ a = busy
      BY <2>3, InService
    <3>2. PICK e \in events : e.kind = "complete"
      BY <3>1 DEF EndInv, ServiceDue
    <3>3. e.when = attempts[busy].started + ServiceTime(attempts[busy].started)
      BY <3>2 DEF ServerInv, ServerEvents
    <3> QED
      BY <2>1, <3>1, <3>2, <3>3
  <2>4. ASSUME NEW w \in Windows, (w + 1) * WindowSize <= Duration PROVE w \in Rows
    <3>1. w + 1 \in Nat \ {0}
      BY DEF Windows
    <3>2. w + 1 \in 1..(Duration \div WindowSize)
      BY <2>4, <3>1, WholeWindows
    <3>3. WindowDue(w + 1)
      BY <3>2 DEF EndInv
    <3>4. (w + 1) * WindowSize \in Int /\ Duration \in Int
      BY <3>1, RetrySimAssumption
    <3> QED
      BY <2>1, <2>4, <3>3, <3>4 DEF WindowDue, Rows
  <2> QED
    BY <2>2, <2>3, <2>4
<1> QED
  BY <1>1, <1>2 DEF EndExplained

\* A run sends no more attempts than its cap and stops only when it would send
\* another; one that is not stopped has seen every arrival, settled every request
\* whose deadline lies within it, ended all service that ends by its end, and
\* elapsed all its windows.
THEOREM EndsExplained == Spec => []EndExplained
BY EndBounds, EndInvariance, CapInvariance, TypeInvariance, ServerInvariance,
   DeadlineInvariance, PTL

-----------------------------------------------------------------------------
(* The timeline.  What a window counted or sampled stays true: every later    *)
(* event has a later time, and lies in another window or after its end.       *)

Within(t, w) == /\ t # NoTime
                /\ w * WindowSize <= t
                /\ t < (w + 1) * WindowSize \/ w = WindowCount - 1

WindowFacts ==
    /\ WindowSize \in Nat \ {0} /\ Duration \in Nat /\ WindowCount \in Nat \ {0}
    /\ Windows = 0..(WindowCount - 1)

LEMMA WindowsExist == WindowFacts
<1>1. WindowSize \in Nat \ {0} /\ Duration \in Nat \ {0} /\ WindowSize <= Duration
  BY RetrySimAssumption
<1>2. PICK q : q = (Duration + WindowSize - 1) \div WindowSize
  OBVIOUS
<1>3. Duration + WindowSize - 1 \in Nat
  BY <1>1
<1>4. q \in Nat
  BY <1>1, <1>2, <1>3, DivNat
<1>5. Duration + WindowSize - 1 < WindowSize * (q + 1)
  BY <1>1, <1>2, <1>3
<1>6. q # 0
  BY <1>1, <1>5
<1> QED
  BY <1>1, <1>2, <1>4, <1>6 DEF WindowFacts, WindowCount, Windows

\* The quotient of a time by the size of a window.
LEMMA Quotient ==
    ASSUME NEW s \in Nat \ {0}, NEW t \in Nat, NEW q \in Nat
    PROVE  /\ q * s <= t /\ t < (q + 1) * s => t \div s = q
           /\ (t \div s) * s <= t /\ t < ((t \div s) + 1) * s
  BY SMT

LEMMA Multiples ==
    ASSUME NEW s \in Nat \ {0}, NEW m \in Nat, NEW n \in Nat
    PROVE  /\ m * s \in Nat
           /\ m < n => (m + 1) * s <= n * s
           /\ m < n => m * s < n * s
           /\ m * s = n * s => m = n
<1>1. m * s \in Nat /\ n * s \in Nat /\ (m + 1) * s = m * s + s
  OBVIOUS
<1>2. \A a, b \in Nat : a < b => (a + 1) * s <= b * s
  <2> TAKE a \in Nat, b \in Nat
  <2> HAVE a < b
  <2>1. PICK d \in Nat : b = a + 1 + d
    <3>1. b - (a + 1) \in Nat /\ b = a + 1 + (b - (a + 1))
      OBVIOUS
    <3> QED
      BY <3>1
  <2>2. b * s = (a + 1) * s + d * s /\ d * s \in Nat /\ (a + 1) * s \in Nat
    BY <2>1
  <2> QED
    BY <2>2
<1>3. \A a, b \in Nat : a < b => a * s < b * s
  <2> TAKE a \in Nat, b \in Nat
  <2> HAVE a < b
  <2>1. (a + 1) * s <= b * s
    BY <1>2
  <2>2. (a + 1) * s = a * s + s /\ a * s \in Nat /\ b * s \in Nat
    OBVIOUS
  <2> QED
    BY <2>1, <2>2
<1>4. m * s = n * s => m = n
  <2>1. m < n \/ n < m \/ m = n
    OBVIOUS
  <2> QED
    BY <1>1, <1>3, <2>1
<1> QED
  BY <1>1, <1>2, <1>3, <1>4

\* A time lies within the window at which add counts it.
LEMMA WithinWindow ==
    ASSUME NEW t \in Nat, NEW w \in Windows
    PROVE  Within(t, w) <=> w = WindowAt(t)
<1> DEFINE s == WindowSize
           last == WindowCount - 1
<1>1. s \in Nat \ {0} /\ w \in Nat /\ last \in Nat /\ w <= last /\ t # NoTime
  BY WindowsExist DEF WindowFacts, NoTime
<1>2. PICK q : q = t \div s
  OBVIOUS
<1>3. q \in Nat /\ q * s <= t /\ t < (q + 1) * s
  BY <1>1, <1>2, DivNat, Quotient
<1>4. WindowAt(t) = IF q <= last THEN q ELSE last
  BY <1>2 DEF WindowAt, Least
<1> HIDE DEF s, last
<1>5. /\ w * s \in Nat /\ q * s \in Nat /\ (w + 1) * s \in Nat /\ (q + 1) * s \in Nat
      /\ w < q => (w + 1) * s <= q * s
      /\ q < w => (q + 1) * s <= w * s
  BY <1>1, <1>3, Multiples
<1>6. w * s <= t <=> w <= q
  BY <1>1, <1>3, <1>5, SMT
<1>7. t < (w + 1) * s <=> q <= w
  BY <1>1, <1>3, <1>5, SMT
<1>8. Within(t, w) <=> w <= q /\ (q <= w \/ w = last)
  BY <1>1, <1>6, <1>7 DEF Within, s, last
<1> QED
  BY <1>1, <1>3, <1>4, <1>8

\* When something first happens to an attempt or a request.
Stamped(x, y, t) == y = x \/ (x = NoTime /\ y = t)

\* What a step at t makes of attempt a.
AttemptTimes(a, t) ==
    IF a \in DOMAIN attempts
    THEN /\ attempts'[a].sent = attempts[a].sent
         /\ Stamped(attempts[a].started, attempts'[a].started, t)
         /\ Stamped(attempts[a].completed, attempts'[a].completed, t)
    ELSE /\ attempts'[a].sent = t /\ attempts'[a].started \in {t, NoTime}
         /\ attempts'[a].completed = NoTime

LEMMA LaunchTimes ==
    ASSUME TypeInv, NEW e, e.when \in Nat, NEW r \in Requests, NEW o, NEW keys, NEW new,
           Launch(e, r, o, keys, new), NEW a \in DOMAIN attempts'
    PROVE  AttemptTimes(a, e.when)
<1>1. CASE UNCHANGED attempts
  BY <1>1 DEF AttemptTimes, Stamped
<1>2. CASE LaunchAdmitted(e, r, o, keys, new)
  <2>1. PICK x, started :
                /\ attempts' = Append(attempts, x) /\ started \in {e.when, NoTime}
                /\ x = [original |-> r, sent |-> e.when, started |-> started,
                        completed |-> NoTime, timed_out |-> FALSE]
    BY <1>2 DEF LaunchAdmitted
  <2>2. x.sent = e.when /\ x.started = started /\ x.completed = NoTime /\ x \in AttemptType
    BY <2>1 DEF AttemptType, Time, NoTime
  <2>3. attempts \in Seq(AttemptType)
    BY TypeFacts
  <2>4. /\ Len(attempts) \in Nat /\ DOMAIN attempts = 1..Len(attempts)
        /\ DOMAIN attempts' = 1..(Len(attempts) + 1)
        /\ \A i \in DOMAIN attempts : attempts'[i] = attempts[i]
        /\ attempts'[Len(attempts) + 1] = x
    BY <2>1, <2>2, <2>3, AppendGrows
  <2>5. a \in DOMAIN attempts \/ a = Len(attempts) + 1
    BY <2>4
  <2> QED
    BY <2>1, <2>2, <2>4, <2>5 DEF AttemptTimes, Stamped
<1> QED
  BY <1>1, <1>2 DEF Launch, LaunchCapped, LaunchRejected

LEMMA CompleteTimes ==
    ASSUME TypeInv, ServerInv, NEW e, Complete(e), NEW a \in DOMAIN attempts'
    PROVE  AttemptTimes(a, e.when)
<1> DEFINE c == totals["completed_attempts"]
           next == Head(queue)
           finished == [attempts EXCEPT ![e.value].completed = e.when]
<1>1. /\ e.value \in DOMAIN attempts /\ e.when \in Nat /\ e.value = c + 1 /\ c \in Nat
      /\ attempts[e.value].completed = NoTime
  <2>1. e \in events /\ e.kind = "complete" /\ e.when \in Nat /\ e.value \in DOMAIN attempts
    BY PopFacts DEF Complete
  <2>2. e.value = c + 1 /\ c \in Nat
    BY <2>1, ServerFacts
  <2>3. attempts[e.value].completed = NoTime
    BY <2>1, <2>2 DEF ServerInv, ServerAttempts
  <2> QED
    BY <2>1, <2>2, <2>3
<1>2. queue # << >> => next \in DOMAIN attempts /\ attempts[next].started = NoTime
  <2>1. queue # << >> => Len(queue) \in Nat /\ 1 \in 1..Len(queue) /\ next = queue[1]
    BY TypeFacts, LenProperties, EmptySeq
  <2>2. queue # << >> => next = c + 2 /\ next \in DOMAIN attempts
    <3>1. 1 \in DOMAIN queue => queue[1] = c + 1 + 1 /\ queue[1] \in DOMAIN attempts
      BY TypeFacts, ElementOfSeq DEF ServerInv, ServerQueue
    <3> QED
      BY <1>1, <2>1, <3>1, ServerFacts
  <2>3. in_service \in 0..1
    BY DEF in_service
  <2>4. \A b \in DOMAIN attempts : attempts[b].started # NoTime <=> b <= c + in_service
    BY DEF ServerInv, ServerAttempts
  <2> QED
    BY <1>1, <2>2, <2>3, <2>4
<1>3. attempts \in [DOMAIN attempts -> AttemptType]
  BY AttemptFacts
<1>4. /\ DOMAIN finished = DOMAIN attempts
      /\ \A b \in DOMAIN attempts :
            /\ finished[b].sent = attempts[b].sent
            /\ finished[b].started = attempts[b].started
            /\ finished[b].completed = IF b = e.value THEN e.when ELSE attempts[b].completed
      /\ finished \in [DOMAIN attempts -> AttemptType]
  BY <1>1, <1>3 DEF AttemptType, Time
<1>5. \/ attempts' = finished
      \/ queue # << >> /\ attempts' = [finished EXCEPT ![next].started = e.when]
  BY DEF Complete
<1> HIDE DEF finished, next, c
<1>6. /\ a \in DOMAIN attempts
      /\ attempts'[a].sent = finished[a].sent /\ attempts'[a].completed = finished[a].completed
      /\ \/ attempts'[a].started = finished[a].started
         \/ queue # << >> /\ a = next /\ attempts'[a].started = e.when
  BY <1>4, <1>5 DEF AttemptType
<1> QED
  BY <1>1, <1>2, <1>4, <1>6 DEF AttemptTimes, Stamped

LEMMA TimesStep ==
    ASSUME TypeInv, ServerInv, NEW e, Handle(e), NEW a \in DOMAIN attempts'
    PROVE  AttemptTimes(a, e.when)
<1>1. CASE UNCHANGED attempts
  BY <1>1 DEF AttemptTimes, Stamped
<1>2. CASE Arrival(e) \/ RetryLaunched(e)
  <2>1. e.value \in Requests /\ e.when \in Nat
    BY <1>2, PopFacts DEF Arrival, RetryLaunched
  <2> QED
    BY <1>2, <2>1, LaunchTimes DEF Arrival, RetryLaunched
<1>3. CASE TimeoutFailed(e)
  <2>1. /\ e.value \in DOMAIN attempts
        /\ attempts' = [attempts EXCEPT ![e.value].timed_out = TRUE]
    BY <1>3, PopFacts DEF TimeoutFailed
  <2>2. attempts \in [DOMAIN attempts -> AttemptType]
    BY AttemptFacts
  <2>3. /\ a \in DOMAIN attempts /\ attempts'[a].sent = attempts[a].sent
        /\ attempts'[a].started = attempts[a].started
        /\ attempts'[a].completed = attempts[a].completed
    BY <2>1, <2>2 DEF AttemptType
  <2> QED
    BY <2>3 DEF AttemptTimes, Stamped
<1>4. CASE Complete(e)
  BY <1>4, CompleteTimes
<1> QED
  BY <1>1, <1>2, <1>3, <1>4
  DEF Handle, DeadlinePassed, RetryStale, RetryDenied, TimeoutAnswered, Sample

\* Until a request arrives it has no times; until it is settled, no end.
RequestTimes ==
    \A r \in Requests :
        /\ originals[r].status = "absent" => originals[r].arrived = NoTime
        /\ originals[r].status \in {"absent", "pending"} => originals[r].terminal_at = NoTime
        /\ originals[r].status \in Terminal => originals[r].terminal_at \in 0..now

\* Only terminate sets terminal_at.
PendingUnsettled(o, r) ==
    originals'[r].status = "pending" =>
        originals'[r].terminal_at = o[r].terminal_at /\ o[r].status = "pending"

LEMMA TerminateUnsettled ==
    ASSUME NEW o \in [Requests -> OriginalType], NEW q, NEW reason \in Terminal, NEW t,
           originals' = Terminate(o, q, reason, t), NEW r \in Requests
    PROVE  PendingUnsettled(o, r)
<1>1. reason # "pending"
  BY DEF Terminal, FailureReason
<1> QED
  BY <1>1 DEF PendingUnsettled, Terminate, OriginalType

LEMMA LaunchUnsettled ==
    ASSUME TypeInv, NEW e, NEW q \in Requests, NEW o \in [Requests -> OriginalType],
           NEW keys, NEW new, Launch(e, q, o, keys, new), NEW r \in Requests
    PROVE  PendingUnsettled(o, r)
<1>1. CASE originals' = o
  BY <1>1 DEF PendingUnsettled
<1> DEFINE tried == [o EXCEPT ![q].attempts = @ + 1]
<1>2. /\ tried \in [Requests -> OriginalType]
      /\ tried[r].status = o[r].status /\ tried[r].terminal_at = o[r].terminal_at
  BY DEF OriginalType
<1>3. \/ originals' = o \/ originals' = tried
      \/ originals' = Terminate(tried, q, "queue_rejected", e.when)
  BY DEF Launch, LaunchCapped, LaunchRejected, LaunchAdmitted
<1> HIDE DEF tried
<1>4. CASE originals' = tried
  BY <1>2, <1>4 DEF PendingUnsettled
<1>5. CASE originals' = Terminate(tried, q, "queue_rejected", e.when)
  <2>1. "queue_rejected" \in Terminal
    BY DEF Terminal, FailureReason
  <2>2. PendingUnsettled(tried, r)
    BY <1>2, <1>5, <2>1, TerminateUnsettled
  <2> QED
    BY <1>2, <2>2 DEF PendingUnsettled
<1> QED
  BY <1>1, <1>3, <1>4, <1>5

LEMMA UnsettledStep ==
    ASSUME TypeInv, RequestTimes, NEW e, Handle(e), NEW r \in Requests,
           originals'[r].status = "pending"
    PROVE  originals'[r].terminal_at = NoTime
<1>1. originals \in [Requests -> OriginalType]
  BY TypeFacts
<1>2. {"deadline_expired", "budget_denied", "attempts_exhausted", "success"} \subseteq Terminal
  BY DEF Terminal, FailureReason
<1>3. CASE PendingUnsettled(originals, r)
  BY <1>3 DEF PendingUnsettled, RequestTimes
<1>4. CASE Arrival(e)
  <2> DEFINE arrived == [originals EXCEPT ![e.value] = [arrived |-> e.when, attempts |-> 0,
                                            status |-> "pending", terminal_at |-> NoTime]]
             new == {Event(e.when + OriginalDeadline, "deadline", e.value, serial)}
  <2>1. Launch(e, e.value, arrived, {"arrivals"}, new)
    BY <1>4 DEF Arrival
  <2>2. e.value \in Requests /\ e.when \in Nat
    BY <1>4, PopFacts DEF Arrival
  <2>3. /\ arrived \in [Requests -> OriginalType]
        /\ r = e.value => arrived[r].terminal_at = NoTime
        /\ r # e.value => arrived[r] = originals[r]
    BY <1>1, <2>2 DEF OriginalType, Time
  <2> HIDE DEF arrived, new
  <2>4. PendingUnsettled(arrived, r)
    BY <2>1, <2>2, <2>3, LaunchUnsettled
  <2> QED
    BY <2>3, <2>4 DEF PendingUnsettled, RequestTimes
<1>5. CASE RetryLaunched(e)
  <2>1. e.value \in Requests
    BY <1>5, PopFacts DEF RetryLaunched
  <2> QED
    BY <1>1, <1>3, <1>5, <2>1, LaunchUnsettled DEF RetryLaunched
<1>6. CASE UNCHANGED originals
  BY <1>3, <1>6 DEF PendingUnsettled
<1>7. CASE \E q, t : \E reason \in {"deadline_expired", "budget_denied",
                                      "attempts_exhausted", "success"} :
              originals' = Terminate(originals, q, reason, t)
  BY <1>1, <1>2, <1>3, <1>7, TerminateUnsettled
<1> QED
  BY <1>4, <1>5, <1>6, <1>7
  DEF Handle, DeadlinePassed, RetryStale, RetryDenied, TimeoutAnswered, TimeoutFailed, Complete,
      Sample

LEMMA RequestTimesStep ==
    ASSUME TypeInv, ServerInv, ArrivesOnce, RequestTimes, NEW e, Handle(e)
    PROVE  RequestTimes'
<1>1. Effect(e)
  BY Effects
<1>2. now' = e.when /\ now <= e.when /\ now \in Nat /\ e.when \in Nat
  BY <1>1, HandledFirst
<1>3. "absent" \notin Terminal /\ "pending" \notin Terminal /\ "queue_rejected" \in Terminal
  BY DEF Terminal, FailureReason
<1> SUFFICES ASSUME NEW r \in Requests
             PROVE  /\ originals'[r].status = "absent" => originals'[r].arrived = NoTime
                    /\ originals'[r].status \in {"absent", "pending"} =>
                            originals'[r].terminal_at = NoTime
                    /\ originals'[r].status \in Terminal => originals'[r].terminal_at \in 0..now'
  BY DEF RequestTimes
<1>4. RequestChange(e, r)
  BY <1>1, RequestChanges
<1>5. originals'[r].status = "pending" => originals'[r].terminal_at = NoTime
  BY UnsettledStep
<1>6. CASE SameRecord(r)
  BY <1>2, <1>6 DEF SameRecord, RequestTimes
<1>7. CASE ~SameRecord(r)
  <2>1. \/ originals'[r].status = "pending"
        \/ originals'[r].status \in Terminal /\ originals'[r].terminal_at = e.when
    BY <1>3, <1>4, <1>7 DEF RequestChange
  <2> QED
    BY <1>2, <1>3, <1>5, <2>1
<1> QED
  BY <1>6, <1>7

\* The counters that a reader of the timeline can check against its requests.
Shown == {"arrivals", "successes", "completed_attempts"}

\* add(t, keys) as window w sees it.
Bumped(w, t, keys) ==
    \A k \in Shown :
        windows'[w][k] = IF w = WindowAt(t) /\ k \in keys THEN windows[w][k] + 1 ELSE windows[w][k]

GaugesKept(w) == \A k \in Gauges : windows'[w][k] = windows[w][k]

\* What a handler writes into window w.
Recorded(e, w) ==
    LET r == attempts[e.value].original
    IN  \/ e.kind \notin {"arrival", "complete"} /\ Bumped(w, e.when, {})
        \/ e.kind = "arrival" /\ Bumped(w, e.when, {"arrivals"})
        \/ /\ e.kind = "complete" /\ originals[r].status = "pending"
           /\ originals'[r].status = "success" /\ originals'[r].terminal_at = e.when
           /\ Bumped(w, e.when, {"completed_attempts", "successes"})
        \/ /\ e.kind = "complete" /\ SameRecord(r)
           /\ Bumped(w, e.when, {"completed_attempts"})

LEMMA AddBumps ==
    ASSUME TypeInv, NEW t, NEW keys, Add(t, keys), keys \cap Gauges = {},
           NEW shown, keys \cap Shown = shown, NEW w \in Windows
    PROVE  Bumped(w, t, shown) /\ GaugesKept(w)
<1>1. windows \in [Windows -> [Counters \cup Gauges -> Nat]]
  BY DEF TypeInv, TypeOK
<1>2. windows'[w] = IF w = WindowAt(t) THEN Count(windows[w], keys) ELSE windows[w]
  BY <1>1 DEF Add
<1>3. \A k \in Counters \cup Gauges :
        windows'[w][k] = IF w = WindowAt(t) /\ k \in keys THEN windows[w][k] + 1 ELSE windows[w][k]
  BY <1>1, <1>2 DEF Count
<1>4. Shown \subseteq Counters
  BY DEF Shown, Counters
<1> QED
  BY <1>3, <1>4 DEF Bumped, GaugesKept

\* The counters other than those shown.
LEMMA GivenUpNotShown ==
    ASSUME NEW o, NEW r, NEW reason \in FailureReason
    PROVE  /\ TerminateCounts(o, r, reason) \cap Shown = {}
           /\ TerminateCounts(o, r, reason) \cap Gauges = {}
  BY DEF TerminateCounts, FailureReason, Shown, Gauges

LEMMA LaunchBumps ==
    ASSUME TypeInv, NEW e, NEW r \in Requests, NEW o,
           NEW keys \in SUBSET {"arrivals"}, NEW new, Launch(e, r, o, keys, new),
           NEW w \in Windows
    PROVE  Bumped(w, e.when, keys) /\ GaugesKept(w)
<1>1. PICK more : Add(e.when, more) /\ more \cap Gauges = {} /\ more \cap Shown = keys
  <2>1. CASE LaunchCapped(e, o, keys, new)
    <3>1. Add(e.when, keys) /\ keys \cap Gauges = {} /\ keys \cap Shown = keys
      BY <2>1 DEF LaunchCapped, Gauges, Shown
    <3> QED
      BY <3>1
  <2>2. CASE LaunchRejected(e, r, o, keys, new)
    <3> DEFINE tried == [o EXCEPT ![r].attempts = @ + 1]
               dropped == IF tried[r].attempts = 1 THEN {"dropped_arrivals"} ELSE {}
               failed == TerminateCounts(tried, r, "queue_rejected")
               all == keys \cup {"attempts", "rejected_attempts"} \cup dropped \cup failed
    <3>1. Add(e.when, all)
      BY <2>2 DEF LaunchRejected
    <3>2. dropped \subseteq {"dropped_arrivals"}
      OBVIOUS
    <3>3. failed \cap Shown = {} /\ failed \cap Gauges = {}
      <4>1. "queue_rejected" \in FailureReason
        BY DEF FailureReason
      <4> QED
        BY <4>1, GivenUpNotShown
    <3> HIDE DEF tried, dropped, failed
    <3>4. all \cap Gauges = {} /\ all \cap Shown = keys
      BY <3>2, <3>3 DEF Gauges, Shown
    <3> HIDE DEF all
    <3> QED
      BY <3>1, <3>4
  <2>3. CASE LaunchAdmitted(e, r, o, keys, new)
    <3> DEFINE all == keys \cup {"attempts", "admitted_attempts"}
    <3>1. Add(e.when, all)
      BY <2>3 DEF LaunchAdmitted
    <3>2. all \cap Gauges = {} /\ all \cap Shown = keys
      BY DEF Gauges, Shown
    <3> HIDE DEF all
    <3> QED
      BY <3>1, <3>2
  <2> QED
    BY <2>1, <2>2, <2>3 DEF Launch
<1> QED
  BY <1>1, AddBumps

LEMMA GiveUpBumps ==
    ASSUME TypeInv, NEW t, NEW o, NEW r, NEW reason \in FailureReason, NEW w \in Windows,
           Add(t, TerminateCounts(o, r, reason))
    PROVE  Bumped(w, t, {}) /\ GaugesKept(w)
  BY AddBumps, GivenUpNotShown

LEMMA FailBumps ==
    ASSUME TypeInv, NEW e, TimeoutFailed(e), NEW w \in Windows
    PROVE  Bumped(w, e.when, {}) /\ GaugesKept(w)
<1>1. PICK keys, failed : /\ Add(e.when, keys) /\ keys \subseteq {"attempt_timeouts"} \cup failed
                          /\ failed = TerminateCounts(originals, attempts[e.value].original,
                                                      "attempts_exhausted")
  BY DEF TimeoutFailed
<1>2. failed \cap Shown = {} /\ failed \cap Gauges = {}
  <2>1. "attempts_exhausted" \in FailureReason
    BY DEF FailureReason
  <2> QED
    BY <1>1, <2>1, GivenUpNotShown
<1>3. keys \cap Gauges = {} /\ keys \cap Shown = {}
  BY <1>1, <1>2 DEF Gauges, Shown
<1> QED
  BY <1>1, <1>3, AddBumps

LEMMA CompleteBumps ==
    ASSUME TypeInv, DeadlineInv, NEW e, Complete(e), NEW w \in Windows
    PROVE  Recorded(e, w) /\ GaugesKept(w)
<1> DEFINE r == attempts[e.value].original
<1>1. e.kind = "complete" /\ r \in Requests
  BY PopFacts, AttemptFacts DEF Complete
<1>2. originals \in [Requests -> OriginalType]
  BY TypeFacts
<1>3. CASE /\ Pending(originals, r) /\ originals' = Terminate(originals, r, "success", e.when)
           /\ Add(e.when, {"completed_attempts"} \cup TerminateCounts(originals, r, "success"))
  <2>1. originals[r].status = "pending" /\ originals[r].arrived \in Int
    BY <1>1, <1>3, TypeFacts DEF DeadlineInv, Known, Pending
  <2>2. PICK p \in Phases : TerminateCounts(originals, r, "success") = {"successes", p}
    BY <1>3, <2>1, SuccessCounts
  <2>3. PICK keys : keys = {"completed_attempts", "successes", p}
    OBVIOUS
  <2>4. Add(e.when, keys)
    BY <1>3, <2>2, <2>3
  <2>5. PICK shown : shown = {"completed_attempts", "successes"}
    OBVIOUS
  <2>6. keys \cap Gauges = {} /\ keys \cap Shown = shown
    BY <2>2, <2>3, <2>5 DEF Phases, Gauges, Shown
  <2>7. Bumped(w, e.when, shown) /\ GaugesKept(w)
    BY <2>4, <2>6, AddBumps
  <2>8. originals'[r].status = "success" /\ originals'[r].terminal_at = e.when
    BY <1>1, <1>2, <1>3 DEF Terminate, Pending, OriginalType
  <2> QED
    BY <1>1, <2>1, <2>5, <2>7, <2>8 DEF Recorded
<1>4. CASE UNCHANGED originals /\ Add(e.when, {"completed_attempts", "unused_completions"})
  <2>1. PICK keys : keys = {"completed_attempts", "unused_completions"}
    OBVIOUS
  <2>2. PICK shown : shown = {"completed_attempts"}
    OBVIOUS
  <2>3. keys \cap Gauges = {} /\ keys \cap Shown = shown
    BY <2>1, <2>2 DEF Gauges, Shown
  <2>4. Bumped(w, e.when, shown) /\ GaugesKept(w)
    BY <1>4, <2>1, <2>3, AddBumps
  <2> QED
    BY <1>1, <1>4, <2>2, <2>4 DEF Recorded, SameRecord
<1> QED
  BY <1>3, <1>4 DEF Complete

LEMMA SampleKeeps ==
    ASSUME TypeInv, NEW e, Sample(e), NEW w \in Windows
    PROVE  /\ Bumped(w, e.when, {})
           /\ w # (e.when \div WindowSize) - 1 => GaugesKept(w)
<1>1. windows \in [Windows -> [Counters \cup Gauges -> Nat]]
  BY DEF TypeInv, TypeOK
<1>2. PICK v, depth, serving, open :
        windows' = [windows EXCEPT ![v] =
            [@ EXCEPT !["queue_depth_at_end"] = depth,
                      !["in_service_at_end"] = serving,
                      !["pending_originals_at_end"] = open]]
        /\ v = (e.when \div WindowSize) - 1
  BY DEF Sample
<1>3. \A k \in Shown : k \in Counters \cup Gauges /\ k \notin Gauges
  BY DEF Shown, Counters, Gauges
<1>4. \A k \in Counters \cup Gauges : w # v \/ k \notin Gauges => windows'[w][k] = windows[w][k]
  BY <1>1, <1>2 DEF Gauges
<1> QED
  BY <1>2, <1>3, <1>4 DEF Bumped, GaugesKept

\* Every handler records what happens in the window in which it happens.
LEMMA EveryStepRecorded ==
    ASSUME TypeInv, DeadlineInv, NEW e, Handle(e), NEW w \in Windows
    PROVE  /\ Recorded(e, w)
           /\ GaugesKept(w) \/ (Sample(e) /\ w = (e.when \div WindowSize) - 1)
<1>1. CASE Arrival(e)
  <2>1. PICK keys : keys = {"arrivals"}
    OBVIOUS
  <2>2. keys \in SUBSET {"arrivals"} /\ e.kind = "arrival" /\ e.value \in Requests
    BY <1>1, <2>1, PopFacts DEF Arrival
  <2>3. PICK o, new : Launch(e, e.value, o, keys, new)
    BY <1>1, <2>1 DEF Arrival
  <2>4. Bumped(w, e.when, keys) /\ GaugesKept(w)
    BY <2>2, <2>3, LaunchBumps
  <2> QED
    BY <2>1, <2>2, <2>4 DEF Recorded
<1>2. CASE RetryLaunched(e)
  <2>1. PICK keys : keys = {}
    OBVIOUS
  <2>2. keys \in SUBSET {"arrivals"} /\ e.kind = "retry" /\ e.value \in Requests
    BY <1>2, <2>1, PopFacts DEF RetryLaunched
  <2>3. PICK o, new : Launch(e, e.value, o, keys, new)
    BY <1>2, <2>1 DEF RetryLaunched
  <2>4. Bumped(w, e.when, keys) /\ GaugesKept(w)
    BY <2>2, <2>3, LaunchBumps
  <2> QED
    BY <2>1, <2>2, <2>4 DEF Recorded
<1>3. CASE DeadlinePassed(e) \/ RetryDenied(e)
  <2>1. "deadline_expired" \in FailureReason /\ "budget_denied" \in FailureReason
    BY DEF FailureReason
  <2>2. e.kind \in {"deadline", "retry"}
    BY <1>3, PopFacts DEF DeadlinePassed, RetryDenied
  <2>3. Bumped(w, e.when, {}) /\ GaugesKept(w)
    BY <1>3, <2>1, GiveUpBumps DEF DeadlinePassed, RetryDenied
  <2> QED
    BY <2>2, <2>3 DEF Recorded
<1>4. CASE RetryStale(e) \/ TimeoutAnswered(e)
  <2>1. e.kind \in {"timeout", "retry"} /\ UNCHANGED windows
    BY <1>4, PopFacts DEF RetryStale, TimeoutAnswered
  <2> QED
    BY <2>1 DEF Recorded, Bumped, GaugesKept
<1>5. CASE TimeoutFailed(e)
  <2>1. e.kind = "timeout"
    BY <1>5, PopFacts DEF TimeoutFailed
  <2> QED
    BY <1>5, <2>1, FailBumps DEF Recorded
<1>6. CASE Complete(e)
  BY <1>6, CompleteBumps
<1>7. CASE Sample(e)
  <2>1. e.kind = "sample"
    BY <1>7, PopFacts DEF Sample
  <2> QED
    BY <1>7, <2>1, SampleKeeps DEF Recorded
<1> QED
  BY <1>1, <1>2, <1>3, <1>4, <1>5, <1>6, <1>7 DEF Handle

-----------------------------------------------------------------------------
(* The counters of a window.                                                 *)

ArrivedIn(w) == {r \in Requests : Within(originals[r].arrived, w)}
SucceededIn(w) == {r \in With("success") : Within(originals[r].terminal_at, w)}
CompletedIn(w) == {a \in DOMAIN attempts : Within(attempts[a].completed, w)}

LEMMA CounterParts ==
    ASSUME NEW w
    PROVE  CountersTrue(w) <=> /\ windows[w]["arrivals"] = Cardinality(ArrivedIn(w))
                               /\ windows[w]["successes"] = Cardinality(SucceededIn(w))
                               /\ windows[w]["completed_attempts"] = Cardinality(CompletedIn(w))
BY DEF CountersTrue, ArrivedIn, SucceededIn, CompletedIn, Within

LEMMA CountedFinite ==
    ASSUME TypeInv, NEW w
    PROVE  IsFiniteSet(ArrivedIn(w)) /\ IsFiniteSet(SucceededIn(w)) /\ IsFiniteSet(CompletedIn(w))
<1>1. IsFiniteSet(Requests)
  BY FS_Interval, RetrySimAssumption DEF Requests
<1>2. DOMAIN attempts = 1..Len(attempts) /\ Len(attempts) \in Int
  BY AttemptFacts
<1>3. IsFiniteSet(DOMAIN attempts)
  BY <1>2, FS_Interval
<1>4. /\ ArrivedIn(w) \subseteq Requests /\ SucceededIn(w) \subseteq Requests
      /\ CompletedIn(w) \subseteq DOMAIN attempts
  BY DEF ArrivedIn, SucceededIn, CompletedIn, With
<1> QED
  BY <1>1, <1>3, <1>4, FS_Subset

LEMMA NeverWithin == \A w : ~Within(NoTime, w)
BY DEF Within

LEMMA ArrivedStep ==
    ASSUME TypeInv, RequestTimes, NEW e, Effect(e), NEW w \in Windows
    PROVE  IF e.kind = "arrival" /\ w = WindowAt(e.when)
           THEN ArrivedIn(w)' = ArrivedIn(w) \cup {e.value} /\ e.value \notin ArrivedIn(w)
           ELSE ArrivedIn(w)' = ArrivedIn(w)
<1>1. e.when \in Nat
  BY HandledFirst
<1>2. Within(e.when, w) <=> w = WindowAt(e.when)
  BY <1>1, WithinWindow
<1>3. ASSUME NEW r \in Requests
      PROVE  \/ originals'[r].arrived = originals[r].arrived
             \/ /\ e.kind = "arrival" /\ e.value = r
                /\ originals[r].arrived = NoTime /\ originals'[r].arrived = e.when
  BY RequestChanges DEF RequestChange, SameRecord, RequestTimes
<1>4. e.kind = "arrival" => /\ e.value \in Requests
                            /\ originals[e.value].arrived = NoTime
                            /\ originals'[e.value].arrived = e.when
  BY DEF Effect, QuietEffect, RetryEffect, FailEffect, CompleteEffect, ArrivalEffect,
         LaunchEffect, RequestTimes
<1>5. CASE e.kind = "arrival" /\ w = WindowAt(e.when)
  <2>1. e.value \notin ArrivedIn(w)
    BY <1>4, <1>5, NeverWithin DEF ArrivedIn
  <2>2. ArrivedIn(w)' = {r \in Requests : Within(originals'[r].arrived, w)}
    BY DEF ArrivedIn, Within
  <2>3. \A r \in Requests : Within(originals'[r].arrived, w)
                               <=> Within(originals[r].arrived, w) \/ r = e.value
    BY <1>2, <1>3, <1>4, <1>5
  <2> QED
    BY <1>4, <1>5, <2>1, <2>2, <2>3 DEF ArrivedIn
<1>6. CASE ~(e.kind = "arrival" /\ w = WindowAt(e.when))
  <2>1. ArrivedIn(w)' = {r \in Requests : Within(originals'[r].arrived, w)}
    BY DEF ArrivedIn, Within
  <2>2. \A r \in Requests : Within(originals'[r].arrived, w) <=> Within(originals[r].arrived, w)
    BY <1>2, <1>3, <1>6, NeverWithin
  <2>3. ArrivedIn(w)' = ArrivedIn(w)
    BY <2>1, <2>2 DEF ArrivedIn
  <2> QED
    BY <1>6, <2>3
<1> QED
  BY <1>5, <1>6

\* Only an answer makes a request a success.
LEMMA SuccessOnlyAnswers ==
    ASSUME TypeInv, NEW e, Effect(e), NEW q \in Requests, originals'[q].status = "success"
    PROVE  SameRecord(q) \/ (e.kind = "complete" /\ q = attempts[e.value].original)
<1>1. CASE QuietEffect(e)
  BY <1>1 DEF QuietEffect, SettledNow, SettlesFor
<1>2. CASE ArrivalEffect(e)
  BY <1>2 DEF ArrivalEffect, LaunchEffect
<1>3. CASE RetryEffect(e)
  BY <1>3 DEF RetryEffect, LaunchEffect, SameRecord
<1>4. CASE FailEffect(e)
  BY <1>4 DEF FailEffect, SettledNow
<1>5. CASE CompleteEffect(e)
  BY <1>5 DEF CompleteEffect
<1> QED
  BY <1>1, <1>2, <1>3, <1>4, <1>5 DEF Effect

LEMMA SucceededStays ==
    ASSUME TypeInv, NEW e, Effect(e), NEW w \in Windows,
           \A q \in Requests : originals'[q].status = "success" => SameRecord(q)
    PROVE  SucceededIn(w)' = SucceededIn(w)
<1>1. \A q \in Requests : originals[q].status = "success" => SameRecord(q)
  BY RequestChanges DEF RequestChange
<1> QED
  BY <1>1 DEF SucceededIn, With, Within, SameRecord

LEMMA SucceededGrows ==
    ASSUME TypeInv, NEW e, Effect(e), NEW w \in Windows, NEW r \in Requests,
           e.kind = "complete", r = attempts[e.value].original,
           originals[r].status = "pending", originals'[r].status = "success",
           originals'[r].terminal_at = e.when
    PROVE  IF w = WindowAt(e.when)
           THEN SucceededIn(w)' = SucceededIn(w) \cup {r} /\ r \notin SucceededIn(w)
           ELSE SucceededIn(w)' = SucceededIn(w)
<1>1. e.when \in Nat
  BY HandledFirst
<1>2. Within(e.when, w) <=> w = WindowAt(e.when)
  BY <1>1, WithinWindow
<1>3. \A q \in Requests \ {r} : /\ originals'[q].status = "success" => SameRecord(q)
                                /\ originals[q].status = "success" => SameRecord(q)
  BY SuccessOnlyAnswers, RequestChanges DEF RequestChange
<1>4. SucceededIn(w)' = {q \in Requests : /\ originals'[q].status = "success"
                                          /\ Within(originals'[q].terminal_at, w)}
  BY DEF SucceededIn, With, Within
<1>5. \A q \in Requests \ {r} : q \in SucceededIn(w)' <=> q \in SucceededIn(w)
  BY <1>3, <1>4 DEF SucceededIn, With, SameRecord
<1>6. r \notin SucceededIn(w) /\ SucceededIn(w) \subseteq Requests
  BY DEF SucceededIn, With
<1>7. r \in SucceededIn(w)' <=> w = WindowAt(e.when)
  BY <1>2, <1>4
<1>8. SucceededIn(w)' \subseteq Requests
  BY <1>4
<1> HIDE DEF SucceededIn
<1>9. PICK S, T : S = SucceededIn(w) /\ T = SucceededIn(w)'
  OBVIOUS
<1>10. CASE w = WindowAt(e.when)
  <2>1. T = S \cup {r} /\ r \notin S
    BY <1>5, <1>6, <1>7, <1>8, <1>9, <1>10
  <2> QED
    BY <1>9, <1>10, <2>1
<1>11. CASE w # WindowAt(e.when)
  <2>1. T = S
    BY <1>5, <1>6, <1>7, <1>8, <1>9, <1>11
  <2> QED
    BY <1>9, <1>11, <2>1
<1> QED
  BY <1>10, <1>11

LEMMA CompletedStep ==
    ASSUME TypeInv, NEW e, Effect(e), NEW w \in Windows
    PROVE  IF e.kind = "complete" /\ w = WindowAt(e.when)
           THEN CompletedIn(w)' = CompletedIn(w) \cup {e.value} /\ e.value \notin CompletedIn(w)
           ELSE CompletedIn(w)' = CompletedIn(w)
<1>1. e.when \in Nat
  BY HandledFirst
<1>2. Within(e.when, w) <=> w = WindowAt(e.when)
  BY <1>1, WithinWindow
<1>3. CompletedIn(w)' = {a \in DOMAIN attempts' : Within(attempts'[a].completed, w)}
  BY DEF CompletedIn, Within
<1>4. CASE e.kind = "complete"
  <2>1. CompleteEffect(e)
    BY <1>4 DEF Effect, QuietEffect, ArrivalEffect, RetryEffect, FailEffect
  <2>2. /\ e.value \in DOMAIN attempts /\ DOMAIN attempts' = DOMAIN attempts
        /\ attempts[e.value].completed = NoTime
        /\ \A b \in DOMAIN attempts :
              attempts'[b].completed = IF b = e.value THEN e.when ELSE attempts[b].completed
    BY <2>1 DEF CompleteEffect, AttemptEnded
  <2>3. e.value \notin CompletedIn(w)
    BY <2>2, NeverWithin DEF CompletedIn
  <2>4. CASE w = WindowAt(e.when)
    <3>1. CompletedIn(w)' = CompletedIn(w) \cup {e.value}
      BY <1>2, <1>3, <2>2, <2>4 DEF CompletedIn
    <3> QED
      BY <1>4, <2>3, <2>4, <3>1
  <2>5. CASE w # WindowAt(e.when)
    <3>1. CompletedIn(w)' = CompletedIn(w)
      BY <1>2, <1>3, <2>2, <2>5, NeverWithin DEF CompletedIn
    <3> QED
      BY <2>5, <3>1
  <2> QED
    BY <2>4, <2>5
<1>5. CASE e.kind # "complete"
  <2>1. /\ DOMAIN attempts \subseteq DOMAIN attempts'
        /\ \A b \in DOMAIN attempts : attempts'[b].completed = attempts[b].completed
        /\ \A b \in DOMAIN attempts' \ DOMAIN attempts : attempts'[b].completed = NoTime
    <3>1. CASE UNCHANGED attempts
      BY <3>1
    <3>2. CASE \E r : AttemptAdded(r, e.when)
      BY <3>2 DEF AttemptAdded
    <3>3. CASE FailEffect(e)
      <4>1. attempts \in [DOMAIN attempts -> AttemptType]
        BY AttemptFacts
      <4> QED
        BY <3>3, <4>1 DEF FailEffect, AttemptType
    <3> QED
      BY <1>5, <3>1, <3>2, <3>3
      DEF Effect, QuietEffect, ArrivalEffect, RetryEffect, LaunchEffect, CompleteEffect
  <2>2. CompletedIn(w)' = CompletedIn(w)
    BY <1>3, <2>1, NeverWithin DEF CompletedIn
  <2> QED
    BY <1>5, <2>2
<1> QED
  BY <1>4, <1>5

\* A set that stays, or gains one element.
LEMMA OneMore ==
    \A S, T, x : IsFiniteSet(S) /\ T = S \cup {x} /\ x \notin S =>
        Cardinality(T) = Cardinality(S) + 1
BY FS_AddElement

LEMMA CountersStep ==
    ASSUME TypeInv, RequestTimes, NEW e, Effect(e), NEW w \in Windows,
           Recorded(e, w), CountersTrue(w)
    PROVE  CountersTrue(w)'
<1> DEFINE r == attempts[e.value].original
           here == w = WindowAt(e.when)
<1>1. /\ windows[w]["arrivals"] = Cardinality(ArrivedIn(w))
      /\ windows[w]["successes"] = Cardinality(SucceededIn(w))
      /\ windows[w]["completed_attempts"] = Cardinality(CompletedIn(w))
  BY CounterParts
<1>2. IsFiniteSet(ArrivedIn(w)) /\ IsFiniteSet(SucceededIn(w)) /\ IsFiniteSet(CompletedIn(w))
  BY CountedFinite
<1>3. PICK a, s, c, a1, s1, c1 :
        /\ a = ArrivedIn(w) /\ s = SucceededIn(w) /\ c = CompletedIn(w)
        /\ a1 = ArrivedIn(w)' /\ s1 = SucceededIn(w)' /\ c1 = CompletedIn(w)'
  OBVIOUS
<1>4. SUFFICES /\ windows'[w]["arrivals"] = Cardinality(a1)
               /\ windows'[w]["successes"] = Cardinality(s1)
               /\ windows'[w]["completed_attempts"] = Cardinality(c1)
  BY <1>3 DEF CountersTrue, ArrivedIn, SucceededIn, CompletedIn, With, Within
<1>5. {"arrivals", "successes", "completed_attempts"} = Shown
  BY DEF Shown
<1>6. IF e.kind = "arrival" /\ here THEN a1 = a \cup {e.value} /\ e.value \notin a ELSE a1 = a
  BY <1>3, ArrivedStep
<1>7. IF e.kind = "complete" /\ here THEN c1 = c \cup {e.value} /\ e.value \notin c ELSE c1 = c
  BY <1>3, CompletedStep
<1>8. e.kind = "complete" => r \in Requests
  BY HandledFirst, AttemptFacts DEF TypeInv, EventsOK, EventOK
<1>9. CASE e.kind \notin {"arrival", "complete"} /\ Bumped(w, e.when, {})
  <2>1. \A q \in Requests : originals'[q].status = "success" => SameRecord(q)
    BY <1>9, SuccessOnlyAnswers
  <2>2. s1 = s
    BY <1>3, <2>1, SucceededStays
  <2>3. a1 = a /\ c1 = c
    BY <1>6, <1>7, <1>9
  <2> QED
    BY <1>1, <1>3, <1>5, <1>9, <2>2, <2>3 DEF Bumped
<1>10. CASE e.kind = "arrival" /\ Bumped(w, e.when, {"arrivals"})
  <2>1. \A q \in Requests : originals'[q].status = "success" => SameRecord(q)
    BY <1>10, SuccessOnlyAnswers
  <2>2. s1 = s /\ c1 = c
    BY <1>3, <1>7, <1>10, <2>1, SucceededStays
  <2>3. Cardinality(a1) = IF here THEN Cardinality(a) + 1 ELSE Cardinality(a)
    BY <1>2, <1>3, <1>6, <1>10, OneMore
  <2> QED
    BY <1>1, <1>3, <1>5, <1>10, <2>2, <2>3 DEF Bumped
<1>11. CASE /\ e.kind = "complete" /\ originals[r].status = "pending"
            /\ originals'[r].status = "success" /\ originals'[r].terminal_at = e.when
            /\ Bumped(w, e.when, {"completed_attempts", "successes"})
  <2>1. IF here THEN s1 = s \cup {r} /\ r \notin s ELSE s1 = s
    BY <1>3, <1>8, <1>11, SucceededGrows
  <2>2. a1 = a
    BY <1>6, <1>11
  <2>3. /\ Cardinality(s1) = IF here THEN Cardinality(s) + 1 ELSE Cardinality(s)
        /\ Cardinality(c1) = IF here THEN Cardinality(c) + 1 ELSE Cardinality(c)
    BY <1>2, <1>3, <1>7, <1>11, <2>1, OneMore
  <2> QED
    BY <1>1, <1>3, <1>5, <1>11, <2>2, <2>3 DEF Bumped
<1>12. CASE e.kind = "complete" /\ SameRecord(r) /\ Bumped(w, e.when, {"completed_attempts"})
  <2>1. \A q \in Requests : originals'[q].status = "success" => SameRecord(q)
    BY <1>12, SuccessOnlyAnswers
  <2>2. s1 = s /\ a1 = a
    BY <1>3, <1>6, <1>12, <2>1, SucceededStays
  <2>3. Cardinality(c1) = IF here THEN Cardinality(c) + 1 ELSE Cardinality(c)
    BY <1>2, <1>3, <1>7, <1>12, OneMore
  <2> QED
    BY <1>1, <1>3, <1>5, <1>12, <2>2, <2>3 DEF Bumped
<1> QED
  BY <1>9, <1>10, <1>11, <1>12 DEF Recorded

-----------------------------------------------------------------------------
(* The gauges of a window.                                                   *)

EndOf(w) == (w + 1) * WindowSize

\* At end, what began in from was not over.
Open(from, to, end) == from # NoTime /\ from <= end /\ (to = NoTime \/ to > end)

WaitingAt(end) == {a \in DOMAIN attempts : Open(attempts[a].sent, attempts[a].started, end)}
ServingAt(end) == {a \in DOMAIN attempts : Open(attempts[a].started, attempts[a].completed, end)}
OpenAt(end) == {r \in Requests : Open(originals[r].arrived, originals[r].terminal_at, end)}

LEMMA GaugeParts ==
    ASSUME NEW w
    PROVE  GaugesTrue(w) <=>
              /\ windows[w]["queue_depth_at_end"] = Cardinality(WaitingAt(EndOf(w)))
              /\ windows[w]["in_service_at_end"] = Cardinality(ServingAt(EndOf(w)))
              /\ windows[w]["pending_originals_at_end"] = Cardinality(OpenAt(EndOf(w)))
BY DEF GaugesTrue, WaitingAt, ServingAt, OpenAt, Open, EndOf

\* What begins or ends later does not matter.
LEMMA OpenStays ==
    \A x, x1, y, y1, t, end \in Int :
        t > end /\ Stamped(x, x1, t) /\ Stamped(y, y1, t) => (Open(x1, y1, end) <=> Open(x, y, end))
BY DEF Open, Stamped, NoTime

LEMMA NotYetOpen == \A x, y, end \in Int : x > end => ~Open(x, y, end) /\ ~Open(NoTime, y, end)
BY DEF Open, NoTime

LEMMA TimesTyped ==
    ASSUME TypeInv
    PROVE  /\ \A a \in DOMAIN attempts : /\ attempts[a].sent \in Int /\ attempts[a].started \in Int
                                         /\ attempts[a].completed \in Int
           /\ \A r \in Requests : originals[r].arrived \in Int /\ originals[r].terminal_at \in Int
<1>1. \A a \in DOMAIN attempts : /\ attempts[a].sent \in Int /\ attempts[a].started \in Int
                                 /\ attempts[a].completed \in Int
  BY AttemptFacts DEF NoTime
<1>2. \A r \in Requests : originals[r] \in OriginalType
  BY TypeFacts
<1> QED
  BY <1>1, <1>2 DEF OriginalType, Time, NoTime

LEMMA WaitingStays ==
    ASSUME TypeInv, ServerInv, NEW e, Handle(e), e.when \in Nat, NEW end \in Nat,
           e.when > end, DOMAIN attempts \subseteq DOMAIN attempts'
    PROVE  WaitingAt(end)' = WaitingAt(end) /\ ServingAt(end)' = ServingAt(end)
<1>1. ASSUME NEW a \in DOMAIN attempts
      PROVE  /\ Open(attempts'[a].sent, attempts'[a].started, end)
                   <=> Open(attempts[a].sent, attempts[a].started, end)
             /\ Open(attempts'[a].started, attempts'[a].completed, end)
                   <=> Open(attempts[a].started, attempts[a].completed, end)
  <2>1. /\ Stamped(attempts[a].sent, attempts'[a].sent, e.when)
        /\ Stamped(attempts[a].started, attempts'[a].started, e.when)
        /\ Stamped(attempts[a].completed, attempts'[a].completed, e.when)
    BY TimesStep DEF AttemptTimes, Stamped
  <2>2. /\ attempts[a].sent \in Int /\ attempts[a].started \in Int /\ attempts[a].completed \in Int
    BY TimesTyped
  <2>3. end \in Int /\ e.when \in Int
    OBVIOUS
  <2>4. /\ attempts'[a].sent \in Int /\ attempts'[a].started \in Int
        /\ attempts'[a].completed \in Int
    BY <2>1, <2>2, <2>3 DEF Stamped
  <2> QED
    BY <2>1, <2>2, <2>3, <2>4, OpenStays
<1>2. ASSUME NEW a \in DOMAIN attempts' \ DOMAIN attempts
      PROVE  /\ ~Open(attempts'[a].sent, attempts'[a].started, end)
             /\ ~Open(attempts'[a].started, attempts'[a].completed, end)
  <2>1. /\ attempts'[a].sent = e.when /\ attempts'[a].started \in {e.when, NoTime}
        /\ attempts'[a].completed = NoTime
    BY TimesStep DEF AttemptTimes
  <2>2. end \in Int /\ e.when \in Int /\ NoTime \in Int
    BY DEF NoTime
  <2> QED
    BY <2>1, <2>2, NotYetOpen
<1>3. /\ WaitingAt(end)' = {a \in DOMAIN attempts' :
                                Open(attempts'[a].sent, attempts'[a].started, end)}
      /\ ServingAt(end)' = {a \in DOMAIN attempts' :
                                Open(attempts'[a].started, attempts'[a].completed, end)}
  BY DEF WaitingAt, ServingAt, Open
<1> QED
  BY <1>1, <1>2, <1>3 DEF WaitingAt, ServingAt

LEMMA OpenAtStays ==
    ASSUME TypeInv, RequestTimes, NEW e, Effect(e), Handle(e), NEW end \in Nat, e.when > end
    PROVE  OpenAt(end)' = OpenAt(end)
<1>1. end \in Int /\ e.when \in Int
  BY HandledFirst
<1>2. ASSUME NEW r \in Requests
      PROVE  Open(originals'[r].arrived, originals'[r].terminal_at, end)
                <=> Open(originals[r].arrived, originals[r].terminal_at, end)
  <2>1. originals'[r].status = "pending" => originals'[r].terminal_at = NoTime
    BY <1>2, UnsettledStep
  <2>2. RequestChange(e, r)
    BY RequestChanges
  <2>3. /\ Stamped(originals[r].arrived, originals'[r].arrived, e.when)
        /\ Stamped(originals[r].terminal_at, originals'[r].terminal_at, e.when)
    BY <2>1, <2>2 DEF RequestChange, SameRecord, RequestTimes, Stamped
  <2>4. originals[r].arrived \in Int /\ originals[r].terminal_at \in Int
    BY TimesTyped
  <2>5. originals'[r].arrived \in Int /\ originals'[r].terminal_at \in Int
    BY <1>1, <2>3, <2>4 DEF Stamped
  <2> QED
    BY <1>1, <2>3, <2>4, <2>5, OpenStays
<1>3. OpenAt(end)' = {r \in Requests : Open(originals'[r].arrived, originals'[r].terminal_at, end)}
  BY DEF OpenAt, Open
<1> QED
  BY <1>2, <1>3 DEF OpenAt

\* The gauges of a window that has ended stay true.
LEMMA GaugesStay ==
    ASSUME TypeInv, ServerInv, ArrivesOnce, RequestTimes, NEW e, Handle(e), NEW w \in Windows,
           e.when > EndOf(w), GaugesKept(w), GaugesTrue(w)
    PROVE  GaugesTrue(w)'
<1>1. Effect(e)
  BY Effects
<1>2. DOMAIN attempts \subseteq DOMAIN attempts' /\ e.when \in Nat
  BY <1>1, AttemptsStep, HandledFirst
<1>3. PICK end : end = EndOf(w)
  OBVIOUS
<1>4. end \in Nat
  BY <1>3, WindowsExist, Multiples DEF EndOf, WindowFacts
<1>5. /\ WaitingAt(end)' = WaitingAt(end) /\ ServingAt(end)' = ServingAt(end)
      /\ OpenAt(end)' = OpenAt(end)
  BY <1>1, <1>2, <1>3, <1>4, WaitingStays, OpenAtStays
<1>6. /\ windows[w]["queue_depth_at_end"] = Cardinality(WaitingAt(end))
      /\ windows[w]["in_service_at_end"] = Cardinality(ServingAt(end))
      /\ windows[w]["pending_originals_at_end"] = Cardinality(OpenAt(end))
  BY <1>3, GaugeParts
<1>7. {"queue_depth_at_end", "in_service_at_end", "pending_originals_at_end"} = Gauges
  BY DEF Gauges
<1>8. /\ windows'[w]["queue_depth_at_end"] = Cardinality(WaitingAt(end)')
      /\ windows'[w]["in_service_at_end"] = Cardinality(ServingAt(end)')
      /\ windows'[w]["pending_originals_at_end"] = Cardinality(OpenAt(end)')
  BY <1>5, <1>6, <1>7 DEF GaugesKept
<1> QED
  BY <1>3, <1>8 DEF GaugesTrue, WaitingAt, ServingAt, OpenAt, Open, EndOf

\* The attempts after lo up to hi.
LEMMA SliceCard ==
    ASSUME NEW n \in Nat, NEW lo \in Nat, NEW hi \in Nat, lo <= hi, hi <= n,
           NEW S \in SUBSET (1..n), \A a \in 1..n : a \in S <=> lo < a /\ a <= hi
    PROVE  Cardinality(S) = hi - lo
<1>1. S = (lo + 1)..hi
  <2>1. ASSUME NEW x PROVE x \in S <=> x \in (lo + 1)..hi
    <3>1. x \in S => x \in 1..n
      OBVIOUS
    <3>2. x \in (lo + 1)..hi => x \in 1..n
      OBVIOUS
    <3>3. ASSUME x \in 1..n PROVE x \in S <=> lo < x /\ x <= hi
      BY <3>3
    <3>4. ASSUME x \in 1..n PROVE x \in (lo + 1)..hi <=> lo < x /\ x <= hi
      BY <3>4
    <3> QED
      BY <3>1, <3>2, <3>3, <3>4, Zenon
  <2> QED
    BY <2>1, Zenon
<1>2. lo + 1 \in Int /\ hi \in Int
  OBVIOUS
<1>3. Cardinality((lo + 1)..hi) = IF lo + 1 > hi THEN 0 ELSE hi - (lo + 1) + 1
  BY <1>2, FS_Interval
<1> QED
  BY <1>1, <1>3

\* The state of the server and the requests, read off their times.
LEMMA GaugesRead ==
    ASSUME TypeInv, ServerInv, DeadlineInv, RequestTimes, NEW end \in Nat, now <= end
    PROVE  /\ Cardinality(WaitingAt(end)) = Len(queue)
           /\ Cardinality(ServingAt(end)) = in_service
           /\ OpenAt(end) = {r \in Requests : Pending(originals, r)}
<1>1. PICK c, s, n : /\ c = totals["completed_attempts"] /\ s = in_service
                     /\ n = Len(attempts)
  OBVIOUS
<1>2. /\ c \in Nat /\ s \in 0..1 /\ n \in Nat /\ Len(queue) \in Nat /\ now \in Nat
      /\ DOMAIN attempts = 1..n /\ n = c + Len(queue) + s
  BY <1>1, ServerFacts, TypeFacts
<1>3. ASSUME NEW a \in DOMAIN attempts
      PROVE  /\ attempts[a].sent \in Nat /\ attempts[a].sent <= end
             /\ attempts[a].started # NoTime <=> a <= c + s
             /\ attempts[a].completed # NoTime <=> a <= c
             /\ attempts[a].completed <= end /\ attempts[a].started <= end
  <2>1. /\ attempts[a].sent <= now /\ attempts[a].completed <= now
        /\ attempts[a].completed # NoTime <=> a <= c
        /\ attempts[a].started # NoTime <=> a <= c + s
        /\ Served(a)
    BY <1>1 DEF ServerInv, ServerAttempts
  <2>2. /\ attempts[a].sent \in Nat /\ attempts[a].completed \in Int
        /\ attempts[a].started \in Int
    BY AttemptFacts, TimesTyped
  <2>3. attempts[a].started <= now
    <3>1. CASE attempts[a].started = NoTime \/ attempts[a].started = attempts[a].sent
      BY <1>2, <2>1, <3>1 DEF NoTime
    <3>2. CASE a > 1 /\ attempts[a].started = attempts[a - 1].completed
      <4>1. a - 1 \in DOMAIN attempts
        BY <1>2, <3>2
      <4>2. attempts[a - 1].completed <= now
        BY <4>1 DEF ServerInv, ServerAttempts
      <4> QED
        BY <3>2, <4>2
    <3>3. attempts[a].started # NoTime => \/ attempts[a].started = attempts[a].sent
                                          \/ a > 1 /\ attempts[a].started = attempts[a - 1].completed
      BY <2>1, Zenon DEF Served
    <3> QED
      BY <3>1, <3>2, <3>3, Zenon
  <2>4. attempts[a].completed <= end /\ attempts[a].started <= end /\ attempts[a].sent <= end
    BY <1>2, <2>1, <2>2, <2>3
  <2> QED
    BY <2>1, <2>2, <2>4, Zenon
<1>5. PICK m \in Nat : /\ m = c + s /\ m <= n /\ c <= m /\ n <= n
                       /\ n - m = Len(queue) /\ m - c = s
  <2>1. /\ c + s \in Nat /\ c + s <= n /\ c <= c + s
        /\ n - (c + s) = Len(queue) /\ c + s - c = s
    BY <1>2
  <2> QED
    BY <1>2, <2>1
<1>4. Cardinality(WaitingAt(end)) = n - m
  <2>1. \A a \in 1..n : a \in WaitingAt(end) <=> m < a /\ a <= n
    <3> TAKE a \in 1..n
    <3>0. a \in DOMAIN attempts
      BY <1>2
    <3>1. /\ attempts[a].sent # NoTime /\ attempts[a].sent <= end
          /\ attempts[a].started # NoTime <=> a <= m
          /\ attempts[a].started <= end
      BY <1>3, <1>5, <3>0 DEF NoTime
    <3>2. attempts[a].started \in Int /\ a \in Int /\ m \in Int /\ end \in Int
      BY <1>2, <1>5, <3>0, TimesTyped
    <3>3. Open(attempts[a].sent, attempts[a].started, end) <=> ~(a <= m)
      BY <3>1, <3>2 DEF Open
    <3>4. a <= n /\ (m < a <=> ~(a <= m))
      BY <1>2, <3>2
    <3> QED
      BY <3>0, <3>3, <3>4 DEF WaitingAt
  <2>2. WaitingAt(end) \in SUBSET (1..n)
    BY <1>2 DEF WaitingAt
  <2>3. n \in Nat /\ c \in Nat /\ m <= n /\ c <= m /\ n <= n
    BY <1>2, <1>5
  <2> QED
    BY <2>1, <2>2, <2>3, SliceCard, Zenon
<1>6. Cardinality(ServingAt(end)) = m - c
  <2>1. \A a \in 1..n : a \in ServingAt(end) <=> c < a /\ a <= m
    <3> TAKE a \in 1..n
    <3>0. a \in DOMAIN attempts
      BY <1>2
    <3>1. /\ attempts[a].started # NoTime <=> a <= m
          /\ attempts[a].completed # NoTime <=> a <= c
          /\ attempts[a].completed <= end /\ attempts[a].started <= end
      BY <1>3, <1>5, <3>0
    <3>2. /\ attempts[a].completed \in Int /\ a \in Int /\ c \in Int /\ m \in Int
          /\ end \in Int
      BY <1>2, <1>5, <3>0, TimesTyped
    <3>3. Open(attempts[a].started, attempts[a].completed, end) <=> a <= m /\ ~(a <= c)
      BY <3>1, <3>2 DEF Open
    <3>4. c < a <=> ~(a <= c)
      BY <3>2
    <3> QED
      BY <3>0, <3>3, <3>4 DEF ServingAt
  <2>2. ServingAt(end) \in SUBSET (1..n)
    BY <1>2 DEF ServingAt
  <2>3. n \in Nat /\ c \in Nat /\ m <= n /\ c <= m /\ n <= n
    BY <1>2, <1>5
  <2> QED
    BY <2>1, <2>2, <2>3, SliceCard, Zenon
<1>7. OpenAt(end) = {r \in Requests : Pending(originals, r)}
  <2>1. ASSUME NEW r \in Requests
        PROVE  Open(originals[r].arrived, originals[r].terminal_at, end) <=> Pending(originals, r)
    <3>1. /\ originals[r].status \in Terminal \cup {"absent", "pending"}
          /\ originals[r].status # "absent" => originals[r].arrived \in 0..now
      BY TypeFacts DEF OriginalType, DeadlineInv, Known
    <3>2. "absent" \notin Terminal /\ "pending" \notin Terminal
      BY DEF Terminal, FailureReason
    <3>3. CASE originals[r].status = "pending"
      BY <1>2, <3>1, <3>3 DEF Open, Pending, RequestTimes, NoTime
    <3>4. CASE originals[r].status = "absent"
      BY <3>4 DEF Open, Pending, RequestTimes
    <3>5. CASE originals[r].status \in Terminal
      <4>1. originals[r].terminal_at \in 0..now
        BY <3>5 DEF RequestTimes
      <4> QED
        BY <1>2, <3>2, <3>5, <4>1 DEF Open, Pending, NoTime
    <3> QED
      BY <3>1, <3>3, <3>4, <3>5
  <2> QED
    BY <2>1 DEF OpenAt
<1> QED
  BY <1>1, <1>4, <1>5, <1>6, <1>7

-----------------------------------------------------------------------------
(* The samples.                                                              *)

\* The heap holds the samples of the windows that have not ended, and no other.
SamplesSet ==
    \A e \in events : e.kind = "sample" =>
        /\ e.value \in 1..(Duration \div WindowSize)
        /\ e.when = e.value * WindowSize /\ e.serial = MaxArrivals + e.value

Sampling(e, w) == e.kind = "sample" /\ e.value = w + 1

\* A window that ends within the run waits for its sample, or was sampled after
\* everything else of that instant.
SampledOnce(w) ==
    \/ \E e \in events : Sampling(e, w)
    \/ GaugesTrue(w) /\ \A e \in events : e.when > EndOf(w)

TimelineInv ==
    /\ RequestTimes
    /\ SamplesSet
    /\ \A w \in Windows : CountersTrue(w)
    /\ \A w \in Windows : EndOf(w) <= Duration => SampledOnce(w)

LEMMA NoNewSample ==
    ASSUME NEW e, Effect(e)
    PROVE  \A f \in events' : f.kind = "sample" => f \in events
<1>1. CASE QuietEffect(e)
  BY <1>1 DEF QuietEffect
<1>2. CASE ArrivalEffect(e)
  BY <1>2 DEF ArrivalEffect, LaunchEffect
<1>3. CASE RetryEffect(e)
  BY <1>3 DEF RetryEffect, LaunchEffect
<1>4. CASE FailEffect(e)
  BY <1>4 DEF FailEffect
<1>5. CASE CompleteEffect(e)
  BY <1>5 DEF CompleteEffect
<1> QED
  BY <1>1, <1>2, <1>3, <1>4, <1>5 DEF Effect

LEMMA SamplesStep ==
    ASSUME SamplesSet, NEW e, Effect(e)
    PROVE  SamplesSet'
BY NoNewSample DEF SamplesSet

LEMMA EndOfNat == \A w \in Windows : EndOf(w) \in Nat
BY WindowsExist, Multiples DEF EndOf, WindowFacts

\* Nothing is left of the instant of a sample once it is taken.
LEMMA SampleIsLast ==
    ASSUME TypeInv, SamplesSet, NEW e, Effect(e), e.kind = "sample", NEW f \in events \ {e}
    PROVE  f.when > e.when
<1>1. /\ e \in events /\ e.when \in Nat /\ f.when \in Nat /\ e.serial \in Nat /\ f.serial \in Nat
      /\ f.kind \in DOMAIN PRIORITY /\ Before(e, f)
  BY TypeFacts DEF EventType, Time, Effect, Handled
<1>2. e.when < f.when \/ (e.when = f.when /\ f.kind = "sample" /\ e.serial < f.serial)
  <2>1. /\ PRIORITY["sample"] = 5
        /\ PRIORITY[f.kind] \in 0..5 /\ (PRIORITY[f.kind] = 5 => f.kind = "sample")
    BY <1>1 DEF PRIORITY
  <2> QED
    BY <1>1, <2>1 DEF Before
<1>3. CASE e.when = f.when /\ f.kind = "sample" /\ e.serial < f.serial
  <2>1. /\ e.when = e.value * WindowSize /\ e.serial = MaxArrivals + e.value
        /\ f.when = f.value * WindowSize /\ f.serial = MaxArrivals + f.value
    BY <1>1, <1>3 DEF SamplesSet
  <2>2. e.value \in Nat /\ f.value \in Nat /\ WindowSize \in Nat \ {0}
    BY <1>1, TypeFacts, WindowsExist DEF EventType, WindowFacts
  <2>3. e.value = f.value
    BY <1>3, <2>1, <2>2, Multiples
  <2> QED
    BY <1>1, <1>3, <2>1, <2>3
<1> QED
  BY <1>1, <1>2, <1>3

LEMMA SampleReads ==
    ASSUME TypeInv, ServerInv, DeadlineInv, RequestTimes, SamplesSet, NEW e, Sample(e),
           NEW w \in Windows, Sampling(e, w)
    PROVE  GaugesTrue(w)' /\ e.when = EndOf(w)
<1>1. e \in events /\ e.kind = "sample" /\ e.when \in Nat /\ now <= e.when
  BY PopFacts DEF Sample
<1>2. e.when = EndOf(w) /\ w \in Nat /\ w + 1 \in Nat /\ WindowSize \in Nat \ {0}
  BY <1>1, WindowsExist DEF SamplesSet, Sampling, EndOf, WindowFacts
<1>3. (e.when \div WindowSize) - 1 = w
  <2>1. EndOf(w) \div WindowSize = w + 1
    <3>1. PICK s, q : s = WindowSize /\ q = w + 1
      OBVIOUS
    <3>2. (q * s) \in Nat /\ q * s < (q + 1) * s /\ q * s <= q * s
      <4>1. q \in Nat /\ q + 1 \in Nat /\ s \in Nat \ {0} /\ q < q + 1
        BY <1>2, <3>1
      <4> QED
        BY <4>1, Multiples
    <3>3. (q * s) \div s = q
      BY <1>2, <3>1, <3>2, Quotient
    <3> QED
      BY <3>1, <3>3 DEF EndOf
  <2> QED
    BY <1>2, <2>1
<1>4. windows \in [Windows -> [Counters \cup Gauges -> Nat]]
  BY DEF TypeInv, TypeOK
<1>5. /\ windows'[w]["queue_depth_at_end"] = Len(queue)
      /\ windows'[w]["in_service_at_end"] = in_service
      /\ windows'[w]["pending_originals_at_end"]
             = Cardinality({r \in Requests : Pending(originals, r)})
  <2>1. PICK v, depth, serving, open :
          windows' = [windows EXCEPT ![v] =
              [@ EXCEPT !["queue_depth_at_end"] = depth,
                        !["in_service_at_end"] = serving,
                        !["pending_originals_at_end"] = open]]
          /\ v = (e.when \div WindowSize) - 1 /\ depth = Len(queue) /\ serving = in_service
          /\ open = Cardinality({r \in Requests : Pending(originals, r)})
    BY DEF Sample
  <2> QED
    BY <1>3, <1>4, <2>1 DEF Gauges
<1>6. UNCHANGED <<originals, attempts>>
  BY DEF Sample
<1>7. PICK end : end = EndOf(w)
  OBVIOUS
<1>8. /\ Cardinality(WaitingAt(end)) = Len(queue)
      /\ Cardinality(ServingAt(end)) = in_service
      /\ OpenAt(end) = {r \in Requests : Pending(originals, r)}
  BY <1>1, <1>2, <1>7, GaugesRead
<1>9. /\ WaitingAt(end)' = WaitingAt(end) /\ ServingAt(end)' = ServingAt(end)
      /\ OpenAt(end)' = OpenAt(end)
  BY <1>6 DEF WaitingAt, ServingAt, OpenAt, Open
<1>10. /\ windows'[w]["queue_depth_at_end"] = Cardinality(WaitingAt(end)')
       /\ windows'[w]["in_service_at_end"] = Cardinality(ServingAt(end)')
       /\ windows'[w]["pending_originals_at_end"] = Cardinality(OpenAt(end)')
  BY <1>5, <1>8, <1>9
<1>11. GaugesTrue(w)'
  BY <1>7, <1>10 DEF GaugesTrue, WaitingAt, ServingAt, OpenAt, Open, EndOf
<1> QED
  BY <1>2, <1>11

\* The handler of a sample is Sample.
LEMMA SampleHandled ==
    ASSUME NEW e, Handle(e), e.kind = "sample"
    PROVE  Sample(e)
<1>1. Arrival(e) => e.kind = "arrival"
  BY DEF Arrival, Pop
<1>2. DeadlinePassed(e) => e.kind = "deadline"
  BY DEF DeadlinePassed, Pop
<1>3. RetryStale(e) \/ RetryDenied(e) \/ RetryLaunched(e) => e.kind = "retry"
  BY DEF RetryStale, RetryDenied, RetryLaunched, Pop
<1>4. TimeoutAnswered(e) \/ TimeoutFailed(e) => e.kind = "timeout"
  BY DEF TimeoutAnswered, TimeoutFailed, Pop
<1>5. Complete(e) => e.kind = "complete"
  BY DEF Complete, Pop
<1> QED
  BY <1>1, <1>2, <1>3, <1>4, <1>5 DEF Handle

LEMMA SampledStep ==
    ASSUME TypeInv, TypeInv', ServerInv, ArrivesOnce, DeadlineInv, RequestTimes, SamplesSet,
           NEW e, Handle(e), NEW w \in Windows, SampledOnce(w)
    PROVE  SampledOnce(w)'
<1>1. Effect(e) /\ e \in events /\ now' = e.when /\ e.when \in Nat
      /\ \A f \in events \ {e} : f \in events'
  BY Effects, HandledFirst
<1>2. CASE \E f \in events : Sampling(f, w)
  <2>1. PICK f \in events : Sampling(f, w)
    BY <1>2
  <2>2. CASE f # e
    BY <1>1, <2>1, <2>2 DEF SampledOnce, Sampling
  <2>3. CASE f = e
    <3>1. Sample(e)
      BY <2>1, <2>3, SampleHandled DEF Sampling
    <3>2. GaugesTrue(w)' /\ e.when = EndOf(w)
      BY <2>1, <2>3, <3>1, SampleReads
    <3>3. \A g \in events' : g.when > EndOf(w)
      <4>1. events' = events \ {e}
        BY <3>1 DEF Sample, Push
      <4>2. e.kind = "sample"
        BY <2>1, <2>3 DEF Sampling
      <4>3. ASSUME NEW f1 \in events \ {e}
            PROVE  f1.when > e.when
        BY <1>1, <4>2, <4>3, SampleIsLast
      <4>4. PICK end : end = EndOf(w) /\ e.when = end
        BY <3>2
      <4>5. \A g \in events' : g.when > end
        BY <4>1, <4>3, <4>4
      <4> QED
        BY <4>4, <4>5
    <3> QED
      BY <3>2, <3>3 DEF SampledOnce, EndOf
  <2> QED
    BY <2>2, <2>3
<1>3. CASE GaugesTrue(w) /\ \A f \in events : f.when > EndOf(w)
  <2>1. e.when > EndOf(w) /\ EndOf(w) \in Nat
    BY <1>1, <1>3, EndOfNat
  <2>2. \A f \in events' : f.when > EndOf(w)
    <3>1. \A f \in events' : f.when \in Nat /\ f.when >= e.when
      BY <1>1 DEF TypeInv, TypeOK, EventsOK, EventOK, EventType, Time
    <3> QED
      BY <1>1, <2>1, <3>1
  <2>3. GaugesKept(w)
    <3>1. ASSUME Sample(e), w = (e.when \div WindowSize) - 1 PROVE FALSE
      <4>1. /\ e.when = e.value * WindowSize /\ e.value \in Nat /\ e.value # 0
        BY <1>1, <3>1, PopFacts DEF Sample, SamplesSet
      <4>2. PICK s, q : s = WindowSize /\ q = e.value
        OBVIOUS
      <4>3. s \in Nat \ {0} /\ q \in Nat /\ q + 1 \in Nat /\ q < q + 1
        BY <4>1, <4>2, WindowsExist DEF WindowFacts
      <4>4. q * s \in Nat /\ q * s < (q + 1) * s /\ q * s <= q * s
        BY <4>3, Multiples
      <4>5. (q * s) \div s = q
        BY <4>3, <4>4, Quotient
      <4>6. w + 1 = q
        BY <3>1, <4>1, <4>2, <4>3, <4>5
      <4>7. e.when = EndOf(w)
        BY <4>1, <4>2, <4>6 DEF EndOf
      <4> QED
        BY <2>1, <4>7
    <3> QED
      BY <3>1, EveryStepRecorded
  <2>4. GaugesTrue(w)'
    BY <1>3, <2>1, <2>3, GaugesStay
  <2> QED
    BY <2>2, <2>4 DEF SampledOnce, EndOf
<1> QED
  BY <1>2, <1>3 DEF SampledOnce

LEMMA SameWindows ==
    ASSUME RequestTimes', SamplesSet', \A w \in Windows : CountersTrue(w)',
           \A w \in Windows : EndOf(w) <= Duration => SampledOnce(w)'
    PROVE  TimelineInv'
<1>1. (\A w \in Windows : CountersTrue(w))'
  OBVIOUS
<1>2. (\A w \in Windows : EndOf(w) <= Duration => SampledOnce(w))'
  <2> SUFFICES ASSUME NEW w \in Windows, (EndOf(w) <= Duration)' PROVE SampledOnce(w)'
    OBVIOUS
  <2>1. EndOf(w) <= Duration
    BY DEF EndOf
  <2> QED
    BY <2>1
<1> QED
  BY <1>1, <1>2 DEF TimelineInv

LEMMA TimelineStep ==
    ASSUME TypeInv, TypeInv', ServerInv, ArrivesOnce, DeadlineInv, TimelineInv, NEW e, Handle(e)
    PROVE  TimelineInv'
<1>1. Effect(e)
  BY Effects
<1>2. RequestTimes /\ SamplesSet
  BY DEF TimelineInv
<1>3. RequestTimes' /\ SamplesSet'
  BY <1>1, <1>2, RequestTimesStep, SamplesStep
<1>4. ASSUME NEW w \in Windows PROVE CountersTrue(w)'
  <2>1. Recorded(e, w) /\ CountersTrue(w)
    BY EveryStepRecorded DEF TimelineInv
  <2> QED
    BY <1>1, <1>2, <2>1, CountersStep
<1>5. ASSUME NEW w \in Windows, EndOf(w) <= Duration PROVE SampledOnce(w)'
  <2>1. SampledOnce(w)
    BY <1>5 DEF TimelineInv
  <2> QED
    BY <1>2, <2>1, SampledStep
<1> QED
  BY <1>3, <1>4, <1>5, SameWindows

LEMMA NextTimeline ==
    ASSUME TypeInv, TypeInv', ServerInv, ArrivesOnce, DeadlineInv, TimelineInv, [Next]_vars
    PROVE  TimelineInv'
<1>1. CASE Finish \/ UNCHANGED vars
  <2>1. UNCHANGED <<events, originals, attempts, now, windows>>
    BY <1>1 DEF Finish, vars
  <2>2. RequestTimes' /\ SamplesSet'
    BY <2>1 DEF TimelineInv, RequestTimes, SamplesSet
  <2>3. ASSUME NEW w \in Windows PROVE CountersTrue(w)'
    <3>1. CountersTrue(w)
      BY DEF TimelineInv
    <3> QED
      BY <2>1, <3>1 DEF CountersTrue, With
  <2>4. ASSUME NEW w \in Windows, EndOf(w) <= Duration PROVE SampledOnce(w)'
    <3>1. SampledOnce(w)
      BY <2>4 DEF TimelineInv
    <3>2. GaugesTrue(w) => GaugesTrue(w)'
      BY <2>1 DEF GaugesTrue
    <3> QED
      BY <2>1, <3>1, <3>2 DEF SampledOnce, EndOf
  <2> QED
    BY <2>2, <2>3, <2>4, SameWindows
<1>2. ASSUME NEW e \in events, Handle(e) PROVE TimelineInv'
  BY <1>2, TimelineStep
<1> QED
  BY <1>1, <1>2 DEF Next

LEMMA InitTimeline == Init => TimelineInv
<1> SUFFICES ASSUME Init PROVE TimelineInv
  OBVIOUS
<1>1. /\ \A r \in Requests : /\ originals[r].status = "absent" /\ originals[r].arrived = NoTime
                             /\ originals[r].terminal_at = NoTime
      /\ attempts = << >> /\ windows = [w \in Windows |-> [k \in Counters \cup Gauges |-> 0]]
  BY DEF Init
<1>2. RequestTimes
  BY <1>1 DEF RequestTimes, Terminal, FailureReason
<1>3. ASSUME NEW e \in events, e.kind = "sample"
      PROVE  \E w \in 1..(Duration \div WindowSize) :
                e = Event(w * WindowSize, "sample", w, MaxArrivals + w)
  BY <1>3 DEF Init, Event
<1>4. SamplesSet
  BY <1>3 DEF SamplesSet, Event
<1>5. ASSUME NEW w \in Windows PROVE CountersTrue(w)
  <2>1. ArrivedIn(w) = {} /\ SucceededIn(w) = {} /\ CompletedIn(w) = {}
    BY <1>1, NeverWithin DEF ArrivedIn, SucceededIn, CompletedIn, With
  <2>2. Shown \subseteq Counters
    BY DEF Shown, Counters
  <2>3. \A k \in Shown : windows[w][k] = 0
    BY <1>1, <2>2
  <2> QED
    BY <2>1, <2>3, FS_EmptySet, CounterParts DEF Shown
<1>6. ASSUME NEW w \in Windows, EndOf(w) <= Duration PROVE SampledOnce(w)
  <2>1. w + 1 \in Nat \ {0}
    BY WindowsExist DEF WindowFacts
  <2>2. w + 1 \in 1..(Duration \div WindowSize)
    BY <1>6, <2>1, WholeWindows DEF EndOf
  <2>3. PICK n : n = w + 1
    OBVIOUS
  <2>4. Event(n * WindowSize, "sample", n, MaxArrivals + n) \in events
    BY <2>2, <2>3 DEF Init
  <2> QED
    BY <2>3, <2>4 DEF SampledOnce, Sampling, Event
<1> QED
  BY <1>2, <1>4, <1>5, <1>6 DEF TimelineInv

LEMMA TimelineInvariance == Spec => []TimelineInv
<1>1. TypeInv /\ TypeInv' /\ ServerInv /\ ArrivesOnce /\ DeadlineInv /\ TimelineInv /\ [Next]_vars
      => TimelineInv'
  BY NextTimeline
<1> QED
  BY <1>1, InitTimeline, TypeInvariance, ServerInvariance, DeadlineInvariance, PTL DEF Spec

LEMMA TimelineBounds == TypeInv /\ EndInv /\ TimelineInv => TimelineTrue
<1> SUFFICES ASSUME TypeInv, EndInv, TimelineInv, ~stopped, NEW w \in Windows
             PROVE  /\ CountersTrue(w)
                    /\ (w + 1) * WindowSize < now \/ (done /\ w \in Rows) => GaugesTrue(w)
  BY DEF TimelineTrue
<1>1. CountersTrue(w)
  BY DEF TimelineInv
<1>2. ASSUME EndOf(w) < now \/ (done /\ EndOf(w) <= now) PROVE GaugesTrue(w)
  <2>1. now \in Nat /\ now <= Duration /\ Duration \in Nat /\ EndOf(w) \in Nat
    BY TypeFacts, EndOfNat, RetrySimAssumption
  <2>2. SampledOnce(w)
    BY <1>2, <2>1 DEF TimelineInv
  <2>3. ASSUME NEW e \in events, Sampling(e, w) PROVE FALSE
    <3>1. e.when = EndOf(w)
      BY <2>3 DEF TimelineInv, SamplesSet, Sampling, EndOf
    <3>2. e.when >= now
      BY DEF TypeInv, EventsOK, EventOK
    <3>3. done => e.when > Duration
      BY DEF EndInv
    <3> QED
      BY <1>2, <2>1, <3>1, <3>2, <3>3
  <2> QED
    BY <2>2, <2>3 DEF SampledOnce
<1> QED
  BY <1>1, <1>2 DEF EndOf, Rows

\* The timeline of a run that is not stopped is true: every window counts exactly
\* the arrivals, successes and completions that fall into it, and a window that
\* has elapsed shows the queue, the server and the pending requests as they were
\* when it ended.
THEOREM TimelineIsTrue == Spec => []TimelineTrue
BY TimelineBounds, TimelineInvariance, EndInvariance, TypeInvariance, PTL

-----------------------------------------------------------------------------
(* What the client sees of a request.                                        *)

Seen(r, phase, sent) ==
    [phase |-> phase, tries |-> originals[r].attempts, arrived |-> originals[r].arrived,
     sent |-> sent]

SeenAs(r) ==
    /\ originals[r].status = "absent" =>
            ClientView[r] = [phase |-> "absent", tries |-> originals[r].attempts,
                             arrived |-> 0, sent |-> 0]
    /\ originals[r].status \in Terminal => ClientView[r] = Seen(r, originals[r].status, 0)
    /\ originals[r].status = "pending" =>
            /\ \A a \in LiveAttempts(r) : ClientView[r] = Seen(r, "waiting", attempts[a].sent)
            /\ LiveAttempts(r) = {} /\ RetryEvents(r) # {} =>
                    ClientView[r] = Seen(r, "backing_off", 0)
            /\ LiveAttempts(r) = {} /\ RetryEvents(r) = {} =>
                    ClientView[r] = Seen(r, "stranded", 0)

Views == /\ ClientView = [r \in Requests |-> ClientView[r]]
         /\ \A r \in Requests : SeenAs(r)

LEMMA ViewsHold == TypeInv /\ ContinueInv => Views
<1> SUFFICES ASSUME TypeInv, ContinueInv, NEW r \in Requests PROVE SeenAs(r)
  BY DEF Views, ClientView
<1>1. originals[r].status \in Terminal \cup {"absent", "pending"}
  BY TypeFacts DEF OriginalType
<1>2. "pending" \notin Terminal /\ "waiting" \notin Terminal /\ "absent" \notin Terminal
  BY DEF Terminal, FailureReason
<1>3. ClientView[r] = [phase |-> PhaseOf(r),
                       tries |-> originals[r].attempts,
                       arrived |-> IF originals[r].status = "absent" THEN 0 ELSE originals[r].arrived,
                       sent |-> IF PhaseOf(r) = "waiting"
                                THEN attempts[CHOOSE a \in LiveAttempts(r) : TRUE].sent
                                ELSE 0]
  BY DEF ClientView
<1>4. CASE originals[r].status # "pending"
  <2>1. PhaseOf(r) = originals[r].status
    BY <1>4 DEF PhaseOf, Pending
  <2>2. PhaseOf(r) # "waiting"
    BY <1>1, <1>2, <2>1
  <2> QED
    BY <1>1, <1>2, <1>3, <1>4, <2>1, <2>2 DEF SeenAs, Seen
<1>5. CASE originals[r].status = "pending"
  <2>1. ASSUME NEW a \in LiveAttempts(r) PROVE ClientView[r] = Seen(r, "waiting", attempts[a].sent)
    <3>1. PhaseOf(r) = "waiting"
      BY <1>5, <2>1 DEF PhaseOf, Pending
    <3>2. (CHOOSE b \in LiveAttempts(r) : TRUE) = a
      BY <2>1 DEF ContinueInv, Exclusive
    <3> QED
      BY <1>3, <1>5, <3>1, <3>2 DEF Seen
  <2>2. ASSUME LiveAttempts(r) = {}, RetryEvents(r) # {}
        PROVE  ClientView[r] = Seen(r, "backing_off", 0)
    <3>1. PhaseOf(r) = "backing_off"
      BY <1>5, <2>2 DEF PhaseOf, Pending
    <3> QED
      BY <1>3, <1>5, <3>1 DEF Seen
  <2>3. ASSUME LiveAttempts(r) = {}, RetryEvents(r) = {}
        PROVE  ClientView[r] = Seen(r, "stranded", 0)
    <3>1. PhaseOf(r) = "stranded"
      BY <1>5, <2>3 DEF PhaseOf, Pending
    <3> QED
      BY <1>3, <1>5, <3>1 DEF Seen
  <2> QED
    BY <1>2, <1>5, <2>1, <2>2, <2>3 DEF SeenAs
<1> QED
  BY <1>4, <1>5

\* Whoever keeps its record, its attempt and its retry looks the same.
LEMMA SameView ==
    ASSUME TypeInv, TypeInv', Views, Views', NEW e, Effect(e), NEW r \in Requests, SameRecord(r),
           originals[r].status = "pending" => /\ LiveAttempts(r)' = LiveAttempts(r)
                                              /\ RetryEvents(r)' = RetryEvents(r)
    PROVE  ClientView'[r] = ClientView[r]
<1>1. SeenAs(r) /\ SeenAs(r)' /\ originals'[r] = originals[r]
  BY DEF Views, SameRecord
<1>2. originals[r].status \in Terminal \cup {"absent", "pending"}
  BY TypeFacts DEF OriginalType
<1>3. \A phase, sent : Seen(r, phase, sent)' = Seen(r, phase, sent)
  BY <1>1 DEF Seen
<1>4. CASE originals[r].status # "pending"
  BY <1>1, <1>2, <1>3, <1>4 DEF SeenAs, Seen
<1>5. CASE originals[r].status = "pending"
  <2>1. \A a \in LiveAttempts(r) : attempts'[a].sent = attempts[a].sent
    BY AttemptsStep DEF LiveAttempts
  <2>2. CASE LiveAttempts(r) # {}
    <3>1. PICK a \in LiveAttempts(r) : TRUE
      BY <2>2
    <3>2. ClientView[r] = Seen(r, "waiting", attempts[a].sent)
      BY <1>1, <1>5, <3>1 DEF SeenAs
    <3>3. ClientView'[r] = Seen(r, "waiting", attempts[a].sent)'
      BY <1>1, <1>5, <3>1 DEF SeenAs
    <3> QED
      BY <1>1, <2>1, <3>1, <3>2, <3>3 DEF Seen
  <2>3. CASE LiveAttempts(r) = {}
    BY <1>1, <1>3, <1>5, <2>3 DEF SeenAs, Seen
  <2> QED
    BY <2>2, <2>3
<1> QED
  BY <1>4, <1>5

-----------------------------------------------------------------------------
(* Time does not pass the deadline or the timeout of an open request: both    *)
(* are in the heap, and the event handled comes first.                       *)

Facts ==
    /\ TypeInv /\ ServerInv /\ ArrivesOnce /\ DeadlineInv /\ TimerInv /\ ContinueInv /\ CapKept
    /\ Views

LEMMA Advances == ASSUME Facts, NEW e, Effect(e) PROVE Lifecycle!Advance(e.when)
<1>1. ~stopped /\ now' = e.when /\ e.when >= now
  <2>1. ~done /\ now' = e.when /\ now <= e.when /\ now \in Nat /\ e.when \in Nat
    BY HandledFirst DEF Facts
  <2> QED
    BY <2>1 DEF Facts, CapKept
<1>2. \A f \in events : e.when <= f.when
  BY HandledFirst DEF Facts
<1>3. ASSUME NEW r \in Requests, originals[r].status = "pending"
      PROVE  e.when <= originals[r].arrived + OriginalDeadline
  BY <1>2, <1>3 DEF Facts, DeadlineInv, DeadlinesSet, Expires
<1>4. ASSUME NEW r \in Requests, NEW a \in LiveAttempts(r)
      PROVE  e.when <= attempts[a].sent + AttemptTimeout
  <2>1. a \in DOMAIN attempts /\ attempts[a].completed = NoTime /\ ~attempts[a].timed_out
    BY <1>4 DEF LiveAttempts
  <2>2. PICK f \in events : Times(f, a)
    BY <2>1 DEF Facts, TimerInv, TimeoutOK
  <2>3. f.when = attempts[a].sent + AttemptTimeout
    BY <2>2 DEF Facts, TimerInv, TimerOK, Times, Limit
  <2> QED
    BY <1>2, <2>2, <2>3
<1>5. ASSUME NEW r \in Requests
      PROVE  /\ ClientView[r].phase \in Lifecycle!Open =>
                    e.when <= ClientView[r].arrived + OriginalDeadline
             /\ ClientView[r].phase = "waiting" => e.when <= ClientView[r].sent + AttemptTimeout
  <2>1. SeenAs(r) /\ originals[r].status \in Terminal \cup {"absent", "pending"}
    BY TypeFacts DEF Facts, Views, OriginalType
  <2>2. CASE originals[r].status # "pending"
    <3>1. ClientView[r].phase \in Terminal \cup {"absent"}
      BY <2>1, <2>2 DEF SeenAs, Seen
    <3> QED
      BY <3>1 DEF Terminal, FailureReason, Lifecycle!Open
  <2>3. CASE originals[r].status = "pending"
    <3>1. CASE LiveAttempts(r) # {}
      <4>1. PICK a \in LiveAttempts(r) : ClientView[r] = Seen(r, "waiting", attempts[a].sent)
        BY <2>1, <2>3, <3>1 DEF SeenAs
      <4>2. /\ ClientView[r].arrived = originals[r].arrived
            /\ ClientView[r].sent = attempts[a].sent
        BY <4>1 DEF Seen
      <4> QED
        BY <1>3, <1>4, <2>3, <4>2
    <3>2. CASE LiveAttempts(r) = {}
      <4>1. ClientView[r] = Seen(r, "backing_off", 0) \/ ClientView[r] = Seen(r, "stranded", 0)
        BY <2>1, <2>3, <3>2 DEF SeenAs
      <4>2. ClientView[r].arrived = originals[r].arrived /\ ClientView[r].phase # "waiting"
        BY <4>1 DEF Seen
      <4> QED
        BY <1>3, <2>3, <4>2
    <3> QED
      BY <3>1, <3>2
  <2> QED
    BY <2>1, <2>2, <2>3
<1> QED
  BY <1>1, <1>5 DEF Lifecycle!Advance

\* The ways in which one request, and no other, may change for the client: it
\* waits for nothing any more, it changes its phase while it waits for nothing,
\* its next attempt is refused, or its next attempt is sent.
LEMMA WaitEnds ==
    ASSUME Views, Views', NEW r \in Requests,
           \A q \in Requests : q # r => ClientView'[q] = ClientView[q],
           NEW p,
           ClientView'[r] = [phase |-> p, tries |-> ClientView[r].tries,
                             arrived |-> ClientView[r].arrived, sent |-> 0]
    PROVE  ClientView' = [ClientView EXCEPT ![r].phase = p, ![r].sent = 0]
<1>1. PICK v, w : v = ClientView[r] /\ w = ClientView'[r]
  OBVIOUS
<1>2. /\ v = [phase |-> v.phase, tries |-> v.tries, arrived |-> v.arrived, sent |-> v.sent]
      /\ w = [phase |-> p, tries |-> v.tries, arrived |-> v.arrived, sent |-> 0]
  BY <1>1 DEF ClientView
<1>3. w = [v EXCEPT !.phase = p, !.sent = 0]
  <2>1. PICK pp, nn, tt, ss : v = [phase |-> pp, tries |-> nn, arrived |-> tt, sent |-> ss]
    BY <1>2
  <2>2. PICK u : u = [v EXCEPT !.phase = p]
    OBVIOUS
  <2>3. u = [phase |-> p, tries |-> nn, arrived |-> tt, sent |-> ss]
    BY <2>1, <2>2
  <2>4. w = [u EXCEPT !.sent = 0]
    BY <1>2, <2>1, <2>3
  <2> QED
    BY <2>2, <2>4
<1>4. /\ ClientView = [q \in Requests |-> ClientView[q]]
      /\ ClientView' = [q \in Requests |-> ClientView'[q]]
  BY DEF Views
<1>5. ClientView' = [ClientView EXCEPT ![r] = w]
  BY <1>1, <1>4
<1>6. [ClientView EXCEPT ![r].phase = p, ![r].sent = 0]
            = [ClientView EXCEPT ![r] = [v EXCEPT !.phase = p, !.sent = 0]]
  BY <1>1, <1>2, <1>4
<1> QED
  BY <1>3, <1>5, <1>6

LEMMA NextSent ==
    ASSUME Views, Views', NEW r \in Requests,
           \A q \in Requests : q # r => ClientView'[q] = ClientView[q],
           NEW t,
           ClientView'[r] = [phase |-> "waiting", tries |-> ClientView[r].tries + 1,
                             arrived |-> ClientView[r].arrived, sent |-> t]
    PROVE  ClientView' = Lifecycle!Send(r, t)
<1>1. PICK v, w, m : v = ClientView[r] /\ w = ClientView'[r] /\ m = v.tries + 1
  OBVIOUS
<1>2. /\ v = [phase |-> v.phase, tries |-> v.tries, arrived |-> v.arrived, sent |-> v.sent]
      /\ w = [phase |-> "waiting", tries |-> m, arrived |-> v.arrived, sent |-> t]
  BY <1>1 DEF ClientView
<1>3. w = [v EXCEPT !.phase = "waiting", !.tries = m, !.sent = t]
  <2>1. PICK pp, nn, tt, ss : v = [phase |-> pp, tries |-> nn, arrived |-> tt, sent |-> ss]
    BY <1>2
  <2>2. PICK u1 : u1 = [v EXCEPT !.phase = "waiting"]
    OBVIOUS
  <2>3. PICK u2 : u2 = [u1 EXCEPT !.tries = m]
    OBVIOUS
  <2>4. u1 = [phase |-> "waiting", tries |-> nn, arrived |-> tt, sent |-> ss]
    BY <2>1, <2>2
  <2>5. u2 = [phase |-> "waiting", tries |-> m, arrived |-> tt, sent |-> ss]
    BY <2>3, <2>4
  <2>6. w = [u2 EXCEPT !.sent = t]
    BY <1>2, <2>1, <2>5
  <2> QED
    BY <2>2, <2>3, <2>6
<1>4. /\ ClientView = [q \in Requests |-> ClientView[q]]
      /\ ClientView' = [q \in Requests |-> ClientView'[q]]
  BY DEF Views
<1>5. ClientView' = [ClientView EXCEPT ![r] = w]
  BY <1>1, <1>4
<1>6. Lifecycle!Send(r, t)
            = [ClientView EXCEPT ![r] = [v EXCEPT !.phase = "waiting", !.tries = m, !.sent = t]]
  BY <1>1, <1>2, <1>4 DEF Lifecycle!Send
<1> QED
  BY <1>3, <1>5, <1>6

LEMMA PhaseChanges ==
    ASSUME Views, Views', NEW r \in Requests,
           \A q \in Requests : q # r => ClientView'[q] = ClientView[q],
           ClientView[r].sent = 0, NEW p,
           ClientView'[r] = [phase |-> p, tries |-> ClientView[r].tries,
                             arrived |-> ClientView[r].arrived, sent |-> 0]
    PROVE  ClientView' = [ClientView EXCEPT ![r].phase = p]
<1>1. PICK v, w : v = ClientView[r] /\ w = ClientView'[r]
  OBVIOUS
<1>2. /\ v = [phase |-> v.phase, tries |-> v.tries, arrived |-> v.arrived, sent |-> 0]
      /\ w = [phase |-> p, tries |-> v.tries, arrived |-> v.arrived, sent |-> 0]
  BY <1>1 DEF ClientView
<1>3. w = [v EXCEPT !.phase = p]
  <2>1. PICK pp, nn, tt : v = [phase |-> pp, tries |-> nn, arrived |-> tt, sent |-> 0]
    BY <1>2
  <2> QED
    BY <1>2, <2>1
<1>4. /\ ClientView = [q \in Requests |-> ClientView[q]]
      /\ ClientView' = [q \in Requests |-> ClientView'[q]]
  BY DEF Views
<1>5. ClientView' = [ClientView EXCEPT ![r] = w]
  BY <1>1, <1>4
<1> QED
  BY <1>1, <1>3, <1>5

\* A request whose next attempt is refused while it waits for none.
LEMMA RefusalChanges ==
    ASSUME Views, Views', NEW r \in Requests,
           \A q \in Requests : q # r => ClientView'[q] = ClientView[q],
           ClientView[r].sent = 0, NEW p,
           ClientView'[r] = [phase |-> p, tries |-> ClientView[r].tries + 1,
                             arrived |-> ClientView[r].arrived, sent |-> 0]
    PROVE  ClientView' = [ClientView EXCEPT ![r].phase = p, ![r].tries = @ + 1]
<1>1. PICK v, w, m : v = ClientView[r] /\ w = ClientView'[r] /\ m = v.tries + 1
  OBVIOUS
<1>2. /\ v = [phase |-> v.phase, tries |-> v.tries, arrived |-> v.arrived, sent |-> 0]
      /\ w = [phase |-> p, tries |-> m, arrived |-> v.arrived, sent |-> 0]
  BY <1>1 DEF ClientView
<1>3. w = [v EXCEPT !.phase = p, !.tries = m]
  <2>1. PICK pp, nn, tt : v = [phase |-> pp, tries |-> nn, arrived |-> tt, sent |-> 0]
    BY <1>2
  <2>2. PICK u : u = [v EXCEPT !.phase = p]
    OBVIOUS
  <2>3. u = [phase |-> p, tries |-> nn, arrived |-> tt, sent |-> 0]
    BY <2>1, <2>2
  <2>4. w = [u EXCEPT !.tries = m]
    BY <1>2, <2>1, <2>3
  <2> QED
    BY <2>2, <2>4
<1>4. /\ ClientView = [q \in Requests |-> ClientView[q]]
      /\ ClientView' = [q \in Requests |-> ClientView'[q]]
  BY DEF Views
<1>5. ClientView' = [ClientView EXCEPT ![r] = w]
  BY <1>1, <1>4
<1>6. [ClientView EXCEPT ![r].phase = p, ![r].tries = @ + 1]
            = [ClientView EXCEPT ![r] = [v EXCEPT !.phase = p, !.tries = m]]
  BY <1>1, <1>2, <1>4
<1> QED
  BY <1>3, <1>5, <1>6

LEMMA PendingView ==
    ASSUME Facts, ~done, NEW r \in Requests, originals[r].status = "pending"
    PROVE  /\ ClientView[r].tries = originals[r].attempts
           /\ ClientView[r].arrived = originals[r].arrived
           /\ \/ LiveAttempts(r) # {} /\ ClientView[r].phase = "waiting"
              \/ /\ LiveAttempts(r) = {} /\ RetryEvents(r) # {}
                 /\ ClientView[r].phase = "backing_off" /\ ClientView[r].sent = 0
           /\ \A a \in LiveAttempts(r) : ClientView[r].sent = attempts[a].sent
<1>1. SeenAs(r) /\ Exclusive(r) /\ Continued(r)
  BY DEF Facts, Views, ContinueInv
<1>2. CASE LiveAttempts(r) # {}
  <2>1. ASSUME NEW a \in LiveAttempts(r)
        PROVE  /\ ClientView[r].tries = originals[r].attempts
               /\ ClientView[r].arrived = originals[r].arrived
               /\ ClientView[r].phase = "waiting" /\ ClientView[r].sent = attempts[a].sent
    <3>1. ClientView[r] = Seen(r, "waiting", attempts[a].sent)
      BY <1>1, <2>1 DEF SeenAs
    <3> QED
      BY <3>1 DEF Seen
  <2> QED
    BY <1>2, <2>1
<1>3. CASE LiveAttempts(r) = {}
  <2>1. RetryEvents(r) # {} /\ ClientView[r] = Seen(r, "backing_off", 0)
    BY <1>1, <1>3 DEF SeenAs, Continued
  <2> QED
    BY <1>3, <2>1 DEF Seen
<1> QED
  BY <1>2, <1>3

\* A request that is settled keeps what else the client knows of it.
LEMMA SettledView ==
    ASSUME Facts, Facts', NEW r \in Requests, NEW reason \in Terminal, NEW t,
           SettledNow(r, reason, t), ~done
    PROVE  ClientView'[r] = [phase |-> reason, tries |-> ClientView[r].tries,
                             arrived |-> ClientView[r].arrived, sent |-> 0]
<1>1. SeenAs(r)' /\ originals'[r].status = reason
  BY DEF Facts, Views, SettledNow
<1>2. ClientView'[r] = Seen(r, reason, 0)'
  BY <1>1 DEF SeenAs
<1>3. /\ ClientView[r].tries = originals[r].attempts /\ ClientView[r].arrived = originals[r].arrived
      /\ originals'[r].attempts = originals[r].attempts /\ originals'[r].arrived = originals[r].arrived
  BY PendingView DEF SettledNow
<1> QED
  BY <1>2, <1>3 DEF Seen

-----------------------------------------------------------------------------
(* Every handler is a step of the client's life cycle.                       *)

LEMMA NothingSeen ==
    ASSUME Facts, Facts', NEW e, Effect(e), UNCHANGED stopped,
           \A q \in Requests : ClientView'[q] = ClientView[q]
    PROVE  Lifecycle!Step(e.when)
<1>1. ClientView' = ClientView
  BY DEF Facts, Views
<1> QED
  BY <1>1, Advances DEF Lifecycle!Step, Lifecycle!Pass

LEMMA QuietLife ==
    ASSUME Facts, Facts', NEW e, Effect(e), QuietEffect(e)
    PROVE  Lifecycle!Step(e.when)
<1>1. /\ \A q : LiveAttempts(q)' = LiveAttempts(q)
      /\ \A q : e.kind # "retry" \/ e.value # q => RetryEvents(q)' = RetryEvents(q)
      /\ UNCHANGED stopped
  BY DEF QuietEffect, LiveAttempts, RetryEvents
<1>2. ASSUME NEW q \in Requests, SameRecord(q) PROVE ClientView'[q] = ClientView[q]
  <2>1. originals[q].status = "pending" /\ e.kind = "retry" => e.value # q
    BY <1>2 DEF QuietEffect, Settler, SettledNow, SameRecord, SettlesFor
  <2> QED
    BY <1>1, <1>2, <2>1, SameView DEF Facts
<1>3. CASE \A q \in Requests : SameRecord(q)
  BY <1>1, <1>2, <1>3, NothingSeen
<1>4. ASSUME NEW r \in Requests, ~SameRecord(r) PROVE Lifecycle!Step(e.when)
  <2>1. /\ e.kind \in Settler /\ e.value = r /\ SettledNow(r, SettlesFor(e.kind), e.when)
        /\ \A q \in Requests : q # r => SameRecord(q)
    BY <1>4 DEF QuietEffect
  <2>2. PICK reason : reason = SettlesFor(e.kind)
    OBVIOUS
  <2>3. reason \in Terminal
    BY <2>2 DEF SettlesFor, Terminal, FailureReason
  <2>4. ~done /\ originals[r].status = "pending"
    BY <2>1, HandledFirst DEF Facts, SettledNow
  <2>5. ClientView'[r] = [phase |-> reason, tries |-> ClientView[r].tries,
                          arrived |-> ClientView[r].arrived, sent |-> 0]
    BY <2>1, <2>2, <2>3, <2>4, SettledView
  <2>6. \A q \in Requests : q # r => ClientView'[q] = ClientView[q]
    BY <1>2, <2>1
  <2>7. CASE e.kind = "deadline"
    <3>1. ClientView' = [ClientView EXCEPT ![r].phase = reason, ![r].sent = 0]
      BY <2>5, <2>6, WaitEnds DEF Facts
    <3>2. e.when = ClientView[r].arrived + OriginalDeadline
      BY <2>1, <2>4, <2>7, HandledFirst, PendingView DEF Facts, DeadlineInv, DeadlinesSet
    <3>3. ClientView[r].phase \in {"waiting", "backing_off"}
      BY <2>4, PendingView
    <3>4. Lifecycle!Expire(r, e.when)
      BY <1>1, <2>2, <2>7, <3>1, <3>2, <3>3, Advances DEF Lifecycle!Expire, SettlesFor
    <3> QED
      BY <3>4 DEF Lifecycle!Step
  <2>8. CASE e.kind = "retry"
    <3>1. e \in RetryEvents(r) /\ Exclusive(r)
      BY <2>1, <2>8, HandledFirst DEF Facts, RetryEvents, ContinueInv
    <3>2. ClientView[r].phase = "backing_off" /\ ClientView[r].sent = 0
      BY <2>4, <3>1, PendingView DEF Exclusive
    <3>3. ClientView' = [ClientView EXCEPT ![r].phase = reason]
      <4>1. Views /\ Views' /\ r \in Requests
        BY DEF Facts
      <4> QED
        BY <2>5, <2>6, <3>2, <4>1, PhaseChanges
    <3>4. Lifecycle!Retry(r, e.when)
      BY <1>1, <2>2, <2>8, <3>2, <3>3, Advances DEF Lifecycle!Retry, SettlesFor
    <3> QED
      BY <3>4 DEF Lifecycle!Step
  <2> QED
    BY <2>1, <2>7, <2>8 DEF Settler
<1> QED
  BY <1>3, <1>4

LEMMA FailLife ==
    ASSUME Facts, Facts', NEW e, Effect(e), FailEffect(e)
    PROVE  Lifecycle!Step(e.when)
<1>1. PICK a, r : a = e.value /\ r = attempts[a].original
  OBVIOUS
<1>2. /\ e.kind = "timeout" /\ a \in DOMAIN attempts /\ r \in Requests
      /\ attempts[a].completed = NoTime /\ ~attempts[a].timed_out
      /\ e.when = attempts[a].sent + AttemptTimeout /\ ~done
  BY <1>1, HandledFirst DEF Facts, FailEffect, TimerInv, TimerOK, Limit
<1>3. \A q : LiveAttempts(q)' = LiveAttempts(q) \ {a}
  <2>1. attempts' = [attempts EXCEPT ![a].timed_out = TRUE]
    BY <1>1 DEF FailEffect
  <2>2. attempts \in [DOMAIN attempts -> AttemptType]
    BY AttemptFacts DEF Facts
  <2>3. /\ DOMAIN attempts' = DOMAIN attempts
        /\ \A b \in DOMAIN attempts :
              /\ attempts'[b].completed = attempts[b].completed
              /\ attempts'[b].original = attempts[b].original
              /\ attempts'[b].timed_out = IF b = a THEN TRUE ELSE attempts[b].timed_out
    BY <1>2, <2>1, <2>2 DEF AttemptType
  <2> QED
    BY <2>3 DEF LiveAttempts
<1>4. a \in LiveAttempts(r) /\ \A q : q # r => a \notin LiveAttempts(q)
  BY <1>1, <1>2 DEF LiveAttempts
<1>5. LiveAttempts(r)' = {} /\ RetryEvents(r) = {}
  BY <1>2, <1>3, <1>4 DEF Facts, ContinueInv, Exclusive
<1>6. \A q \in Requests : q # r => SameRecord(q)
  BY <1>1 DEF FailEffect
<1>7. ASSUME NEW q \in Requests, q # r PROVE ClientView'[q] = ClientView[q]
  <2>1. RetryEvents(q)' = RetryEvents(q)
    BY <1>1, <1>2, <1>7 DEF FailEffect, RetryEvents
  <2>2. LiveAttempts(q)' = LiveAttempts(q)
    BY <1>3, <1>4, <1>7
  <2> QED
    BY <1>6, <1>7, <2>1, <2>2, SameView DEF Facts
<1>8. UNCHANGED stopped
  BY DEF FailEffect
<1>9. CASE SameRecord(r) /\ originals[r].status # "pending"
  <2>1. ClientView'[r] = ClientView[r]
    BY <1>2, <1>9, SameView DEF Facts
  <2> QED
    BY <1>7, <1>8, <2>1, NothingSeen
<1>10. originals[r].status = "pending" =>
          ClientView[r].phase = "waiting" /\ ClientView[r].sent = attempts[a].sent
  BY <1>2, <1>4, PendingView
<1>11. CASE SettledNow(r, "attempts_exhausted", e.when)
  <2>1. "attempts_exhausted" \in Terminal /\ originals[r].status = "pending"
    BY <1>11 DEF Terminal, FailureReason, SettledNow
  <2>2. ClientView'[r] = [phase |-> "attempts_exhausted", tries |-> ClientView[r].tries,
                          arrived |-> ClientView[r].arrived, sent |-> 0]
    BY <1>2, <1>11, <2>1, SettledView
  <2>3. ClientView' = [ClientView EXCEPT ![r].phase = "attempts_exhausted", ![r].sent = 0]
    BY <1>2, <1>7, <2>2, WaitEnds DEF Facts
  <2>4. Lifecycle!Fail(r, e.when)
    BY <1>2, <1>8, <1>10, <2>1, <2>3, Advances DEF Lifecycle!Fail
  <2> QED
    BY <1>2, <2>4 DEF Lifecycle!Step
<1>12. CASE /\ SameRecord(r) /\ originals[r].status = "pending"
            /\ originals[r].attempts < MaxAttempts
            /\ \E f : f.kind = "retry" /\ f.value = r /\ events' = (events \ {e}) \cup {f}
  <2>1. RetryEvents(r)' # {}
    BY <1>12 DEF RetryEvents
  <2>2. /\ ClientView[r].tries = originals[r].attempts
        /\ ClientView[r].arrived = originals[r].arrived
    BY <1>2, <1>12, PendingView
  <2>3. originals'[r] = originals[r] /\ SeenAs(r)'
    BY <1>2, <1>12 DEF SameRecord, Facts, Views
  <2>4. ClientView'[r] = Seen(r, "backing_off", 0)'
    BY <1>5, <1>12, <2>1, <2>3 DEF SeenAs
  <2>5. ClientView'[r] = [phase |-> "backing_off", tries |-> ClientView[r].tries,
                          arrived |-> ClientView[r].arrived, sent |-> 0]
    BY <2>2, <2>3, <2>4 DEF Seen
  <2>6. ClientView' = [ClientView EXCEPT ![r].phase = "backing_off", ![r].sent = 0]
    BY <1>2, <1>7, <2>5, WaitEnds DEF Facts
  <2>7. Lifecycle!Fail(r, e.when)
    BY <1>2, <1>8, <1>10, <1>12, <2>2, <2>6, Advances DEF Lifecycle!Fail
  <2> QED
    BY <1>2, <2>7 DEF Lifecycle!Step
<1> QED
  BY <1>1, <1>9, <1>11, <1>12 DEF FailEffect, SettledNow

LEMMA CompleteLife ==
    ASSUME Facts, Facts', NEW e, Effect(e), CompleteEffect(e)
    PROVE  Lifecycle!Step(e.when)
<1>1. PICK a, r : a = e.value /\ r = attempts[a].original
  OBVIOUS
<1>2. /\ e.kind = "complete" /\ a \in DOMAIN attempts /\ r \in Requests /\ ~done
      /\ attempts[a].completed = NoTime /\ e.when # NoTime /\ UNCHANGED stopped
  BY <1>1, HandledFirst DEF Facts, CompleteEffect, NoTime
<1>3. \A q : LiveAttempts(q)' = LiveAttempts(q) \ {a}
  BY <1>1, <1>2 DEF CompleteEffect, AttemptEnded, LiveAttempts
<1>4. \A q : RetryEvents(q)' = RetryEvents(q)
  BY <1>2, HandledFirst DEF Facts, CompleteEffect, RetryEvents
<1>5. ASSUME NEW q \in Requests, SameRecord(q),
             q # r \/ attempts[a].timed_out \/ originals[q].status # "pending"
      PROVE  ClientView'[q] = ClientView[q]
  <2>1. originals[q].status = "pending" => a \notin LiveAttempts(q)
    BY <1>1, <1>5 DEF LiveAttempts
  <2> QED
    BY <1>3, <1>4, <1>5, <2>1, SameView DEF Facts
<1>6. ASSUME NEW q \in Requests, q # r PROVE ClientView'[q] = ClientView[q]
  BY <1>1, <1>5, <1>6 DEF CompleteEffect
<1>7. CASE SameRecord(r) /\ (attempts[a].timed_out \/ originals[r].status # "pending")
  BY <1>2, <1>5, <1>6, <1>7, NothingSeen
<1>8. CASE ~attempts[a].timed_out /\ SettledNow(r, "success", e.when)
  <2>1. a \in LiveAttempts(r) /\ originals[r].status = "pending" /\ "success" \in Terminal
    BY <1>1, <1>2, <1>8 DEF LiveAttempts, SettledNow, Terminal
  <2>2. ClientView[r].phase = "waiting"
    BY <1>2, <2>1, PendingView
  <2>3. ClientView'[r] = [phase |-> "success", tries |-> ClientView[r].tries,
                          arrived |-> ClientView[r].arrived, sent |-> 0]
    BY <1>2, <1>8, <2>1, SettledView
  <2>4. ClientView' = [ClientView EXCEPT ![r].phase = "success", ![r].sent = 0]
    BY <1>2, <1>6, <2>3, WaitEnds DEF Facts
  <2>5. Lifecycle!Succeed(r, e.when)
    BY <1>2, <2>2, <2>4, Advances DEF Lifecycle!Succeed
  <2> QED
    BY <1>2, <2>5 DEF Lifecycle!Step
<1> QED
  BY <1>1, <1>7, <1>8 DEF CompleteEffect

\* What a client sees of a launch for r: the run is cut short, or its attempt is
\* refused or sent.
LaunchShows(r, n, arrived, t) ==
    \/ /\ ClientView'[r] = [phase |-> "stranded", tries |-> n, arrived |-> arrived, sent |-> 0]
       /\ stopped' = TRUE
    \/ /\ ClientView'[r] = [phase |-> "queue_rejected", tries |-> n + 1,
                            arrived |-> arrived, sent |-> 0]
       /\ UNCHANGED stopped
    \/ /\ ClientView'[r] = [phase |-> "waiting", tries |-> n + 1, arrived |-> arrived, sent |-> t]
       /\ UNCHANGED stopped

\* A launch for r, which waits for nothing but the handled event.
LEMMA LaunchView ==
    ASSUME Facts, Facts', NEW e, Effect(e), NEW r \in Requests,
           LiveAttempts(r) = {}, RetryEvents(r) \subseteq {e},
           e.kind = "retry" => e.value = r,
           \A q \in Requests : q # r => SameRecord(q),
           NEW o, o.status = "pending", NEW new, \A f \in new : f.kind = "deadline",
           LaunchEffect(e, r, o, new)
    PROVE  /\ \A q \in Requests : q # r => ClientView'[q] = ClientView[q]
           /\ LaunchShows(r, o.attempts, o.arrived, e.when)
<1>1. \A q \in Requests : /\ RetryEvents(q)' = RetryEvents(q) \ {e}
                          /\ q # r => e \notin RetryEvents(q)
  BY HandledFirst DEF Facts, LaunchEffect, RetryEvents
<1>2. \A q \in Requests : q # r => LiveAttempts(q)' = LiveAttempts(q)
  BY DEF LaunchEffect, AttemptAdded, LiveAttempts
<1>3. ASSUME NEW q \in Requests, q # r PROVE ClientView'[q] = ClientView[q]
  BY <1>1, <1>2, <1>3, SameView DEF Facts
<1>4. SeenAs(r)' /\ originals'[r].arrived = o.arrived
  BY DEF Facts, Views, LaunchEffect
<1>5. CASE originals'[r] = o /\ stopped' /\ UNCHANGED attempts
  <2>1. LiveAttempts(r)' = {} /\ RetryEvents(r)' = {}
    BY <1>1, <1>5 DEF LiveAttempts
  <2>2. ClientView'[r] = Seen(r, "stranded", 0)'
    BY <1>4, <1>5, <2>1 DEF SeenAs
  <2>3. stopped' = TRUE
    BY <1>5, TypeFacts DEF Facts, TypeInv, TypeOK
  <2> QED
    BY <1>3, <1>5, <2>2, <2>3 DEF Seen, LaunchShows
<1>6. CASE /\ originals'[r].status = "queue_rejected" /\ originals'[r].attempts = o.attempts + 1
           /\ UNCHANGED stopped
  <2>1. "queue_rejected" \in Terminal
    BY DEF Terminal, FailureReason
  <2>2. ClientView'[r] = Seen(r, "queue_rejected", 0)'
    BY <1>4, <1>6, <2>1 DEF SeenAs
  <2> QED
    BY <1>3, <1>4, <1>6, <2>2 DEF Seen, LaunchShows
<1>7. CASE /\ originals'[r].status = "pending" /\ originals'[r].attempts = o.attempts + 1
           /\ AttemptAdded(r, e.when) /\ UNCHANGED stopped
  <2>1. PICK a : a = NextAttempt
    OBVIOUS
  <2>2. a \in LiveAttempts(r)' /\ attempts'[a].sent = e.when
    BY <1>7, <2>1 DEF AttemptAdded, LiveAttempts
  <2>3. ClientView'[r] = [phase |-> "waiting", tries |-> originals'[r].attempts,
                          arrived |-> originals'[r].arrived, sent |-> attempts'[a].sent]
    BY <1>4, <1>7, <2>2 DEF SeenAs, Seen
  <2> QED
    BY <1>3, <1>4, <1>7, <2>2, <2>3 DEF LaunchShows
<1> QED
  BY <1>5, <1>6, <1>7 DEF LaunchEffect

LEMMA ArrivalLife ==
    ASSUME Facts, Facts', NEW e, Effect(e), ArrivalEffect(e)
    PROVE  Lifecycle!Step(e.when)
<1>1. PICK r : r = e.value
  OBVIOUS
<1>2. /\ e.kind = "arrival" /\ r \in Requests /\ originals[r].status = "absent"
      /\ \A q \in Requests : q # r => SameRecord(q)
  BY <1>1 DEF ArrivalEffect
<1>3. PICK due, o : /\ due.kind = "deadline" /\ o.status = "pending"
                    /\ o.arrived = e.when /\ o.attempts = 0 /\ LaunchEffect(e, r, o, {due})
  BY <1>1 DEF ArrivalEffect
<1>4. LiveAttempts(r) = {} /\ RetryEvents(r) = {}
  BY <1>2, AbsentIsNew DEF Facts, DeadlineInv
<1>5. ClientView[r].phase = "absent"
  BY <1>2 DEF Facts, Views, SeenAs
<1>6. PICK w : w = ClientView'[r]
  OBVIOUS
<1>7. /\ \A q \in Requests : q # r => ClientView'[q] = ClientView[q]
      /\ \/ /\ w = [phase |-> "stranded", tries |-> 0, arrived |-> e.when, sent |-> 0]
            /\ stopped' = TRUE
         \/ /\ w = [phase |-> "queue_rejected", tries |-> 1, arrived |-> e.when, sent |-> 0]
            /\ UNCHANGED stopped
         \/ /\ w = [phase |-> "waiting", tries |-> 1, arrived |-> e.when, sent |-> e.when]
            /\ UNCHANGED stopped
  <2>1. /\ \A q \in Requests : q # r => ClientView'[q] = ClientView[q]
        /\ LaunchShows(r, o.attempts, o.arrived, e.when)
    BY <1>2, <1>3, <1>4, LaunchView
  <2> QED
    BY <1>3, <1>6, <2>1 DEF LaunchShows
<1>8. ClientView' = [ClientView EXCEPT ![r] = w]
  BY <1>6, <1>7 DEF Facts, Views
<1>9. Lifecycle!Arrive(r, e.when)
  BY <1>5, <1>7, <1>8, Advances DEF Lifecycle!Arrive
<1> QED
  BY <1>2, <1>9 DEF Lifecycle!Step

LEMMA RetryLife ==
    ASSUME Facts, Facts', NEW e, Effect(e), RetryEffect(e)
    PROVE  Lifecycle!Step(e.when)
<1>1. PICK r : r = e.value
  OBVIOUS
<1>2. /\ e.kind = "retry" /\ r \in Requests /\ originals[r].status = "pending"
      /\ \A q \in Requests : q # r => SameRecord(q)
      /\ LaunchEffect(e, r, originals[r], {}) /\ ~done
  BY <1>1, HandledFirst DEF Facts, RetryEffect
<1>3. e \in RetryEvents(r) /\ Exclusive(r)
  BY <1>1, <1>2, HandledFirst DEF Facts, RetryEvents, ContinueInv
<1>4. LiveAttempts(r) = {} /\ RetryEvents(r) \subseteq {e}
  BY <1>3 DEF Exclusive
<1>5. /\ ClientView[r].phase = "backing_off" /\ ClientView[r].sent = 0
      /\ ClientView[r].tries = originals[r].attempts
      /\ ClientView[r].arrived = originals[r].arrived
  BY <1>2, <1>4, PendingView
<1>6. /\ \A q \in Requests : q # r => ClientView'[q] = ClientView[q]
      /\ LaunchShows(r, originals[r].attempts, originals[r].arrived, e.when)
  BY <1>1, <1>2, <1>4, LaunchView
<1>7. Views /\ Views'
  BY DEF Facts
<1>8. CASE /\ ClientView'[r] = [phase |-> "stranded", tries |-> originals[r].attempts,
                                arrived |-> originals[r].arrived, sent |-> 0]
           /\ stopped' = TRUE
  <2>1. ClientView' = [ClientView EXCEPT ![r].phase = "stranded"]
    BY <1>2, <1>5, <1>6, <1>7, <1>8, PhaseChanges
  <2>2. Lifecycle!Retry(r, e.when)
    BY <1>5, <1>8, <2>1, Advances DEF Lifecycle!Retry
  <2> QED
    BY <1>2, <2>2 DEF Lifecycle!Step
<1>9. CASE /\ ClientView'[r] = [phase |-> "queue_rejected", tries |-> originals[r].attempts + 1,
                                arrived |-> originals[r].arrived, sent |-> 0]
           /\ UNCHANGED stopped
  <2>1. ClientView' = [ClientView EXCEPT ![r].phase = "queue_rejected", ![r].tries = @ + 1]
    BY <1>2, <1>5, <1>6, <1>7, <1>9, RefusalChanges
  <2>2. Lifecycle!Retry(r, e.when)
    BY <1>5, <1>9, <2>1, Advances DEF Lifecycle!Retry
  <2> QED
    BY <1>2, <2>2 DEF Lifecycle!Step
<1>10. CASE /\ ClientView'[r] = [phase |-> "waiting", tries |-> originals[r].attempts + 1,
                                 arrived |-> originals[r].arrived, sent |-> e.when]
            /\ UNCHANGED stopped
  <2>1. ClientView' = Lifecycle!Send(r, e.when)
    BY <1>2, <1>5, <1>6, <1>7, <1>10, NextSent
  <2>2. Lifecycle!Retry(r, e.when)
    BY <1>5, <1>10, <2>1, Advances DEF Lifecycle!Retry
  <2> QED
    BY <1>2, <2>2 DEF Lifecycle!Step
<1> QED
  BY <1>6, <1>8, <1>9, <1>10 DEF LaunchShows

-----------------------------------------------------------------------------
(* The refinement.                                                           *)

LEMMA LifecycleStep ==
    ASSUME Facts, Facts', [Next]_vars
    PROVE  [Lifecycle!Next]_(Lifecycle!cvars)
<1>1. CASE Rest
  <2>1. ASSUME NEW r \in Requests PROVE ClientView'[r] = ClientView[r]
    <3>1. /\ LiveAttempts(r)' = LiveAttempts(r) /\ RetryEvents(r)' = RetryEvents(r)
          /\ UNCHANGED <<originals, attempts>>
      BY <1>1 DEF Rest, LiveAttempts, RetryEvents
    <3>2. PhaseOf(r)' = PhaseOf(r)
      BY <3>1 DEF PhaseOf, Pending
    <3> QED
      BY <3>1, <3>2 DEF ClientView
  <2>2. ClientView' = ClientView
    BY <2>1 DEF Facts, Views
  <2> QED
    BY <1>1, <2>2 DEF Rest, Lifecycle!cvars
<1>2. ASSUME NEW e \in events, Effect(e) PROVE Lifecycle!Next
  <2>1. Lifecycle!Step(e.when)
    BY <1>2, QuietLife, ArrivalLife, RetryLife, FailLife, CompleteLife DEF Effect
  <2>2. now' = e.when /\ e.when \in Nat
    BY <1>2, HandledFirst DEF Facts
  <2>3. Lifecycle!Step(now')
    BY <2>1, <2>2
  <2> QED
    BY <2>2, <2>3 DEF Lifecycle!Next
<1> QED
  BY <1>1, <1>2, Steps DEF Facts

LEMMA LifecycleInit == TypeInv /\ ContinueInv /\ Init => Lifecycle!Init
<1> SUFFICES ASSUME TypeInv, ContinueInv, Init PROVE Lifecycle!Init
  OBVIOUS
<1>1. \A r \in Requests : ClientView[r] = [phase |-> "absent", tries |-> 0, arrived |-> 0, sent |-> 0]
  BY ViewsHold DEF Init, Views, SeenAs
<1>2. ClientView = [r \in Requests |->
                        [phase |-> "absent", tries |-> 0, arrived |-> 0, sent |-> 0]]
  BY <1>1, ViewsHold DEF Views
<1> QED
  BY <1>2 DEF Init, Lifecycle!Init

\* The simulator implements the life cycle: every iteration of the event loop
\* is, for the clients, one step of one request that its life cycle allows, or
\* no step at all.
THEOREM LifecycleImplemented == Spec => ImplementsLifecycle
<1>1. TypeInv /\ ContinueInv => Views
  BY ViewsHold
<1>2. TypeInv /\ ContinueInv /\ Init => Lifecycle!Init
  BY LifecycleInit
<1>3. /\ TypeInv /\ ServerInv /\ ArrivesOnce /\ DeadlineInv /\ TimerInv /\ ContinueInv /\ CapKept
      /\ TypeInv' /\ ServerInv' /\ ArrivesOnce' /\ DeadlineInv' /\ TimerInv' /\ ContinueInv' /\ CapKept'
      /\ Views /\ Views' /\ [Next]_vars
      => [Lifecycle!Next]_(Lifecycle!cvars)
  BY LifecycleStep DEF Facts
<1> QED
  BY <1>1, <1>2, <1>3, TypeInvariance, ServerInvariance, DeadlineInvariance, TimerInvariance,
     ContinueInvariance, CapInvariance, PTL
  DEF Spec, ImplementsLifecycle, Lifecycle!Spec
=============================================================================
