---------------------------- MODULE RetrySimProofs ----------------------------
(***************************************************************************)
(* What holds of the retry simulator for every value of its constants.     *)
(* The server: its state is well typed, it loses no attempt, and it serves *)
(* one at a time in order of admission.  The clients: an outcome is given  *)
(* once and never taken back, deadlines and timeouts are kept to the tick, *)
(* a pending request always has exactly one continuation, and a request    *)
(* succeeds exactly when it was answered in time.                          *)
(*                                                                         *)
(* In the second part the handlers are reduced to their effect on the      *)
(* requests, the attempts and the heap.  The invariants are layered: each  *)
(* one is proved from the effects and the invariants before it.            *)
(***************************************************************************)
EXTENDS RetrySim, SequenceTheorems, FiniteSetTheorems, TLAPS

-----------------------------------------------------------------------------
(* Type correctness.  TypeOK alone is not inductive: the values of the events *)
(* must name requests and attempts, and no event may lie in the past.         *)

TypeInv == TypeOK /\ EventsOK /\ ClockOK

LEMMA LeastNat == \A a, b \in Nat : Least(a, b) \in Nat /\ Least(a, b) <= a /\ Least(a, b) <= b
  BY DEF Least

LEMMA UpdateIsTyped ==
  ASSUME NEW S, NEW s \in Seq(S), NEW i \in DOMAIN s, NEW x \in S
  PROVE  /\ [s EXCEPT ![i] = x] \in Seq(S)
         /\ Len([s EXCEPT ![i] = x]) = Len(s) /\ DOMAIN [s EXCEPT ![i] = x] = DOMAIN s
  BY LenProperties, ExceptSeq

LEMMA EventIsTyped ==
  ASSUME NEW when \in Nat, NEW kind \in DOMAIN PRIORITY, NEW value \in Nat, NEW n \in Nat
  PROVE  Event(when, kind, value, n) \in EventType
  BY DEF Event, EventType, Time

LEMMA CountIsTyped ==
  ASSUME NEW K, NEW f \in [K -> Nat], NEW keys
  PROVE  Count(f, keys) \in [K -> Nat]
  BY DEF Count

\* add never changes the types of the counters.
LEMMA AddIsTyped ==
  ASSUME TypeOK, NEW t, NEW keys, Add(t, keys)
  PROVE  totals' \in [Counters -> Nat] /\ windows' \in [Windows -> [Counters \cup Gauges -> Nat]]
<1>1. totals' \in [Counters -> Nat]
  BY CountIsTyped DEF TypeOK, Add
<1>2. \A w \in Windows : Count(windows[w], keys) \in [Counters \cup Gauges -> Nat]
  BY CountIsTyped DEF TypeOK
<1>3. windows' \in [Windows -> [Counters \cup Gauges -> Nat]]
  BY <1>2 DEF TypeOK, Add
<1> QED BY <1>1, <1>3

LEMMA TerminateIsTyped ==
  ASSUME NEW o \in [Requests -> OriginalType], NEW r, NEW reason \in Terminal, NEW t \in Nat
  PROVE  Terminate(o, r, reason, t) \in [Requests -> OriginalType]
<1>1. CASE Pending(o, r) /\ r \in Requests
  <2>1. PICK settled : settled = [o[r] EXCEPT !.status = reason, !.terminal_at = t]
    OBVIOUS
  <2>2. settled \in OriginalType
    BY <1>1, <2>1 DEF OriginalType, Time
  <2>3. Terminate(o, r, reason, t) = [o EXCEPT ![r] = settled]
    BY <1>1, <2>1 DEF Terminate
  <2> QED BY <2>2, <2>3
<1>2. CASE ~Pending(o, r)
  BY <1>2 DEF Terminate
<1>3. CASE r \notin Requests
  BY <1>3 DEF Terminate
<1> QED BY <1>1, <1>2, <1>3

LEMMA ServiceTimeNat == \A t : ServiceTime(t) \in Nat
  BY RetrySimAssumption DEF ServiceTime

LEMMA DivNat == \A a \in Nat, b \in Nat \ {0} : a \div b \in Nat
  BY SMT

LEMMA InitTypeInv == Init => TypeInv
<1> SUFFICES ASSUME Init PROVE TypeInv
  OBVIOUS
<1> USE RetrySimAssumption
<1>1. WindowCount \in Nat
  BY DivNat DEF WindowCount
<1>2. ASSUME NEW r \in DOMAIN run.schedule
      PROVE  r \in Requests /\ run.schedule[r] \in 0..(Duration - 1)
  BY DEF Init, Arrivals, Requests
<1>3. /\ events \subseteq EventType
      /\ \A e \in events : /\ e.kind \in {"arrival", "sample"} /\ e.when >= 0
                           /\ e.kind = "arrival" => e.value \in Requests
  <2> SUFFICES ASSUME NEW e \in events
               PROVE  /\ e \in EventType /\ e.kind \in {"arrival", "sample"} /\ e.when >= 0
                      /\ e.kind = "arrival" => e.value \in Requests
    OBVIOUS
  <2>1. CASE \E r \in DOMAIN run.schedule : e = Event(run.schedule[r], "arrival", r, r)
    <3> PICK r \in DOMAIN run.schedule : e = Event(run.schedule[r], "arrival", r, r)
      BY <2>1
    <3>1. run.schedule[r] \in Nat /\ r \in Nat /\ r \in Requests
      BY <1>2 DEF Requests
    <3>2. e \in EventType
      BY <3>1, EventIsTyped DEF PRIORITY
    <3> QED BY <3>1, <3>2 DEF Event
  <2>2. CASE \E w \in 1..(Duration \div WindowSize) :
                e = Event(w * WindowSize, "sample", w, MaxArrivals + w)
    <3> PICK w \in 1..(Duration \div WindowSize) :
                e = Event(w * WindowSize, "sample", w, MaxArrivals + w)
      BY <2>2
    <3>1. w * WindowSize \in Nat /\ w \in Nat
      BY DivNat
    <3>2. e \in EventType
      BY <3>1, EventIsTyped DEF PRIORITY
    <3> QED BY <3>1, <3>2 DEF Event
  <2> QED BY <2>1, <2>2 DEF Init
<1>4. EventsOK /\ ClockOK
  BY <1>3 DEF Init, EventsOK, EventOK, ClockOK
<1>5. windows \in [Windows -> [Counters \cup Gauges -> Nat]] /\ totals \in [Counters -> Nat]
  BY DEF Init
<1>6. originals \in [Requests -> OriginalType]
  BY DEF Init, OriginalType
<1>7. attempts \in Seq(AttemptType) /\ queue \in Seq(DOMAIN attempts)
  BY DEF Init
<1>8. TokenCapacity * TokenUnit \in Nat
  OBVIOUS
<1>9. tokens \in 0..(TokenCapacity * TokenUnit) /\ token_updated \in 0..Duration /\ now \in 0..Duration
  BY <1>8 DEF Init
<1>10. serial \in Nat
  BY <1>1 DEF Init
<1>11. run \in [policy : Policies, fault : FaultModes, schedule : Arrivals]
  BY DEF Init
<1>12. busy \in DOMAIN attempts \cup {Idle} /\ stopped \in BOOLEAN /\ done \in BOOLEAN
  BY DEF Init
<1> QED BY <1>3, <1>4, <1>5, <1>6, <1>7, <1>9, <1>10, <1>11, <1>12 DEF TypeInv, TypeOK

-----------------------------------------------------------------------------
LEMMA TypeFacts ==
  ASSUME TypeInv
  PROVE  /\ events \subseteq EventType /\ serial \in Nat
         /\ originals \in [Requests -> OriginalType]
         /\ attempts \in Seq(AttemptType) /\ queue \in Seq(DOMAIN attempts)
         /\ busy \in DOMAIN attempts \cup {Idle}
         /\ stopped \in BOOLEAN /\ done \in BOOLEAN
         /\ now \in 0..Duration /\ token_updated \in 0..now
         /\ tokens \in 0..(TokenCapacity * TokenUnit)
         /\ totals \in [Counters -> Nat]
  BY DEF TypeInv, TypeOK, ClockOK

LEMMA PopFacts ==
  ASSUME TypeInv, NEW e, NEW kind, Pop(e, kind)
  PROVE  /\ e \in events /\ e \in EventType /\ e.kind = kind /\ e.value \in Nat
         /\ e.when \in Nat /\ e.when >= now /\ now' = e.when /\ e.when <= Duration
         /\ e.kind \in {"arrival", "deadline", "retry"} => e.value \in Requests
         /\ e.kind \in {"timeout", "complete"} => e.value \in DOMAIN attempts
  BY DEF TypeInv, TypeOK, EventsOK, EventOK, Pop, IsNext, EventType, Time

LEMMA AppendGrows ==
  ASSUME NEW S, NEW s \in Seq(S), NEW x \in S
  PROVE  /\ Append(s, x) \in Seq(S)
         /\ Len(s) \in Nat /\ DOMAIN s = 1..Len(s)
         /\ Len(Append(s, x)) = Len(s) + 1 /\ DOMAIN Append(s, x) = 1..(Len(s) + 1)
         /\ \A i \in DOMAIN s : Append(s, x)[i] = s[i]
         /\ Append(s, x)[Len(s) + 1] = x
  BY AppendProperties, LenProperties

\* What popping e and pushing the events in new does to the heap: the handler
\* has to show only that its own events are in order.
LEMMA PushIsTyped ==
  ASSUME TypeInv, NEW e, NEW kind, Pop(e, kind), NEW new, Push(e, new),
         new \subseteq EventType, \A f \in new : EventOK(f)',
         DOMAIN attempts \subseteq DOMAIN attempts'
  PROVE  events' \subseteq EventType /\ serial' \in Nat /\ EventsOK' /\ now' \in 0..Duration
<1>1. e \in EventType /\ e.when \in Nat /\ e.when >= now /\ now' = e.when /\ e.when <= Duration
  BY DEF TypeInv, TypeOK, EventsOK, EventOK, Pop, IsNext, EventType, Time
<1>2. ASSUME NEW f \in events \ {e} PROVE EventOK(f)'
  <2>1. e.when <= f.when
    <3>1. f \in EventType
      BY DEF TypeInv, TypeOK
    <3> QED BY <1>1, <3>1 DEF Pop, IsNext, Before, EventType, Time
  <2>2. EventOK(f)
    BY DEF TypeInv, EventsOK
  <2> QED BY <1>1, <2>1, <2>2 DEF EventOK
<1>3. events' \subseteq EventType /\ serial' \in Nat
  BY DEF Push, TypeInv, TypeOK
<1>4. EventsOK'
  BY <1>2 DEF EventsOK, Push
<1> QED BY <1>1, <1>3, <1>4

\* A handler that changes no attempt pushes only events about requests, or none.
LEMMA LaunchIsTyped ==
  ASSUME TypeInv, NEW e, NEW kind, Pop(e, kind),
         NEW r \in Requests, NEW o \in [Requests -> OriginalType], NEW keys,
         NEW new \in SUBSET EventType,
         \A f \in new : f.kind = "deadline" /\ f.value \in Requests /\ f.when >= e.when,
         Launch(e, r, o, keys, new)
  PROVE  /\ events' \subseteq EventType /\ serial' \in Nat /\ EventsOK'
         /\ originals' \in [Requests -> OriginalType]
         /\ attempts' \in Seq(AttemptType)
         /\ queue' \in Seq(DOMAIN attempts')
         /\ busy' \in DOMAIN attempts' \cup {Idle}
         /\ stopped' \in BOOLEAN /\ done' \in BOOLEAN
         /\ totals' \in [Counters -> Nat]
         /\ windows' \in [Windows -> [Counters \cup Gauges -> Nat]]
<1> USE RetrySimAssumption
<1> DEFINE tried == [o EXCEPT ![r].attempts = @ + 1]
           aid == Len(attempts) + 1
<1>0. tried \in [Requests -> OriginalType]
  BY DEF OriginalType
<1> HIDE DEF tried, aid
<1>1. /\ e.when \in Nat /\ now' = e.when /\ serial \in Nat
      /\ attempts \in Seq(AttemptType) /\ queue \in Seq(DOMAIN attempts)
      /\ busy \in DOMAIN attempts \cup {Idle}
      /\ stopped \in BOOLEAN /\ done \in BOOLEAN
  BY TypeFacts, PopFacts
<1>2. \A f \in new : EventOK(f)'
  BY <1>1 DEF EventOK
<1>3. CASE LaunchCapped(e, o, keys, new)
  <2>1. events' \subseteq EventType /\ serial' \in Nat /\ EventsOK'
    BY <1>2, <1>3, PushIsTyped DEF LaunchCapped
  <2> QED BY <1>1, <1>3, <2>1, AddIsTyped DEF LaunchCapped, TypeInv
<1>4. CASE LaunchRejected(e, r, o, keys, new)
  <2>1. events' \subseteq EventType /\ serial' \in Nat /\ EventsOK'
    BY <1>2, <1>4, PushIsTyped DEF LaunchRejected
  <2>2. originals' \in [Requests -> OriginalType]
    BY <1>0, <1>1, <1>4, TerminateIsTyped DEF LaunchRejected, tried, Terminal, FailureReason
  <2>3. totals' \in [Counters -> Nat] /\ windows' \in [Windows -> [Counters \cup Gauges -> Nat]]
    BY <1>4, AddIsTyped DEF LaunchRejected, TypeInv
  <2> QED BY <1>1, <1>4, <2>1, <2>2, <2>3 DEF LaunchRejected
<1>5. CASE LaunchAdmitted(e, r, o, keys, new)
  <2> DEFINE timer == Event(e.when + AttemptTimeout, "timeout", aid, serial + 1)
             complete == Event(e.when + ServiceTime(e.when), "complete", aid, serial + 2)
             sent(started) == [original |-> r, sent |-> e.when, started |-> started,
                               completed |-> NoTime, timed_out |-> FALSE]
  <2> HIDE DEF timer, complete, sent
  <2>1. totals' \in [Counters -> Nat] /\ windows' \in [Windows -> [Counters \cup Gauges -> Nat]]
    BY <1>5, AddIsTyped DEF LaunchAdmitted, TypeInv
  <2>2. originals' \in [Requests -> OriginalType]
    BY <1>0, <1>5 DEF LaunchAdmitted, tried
  <2>3. PICK s \in {e.when, NoTime} : attempts' = Append(attempts, sent(s))
    BY <1>5 DEF LaunchAdmitted, sent, aid
  <2>4. sent(s) \in AttemptType
    BY <1>1 DEF AttemptType, Time, NoTime, sent
  <2>5. /\ attempts' \in Seq(AttemptType) /\ aid \in DOMAIN attempts'
        /\ DOMAIN attempts \subseteq DOMAIN attempts'
    BY <1>1, <2>3, <2>4, AppendGrows DEF aid
  <2>6. timer \in EventType /\ complete \in EventType
    <3>1. aid \in Nat /\ e.when + AttemptTimeout \in Nat /\ e.when + ServiceTime(e.when) \in Nat
      BY <1>1, ServiceTimeNat, LenProperties DEF aid
    <3> QED BY <1>1, <3>1, EventIsTyped DEF PRIORITY, timer, complete
  <2>7. \A f \in {timer, complete} : EventOK(f)'
    <3>1. e.when + AttemptTimeout >= e.when /\ e.when + ServiceTime(e.when) >= e.when
      BY <1>1, ServiceTimeNat
    <3>2. /\ timer.kind = "timeout" /\ timer.value = aid /\ timer.when = e.when + AttemptTimeout
          /\ complete.kind = "complete" /\ complete.value = aid
          /\ complete.when = e.when + ServiceTime(e.when)
      BY DEF Event, timer, complete
    <3> QED BY <1>1, <2>5, <3>1, <3>2 DEF EventOK
  <2>8. queue \in Seq(DOMAIN attempts')
    BY <1>1, <2>5, SeqMonotonic
  <2>9. queue' \in Seq(DOMAIN attempts') /\ busy' \in DOMAIN attempts' \cup {Idle}
    <3>1. \/ queue' = queue /\ busy' = aid
          \/ queue' = Append(queue, aid) /\ busy' = busy
      BY <1>5 DEF LaunchAdmitted, Enqueue, aid
    <3>2. busy \in DOMAIN attempts' \cup {Idle}
      BY <1>1, <2>5
    <3>3. Append(queue, aid) \in Seq(DOMAIN attempts')
      BY <2>5, <2>8, AppendProperties
    <3> QED BY <2>5, <2>8, <3>1, <3>2, <3>3
  <2>10. events' \subseteq EventType /\ serial' \in Nat /\ EventsOK'
    <3>1. PICK more \in {{timer}, {timer, complete}} : Push(e, new \cup more)
      BY <1>5 DEF LaunchAdmitted, timer, complete, aid
    <3>2. new \cup more \subseteq EventType /\ \A f \in new \cup more : EventOK(f)'
      <4>1. more \subseteq {timer, complete}
        BY <3>1
      <4> QED BY <1>2, <2>6, <2>7, <4>1
    <3> QED BY <2>5, <3>1, <3>2, PushIsTyped
  <2> QED BY <1>1, <1>5, <2>1, <2>2, <2>5, <2>9, <2>10 DEF LaunchAdmitted
<1> QED BY <1>3, <1>4, <1>5 DEF Launch

-----------------------------------------------------------------------------
(* Every action preserves TypeInv.                                           *)
LEMMA ArrivalTypeInv == ASSUME TypeInv, NEW e, Arrival(e) PROVE TypeInv'
<1> USE RetrySimAssumption
<1> DEFINE r == e.value
           arrived == [originals EXCEPT ![r] = [arrived |-> e.when, attempts |-> 0,
                                        status |-> "pending", terminal_at |-> NoTime]]
           due == Event(e.when + OriginalDeadline, "deadline", r, serial)
<1> HIDE DEF r, arrived, due
<1>1. Pop(e, "arrival") /\ Launch(e, r, arrived, {"arrivals"}, {due})
  BY DEF Arrival, r, arrived, due
<1>2. r \in Requests /\ e.when \in Nat /\ r \in Nat
  BY <1>1, PopFacts DEF r
<1>3. arrived \in [Requests -> OriginalType]
  BY <1>2, TypeFacts DEF arrived, OriginalType, Time
<1>4. due \in EventType
  BY <1>2, TypeFacts, EventIsTyped DEF due, PRIORITY
<1>5. due.kind = "deadline" /\ due.value \in Requests /\ due.when >= e.when
  BY <1>2 DEF due, Event
<1>6. {due} \in SUBSET EventType
      /\ \A f \in {due} : f.kind = "deadline" /\ f.value \in Requests /\ f.when >= e.when
  BY <1>4, <1>5
<1>7. /\ events' \subseteq EventType /\ serial' \in Nat /\ EventsOK'
      /\ originals' \in [Requests -> OriginalType]
      /\ attempts' \in Seq(AttemptType)
      /\ queue' \in Seq(DOMAIN attempts')
      /\ busy' \in DOMAIN attempts' \cup {Idle}
      /\ stopped' \in BOOLEAN /\ done' \in BOOLEAN
      /\ totals' \in [Counters -> Nat]
      /\ windows' \in [Windows -> [Counters \cup Gauges -> Nat]]
  BY <1>1, <1>2, <1>3, <1>6, LaunchIsTyped
<1>8. /\ tokens' \in 0..(TokenCapacity * TokenUnit)
      /\ token_updated' \in 0..Duration /\ token_updated' <= now' /\ now' \in 0..Duration
  <2>1. UNCHANGED <<tokens, token_updated>>
    BY DEF Arrival
  <2> QED BY <1>1, <2>1, TypeFacts, PopFacts
<1>9. run' \in [policy : Policies, fault : FaultModes, schedule : Arrivals]
  BY <1>1 DEF Pop, TypeInv, TypeOK
<1> QED BY <1>7, <1>8, <1>9 DEF TypeInv, TypeOK, ClockOK

LEMMA RefilledBound ==
  ASSUME TypeInv, NEW t \in Nat, t >= now
  PROVE  Refilled(t) \in 0..(TokenCapacity * TokenUnit)
<1> USE RetrySimAssumption
<1>1. (t - token_updated) \in Nat /\ tokens \in Nat /\ TokenCapacity * TokenUnit \in Nat
  BY TypeFacts
<1>2. (t - token_updated) * RefillPerTick \in Nat
  BY <1>1
<1>3. tokens + (t - token_updated) * RefillPerTick \in Nat
  BY <1>1, <1>2
<1> DEFINE full == TokenCapacity * TokenUnit
           sum == tokens + (t - token_updated) * RefillPerTick
<1> HIDE DEF full, sum
<1>4. full \in Nat /\ sum \in Nat /\ Refilled(t) = Least(full, sum)
  BY <1>1, <1>3 DEF full, sum, Refilled
<1> QED BY <1>4, LeastNat DEF full

\* What the handlers that leave the server alone have in common.
LEMMA QuietTypeInv ==
  ASSUME TypeInv, NEW e, NEW kind, Pop(e, kind), Push(e, {}),
         originals' \in [Requests -> OriginalType],
         tokens' \in 0..(TokenCapacity * TokenUnit), token_updated' \in {token_updated, e.when},
         totals' \in [Counters -> Nat],
         windows' \in [Windows -> [Counters \cup Gauges -> Nat]],
         UNCHANGED <<attempts, queue, busy, stopped, done>>
  PROVE  TypeInv'
<1>1. events' \subseteq EventType /\ serial' \in Nat /\ EventsOK' /\ now' \in 0..Duration
  BY PushIsTyped
<1>2. token_updated' \in 0..Duration /\ token_updated' <= now'
  <2>1. e.when \in Nat /\ e.when >= now /\ now' = e.when /\ e.when <= Duration
    BY PopFacts
  <2>2. token_updated \in 0..now /\ now \in 0..Duration
    BY TypeFacts
  <2> QED BY <2>1, <2>2, RetrySimAssumption
<1>3. run' \in [policy : Policies, fault : FaultModes, schedule : Arrivals]
  BY DEF Pop, TypeInv, TypeOK
<1> QED BY <1>1, <1>2, <1>3, TypeFacts DEF TypeInv, TypeOK, ClockOK

LEMMA DeadlinePassedTypeInv == ASSUME TypeInv, NEW e, DeadlinePassed(e) PROVE TypeInv'
<1>1. originals' \in [Requests -> OriginalType]
  BY TypeFacts, PopFacts, TerminateIsTyped DEF DeadlinePassed, Terminal, FailureReason
<1>2. totals' \in [Counters -> Nat] /\ windows' \in [Windows -> [Counters \cup Gauges -> Nat]]
  BY AddIsTyped DEF DeadlinePassed, TypeInv
<1> QED BY <1>1, <1>2, TypeFacts, QuietTypeInv DEF DeadlinePassed

LEMMA RetryTypeInv ==
  ASSUME TypeInv, NEW e, RetryStale(e) \/ RetryDenied(e) \/ RetryLaunched(e)
  PROVE  TypeInv'
<1> USE RetrySimAssumption
<1>1. CASE RetryStale(e)
  <2>1. windows \in [Windows -> [Counters \cup Gauges -> Nat]]
    BY DEF TypeInv, TypeOK
  <2> QED BY <1>1, <2>1, TypeFacts, QuietTypeInv DEF RetryStale
<1>2. CASE RetryDenied(e)
  <2>1. originals' \in [Requests -> OriginalType]
    BY <1>2, TypeFacts, PopFacts, TerminateIsTyped DEF RetryDenied, Terminal, FailureReason
  <2>2. totals' \in [Counters -> Nat] /\ windows' \in [Windows -> [Counters \cup Gauges -> Nat]]
    BY <1>2, AddIsTyped DEF RetryDenied, TypeInv
  <2>3. Refilled(e.when) \in 0..(TokenCapacity * TokenUnit)
    BY <1>2, PopFacts, RefilledBound DEF RetryDenied
  <2> QED BY <1>2, <2>1, <2>2, <2>3, QuietTypeInv DEF RetryDenied
<1>3. CASE RetryLaunched(e)
  <2>1. Pop(e, "retry") /\ Launch(e, e.value, originals, {}, {})
    BY <1>3 DEF RetryLaunched
  <2>2. e.value \in Requests /\ e.when \in Nat /\ e.when >= now /\ now' = e.when
        /\ now' \in 0..Duration
    BY <2>1, PopFacts
  <2>3. /\ events' \subseteq EventType /\ serial' \in Nat /\ EventsOK'
        /\ originals' \in [Requests -> OriginalType]
        /\ attempts' \in Seq(AttemptType)
        /\ queue' \in Seq(DOMAIN attempts')
        /\ busy' \in DOMAIN attempts' \cup {Idle}
        /\ stopped' \in BOOLEAN /\ done' \in BOOLEAN
        /\ totals' \in [Counters -> Nat]
        /\ windows' \in [Windows -> [Counters \cup Gauges -> Nat]]
    <3>1. {} \in SUBSET EventType
          /\ \A f \in {} : f.kind = "deadline" /\ f.value \in Requests /\ f.when >= e.when
      OBVIOUS
    <3>2. originals \in [Requests -> OriginalType]
      BY TypeFacts
    <3> QED BY <2>1, <2>2, <3>1, <3>2, LaunchIsTyped
  <2>4. tokens' \in 0..(TokenCapacity * TokenUnit) /\ token_updated' \in 0..now'
    <3>1. Refilled(e.when) \in 0..(TokenCapacity * TokenUnit)
      BY <2>2, RefilledBound
    <3>2. TokenUnit \in Nat \ {0} /\ TokenCapacity * TokenUnit \in Nat
      OBVIOUS
    <3>3. \/ /\ Refilled(e.when) >= TokenUnit
             /\ tokens' = Refilled(e.when) - TokenUnit /\ token_updated' = e.when
          \/ UNCHANGED <<tokens, token_updated>>
      BY <1>3 DEF RetryLaunched
    <3>4. CASE UNCHANGED <<tokens, token_updated>>
      BY <2>2, <3>4, TypeFacts
    <3>5. CASE Refilled(e.when) >= TokenUnit
               /\ tokens' = Refilled(e.when) - TokenUnit /\ token_updated' = e.when
      BY <2>2, <3>1, <3>2, <3>5
    <3> QED BY <3>3, <3>4, <3>5
  <2>5. run' \in [policy : Policies, fault : FaultModes, schedule : Arrivals]
    BY <2>1 DEF Pop, TypeInv, TypeOK
  <2>6. token_updated' \in 0..Duration /\ token_updated' <= now' /\ now' \in 0..Duration
    BY <2>2, <2>4
  <2> QED BY <2>3, <2>4, <2>5, <2>6 DEF TypeInv, TypeOK, ClockOK
<1> QED BY <1>1, <1>2, <1>3

LEMMA TimeoutTypeInv ==
  ASSUME TypeInv, NEW e, TimeoutAnswered(e) \/ TimeoutFailed(e)
  PROVE  TypeInv'
<1>1. CASE TimeoutAnswered(e)
  <2>1. windows \in [Windows -> [Counters \cup Gauges -> Nat]]
    BY DEF TypeInv, TypeOK
  <2> QED BY <1>1, <2>1, TypeFacts, QuietTypeInv DEF TimeoutAnswered
<1>2. CASE TimeoutFailed(e)
  <2> DEFINE r == attempts[e.value].original
  <2> HIDE DEF r
  <2>1. Pop(e, "timeout") /\ e.value \in DOMAIN attempts /\ e.when \in Nat /\ now' = e.when
        /\ serial \in Nat
    BY <1>2, PopFacts, TypeFacts DEF TimeoutFailed
  <2>2. attempts' \in Seq(AttemptType) /\ DOMAIN attempts' = DOMAIN attempts
    <3> DEFINE late == [attempts[e.value] EXCEPT !.timed_out = TRUE]
    <3>1. attempts[e.value] \in AttemptType
      BY <2>1, TypeFacts, ElementOfSeq, LenProperties
    <3>2. late \in AttemptType
      BY <3>1 DEF AttemptType
    <3>3. attempts' = [attempts EXCEPT ![e.value] = late]
      BY <1>2 DEF TimeoutFailed
    <3> HIDE DEF late
    <3> QED BY <2>1, <3>2, <3>3, TypeFacts, UpdateIsTyped
  <2>3. r \in Requests /\ r \in Nat
    <3>1. attempts[e.value] \in AttemptType
      BY <2>1, TypeFacts, ElementOfSeq, LenProperties
    <3>2. r \in Requests
      BY <3>1 DEF r, AttemptType
    <3> QED BY <3>2, RetrySimAssumption DEF Requests
  <2>4. originals' \in [Requests -> OriginalType]
    <3>1. \/ originals' = originals
          \/ originals' = Terminate(originals, r, "attempts_exhausted", e.when)
      BY <1>2 DEF TimeoutFailed, r
    <3>2. "attempts_exhausted" \in Terminal
      BY DEF Terminal, FailureReason
    <3>3. originals \in [Requests -> OriginalType] /\ e.when \in Nat
      BY <2>1, TypeFacts
    <3>4. Terminate(originals, r, "attempts_exhausted", e.when) \in [Requests -> OriginalType]
      BY <3>2, <3>3, TerminateIsTyped
    <3> QED BY <3>1, <3>3, <3>4
  <2>5. totals' \in [Counters -> Nat] /\ windows' \in [Windows -> [Counters \cup Gauges -> Nat]]
    BY <1>2, AddIsTyped DEF TimeoutFailed, TypeInv
  <2>6. events' \subseteq EventType /\ serial' \in Nat /\ EventsOK' /\ now' \in 0..Duration
    <3>1. CASE Push(e, {})
      BY <2>1, <2>2, <3>1, PushIsTyped
    <3>2. ASSUME NEW jitter \in Nat, Push(e, {Event(e.when + jitter, "retry", r, serial)})
          PROVE  events' \subseteq EventType /\ serial' \in Nat /\ EventsOK' /\ now' \in 0..Duration
      <4> DEFINE again == Event(e.when + jitter, "retry", r, serial)
      <4> HIDE DEF again
      <4>1. again \in EventType
        BY <2>1, <2>3, EventIsTyped DEF again, PRIORITY
      <4>2. again.kind = "retry" /\ again.value = r /\ again.when >= e.when
        BY <2>1 DEF again, Event
      <4>3. \A f \in {again} : EventOK(f)'
        BY <2>1, <2>3, <4>2 DEF EventOK
      <4>4. Push(e, {again})
        BY <3>2 DEF again
      <4> QED BY <2>1, <2>2, <4>1, <4>3, <4>4, PushIsTyped
    <3>3. \/ Push(e, {})
          \/ \E jitter \in Nat : Push(e, {Event(e.when + jitter, "retry", r, serial)})
      <4>1. \/ Push(e, {})
            \/ \E jitter \in 0..BackoffLimit(originals[r].attempts) :
                    Push(e, {Event(e.when + jitter, "retry", r, serial)})
        BY <1>2 DEF TimeoutFailed, r
      <4>2. \A jitter \in 0..BackoffLimit(originals[r].attempts) : jitter \in Nat
        OBVIOUS
      <4> QED BY <4>1, <4>2
    <3> QED BY <3>1, <3>2, <3>3
  <2>7. /\ tokens' \in 0..(TokenCapacity * TokenUnit)
        /\ token_updated' \in 0..Duration /\ token_updated' <= now'
    <3>1. UNCHANGED <<tokens, token_updated>>
      BY <1>2 DEF TimeoutFailed
    <3> QED BY <2>1, <3>1, TypeFacts, PopFacts, RetrySimAssumption
  <2>8. run' \in [policy : Policies, fault : FaultModes, schedule : Arrivals]
    BY <2>1 DEF Pop, TypeInv, TypeOK
  <2>9. queue' \in Seq(DOMAIN attempts') /\ busy' \in DOMAIN attempts' \cup {Idle}
        /\ stopped' \in BOOLEAN /\ done' \in BOOLEAN
    BY <1>2, <2>2, TypeFacts DEF TimeoutFailed
  <2> QED BY <2>2, <2>4, <2>5, <2>6, <2>7, <2>8, <2>9 DEF TypeInv, TypeOK, ClockOK
<1> QED BY <1>1, <1>2

\* The part of a completion that does not concern the server.
LEMMA CompleteRest ==
  ASSUME TypeInv, NEW e, Complete(e)
  PROVE  /\ originals' \in [Requests -> OriginalType]
         /\ totals' \in [Counters -> Nat]
         /\ windows' \in [Windows -> [Counters \cup Gauges -> Nat]]
         /\ run' \in [policy : Policies, fault : FaultModes, schedule : Arrivals]
         /\ tokens' \in 0..(TokenCapacity * TokenUnit)
         /\ token_updated' \in 0..Duration /\ token_updated' <= now'
         /\ stopped' \in BOOLEAN /\ done' \in BOOLEAN
<1>1. Pop(e, "complete") /\ UNCHANGED <<tokens, token_updated, stopped, done>>
  BY DEF Complete
<1>2. originals' \in [Requests -> OriginalType]
  <2> DEFINE r == attempts[e.value].original
  <2> HIDE DEF r
  <2>1. \/ originals' = originals
        \/ originals' = Terminate(originals, r, "success", e.when)
    BY DEF Complete, r
  <2>2. "success" \in Terminal /\ e.when \in Nat
    BY <1>1, PopFacts DEF Terminal
  <2>3. originals \in [Requests -> OriginalType]
    BY TypeFacts
  <2>4. Terminate(originals, r, "success", e.when) \in [Requests -> OriginalType]
    BY <2>2, <2>3, TerminateIsTyped
  <2> QED BY <2>1, <2>3, <2>4
<1>3. totals' \in [Counters -> Nat] /\ windows' \in [Windows -> [Counters \cup Gauges -> Nat]]
  BY AddIsTyped DEF Complete, TypeInv
<1>4. run' \in [policy : Policies, fault : FaultModes, schedule : Arrivals]
  BY <1>1 DEF Pop, TypeInv, TypeOK
<1>5. token_updated' \in 0..Duration /\ token_updated' <= now'
  <2>1. e.when \in Nat /\ e.when >= now /\ now' = e.when /\ e.when <= Duration
    BY <1>1, PopFacts
  <2>2. token_updated \in 0..now /\ now \in 0..Duration /\ token_updated' = token_updated
    BY <1>1, TypeFacts
  <2> QED BY <2>1, <2>2, RetrySimAssumption
<1> QED BY <1>1, <1>2, <1>3, <1>4, <1>5, TypeFacts

LEMMA CompleteTypeInv == ASSUME TypeInv, NEW e, Complete(e) PROVE TypeInv'
<1> DEFINE a == e.value
           r == attempts[a].original
           ended == [attempts[a] EXCEPT !.completed = e.when]
           finished == [attempts EXCEPT ![a] = ended]
           next == Head(queue)
           done_at == Event(e.when + ServiceTime(e.when), "complete", next, serial)
<1> HIDE DEF a, r, ended, finished, next, done_at
<1>1. Pop(e, "complete") /\ a \in DOMAIN attempts /\ e.when \in Nat /\ now' = e.when
      /\ serial \in Nat
  BY PopFacts, TypeFacts DEF Complete, a
<1>2. finished \in Seq(AttemptType) /\ DOMAIN finished = DOMAIN attempts
  <2>1. attempts[a] \in AttemptType
    BY <1>1, TypeFacts, ElementOfSeq, LenProperties
  <2>2. ended \in AttemptType
    BY <1>1, <2>1 DEF AttemptType, ended, Time
  <2> QED BY <1>1, <2>2, TypeFacts, UpdateIsTyped DEF finished
<1>3. CASE queue = << >> /\ attempts' = finished /\ busy' = Idle /\ Push(e, {}) /\ queue' = queue
  <2>1. events' \subseteq EventType /\ serial' \in Nat /\ EventsOK' /\ now' \in 0..Duration
    BY <1>1, <1>2, <1>3, PushIsTyped
  <2> QED BY <1>1, <1>2, <1>3, <2>1, CompleteRest, TypeFacts DEF TypeInv, TypeOK, ClockOK
<1>4. CASE /\ queue # << >>
           /\ attempts' = [finished EXCEPT ![next].started = e.when]
           /\ busy' = next /\ queue' = Tail(queue) /\ Push(e, {done_at})
  <2>1. next \in DOMAIN attempts /\ next \in Nat /\ Tail(queue) \in Seq(DOMAIN attempts)
    BY <1>4, TypeFacts, HeadTailProperties, LenProperties DEF next
  <2>2. attempts' \in Seq(AttemptType) /\ DOMAIN attempts' = DOMAIN attempts
    <3> DEFINE begun == [finished[next] EXCEPT !.started = e.when]
    <3>1. finished[next] \in AttemptType
      BY <1>2, <2>1, ElementOfSeq, LenProperties
    <3>2. begun \in AttemptType
      BY <1>1, <3>1 DEF AttemptType, Time
    <3>3. attempts' = [finished EXCEPT ![next] = begun]
      BY <1>4
    <3> HIDE DEF begun
    <3> QED BY <1>2, <2>1, <3>2, <3>3, UpdateIsTyped
  <2>3. done_at \in EventType
    <3>1. e.when + ServiceTime(e.when) \in Nat
      BY <1>1, ServiceTimeNat
    <3> QED BY <1>1, <2>1, <3>1, EventIsTyped DEF done_at, PRIORITY
  <2>4. done_at.kind = "complete" /\ done_at.value = next /\ done_at.when >= e.when
    BY <1>1, ServiceTimeNat DEF done_at, Event
  <2>5. \A f \in {done_at} : EventOK(f)'
    BY <1>1, <2>1, <2>2, <2>4 DEF EventOK
  <2>6. events' \subseteq EventType /\ serial' \in Nat /\ EventsOK' /\ now' \in 0..Duration
    BY <1>1, <1>4, <2>2, <2>3, <2>5, PushIsTyped
  <2> QED BY <1>1, <1>4, <2>1, <2>2, <2>6, CompleteRest DEF TypeInv, TypeOK, ClockOK
<1> QED BY <1>3, <1>4 DEF Complete, finished, ended, a, next, done_at

LEMMA SampleTypeInv == ASSUME TypeInv, NEW e, Sample(e) PROVE TypeInv'
<1> DEFINE w == (e.when \div WindowSize) - 1
           gauges == [windows[w] EXCEPT
                        !["queue_depth_at_end"] = Len(queue),
                        !["in_service_at_end"] = in_service,
                        !["pending_originals_at_end"] =
                            Cardinality({r \in Requests : Pending(originals, r)})]
<1> HIDE DEF w, gauges
<1>1. windows' = [windows EXCEPT ![w] = gauges]
  BY DEF Sample, w, gauges
<1>2. windows \in [Windows -> [Counters \cup Gauges -> Nat]]
  BY DEF TypeInv, TypeOK
<1>3. Cardinality({r \in Requests : Pending(originals, r)}) \in Nat
  <2>1. IsFiniteSet(Requests)
    BY FS_Interval, RetrySimAssumption DEF Requests
  <2>2. {r \in Requests : Pending(originals, r)} \subseteq Requests
    OBVIOUS
  <2> QED BY <2>1, <2>2, FS_Subset, FS_CardinalityType
<1>4. Len(queue) \in Nat /\ in_service \in Nat
  BY TypeFacts, LenProperties DEF in_service
<1>5. ASSUME w \in Windows PROVE gauges \in [Counters \cup Gauges -> Nat]
  <2>1. windows[w] \in [Counters \cup Gauges -> Nat]
    BY <1>2, <1>5
  <2> QED BY <1>3, <1>4, <2>1 DEF gauges
<1>6. windows' \in [Windows -> [Counters \cup Gauges -> Nat]]
  BY <1>1, <1>2, <1>5
<1> QED BY <1>6, TypeFacts, QuietTypeInv DEF Sample

LEMMA NextTypeInv == TypeInv /\ [Next]_vars => TypeInv'
<1> SUFFICES ASSUME TypeInv, [Next]_vars PROVE TypeInv'
  OBVIOUS
<1>1. ASSUME NEW e, Handle(e) PROVE TypeInv'
  BY <1>1, ArrivalTypeInv, DeadlinePassedTypeInv, RetryTypeInv, TimeoutTypeInv,
     CompleteTypeInv, SampleTypeInv DEF Handle
<1>2. CASE Finish
  BY <1>2 DEF Finish, TypeInv, TypeOK, EventsOK, EventOK, ClockOK
<1>3. CASE UNCHANGED vars
  BY <1>3 DEF vars, TypeInv, TypeOK, EventsOK, EventOK, ClockOK
<1> QED BY <1>1, <1>2, <1>3 DEF Next

LEMMA TypeInvariance == Spec => []TypeInv
  BY InitTypeInv, NextTypeInv, PTL DEF Spec

\* The type invariant holds of every run, for every configuration.
THEOREM TypeCorrect == Spec => []TypeOK
<1>1. TypeInv => TypeOK
  BY DEF TypeInv
<1> QED BY <1>1, TypeInvariance, PTL

-----------------------------------------------------------------------------
(* The server.  ServerInv is inductive relative to TypeInv.  Most handlers    *)
(* leave the server as it is (SameServer); LaunchAdmitted and Complete change *)
(* it.                                                                        *)

LEMMA AddCounts ==
  ASSUME TypeInv, NEW t, NEW keys, Add(t, keys), NEW k \in Counters
  PROVE  totals'[k] = IF k \in keys THEN totals[k] + 1 ELSE totals[k]
<1>1. DOMAIN totals = Counters
  BY TypeFacts
<1> QED BY <1>1 DEF Add, Count

LEMMA CounterNames ==
  /\ {"arrivals", "attempts", "admitted_attempts", "rejected_attempts", "dropped_arrivals",
      "attempt_timeouts", "completed_attempts", "unused_completions", "successes",
      "terminal_failures"} \subseteq Counters
  /\ FailureReason \subseteq Counters /\ Phases \subseteq Counters
  BY DEF Counters

LEMMA FailureCounts ==
  ASSUME NEW o, NEW r, NEW reason \in FailureReason
  PROVE  TerminateCounts(o, r, reason) \subseteq {"terminal_failures"} \cup FailureReason
  BY DEF TerminateCounts, FailureReason

LEMMA SuccessCounts ==
  ASSUME NEW o, NEW r, Pending(o, r), o[r].arrived \in Int
  PROVE  TerminateCounts(o, r, "success") = {"successes", Phase(o[r].arrived)}
         /\ Phase(o[r].arrived) \in Phases
<1>1. Phase(o[r].arrived) \in Phases
  BY RetrySimAssumption DEF Phase, Phases
<1> QED BY <1>1 DEF TerminateCounts

SameServer ==
    /\ UNCHANGED <<queue, busy, run>> /\ now' >= now
    /\ DOMAIN attempts' = DOMAIN attempts /\ Len(attempts') = Len(attempts)
    /\ \A a \in DOMAIN attempts :
        /\ attempts'[a].sent = attempts[a].sent
        /\ attempts'[a].started = attempts[a].started
        /\ attempts'[a].completed = attempts[a].completed
    /\ \A k \in {"admitted_attempts", "completed_attempts", "successes", "unused_completions"} :
        totals'[k] = totals[k]
    /\ \E n \in {0, 1} : /\ totals'["attempts"] = totals["attempts"] + n
                         /\ totals'["rejected_attempts"] = totals["rejected_attempts"] + n
    /\ \A f \in events' : f.kind = "complete" => f \in events

LEMMA SameServerInv == ASSUME TypeInv, TypeInv', ServerInv, SameServer PROVE ServerInv'
<1> DEFINE c == totals["completed_attempts"]
<1>1. /\ attempts \in Seq(AttemptType) /\ queue \in Seq(DOMAIN attempts)
      /\ now \in Nat /\ now' \in Nat /\ totals \in [Counters -> Nat]
  <2>1. now \in 0..Duration /\ now' \in 0..Duration
    BY DEF TypeInv, TypeOK
  <2> QED BY <2>1, TypeFacts, RetrySimAssumption
<1>2. in_service' = in_service /\ totals'["completed_attempts"] = totals["completed_attempts"]
  BY DEF SameServer, in_service
<1>3. ServerConservation'
  <2>1. {"attempts", "admitted_attempts", "rejected_attempts"} \subseteq Counters
    BY CounterNames
  <2> QED BY <1>1, <1>2, <2>1 DEF ServerInv, ServerConservation, SameServer, unfinished_server_work
<1>4. ServerQueue'
  BY <1>2 DEF ServerInv, ServerQueue, SameServer
<1>5. ASSUME NEW a \in DOMAIN attempts, Served(a) PROVE Served(a)'
  <2>1. a \in Nat /\ (a > 1 => a - 1 \in DOMAIN attempts)
    BY <1>1, LenProperties
  <2>2. \A b \in {a} \cup (IF a > 1 THEN {a - 1} ELSE {}) :
            /\ attempts'[b].sent = attempts[b].sent
            /\ attempts'[b].started = attempts[b].started
            /\ attempts'[b].completed = attempts[b].completed
    BY <2>1 DEF SameServer
  <2>3. \A t : ServiceTime(t)' = ServiceTime(t)
    BY DEF SameServer, ServiceTime
  <2> QED
    BY <1>5, <2>1, <2>2, <2>3 DEF Served
<1>6. ServerAttempts'
  <2> SUFFICES ASSUME NEW a \in DOMAIN attempts
               PROVE  /\ attempts'[a].sent <= now' /\ attempts'[a].completed <= now'
                      /\ attempts'[a].completed # NoTime <=> a <= c
                      /\ attempts'[a].started # NoTime <=> a <= c + in_service
                      /\ Served(a)'
    BY <1>2 DEF ServerAttempts, SameServer
  <2>1. attempts[a] \in AttemptType
    BY <1>1, ElementOfSeq, LenProperties
  <2>2. attempts[a].sent \in Int /\ attempts[a].completed \in Int
    BY <2>1 DEF AttemptType, Time, NoTime
  <2>3. /\ attempts'[a].sent = attempts[a].sent /\ attempts'[a].started = attempts[a].started
        /\ attempts'[a].completed = attempts[a].completed /\ now' >= now
    BY DEF SameServer
  <2>4. /\ attempts[a].sent <= now /\ attempts[a].completed <= now
        /\ attempts[a].completed # NoTime <=> a <= c
        /\ attempts[a].started # NoTime <=> a <= c + in_service
        /\ Served(a)
    BY DEF ServerInv, ServerAttempts
  <2> QED BY <1>1, <1>5, <2>2, <2>3, <2>4
<1>7. ServerEvents'
  <2>1. \A e \in events : e.kind = "complete" => e.value \in DOMAIN attempts
    BY DEF TypeInv, EventsOK, EventOK
  <2> QED BY <2>1 DEF ServerInv, ServerEvents, SameServer, ServiceTime
<1> QED BY <1>3, <1>4, <1>6, <1>7 DEF ServerInv

\* The handlers that leave the server as it is.
LEMMA CountsSame ==
  ASSUME TypeInv, NEW t, NEW keys, Add(t, keys),
         keys \cap {"admitted_attempts", "completed_attempts", "successes",
                    "unused_completions"} = {},
         "attempts" \in keys <=> "rejected_attempts" \in keys
  PROVE  /\ \A k \in {"admitted_attempts", "completed_attempts", "successes",
                      "unused_completions"} : totals'[k] = totals[k]
         /\ \E n \in {0, 1} : /\ totals'["attempts"] = totals["attempts"] + n
                              /\ totals'["rejected_attempts"] = totals["rejected_attempts"] + n
<1>1. \A k \in {"admitted_attempts", "completed_attempts", "successes", "unused_completions",
                "attempts", "rejected_attempts"} :
        totals'[k] = IF k \in keys THEN totals[k] + 1 ELSE totals[k]
  BY AddCounts, CounterNames
<1>2. totals["attempts"] \in Nat /\ totals["rejected_attempts"] \in Nat
  BY TypeFacts, CounterNames
<1>3. CASE "attempts" \in keys
  BY <1>1, <1>2, <1>3
<1>4. CASE "attempts" \notin keys
  BY <1>1, <1>2, <1>4
<1> QED BY <1>3, <1>4

LEMMA QuietLaunch ==
  ASSUME TypeInv, NEW e, NEW kind, Pop(e, kind), NEW r, NEW o, NEW new,
         NEW keys \in SUBSET {"arrivals"}, \A f \in new : f.kind = "deadline",
         LaunchCapped(e, o, keys, new) \/ LaunchRejected(e, r, o, keys, new)
  PROVE  SameServer
<1>1. UNCHANGED <<attempts, queue, busy, run>> /\ now' >= now
  BY PopFacts DEF LaunchCapped, LaunchRejected, Pop
<1>2. \A f \in events' : f.kind = "complete" => f \in events
  BY DEF LaunchCapped, LaunchRejected, Push
<1>3. CASE LaunchCapped(e, o, keys, new)
  <2>1. Add(e.when, keys)
    BY <1>3 DEF LaunchCapped
  <2>2. keys \cap {"admitted_attempts", "completed_attempts", "successes",
                   "unused_completions"} = {} /\ "attempts" \notin keys
        /\ "rejected_attempts" \notin keys
    OBVIOUS
  <2> QED BY <1>1, <1>2, <2>1, <2>2, CountsSame DEF SameServer
<1>4. CASE LaunchRejected(e, r, o, keys, new)
  <2> DEFINE tried == [o EXCEPT ![r].attempts = @ + 1]
             first == IF tried[r].attempts = 1 THEN {"dropped_arrivals"} ELSE {}
             failed == TerminateCounts(tried, r, "queue_rejected")
             all == keys \cup {"attempts", "rejected_attempts"} \cup first \cup failed
  <2> HIDE DEF tried, first, failed, all
  <2>1. Add(e.when, all)
    BY <1>4 DEF LaunchRejected, tried, first, failed, all
  <2>2. failed \subseteq {"terminal_failures"} \cup FailureReason
    BY FailureCounts DEF failed, FailureReason
  <2>3. first \subseteq {"dropped_arrivals"}
    BY DEF first
  <2>4. all \cap {"admitted_attempts", "completed_attempts", "successes",
                  "unused_completions"} = {}
        /\ "attempts" \in all /\ "rejected_attempts" \in all
    BY <2>2, <2>3 DEF all, FailureReason
  <2> QED BY <1>1, <1>2, <2>1, <2>4, CountsSame DEF SameServer
<1> QED BY <1>3, <1>4

LEMMA QuietTimeout ==
  ASSUME TypeInv, NEW e, TimeoutFailed(e)
  PROVE  SameServer
<1> DEFINE r == attempts[e.value].original
           failed == TerminateCounts(originals, r, "attempts_exhausted")
<1> HIDE DEF r, failed
<1>1. e.value \in DOMAIN attempts /\ now' >= now /\ attempts \in Seq(AttemptType)
      /\ UNCHANGED <<queue, busy, run>>
  BY PopFacts, TypeFacts DEF TimeoutFailed, Pop
<1>2. attempts[e.value] \in AttemptType
  BY <1>1, ElementOfSeq, LenProperties
<1>3. /\ DOMAIN attempts' = DOMAIN attempts /\ Len(attempts') = Len(attempts)
      /\ \A a \in DOMAIN attempts :
            /\ attempts'[a].sent = attempts[a].sent
            /\ attempts'[a].started = attempts[a].started
            /\ attempts'[a].completed = attempts[a].completed
  <2> DEFINE late == [attempts[e.value] EXCEPT !.timed_out = TRUE]
  <2>1. late \in AttemptType /\ late.sent = attempts[e.value].sent
        /\ late.started = attempts[e.value].started /\ late.completed = attempts[e.value].completed
    BY <1>2 DEF AttemptType
  <2>2. attempts' = [attempts EXCEPT ![e.value] = late]
    BY DEF TimeoutFailed
  <2> HIDE DEF late
  <2> QED BY <1>1, <2>1, <2>2, UpdateIsTyped
<1>4. \A f \in events' : f.kind = "complete" => f \in events
  BY DEF TimeoutFailed, Push, Event
<1>5. PICK keys \in {{"attempt_timeouts"} \cup failed, {"attempt_timeouts"}} : Add(e.when, keys)
  BY DEF TimeoutFailed, r, failed
<1>6. failed \subseteq {"terminal_failures"} \cup FailureReason
  BY FailureCounts DEF failed, FailureReason
<1>7. keys \cap {"admitted_attempts", "completed_attempts", "successes",
                 "unused_completions"} = {} /\ "attempts" \notin keys /\ "rejected_attempts" \notin keys
  BY <1>5, <1>6 DEF FailureReason
<1> QED BY <1>1, <1>3, <1>4, <1>5, <1>7, CountsSame DEF SameServer

LEMMA QuietOthers ==
  ASSUME TypeInv, NEW e,
         \/ DeadlinePassed(e) \/ RetryStale(e) \/ RetryDenied(e)
         \/ TimeoutAnswered(e) \/ Sample(e)
  PROVE  SameServer
<1>1. UNCHANGED <<attempts, queue, busy, run>> /\ now' >= now
  BY PopFacts DEF DeadlinePassed, RetryStale, RetryDenied, TimeoutAnswered, Sample, Pop
<1>2. \A f \in events' : f.kind = "complete" => f \in events
  BY DEF DeadlinePassed, RetryStale, RetryDenied, TimeoutAnswered, Sample, Push
<1>3. CASE UNCHANGED totals
  <2>1. totals["attempts"] \in Nat /\ totals["rejected_attempts"] \in Nat
    BY TypeFacts, CounterNames
  <2> QED BY <1>1, <1>2, <1>3, <2>1 DEF SameServer
<1>4. ASSUME NEW reason \in FailureReason,
             Add(e.when, TerminateCounts(originals, e.value, reason))
      PROVE  SameServer
  <2> DEFINE keys == TerminateCounts(originals, e.value, reason)
  <2> HIDE DEF keys
  <2>1. Add(e.when, keys) /\ keys \subseteq {"terminal_failures"} \cup FailureReason
    BY <1>4, FailureCounts DEF keys
  <2>2. keys \cap {"admitted_attempts", "completed_attempts", "successes",
                   "unused_completions"} = {} /\ "attempts" \notin keys
        /\ "rejected_attempts" \notin keys
    BY <2>1 DEF FailureReason
  <2> QED BY <1>1, <1>2, <2>1, <2>2, CountsSame DEF SameServer
<1>5. "deadline_expired" \in FailureReason /\ "budget_denied" \in FailureReason
  BY DEF FailureReason
<1> QED BY <1>3, <1>4, <1>5 DEF DeadlinePassed, RetryStale, RetryDenied, TimeoutAnswered, Sample

LEMMA ServerFacts ==
  ASSUME TypeInv, ServerInv
  PROVE  /\ totals["completed_attempts"] \in Nat /\ Len(attempts) \in Nat /\ Len(queue) \in Nat
         /\ DOMAIN attempts = 1..Len(attempts) /\ DOMAIN queue = 1..Len(queue)
         /\ in_service = (IF busy = Idle THEN 0 ELSE 1)
         /\ Len(attempts) = totals["completed_attempts"] + Len(queue) + in_service
         /\ busy # Idle => busy = totals["completed_attempts"] + 1
         /\ busy = Idle => queue = << >> /\ Len(queue) = 0
         /\ \A e \in events : e.kind = "complete" => busy # Idle /\ e.value = busy
         /\ \A a \in DOMAIN attempts : attempts[a] \in AttemptType
<1>1. /\ totals["completed_attempts"] \in Nat /\ Len(attempts) \in Nat /\ Len(queue) \in Nat
      /\ DOMAIN attempts = 1..Len(attempts) /\ DOMAIN queue = 1..Len(queue)
  BY TypeFacts, CounterNames, LenProperties
<1>2. in_service = (IF busy = Idle THEN 0 ELSE 1)
  BY DEF in_service
<1>3. Len(attempts) = totals["completed_attempts"] + Len(queue) + in_service
  BY <1>1, <1>2 DEF ServerInv, ServerConservation, unfinished_server_work
<1>4. busy = Idle => queue = << >> /\ Len(queue) = 0
  BY DEF ServerInv, ServerQueue
<1>5. busy # Idle => busy = totals["completed_attempts"] + 1
  BY DEF ServerInv, ServerQueue
<1>6. \A e \in events : e.kind = "complete" => busy # Idle /\ e.value = busy
  <2>1. \A e \in events : e.kind = "complete" => e.value = busy /\ e.value \in DOMAIN attempts
    BY DEF ServerInv, ServerEvents, TypeInv, EventsOK, EventOK
  <2> QED BY <1>1, <2>1 DEF Idle
<1>7. \A a \in DOMAIN attempts : attempts[a] \in AttemptType
  BY <1>1, TypeFacts, ElementOfSeq
<1> QED BY <1>1, <1>2, <1>3, <1>4, <1>5, <1>6, <1>7

\* An admitted attempt: it starts at once, or waits behind all the others.
LEMMA AdmitServer ==
  ASSUME TypeInv, TypeInv', ServerInv, NEW e, NEW kind, Pop(e, kind), kind # "complete",
         NEW r \in Requests, NEW o, NEW keys \in SUBSET {"arrivals"},
         NEW new, \A f \in new : f.kind = "deadline",
         LaunchAdmitted(e, r, o, keys, new)
  PROVE  ServerInv'
<1> DEFINE c == totals["completed_attempts"]
           n == Len(attempts)
           sent(started) == [original |-> r, sent |-> e.when, started |-> started,
                             completed |-> NoTime, timed_out |-> FALSE]
           complete == Event(e.when + ServiceTime(e.when), "complete", n + 1, serial + 2)
<1> HIDE DEF c, n, sent, complete
<1>1. /\ n \in Nat /\ c \in Nat /\ now \in Nat /\ e.when \in Nat /\ now' = e.when /\ e.when >= now
      /\ run' = run
  <2>1. now \in 0..Duration
    BY TypeFacts
  <2> QED BY <2>1, PopFacts, ServerFacts, RetrySimAssumption DEF n, c, Pop
<1>2. PICK s \in {e.when, NoTime} :
        /\ attempts' = Append(attempts, sent(s))
        /\ s = e.when <=> busy = Idle
        /\ IF busy = Idle THEN busy' = n + 1 /\ queue' = queue
                          ELSE busy' = busy /\ queue' = Append(queue, n + 1)
  <2>1. e.when # NoTime
    BY <1>1 DEF NoTime
  <2> QED BY <2>1 DEF LaunchAdmitted, Enqueue, sent, n
<1>3. sent(s) \in AttemptType
  BY <1>1 DEF AttemptType, Time, NoTime, sent
<1>4. /\ DOMAIN attempts = 1..n /\ Len(attempts') = n + 1 /\ DOMAIN attempts' = 1..(n + 1)
      /\ \A a \in 1..n : attempts'[a] = attempts[a]
      /\ attempts'[n + 1] = sent(s)
  BY <1>2, <1>3, AppendGrows, TypeFacts DEF n
<1>5. /\ totals'["completed_attempts"] = c
      /\ totals'["attempts"] = totals["attempts"] + 1
      /\ totals'["admitted_attempts"] = totals["admitted_attempts"] + 1
      /\ totals'["rejected_attempts"] = totals["rejected_attempts"]
      /\ totals'["successes"] = totals["successes"]
      /\ totals'["unused_completions"] = totals["unused_completions"]
  <2> DEFINE all == keys \cup {"attempts", "admitted_attempts"}
  <2>1. Add(e.when, all)
    BY DEF LaunchAdmitted
  <2>2. /\ "attempts" \in all /\ "admitted_attempts" \in all /\ "rejected_attempts" \notin all
        /\ "successes" \notin all /\ "unused_completions" \notin all
        /\ "completed_attempts" \notin all
    OBVIOUS
  <2> HIDE DEF all
  <2> QED BY <2>1, <2>2, AddCounts, CounterNames DEF c
<1>6. /\ n = c + Len(queue) + in_service /\ Len(queue) \in Nat /\ DOMAIN queue = 1..Len(queue)
      /\ in_service = (IF busy = Idle THEN 0 ELSE 1)
      /\ busy # Idle => busy = c + 1
      /\ busy = Idle => queue = << >> /\ Len(queue) = 0
  BY ServerFacts DEF n, c
<1>7. /\ in_service' = 1 /\ busy' # Idle /\ busy' = c + 1
      /\ Len(queue') = Len(queue) + in_service
  <2>1. CASE busy = Idle
    BY <1>1, <1>2, <1>6, <2>1 DEF in_service, Idle
  <2>2. CASE busy # Idle
    <3>1. Len(Append(queue, n + 1)) = Len(queue) + 1
      BY TypeFacts, <1>1, LenProperties
    <3> QED BY <1>1, <1>2, <1>6, <2>2, <3>1 DEF in_service, Idle
  <2> QED BY <2>1, <2>2
<1>8. ServerConservation'
  <2>1. /\ totals["attempts"] \in Nat /\ totals["admitted_attempts"] \in Nat
        /\ totals["rejected_attempts"] \in Nat
    BY TypeFacts, CounterNames
  <2>2. /\ totals["attempts"] = totals["admitted_attempts"] + totals["rejected_attempts"]
        /\ totals["admitted_attempts"] = n
        /\ totals["completed_attempts"] = totals["successes"] + totals["unused_completions"]
    BY DEF ServerInv, ServerConservation, n
  <2>3. in_service \in Nat
    BY <1>6
  <2>4. unfinished_server_work' = Len(queue) + in_service + 1
    BY <1>6, <1>7, <2>3 DEF unfinished_server_work
  <2>5. totals["completed_attempts"] = c
    BY DEF c
  <2>6. totals'["attempts"] = totals'["admitted_attempts"] + totals'["rejected_attempts"]
    BY <1>5, <2>1, <2>2
  <2>7. totals'["admitted_attempts"] = Len(attempts')
    BY <1>4, <1>5, <2>2
  <2>8. totals'["admitted_attempts"] = totals'["completed_attempts"] + unfinished_server_work'
    BY <1>1, <1>5, <1>6, <2>2, <2>3, <2>4
  <2>9. totals'["completed_attempts"] = totals'["successes"] + totals'["unused_completions"]
    BY <1>5, <2>2, <2>5
  <2> QED BY <2>6, <2>7, <2>8, <2>9 DEF ServerConservation
<1>9. ServerQueue'
  <2>1. \A i \in DOMAIN queue' : queue'[i] = c + 1 + i
    <3>1. CASE busy = Idle
      BY <1>2, <1>6, <3>1
    <3>2. CASE busy # Idle
      <4>1. queue \in Seq(Nat)
        BY TypeFacts, <1>1, <1>4, SeqMonotonic
      <4>2. /\ DOMAIN queue' = 1..(Len(queue) + 1)
            /\ \A i \in 1..Len(queue) : queue'[i] = queue[i]
            /\ queue'[Len(queue) + 1] = n + 1
        BY <1>1, <1>2, <3>2, <4>1, AppendGrows
      <4>3. \A i \in 1..Len(queue) : queue[i] = c + 1 + i
        BY <1>6 DEF ServerInv, ServerQueue, c
      <4>4. n + 1 = c + 1 + (Len(queue) + 1)
        BY <1>1, <1>6, <3>2
      <4> QED BY <1>6, <4>2, <4>3, <4>4
    <3> QED BY <3>1, <3>2
  <2>2. Len(queue') <= QueueCapacity
    <3>1. CASE busy = Idle
      BY <1>2, <3>1 DEF ServerInv, ServerQueue
    <3>2. CASE busy # Idle
      <4>1. Len(queue) < QueueCapacity
        <5>1. ~(Len(queue) >= QueueCapacity)
          BY <3>2 DEF LaunchAdmitted, QueueFull
        <5> QED BY <1>6, <5>1, RetrySimAssumption
      <4> QED BY <1>6, <1>7, <3>2, <4>1, RetrySimAssumption
    <3> QED BY <3>1, <3>2
  <2> QED BY <1>5, <1>7, <2>1, <2>2 DEF ServerQueue
<1>10. ServerAttempts'
  <2>1. ASSUME NEW a \in 1..n
        PROVE  /\ attempts'[a].sent <= now' /\ attempts'[a].completed <= now'
               /\ attempts'[a].completed # NoTime <=> a <= c
               /\ attempts'[a].started # NoTime <=> a <= c + in_service'
               /\ Served(a)'
    <3>1. /\ attempts[a].sent <= now /\ attempts[a].completed <= now
          /\ attempts[a].completed # NoTime <=> a <= c
          /\ attempts[a].started # NoTime <=> a <= c + in_service
          /\ Served(a)
      BY <1>4 DEF ServerInv, ServerAttempts, c
    <3>2. attempts[a].sent \in Int /\ attempts[a].completed \in Int
      BY <1>4, ServerFacts DEF AttemptType, Time, NoTime
    <3>3. Served(a)'
      BY <1>1, <1>4, <3>1 DEF Served, ServiceTime
    <3>4. a <= c + in_service <=> a <= c + 1
      BY <1>1, <1>6
    <3>5. attempts'[a] = attempts[a]
      BY <1>4
    <3>6. attempts'[a].sent <= now' /\ attempts'[a].completed <= now'
      BY <1>1, <3>1, <3>2, <3>5
    <3>7. attempts'[a].started # NoTime <=> a <= c + in_service'
      BY <1>7, <3>1, <3>4, <3>5
    <3> QED BY <3>1, <3>3, <3>5, <3>6, <3>7
  <2>2. /\ attempts'[n + 1].sent <= now' /\ attempts'[n + 1].completed <= now'
        /\ attempts'[n + 1].completed = NoTime /\ ~(n + 1 <= c)
        /\ attempts'[n + 1].started # NoTime <=> n + 1 <= c + in_service'
    <3>1. n + 1 <= c + 1 <=> busy = Idle
      BY <1>1, <1>6
    <3>2. ~(n + 1 <= c)
      BY <1>1, <1>6
    <3> QED BY <1>1, <1>2, <1>4, <1>7, <3>1, <3>2 DEF sent, NoTime
  <2>3. ASSUME NEW a, a = n + 1 PROVE Served(a)'
    <3>1. CASE busy = Idle
      <4>1. n > 0 => attempts[n].completed \in 0..e.when
        <5>1. n > 0 => n \in DOMAIN attempts /\ n <= c
          BY <1>1, <1>4, <1>6, <3>1
        <5>2. n > 0 => attempts[n] \in AttemptType
          BY <5>1, ServerFacts
        <5>3. n > 0 => attempts[n].completed # NoTime /\ attempts[n].completed <= now
          BY <5>1 DEF ServerInv, ServerAttempts, c
        <5> QED BY <1>1, <5>2, <5>3 DEF AttemptType, Time, NoTime
      <4>2. attempts'[n + 1].started = e.when /\ attempts'[n + 1].sent = e.when
            /\ attempts'[n + 1].completed = NoTime
        BY <1>2, <1>4, <3>1 DEF sent
      <4>3. n + 1 > 1 => n > 0 /\ attempts'[(n + 1) - 1] = attempts[n]
        BY <1>1, <1>4
      <4>4. a > 1 => a - 1 = (n + 1) - 1
        BY <2>3
      <4> QED BY <1>1, <2>3, <4>1, <4>2, <4>3, <4>4 DEF Served, NoTime
    <3>2. CASE busy # Idle
      <4>1. n > 0 /\ attempts[n].completed = NoTime
        <5>1. n > 0 /\ ~(n <= c) /\ n \in DOMAIN attempts
          BY <1>1, <1>4, <1>6, <3>2
        <5> QED BY <5>1 DEF ServerInv, ServerAttempts, c
      <4>2. attempts'[n + 1].started = NoTime /\ attempts'[n + 1].completed = NoTime
        BY <1>2, <1>4, <3>2 DEF sent
      <4>3. n + 1 > 1 /\ attempts'[(n + 1) - 1] = attempts[n]
        BY <1>1, <1>4, <4>1
      <4> QED BY <2>3, <4>1, <4>2, <4>3 DEF Served
    <3> QED BY <3>1, <3>2
  <2>4. \A a \in 1..(n + 1) : a \in 1..n \/ a = n + 1
    BY <1>1
  <2>5. \A a \in DOMAIN attempts' :
            /\ attempts'[a].sent <= now' /\ attempts'[a].completed <= now'
            /\ attempts'[a].completed # NoTime <=> a <= c
            /\ attempts'[a].started # NoTime <=> a <= c + in_service'
            /\ Served(a)'
    BY <1>4, <2>1, <2>2, <2>3, <2>4
  <2> QED BY <1>5, <2>5 DEF ServerAttempts
<1>11. ServerEvents'
  <2>1. CASE busy = Idle
    <3>1. \A f \in events : f.kind # "complete"
      BY <2>1, ServerFacts
    <3>2. \A f \in events' : f.kind = "complete" => f = complete
      BY <2>1, <3>1 DEF LaunchAdmitted, Push, Event, complete, n
    <3>3. complete.value = n + 1 /\ complete.when = e.when + ServiceTime(e.when)
      BY DEF complete, Event
    <3>4. attempts'[n + 1].started = e.when /\ busy' = n + 1 /\ ServiceTime(e.when)' = ServiceTime(e.when)
      BY <1>1, <1>2, <1>4, <2>1 DEF sent, ServiceTime
    <3>5. \A f \in events' : f.kind = "complete" =>
                /\ f.value = n + 1
                /\ f.when = e.when + ServiceTime(e.when)
      BY <3>2, <3>3
    <3> QED BY <1>1, <3>2, <3>4, <3>5 DEF ServerEvents, ServiceTime
  <2>2. CASE busy # Idle
    <3>1. \A f \in events' : f.kind = "complete" => f \in events
      BY <2>2 DEF LaunchAdmitted, Push, Event
    <3>2. busy' = busy /\ attempts'[busy] = attempts[busy]
      <4>1. busy \in 1..n
        BY <1>4, <2>2, TypeFacts
      <4> QED BY <1>2, <1>4, <2>2, <4>1
    <3> QED BY <1>1, <3>1, <3>2 DEF ServerInv, ServerEvents, ServiceTime
  <2> QED BY <2>1, <2>2
<1> QED BY <1>8, <1>9, <1>10, <1>11 DEF ServerInv

\* A completed attempt: the next one starts at that very time.
LEMMA CompleteCounts ==
  ASSUME TypeInv, NEW e, Complete(e)
  PROVE  /\ totals'["completed_attempts"] = totals["completed_attempts"] + 1
         /\ totals'["attempts"] = totals["attempts"]
         /\ totals'["admitted_attempts"] = totals["admitted_attempts"]
         /\ totals'["rejected_attempts"] = totals["rejected_attempts"]
         /\ totals'["successes"] + totals'["unused_completions"]
              = totals["successes"] + totals["unused_completions"] + 1
<1> DEFINE r == attempts[e.value].original
           won == TerminateCounts(originals, r, "success")
<1> HIDE DEF r, won
<1>1. totals["successes"] \in Nat /\ totals["unused_completions"] \in Nat
  BY TypeFacts, CounterNames
<1>2. CASE Pending(originals, r) /\ Add(e.when, {"completed_attempts"} \cup won)
  <2>1. r \in Requests
    <3>1. e.value \in DOMAIN attempts
      BY PopFacts DEF Complete
    <3>2. attempts[e.value] \in AttemptType
      BY <3>1, TypeFacts, ElementOfSeq, LenProperties
    <3> QED BY <3>2 DEF AttemptType, r
  <2>2. originals[r].arrived \in Int
    BY <2>1, TypeFacts DEF OriginalType, Time, NoTime
  <2>3. PICK phase \in Phases : won = {"successes", phase}
    BY <1>2, <2>2, SuccessCounts DEF won
  <2>4. Add(e.when, {"completed_attempts", "successes", phase})
    <3>1. {"completed_attempts"} \cup won = {"completed_attempts", "successes", phase}
      BY <2>3
    <3> QED BY <1>2, <3>1
  <2>5. phase \notin {"completed_attempts", "attempts", "admitted_attempts",
                      "rejected_attempts", "unused_completions"}
    BY <2>3 DEF Phases
  <2> QED BY <1>1, <2>4, <2>5, AddCounts, CounterNames
<1>3. CASE Add(e.when, {"completed_attempts", "unused_completions"})
  BY <1>1, <1>3, AddCounts, CounterNames
<1> QED BY <1>2, <1>3 DEF Complete, r, won

LEMMA CompleteServer ==
  ASSUME TypeInv, TypeInv', ServerInv, NEW e, Complete(e)
  PROVE  ServerInv'
<1> DEFINE c == totals["completed_attempts"]
           n == Len(attempts)
           a == e.value
           ended == [attempts[a] EXCEPT !.completed = e.when]
           finished == [attempts EXCEPT ![a] = ended]
           next == Head(queue)
           begun == [finished[next] EXCEPT !.started = e.when]
           done_at == Event(e.when + ServiceTime(e.when), "complete", next, serial)
<1> HIDE DEF c, n, a, ended, finished, next, begun, done_at
<1>1. /\ n \in Nat /\ c \in Nat /\ now \in Nat /\ e.when \in Nat /\ now' = e.when /\ e.when >= now
      /\ e \in events /\ e.kind = "complete" /\ run' = run
  <2>1. now \in 0..Duration
    BY TypeFacts
  <2>2. Pop(e, "complete")
    BY DEF Complete
  <2> QED BY <2>1, <2>2, PopFacts, ServerFacts, RetrySimAssumption DEF n, c, Pop
<1>2. /\ n = c + Len(queue) + 1 /\ Len(queue) \in Nat /\ DOMAIN queue = 1..Len(queue)
      /\ DOMAIN attempts = 1..n
      /\ busy = c + 1 /\ a = c + 1 /\ in_service = 1
      /\ \A i \in 1..Len(queue) : queue[i] = c + 1 + i
      /\ \A b \in 1..n : attempts[b] \in AttemptType
  <2>1. busy # Idle /\ a = busy
    BY <1>1, ServerFacts DEF a
  <2> QED BY <2>1, ServerFacts DEF n, c, ServerInv, ServerQueue
<1>3. a \in 1..n /\ ended \in AttemptType
      /\ ended.sent = attempts[a].sent /\ ended.started = attempts[a].started
      /\ ended.completed = e.when
  <2>1. a \in 1..n
    BY <1>1, <1>2
  <2>2. attempts[a] \in AttemptType
    BY <1>2, <2>1
  <2> QED BY <1>1, <2>1, <2>2 DEF AttemptType, Time, ended
<1>4. /\ finished \in Seq(AttemptType) /\ Len(finished) = n /\ DOMAIN finished = 1..n
      /\ \A b \in 1..n : finished[b] = IF b = a THEN ended ELSE attempts[b]
  BY <1>2, <1>3, TypeFacts, UpdateIsTyped DEF finished, n
<1>5. \/ /\ queue = << >> /\ attempts' = finished /\ busy' = Idle /\ queue' = queue
         /\ Push(e, {})
      \/ /\ queue # << >> /\ attempts' = [finished EXCEPT ![next] = begun]
         /\ busy' = next /\ queue' = Tail(queue) /\ Push(e, {done_at})
  BY DEF Complete, finished, ended, a, next, begun, done_at
<1>6. /\ DOMAIN attempts' = 1..n /\ Len(attempts') = n
      /\ \A b \in 1..n :
            /\ attempts'[b].sent = attempts[b].sent
            /\ attempts'[b].started = IF b = c + 2 THEN e.when ELSE attempts[b].started
            /\ attempts'[b].completed = IF b = c + 1 THEN e.when ELSE attempts[b].completed
      /\ busy' = IF n = c + 1 THEN Idle ELSE c + 2
      /\ in_service' = IF n = c + 1 THEN 0 ELSE 1
      /\ Len(queue') = IF n = c + 1 THEN 0 ELSE Len(queue) - 1
      /\ \A i \in DOMAIN queue' : queue'[i] = c + 2 + i
      /\ \A f \in events' : f.kind = "complete" => f \in events \ {e} \/ (n # c + 1 /\ f = done_at)
  <2>1. CASE /\ queue = << >> /\ attempts' = finished /\ busy' = Idle /\ queue' = queue
             /\ Push(e, {})
    <3>1. n = c + 1 /\ Len(queue) = 0
      BY <1>1, <1>2, <2>1, TypeFacts, EmptySeq
    <3>2. \A b \in 1..n : b # c + 2
      BY <1>1, <3>1
    <3>3. in_service' = 0
      BY <2>1 DEF in_service
    <3>4. \A f \in events' : f \in events \ {e}
      BY <2>1 DEF Push
    <3> QED BY <1>2, <1>3, <1>4, <2>1, <3>1, <3>2, <3>3, <3>4
  <2>2. CASE /\ queue # << >> /\ attempts' = [finished EXCEPT ![next] = begun]
             /\ busy' = next /\ queue' = Tail(queue) /\ Push(e, {done_at})
    <3>1. /\ Len(queue) > 0 /\ next = c + 2 /\ Len(queue') = Len(queue) - 1
          /\ DOMAIN queue' = 1..(Len(queue) - 1)
          /\ \A i \in 1..(Len(queue) - 1) : queue'[i] = queue[i + 1]
      <4>1. Len(queue) > 0
        BY <1>2, <2>2, TypeFacts, EmptySeq
      <4>2. next = queue[1]
        BY <2>2, TypeFacts, HeadTailProperties DEF next
      <4>3. next = c + 2
        BY <1>1, <1>2, <4>1, <4>2
      <4> QED BY <1>2, <2>2, <4>1, <4>3, TypeFacts, HeadTailProperties, LenProperties
    <3>2. n # c + 1 /\ next \in 1..n /\ next # a
      BY <1>1, <1>2, <3>1
    <3>3. finished[next] = attempts[next] /\ finished[next] \in AttemptType
      BY <1>2, <1>4, <3>2
    <3>4. begun \in AttemptType /\ begun.sent = attempts[next].sent
          /\ begun.started = e.when /\ begun.completed = attempts[next].completed
      BY <1>1, <3>3 DEF AttemptType, Time, begun
    <3>5. /\ DOMAIN attempts' = 1..n /\ Len(attempts') = n
          /\ \A b \in 1..n : attempts'[b] = IF b = next THEN begun ELSE finished[b]
      BY <1>4, <2>2, <3>2, <3>4, UpdateIsTyped
    <3>6. \A b \in 1..n :
            /\ attempts'[b].sent = attempts[b].sent
            /\ attempts'[b].started = IF b = c + 2 THEN e.when ELSE attempts[b].started
            /\ attempts'[b].completed = IF b = c + 1 THEN e.when ELSE attempts[b].completed
      BY <1>2, <1>3, <1>4, <3>1, <3>2, <3>4, <3>5
    <3>7. in_service' = 1
      BY <1>1, <2>2, <3>1 DEF in_service, Idle
    <3>8. \A i \in DOMAIN queue' : queue'[i] = c + 2 + i
      <4>1. ASSUME NEW i \in DOMAIN queue' PROVE queue'[i] = c + 2 + i
        <5>1. i \in 1..(Len(queue) - 1) /\ i + 1 \in 1..Len(queue)
          BY <1>2, <3>1
        <5>2. queue'[i] = c + 1 + (i + 1)
          BY <1>2, <3>1, <5>1
        <5> QED BY <1>1, <5>1, <5>2
      <4> QED BY <4>1
    <3>9. \A f \in events' : f \in events \ {e} \/ f = done_at
      BY <2>2 DEF Push
    <3> QED BY <2>2, <3>1, <3>2, <3>5, <3>6, <3>7, <3>8, <3>9
  <2> QED BY <1>5, <2>1, <2>2
<1>7. totals'["completed_attempts"] = c + 1
  BY CompleteCounts DEF c
<1>8. ServerConservation'
  <2>1. /\ totals["attempts"] = totals["admitted_attempts"] + totals["rejected_attempts"]
        /\ totals["admitted_attempts"] = n
        /\ c = totals["successes"] + totals["unused_completions"]
    BY DEF ServerInv, ServerConservation, n, c
  <2>2. unfinished_server_work' = n - (c + 1)
    <3>1. CASE n = c + 1
      BY <1>1, <1>6, <3>1 DEF unfinished_server_work
    <3>2. CASE n # c + 1
      BY <1>1, <1>2, <1>6, <3>2 DEF unfinished_server_work
    <3> QED BY <3>1, <3>2
  <2>3. n = (c + 1) + (n - (c + 1))
    BY <1>1
  <2> QED BY <1>6, <1>7, <2>1, <2>2, <2>3, CompleteCounts DEF ServerConservation
<1>9. ServerQueue'
  <2>1. n = c + 1 => queue' = << >>
    BY <1>2, <1>5, EmptySeq, TypeFacts
  <2>2. Len(queue') <= QueueCapacity
    <3>1. Len(queue) <= QueueCapacity
      BY DEF ServerInv, ServerQueue
    <3>2. Len(queue') \in Int /\ Len(queue') <= Len(queue)
      <4>1. Len(queue') = IF n = c + 1 THEN 0 ELSE Len(queue) - 1
        BY <1>6
      <4>2. Len(queue) \in Nat /\ (n # c + 1 => Len(queue) > 0)
        BY <1>1, <1>2
      <4> QED BY <4>1, <4>2
    <3> QED BY <1>2, <3>1, <3>2, RetrySimAssumption
  <2>3. busy' = Idle <=> n = c + 1
    BY <1>1, <1>6 DEF Idle
  <2>4. (c + 1) + 1 = c + 2
    BY <1>1
  <2> QED BY <1>6, <1>7, <2>1, <2>2, <2>3, <2>4 DEF ServerQueue
<1>10. ServerAttempts'
  <2>1. ASSUME NEW b \in 1..n
        PROVE  /\ attempts'[b].sent <= now' /\ attempts'[b].completed <= now'
               /\ attempts'[b].completed # NoTime <=> b <= c + 1
               /\ attempts'[b].started # NoTime <=> b <= (c + 1) + in_service'
               /\ Served(b)'
    <3>1. /\ attempts[b].sent <= now /\ attempts[b].completed <= now
          /\ attempts[b].completed # NoTime <=> b <= c
          /\ attempts[b].started # NoTime <=> b <= c + 1
          /\ Served(b)
          /\ b > 1 => (attempts[b - 1].completed # NoTime <=> b - 1 <= c)
      <4>1. b > 1 => b - 1 \in 1..n
        BY <1>1
      <4> QED BY <1>2, <4>1 DEF ServerInv, ServerAttempts, c
    <3>2. attempts[b].sent \in Nat /\ attempts[b].completed \in Int /\ attempts[b].started \in Int
      BY <1>2 DEF AttemptType, Time, NoTime
    <3>3. e.when # NoTime
      BY <1>1 DEF NoTime
    <3>4. attempts'[b].completed # NoTime <=> b <= c + 1
      BY <1>1, <1>6, <3>1, <3>3
    <3>5. attempts'[b].started # NoTime <=> b <= (c + 1) + in_service'
      <4>1. CASE n = c + 1
        BY <1>1, <1>6, <3>1, <4>1
      <4>2. CASE n # c + 1
        <5>1. in_service' = 1 /\ (c + 1) + 1 = c + 2
          BY <1>1, <1>6, <4>2
        <5>2. b = c + 2 => attempts'[b].started = e.when
          BY <1>6
        <5>3. b # c + 2 => attempts'[b].started = attempts[b].started
                           /\ (b <= c + 1 <=> b <= c + 2)
          BY <1>1, <1>6
        <5> QED BY <1>1, <3>1, <3>3, <5>1, <5>2, <5>3
      <4> QED BY <4>1, <4>2
    <3>6. b > 1 => /\ b - 1 \in 1..n
                   /\ attempts'[b - 1].completed = IF b - 1 = c + 1 THEN e.when
                                                   ELSE attempts[b - 1].completed
      BY <1>1, <1>6
    <3>12. attempts'[b].sent <= now' /\ attempts'[b].completed <= now'
      <4>1. attempts'[b].sent = attempts[b].sent
        BY <1>6
      <4>2. attempts'[b].completed = attempts[b].completed \/ attempts'[b].completed = e.when
        BY <1>6
      <4> QED BY <1>1, <3>1, <3>2, <4>1, <4>2
    <3>7. CASE b <= c
      <4>1. b # c + 1 /\ b # c + 2 /\ b - 1 # c + 1
        BY <1>1, <3>7
      <4>2. Served(b)'
        BY <1>1, <1>6, <3>1, <3>6, <4>1 DEF Served, ServiceTime
      <4> QED BY <3>4, <3>5, <3>12, <4>2
    <3>8. CASE b = c + 1
      <4>1. b # c + 2 /\ b - 1 # c + 1
        BY <1>1, <3>8
      <4>2. e.when = attempts[b].started + ServiceTime(attempts[b].started)
        BY <1>1, <1>2, <3>8 DEF ServerInv, ServerEvents
      <4>3. Served(b)'
        BY <1>1, <1>6, <3>1, <3>6, <3>8, <4>1, <4>2 DEF Served, ServiceTime
      <4> QED BY <3>4, <3>5, <3>12, <4>3
    <3>9. CASE b = c + 2
      <4>1. b > 1 /\ b - 1 = c + 1 /\ b # c + 1
        BY <1>1, <3>9
      <4>2. /\ attempts'[b].started = e.when /\ attempts'[b].sent = attempts[b].sent
            /\ attempts'[b].completed = NoTime /\ attempts'[b - 1].completed = e.when
            /\ attempts[b].sent <= e.when
        BY <1>1, <1>6, <3>1, <3>2, <3>6, <3>9, <4>1
      <4>3. Served(b)'
        BY <1>1, <3>2, <3>3, <4>1, <4>2 DEF Served
      <4> QED BY <3>4, <3>5, <3>12, <4>3
    <3>10. CASE b > c + 2
      <4>1. b # c + 1 /\ b # c + 2 /\ b - 1 # c + 1 /\ b > 1 /\ ~(b <= c + 1) /\ ~(b <= c)
            /\ ~(b - 1 <= c)
        BY <1>1, <3>10
      <4>2. Served(b)'
        BY <1>6, <3>1, <3>6, <4>1 DEF Served
      <4> QED BY <3>4, <3>5, <3>12, <4>2
    <3>11. b <= c \/ b = c + 1 \/ b = c + 2 \/ b > c + 2
      BY <1>1
    <3> QED BY <3>7, <3>8, <3>9, <3>10, <3>11
  <2> QED BY <1>6, <1>7, <2>1 DEF ServerAttempts
<1>11. ServerEvents'
  <2>1. \A f \in events' : f.kind = "complete" => n # c + 1 /\ f = done_at
    <3>1. \A f \in events : f.kind = "complete" => f = e
      BY <1>1 DEF ServerInv, ServerEvents
    <3> QED BY <1>6, <3>1
  <2>2. n # c + 1 => /\ c + 2 \in 1..n /\ busy' = c + 2 /\ next = c + 2
                     /\ attempts'[c + 2].started = e.when
    <3>1. n # c + 1 => c + 2 \in 1..n
      BY <1>1, <1>2
    <3>2. n # c + 1 => busy' = next
      BY <1>1, <1>5, <1>6 DEF Idle
    <3> QED BY <1>6, <3>1, <3>2
  <2>3. done_at.value = next /\ done_at.when = e.when + ServiceTime(e.when)
    BY DEF done_at, Event
  <2>4. \A f \in events' : f.kind = "complete" =>
            /\ f.value = busy'
            /\ f.when = attempts'[busy'].started + ServiceTime(attempts'[busy'].started)
    BY <2>1, <2>2, <2>3
  <2> QED BY <1>1, <2>1, <2>4 DEF ServerEvents, ServiceTime
<1> QED BY <1>8, <1>9, <1>10, <1>11 DEF ServerInv

LEMMA InitServerInv == Init => ServerInv
<1> SUFFICES ASSUME Init PROVE ServerInv
  OBVIOUS
<1>1. attempts = << >> /\ queue = << >> /\ busy = Idle /\ \A k \in Counters : totals[k] = 0
  BY DEF Init
<1>2. Len(queue) = 0 /\ DOMAIN queue = {} /\ Len(attempts) = 0 /\ DOMAIN attempts = {}
  BY <1>1
<1>3. ServerConservation
  BY <1>1, <1>2, CounterNames DEF ServerConservation, unfinished_server_work, in_service
<1>4. ServerQueue
  BY <1>1, <1>2, RetrySimAssumption DEF ServerQueue
<1>5. ServerAttempts
  BY <1>2 DEF ServerAttempts
<1>6. ServerEvents
  BY DEF Init, ServerEvents, Event
<1> QED BY <1>3, <1>4, <1>5, <1>6 DEF ServerInv

LEMMA NextServerInv == TypeInv /\ ServerInv /\ [Next]_vars => ServerInv'
<1> SUFFICES ASSUME TypeInv, ServerInv, [Next]_vars PROVE ServerInv'
  OBVIOUS
<1>1. TypeInv'
  BY NextTypeInv
<1>2. ASSUME NEW e, NEW kind, Pop(e, kind), kind # "complete", NEW r \in Requests, NEW o,
             NEW keys \in SUBSET {"arrivals"}, NEW new, \A f \in new : f.kind = "deadline",
             Launch(e, r, o, keys, new)
      PROVE  ServerInv'
  <2>1. CASE LaunchCapped(e, o, keys, new) \/ LaunchRejected(e, r, o, keys, new)
    BY <1>1, <1>2, <2>1, QuietLaunch, SameServerInv
  <2>2. CASE LaunchAdmitted(e, r, o, keys, new)
    BY <1>1, <1>2, <2>2, AdmitServer
  <2> QED BY <1>2, <2>1, <2>2 DEF Launch
<1>3. ASSUME NEW e, Arrival(e) PROVE ServerInv'
  <2> DEFINE arrived == [originals EXCEPT ![e.value] = [arrived |-> e.when, attempts |-> 0,
                                            status |-> "pending", terminal_at |-> NoTime]]
             new == {Event(e.when + OriginalDeadline, "deadline", e.value, serial)}
  <2>1. Pop(e, "arrival") /\ Launch(e, e.value, arrived, {"arrivals"}, new)
    BY <1>3 DEF Arrival
  <2>2. e.value \in Requests
    BY <2>1, PopFacts
  <2>3. \A f \in new : f.kind = "deadline"
    BY DEF Event
  <2> HIDE DEF arrived, new
  <2> QED BY <1>2, <2>1, <2>2, <2>3
<1>4. ASSUME NEW e, RetryLaunched(e) PROVE ServerInv'
  <2>1. Pop(e, "retry") /\ Launch(e, e.value, originals, {}, {})
    BY <1>4 DEF RetryLaunched
  <2>2. e.value \in Requests
    BY <2>1, PopFacts
  <2> QED BY <1>2, <2>1, <2>2
<1>5. ASSUME NEW e, Complete(e) PROVE ServerInv'
  BY <1>1, <1>5, CompleteServer
<1>6. ASSUME NEW e, TimeoutFailed(e) PROVE ServerInv'
  BY <1>1, <1>6, QuietTimeout, SameServerInv
<1>7. ASSUME NEW e, \/ DeadlinePassed(e) \/ RetryStale(e) \/ RetryDenied(e)
                    \/ TimeoutAnswered(e) \/ Sample(e)
      PROVE  ServerInv'
  BY <1>1, <1>7, QuietOthers, SameServerInv
<1>8. CASE Finish \/ UNCHANGED vars
  <2>1. totals["attempts"] \in Nat /\ totals["rejected_attempts"] \in Nat /\ now \in Int
    BY TypeFacts, CounterNames
  <2>2. SameServer
    BY <1>8, <2>1 DEF Finish, vars, SameServer
  <2> QED BY <1>1, <2>2, SameServerInv
<1> QED BY <1>3, <1>4, <1>5, <1>6, <1>7, <1>8 DEF Next, Handle

LEMMA ServerInvariance == Spec => []ServerInv
  BY InitServerInv, NextServerInv, TypeInvariance, PTL DEF Spec

\* No admitted attempt is lost: each is completed, waiting or in service, and
\* the report's counters say so; a timeout cancels nothing on the server.
THEOREM ServerConserves == Spec => []ServerConservation
<1>1. ServerInv => ServerConservation
  BY DEF ServerInv
<1> QED BY <1>1, ServerInvariance, PTL

\* The server works on one attempt at a time in order of admission, is never
\* idle while one waits, and keeps the service time fixed at the start.
THEOREM ServerInOrder == Spec => []OneServerInOrder
<1>1. ServerInv => OneServerInOrder
  BY DEF ServerInv, ServerAttempts, OneServerInOrder
<1> QED BY <1>1, ServerInvariance, PTL

\* The queue stays within its capacity and the server is busy when one waits.
THEOREM QueueBounded == Spec => []QueueBound
<1>1. ServerInv => QueueBound
  BY DEF ServerInv, ServerQueue, QueueBound
<1> QED BY <1>1, ServerInvariance, PTL

-----------------------------------------------------------------------------
(* A request arrives once: its arrival finds it absent.  Without this an      *)
(* arrival could overwrite the outcome of its request.                        *)

ArrivesOnce ==
    \A e \in events : e.kind = "arrival" =>
        /\ originals[e.value].status = "absent"
        /\ \A f \in events : f.kind = "arrival" /\ f.value = e.value => f = e

\* What handlers do to the requests: only a pending one changes, and none arrives.
OnlyPendingChange ==
    \A r \in Requests : originals'[r] = originals[r] \/ originals[r].status = "pending"

PendingStaysKnown ==
    \A r \in Requests : originals[r].status = "absent" => originals'[r] = originals[r]

\* No handler pushes an arrival.
NoNewArrival == \A f \in events' : f.kind = "arrival" => f \in events

AttemptsKept ==
    \A a \in DOMAIN attempts :
        /\ a \in DOMAIN attempts'
        /\ attempts[a].completed # NoTime => attempts'[a] = attempts[a]
        /\ attempts[a].timed_out => attempts'[a].timed_out

Settled == (\A r \in Requests : originals[r].status \in Terminal => originals'[r] = originals[r])
           /\ AttemptsKept

LEMMA TerminateChanges ==
    ASSUME NEW o \in [Requests -> OriginalType], NEW r, NEW reason, NEW t
    PROVE  /\ DOMAIN Terminate(o, r, reason, t) = Requests
           /\ \A q \in Requests : q # r => Terminate(o, r, reason, t)[q] = o[q]
           /\ \A q \in Requests : o[q].status # "pending" => Terminate(o, r, reason, t)[q] = o[q]
BY DEF Terminate, Pending

LEMMA OnlyPendingSuffices ==
    ASSUME OnlyPendingChange
    PROVE  /\ PendingStaysKnown
           /\ \A r \in Requests : originals[r].status \in Terminal => originals'[r] = originals[r]
<1>1. "pending" \notin Terminal /\ "pending" # "absent"
  BY DEF Terminal, FailureReason
<1> QED
  BY <1>1 DEF OnlyPendingChange, PendingStaysKnown

\* Handlers that change pending requests only.
LEMMA OnlyPendingKeepsArrivals ==
    ASSUME TypeInv, ArrivesOnce, OnlyPendingChange, NoNewArrival
    PROVE  ArrivesOnce'
<1> SUFFICES ASSUME NEW e \in events', e.kind = "arrival"
             PROVE  /\ originals'[e.value].status = "absent"
                    /\ \A f \in events' : f.kind = "arrival" /\ f.value = e.value => f = e
  BY DEF ArrivesOnce
<1>1. e \in events /\ e.value \in Requests
  BY DEF NoNewArrival, TypeInv, EventsOK, EventOK
<1>2. originals'[e.value] = originals[e.value]
  BY <1>1, OnlyPendingSuffices DEF PendingStaysKnown, ArrivesOnce
<1> QED
  BY <1>1, <1>2 DEF ArrivesOnce, NoNewArrival

\* A launch changes the request it is for, appends one attempt at most, and
\* pushes no arrival.
LEMMA LaunchChanges ==
    ASSUME TypeInv, NEW e, NEW r \in Requests, NEW o \in [Requests -> OriginalType],
           NEW keys, NEW new, \A f \in new : f.kind # "arrival",
           Launch(e, r, o, keys, new)
    PROVE  /\ \A q \in Requests : q # r => originals'[q] = o[q]
           /\ AttemptsKept
           /\ \A f \in events' : f.kind = "arrival" => f \in events \ {e}
<1>1. CASE LaunchCapped(e, o, keys, new)
  BY <1>1 DEF LaunchCapped, AttemptsKept, Push
<1>2. CASE LaunchRejected(e, r, o, keys, new)
  <2> DEFINE tried == [o EXCEPT ![r].attempts = @ + 1]
  <2>1. tried \in [Requests -> OriginalType]
    BY DEF OriginalType
  <2>2. \A q \in Requests : q # r => tried[q] = o[q]
    OBVIOUS
  <2>3. originals' = Terminate(tried, r, "queue_rejected", e.when)
        /\ UNCHANGED attempts /\ Push(e, new)
    BY <1>2 DEF LaunchRejected
  <2> HIDE DEF tried
  <2>4. \A q \in Requests : q # r => originals'[q] = o[q]
    BY <2>1, <2>2, <2>3, TerminateChanges
  <2> QED
    BY <2>3, <2>4 DEF AttemptsKept, Push
<1>3. CASE LaunchAdmitted(e, r, o, keys, new)
  <2>1. originals' = [o EXCEPT ![r].attempts = @ + 1]
    BY <1>3 DEF LaunchAdmitted
  <2>2. PICK x : attempts' = Append(attempts, x)
    BY <1>3 DEF LaunchAdmitted
  <2>3. AttemptsKept
    <3>1. attempts \in Seq(AttemptType \cup {x}) /\ x \in AttemptType \cup {x}
      BY TypeFacts, SeqMonotonic
    <3>2. /\ DOMAIN attempts = 1..Len(attempts) /\ Len(attempts) \in Nat
          /\ DOMAIN attempts' = 1..(Len(attempts) + 1)
          /\ \A i \in DOMAIN attempts : attempts'[i] = attempts[i]
      BY <2>2, <3>1, AppendGrows
    <3> QED
      BY <3>2 DEF AttemptsKept
  <2>4. PICK more : /\ Push(e, new \cup more)
                    /\ \A f \in more : f.kind \in {"timeout", "complete"}
    <3> DEFINE aid == Len(attempts) + 1
               timer == Event(e.when + AttemptTimeout, "timeout", aid, serial + 1)
               done_at == Event(e.when + ServiceTime(e.when), "complete", aid, serial + 2)
    <3>1. timer.kind = "timeout" /\ done_at.kind = "complete"
      BY DEF Event
    <3> HIDE DEF timer, done_at
    <3>2. PICK more \in {{timer}, {timer, done_at}} : Push(e, new \cup more)
      BY <1>3 DEF LaunchAdmitted, timer, done_at
    <3>3. \A f \in more : f.kind \in {"timeout", "complete"}
      BY <3>1, <3>2
    <3> QED
      BY <3>2, <3>3
  <2>5. \A f \in events' : f.kind = "arrival" => f \in events \ {e}
    BY <2>4 DEF Push
  <2> QED
    BY <2>1, <2>3, <2>5
<1> QED
  BY <1>1, <1>2, <1>3 DEF Launch

-----------------------------------------------------------------------------
(* The handlers.                                                             *)

\* What each handler has to show.
ClientStep == ArrivesOnce' /\ Settled

LEMMA PendingStep ==
    ASSUME TypeInv, ArrivesOnce, OnlyPendingChange, NoNewArrival, AttemptsKept
    PROVE  ClientStep
BY OnlyPendingSuffices, OnlyPendingKeepsArrivals DEF ClientStep, Settled

\* The arrival of a request is the only one of it, and finds it absent.
LEMMA ArrivalStep == ASSUME TypeInv, ArrivesOnce, NEW e, Arrival(e) PROVE ClientStep
<1> DEFINE r == e.value
           arrived == [originals EXCEPT ![r] = [arrived |-> e.when, attempts |-> 0,
                                        status |-> "pending", terminal_at |-> NoTime]]
           new == {Event(e.when + OriginalDeadline, "deadline", r, serial)}
<1>1. Pop(e, "arrival") /\ Launch(e, r, arrived, {"arrivals"}, new)
  BY DEF Arrival
<1>2. e \in events /\ e.kind = "arrival" /\ r \in Requests /\ e.when \in Nat
  BY <1>1, PopFacts
<1>3. arrived \in [Requests -> OriginalType]
  BY <1>2, TypeFacts DEF OriginalType, Time
<1>4. \A q \in Requests : q # r => arrived[q] = originals[q]
  BY TypeFacts
<1>5. \A f \in new : f.kind # "arrival"
  BY DEF Event
<1>6. originals[r].status = "absent"
  BY <1>2 DEF ArrivesOnce
<1> HIDE DEF arrived, new
<1>7. /\ \A q \in Requests : q # r => originals'[q] = originals[q]
      /\ AttemptsKept
      /\ \A f \in events' : f.kind = "arrival" => f \in events \ {e}
  BY <1>1, <1>2, <1>3, <1>4, <1>5, LaunchChanges
<1>8. ArrivesOnce'
  <2> SUFFICES ASSUME NEW f \in events', f.kind = "arrival"
               PROVE  /\ originals'[f.value].status = "absent"
                      /\ \A g \in events' : g.kind = "arrival" /\ g.value = f.value => g = f
    BY DEF ArrivesOnce
  <2>1. f \in events /\ f # e /\ f.value \in Requests
    BY <1>7 DEF TypeInv, EventsOK, EventOK
  <2>2. f.value # r
    BY <1>2, <2>1 DEF ArrivesOnce
  <2> QED
    BY <1>7, <2>1, <2>2 DEF ArrivesOnce
<1>9. "absent" \notin Terminal
  BY DEF Terminal, FailureReason
<1> QED
  BY <1>6, <1>7, <1>8, <1>9 DEF ClientStep, Settled

LEMMA RetryLaunchedStep == ASSUME TypeInv, ArrivesOnce, NEW e, RetryLaunched(e) PROVE ClientStep
<1>1. /\ Pop(e, "retry") /\ originals[e.value].status = "pending"
      /\ Launch(e, e.value, originals, {}, {})
  BY DEF RetryLaunched, Pending
<1>2. e.value \in Requests
  BY <1>1, PopFacts
<1>3. /\ \A q \in Requests : q # e.value => originals'[q] = originals[q]
      /\ AttemptsKept
      /\ \A f \in events' : f.kind = "arrival" => f \in events \ {e}
  BY <1>1, <1>2, TypeFacts, LaunchChanges
<1> QED
  BY <1>1, <1>3, PendingStep DEF OnlyPendingChange, NoNewArrival

\* The handlers that leave the attempts alone, or give a request up.
LEMMA QuietStep ==
    ASSUME TypeInv, ArrivesOnce, NEW e,
           \/ DeadlinePassed(e) \/ RetryStale(e) \/ RetryDenied(e)
           \/ TimeoutAnswered(e) \/ Sample(e)
    PROVE  ClientStep
<1>1. UNCHANGED attempts /\ Push(e, {})
  BY DEF DeadlinePassed, RetryStale, RetryDenied, TimeoutAnswered, Sample
<1>2. \/ originals' = originals
      \/ \E reason : originals' = Terminate(originals, e.value, reason, e.when)
  BY DEF DeadlinePassed, RetryStale, RetryDenied, TimeoutAnswered, Sample
<1>3. OnlyPendingChange
  BY <1>2, TypeFacts, TerminateChanges DEF OnlyPendingChange
<1>4. NoNewArrival /\ AttemptsKept
  BY <1>1 DEF NoNewArrival, AttemptsKept, Push
<1> QED
  BY <1>3, <1>4, PendingStep

\* An attempt times out only if it was not answered.
LEMMA TimeoutFailedStep == ASSUME TypeInv, ArrivesOnce, NEW e, TimeoutFailed(e) PROVE ClientStep
<1> DEFINE r == attempts[e.value].original
<1>1. /\ attempts[e.value].completed = NoTime
      /\ attempts' = [attempts EXCEPT ![e.value].timed_out = TRUE]
  BY DEF TimeoutFailed
<1>2. AttemptsKept
  <2>1. attempts \in [DOMAIN attempts -> AttemptType]
    BY TypeFacts, LenProperties, ElementOfSeq
  <2> QED
    BY <1>1, <2>1 DEF AttemptsKept, AttemptType
<1>3. \/ originals' = originals
      \/ originals' = Terminate(originals, r, "attempts_exhausted", e.when)
  BY DEF TimeoutFailed
<1>4. PICK new : Push(e, new) /\ \A f \in new : f.kind = "retry"
  <2>1. CASE Push(e, {})
    BY <2>1
  <2>2. CASE \E jitter \in 0..BackoffLimit(originals[r].attempts) :
                Push(e, {Event(e.when + jitter, "retry", r, serial)})
    BY <2>2 DEF Event
  <2> QED
    BY <2>1, <2>2 DEF TimeoutFailed
<1> HIDE DEF r
<1>5. OnlyPendingChange
  BY <1>3, TypeFacts, TerminateChanges DEF OnlyPendingChange
<1>6. NoNewArrival
  BY <1>4 DEF NoNewArrival, Push
<1> QED
  BY <1>2, <1>5, <1>6, PendingStep

\* The attempt that ends and the one that is taken next have not been completed.
LEMMA CompleteStep ==
    ASSUME TypeInv, ServerInv, ArrivesOnce, NEW e, Complete(e)
    PROVE  ClientStep
<1> DEFINE c == totals["completed_attempts"]
           a == e.value
           next == Head(queue)
           finished == [attempts EXCEPT ![a].completed = e.when]
           r == attempts[a].original
<1>1. /\ Pop(e, "complete") /\ e \in events /\ e.kind = "complete" /\ e.when \in Nat
      /\ a \in DOMAIN attempts
  <2>1. Pop(e, "complete")
    BY DEF Complete
  <2> QED
    BY <2>1, PopFacts
<1>2. a = c + 1 /\ c \in Nat
  BY <1>1, ServerFacts
<1>3. \/ attempts' = finished
      \/ queue # << >> /\ attempts' = [finished EXCEPT ![next].started = e.when]
  BY DEF Complete
<1>4. queue # << >> => next = c + 2
  <2>1. queue # << >> => Len(queue) \in Nat /\ 1 \in 1..Len(queue) /\ next = queue[1]
    BY TypeFacts, LenProperties, EmptySeq
  <2>2. 1 \in DOMAIN queue => queue[1] = c + 1 + 1
    BY DEF ServerInv, ServerQueue
  <2> QED
    BY <1>2, <2>1, <2>2, ServerFacts
<1>5. \A b \in DOMAIN attempts : attempts[b].completed # NoTime => b <= c
  BY DEF ServerInv, ServerAttempts
<1>6. /\ \/ originals' = originals
         \/ originals' = Terminate(originals, r, "success", e.when)
      /\ \E new : Push(e, new) /\ \A f \in new : f.kind # "arrival"
  <2>1. \/ originals' = originals
        \/ originals' = Terminate(originals, r, "success", e.when)
    BY DEF Complete
  <2>2. Push(e, {}) \/ Push(e, {Event(e.when + ServiceTime(e.when), "complete", next, serial)})
    BY DEF Complete
  <2>3. \A f \in {Event(e.when + ServiceTime(e.when), "complete", next, serial)} :
            f.kind # "arrival"
    BY DEF Event
  <2> QED
    BY <2>1, <2>2, <2>3
<1>7. AttemptsKept
  <2>1. attempts \in [DOMAIN attempts -> AttemptType]
    BY TypeFacts, LenProperties, ElementOfSeq
  <2>2. DOMAIN attempts \subseteq Nat
    BY ServerFacts
  <2>3. ASSUME NEW b \in DOMAIN attempts
        PROVE  /\ b \in DOMAIN attempts'
               /\ attempts'[b].timed_out = attempts[b].timed_out
               /\ attempts[b].completed # NoTime => attempts'[b] = attempts[b]
    <3>1. /\ DOMAIN finished = DOMAIN attempts
          /\ finished[b].timed_out = attempts[b].timed_out
          /\ b # a => finished[b] = attempts[b]
      BY <2>1 DEF AttemptType
    <3>2. attempts[b].completed # NoTime => b # a /\ (queue # << >> => b # next)
      BY <1>2, <1>4, <1>5, <2>2
    <3>3. finished[b] \in AttemptType
      BY <1>1, <2>1 DEF AttemptType, Time
    <3> HIDE DEF finished, next, a
    <3>4. CASE attempts' = finished
      BY <3>1, <3>2, <3>4
    <3>5. CASE queue # << >> /\ attempts' = [finished EXCEPT ![next].started = e.when]
      <4>1. DOMAIN attempts' = DOMAIN attempts /\ (b # next => attempts'[b] = finished[b])
        BY <3>1, <3>5
      <4>2. b = next => attempts'[b] = [finished[b] EXCEPT !.started = e.when]
        BY <3>1, <3>5
      <4>3. attempts'[b].timed_out = finished[b].timed_out
        BY <3>3, <4>1, <4>2 DEF AttemptType
      <4> QED
        BY <3>1, <3>2, <3>5, <4>1, <4>3
    <3> QED
      BY <1>3, <3>4, <3>5
  <2> QED
    BY <2>3 DEF AttemptsKept
<1> HIDE DEF r
<1>8. OnlyPendingChange
  BY <1>6, TypeFacts, TerminateChanges DEF OnlyPendingChange
<1>9. NoNewArrival
  BY <1>6 DEF NoNewArrival, Push
<1> QED
  BY <1>7, <1>8, <1>9, PendingStep

-----------------------------------------------------------------------------
LEMMA InitArrives == Init => ArrivesOnce
<1> SUFFICES ASSUME Init, NEW e \in events, e.kind = "arrival"
             PROVE  /\ originals[e.value].status = "absent"
                    /\ \A f \in events : f.kind = "arrival" /\ f.value = e.value => f = e
  BY DEF ArrivesOnce
<1>1. \A f \in events : f.kind = "arrival" =>
          \E r \in DOMAIN run.schedule : f = Event(run.schedule[r], "arrival", r, r)
  BY DEF Init, Event
<1>2. \A r : Event(run.schedule[r], "arrival", r, r).value = r
  BY DEF Event
<1>3. e.value \in Requests
  BY InitTypeInv DEF TypeInv, EventsOK, EventOK
<1>4. originals[e.value].status = "absent"
  BY <1>3 DEF Init
<1> QED
  BY <1>1, <1>2, <1>4

LEMMA NextClient ==
    TypeInv /\ ServerInv /\ ArrivesOnce /\ [Next]_vars => ArrivesOnce' /\ [Settled]_vars
<1> SUFFICES ASSUME TypeInv, ServerInv, ArrivesOnce, [Next]_vars PROVE ClientStep
  BY DEF ClientStep
<1>1. CASE Finish \/ UNCHANGED vars
  <2>1. UNCHANGED <<events, originals, attempts>>
    BY <1>1 DEF Finish, vars
  <2> QED
    BY <2>1 DEF ClientStep, Settled, AttemptsKept, ArrivesOnce
<1>2. ASSUME NEW e, Handle(e) PROVE ClientStep
  BY <1>2, ArrivalStep, RetryLaunchedStep, QuietStep, TimeoutFailedStep, CompleteStep DEF Handle
<1> QED
  BY <1>1, <1>2 DEF Next

\* An outcome that a client was given is never changed or given again, an
\* answered attempt is not touched again, and a timeout is not taken back: not
\* by late answers, stale timers, stale retries or the deadline.
THEOREM OutcomesStay == Spec => SettledForGood
<1>1. [Settled]_vars => [/\ \A r \in Requests : originals[r].status \in Terminal =>
                                originals'[r] = originals[r]
                         /\ \A a \in DOMAIN attempts :
                              /\ a \in DOMAIN attempts'
                              /\ attempts[a].completed # NoTime => attempts'[a] = attempts[a]
                              /\ attempts[a].timed_out => attempts'[a].timed_out]_vars
  BY DEF Settled, AttemptsKept
<1> QED
  BY <1>1, InitArrives, NextClient, TypeInvariance, ServerInvariance, PTL
  DEF Spec, SettledForGood

-----------------------------------------------------------------------------
(* The effects.                                                              *)

\* The handled event e leaves the heap, and no other does.
Handled(e) ==
    /\ ~done /\ e \in events /\ now' = e.when /\ e.when \in Nat /\ now <= e.when
    /\ UNCHANGED run
    /\ \A f \in events \ {e} : f \in events' /\ Before(e, f)
    /\ e \notin events'

SameRecord(r) == originals'[r] = originals[r]

\* The pending request r is settled for reason; nothing else about it changes.
SettledNow(r, reason, t) ==
    /\ originals[r].status = "pending"
    /\ originals'[r].status = reason /\ originals'[r].terminal_at = t
    /\ originals'[r].arrived = originals[r].arrived
    /\ originals'[r].attempts = originals[r].attempts

\* An event of one of these kinds settles its request, if anything.
Settler == {"deadline", "retry"}
SettlesFor(kind) == IF kind = "deadline" THEN "deadline_expired" ELSE "budget_denied"

\* deadline, a retry that is not launched, an answered timer and a sample.
QuietEffect(e) ==
    /\ e.kind \in {"deadline", "retry", "timeout", "sample"}
    /\ events' = events \ {e}
    /\ UNCHANGED <<attempts, stopped, done>>
    /\ \A r \in Requests : \/ SameRecord(r) /\ (e.kind \in Settler /\ e.value = r =>
                                                    originals[r].status # "pending")
                           \/ /\ e.kind \in Settler /\ e.value = r
                              /\ SettledNow(r, SettlesFor(e.kind), e.when)
    /\ e.kind = "timeout" => attempts[e.value].completed # NoTime

\* The number a new attempt gets.
NextAttempt == Len(attempts) + 1

AttemptAdded(r, t) ==
    /\ DOMAIN attempts' = DOMAIN attempts \cup {NextAttempt} /\ NextAttempt \notin DOMAIN attempts
    /\ \A a \in DOMAIN attempts : attempts'[a] = attempts[a]
    /\ attempts'[NextAttempt].original = r /\ attempts'[NextAttempt].sent = t
    /\ attempts'[NextAttempt].completed = NoTime /\ ~attempts'[NextAttempt].timed_out

\* launch for request r, whose record was o, by a handler of e that had pushed new.
LaunchEffect(e, r, o, new) ==
    /\ originals'[r].arrived = o.arrived
    /\ \/ /\ originals'[r] = o
          /\ stopped' /\ done' /\ UNCHANGED attempts
          /\ events' = (events \ {e}) \cup new
       \/ /\ originals'[r].status = "queue_rejected" /\ originals'[r].terminal_at = e.when
          /\ originals'[r].attempts = o.attempts + 1
          /\ UNCHANGED <<attempts, stopped, done>>
          /\ events' = (events \ {e}) \cup new
       \/ /\ originals'[r].status = "pending"
          /\ originals'[r].attempts = o.attempts + 1
          /\ AttemptAdded(r, e.when) /\ UNCHANGED <<stopped, done>>
          /\ (events \ {e}) \cup new \subseteq events'
          /\ \E timer \in events' :
                /\ timer.kind = "timeout" /\ timer.value = NextAttempt
                /\ timer.when = e.when + AttemptTimeout
                /\ \A f \in events' :
                      \/ f \in (events \ {e}) \cup new
                      \/ f = timer
                      \/ f.kind = "complete" /\ f.when >= e.when /\ busy = Idle

\* The request of an arrival was absent; it gets its deadline.
ArrivalEffect(e) ==
    LET r == e.value
    IN  /\ e.kind = "arrival" /\ r \in Requests /\ originals[r].status = "absent"
        /\ \A q \in Requests : q # r => SameRecord(q)
        /\ \E due :
              /\ due.kind = "deadline" /\ due.value = r /\ due.when = e.when + OriginalDeadline
              /\ \E o : /\ o.arrived = e.when /\ o.status = "pending" /\ o.attempts = 0
                        /\ LaunchEffect(e, r, o, {due})

RetryEffect(e) ==
    LET r == e.value
    IN  /\ e.kind = "retry" /\ r \in Requests /\ originals[r].status = "pending"
        /\ \A q \in Requests : q # r => SameRecord(q)
        /\ LaunchEffect(e, r, originals[r], {})

\* A timer finds its attempt unanswered.
FailEffect(e) ==
    LET a == e.value
        r == attempts[a].original
    IN  /\ e.kind = "timeout" /\ a \in DOMAIN attempts /\ r \in Requests
        /\ attempts[a].completed = NoTime
        /\ attempts' = [attempts EXCEPT ![a].timed_out = TRUE]
        /\ UNCHANGED <<stopped, done>>
        /\ \A q \in Requests : q # r => SameRecord(q)
        /\ \/ /\ events' = events \ {e}
              /\ \/ SameRecord(r) /\ originals[r].status # "pending"
                 \/ SettledNow(r, "attempts_exhausted", e.when)
           \/ /\ SameRecord(r) /\ originals[r].status = "pending"
              /\ run.policy # "none" /\ originals[r].attempts < MaxAttempts
              /\ \E f : /\ f.kind = "retry" /\ f.value = r
                        /\ f.when - e.when \in 0..BackoffLimit(originals[r].attempts)
                        /\ events' = (events \ {e}) \cup {f}

\* The server ends attempt a: completed is set, and nothing that a client sees
\* of the other attempts.
AttemptEnded(a, t) ==
    /\ DOMAIN attempts' = DOMAIN attempts
    /\ \A b \in DOMAIN attempts :
          /\ attempts'[b].original = attempts[b].original /\ attempts'[b].sent = attempts[b].sent
          /\ attempts'[b].timed_out = attempts[b].timed_out
          /\ attempts'[b].completed = IF b = a THEN t ELSE attempts[b].completed

CompleteEffect(e) ==
    LET a == e.value
        r == attempts[a].original
    IN  /\ e.kind = "complete" /\ a \in DOMAIN attempts /\ r \in Requests
        /\ attempts[a].completed = NoTime
        /\ AttemptEnded(a, e.when) /\ UNCHANGED <<stopped, done>>
        /\ \A q \in Requests : q # r => SameRecord(q)
        /\ \/ ~attempts[a].timed_out /\ SettledNow(r, "success", e.when)
           \/ SameRecord(r) /\ (attempts[a].timed_out \/ originals[r].status # "pending")
        /\ \A f \in events' : f \in events \ {e} \/ (f.kind = "complete" /\ f.when >= e.when)

Effect(e) ==
    /\ Handled(e)
    /\ \/ QuietEffect(e) \/ ArrivalEffect(e) \/ RetryEffect(e)
       \/ FailEffect(e) \/ CompleteEffect(e)
-----------------------------------------------------------------------------
(* Every handler has its effect.                                             *)

LEMMA HandledFacts ==
    ASSUME TypeInv, NEW e, NEW kind, Pop(e, kind), NEW new, Push(e, new), e \notin new
    PROVE  Handled(e)
BY PopFacts DEF Handled, Pop, IsNext, Push

LEMMA QuietHandlers ==
    ASSUME TypeInv, NEW e,
           \/ DeadlinePassed(e) \/ RetryStale(e) \/ RetryDenied(e)
           \/ TimeoutAnswered(e) \/ Sample(e)
    PROVE  Handled(e) /\ QuietEffect(e)
<1>1. Push(e, {}) /\ UNCHANGED <<attempts, stopped, done>>
  BY DEF DeadlinePassed, RetryStale, RetryDenied, TimeoutAnswered, Sample
<1>2. PICK kind \in {"deadline", "retry", "timeout", "sample"} : Pop(e, kind)
  BY DEF DeadlinePassed, RetryStale, RetryDenied, TimeoutAnswered, Sample
<1>3. Handled(e) /\ e.kind = kind /\ events' = events \ {e}
  BY <1>1, <1>2, HandledFacts, PopFacts DEF Push
<1>4. originals \in [Requests -> OriginalType]
  BY TypeFacts
<1>5. CASE DeadlinePassed(e)
  <2>1. e.kind = "deadline" /\ originals' = Terminate(originals, e.value, "deadline_expired", e.when)
    BY <1>5, PopFacts DEF DeadlinePassed
  <2> QED
    BY <1>1, <1>3, <1>4, <2>1
    DEF QuietEffect, Terminate, Pending, SameRecord, SettledNow, Settler, SettlesFor, OriginalType
<1>6. CASE RetryStale(e)
  BY <1>1, <1>3, <1>6, PopFacts DEF RetryStale, QuietEffect, Pending, SameRecord
<1>7. CASE RetryDenied(e)
  <2>1. e.kind = "retry" /\ originals' = Terminate(originals, e.value, "budget_denied", e.when)
    BY <1>7, PopFacts DEF RetryDenied
  <2> QED
    BY <1>1, <1>3, <1>4, <2>1
    DEF QuietEffect, Terminate, Pending, SameRecord, SettledNow, Settler, SettlesFor, OriginalType
<1>8. CASE TimeoutAnswered(e)
  BY <1>1, <1>3, <1>8, PopFacts DEF TimeoutAnswered, QuietEffect, SameRecord, Settler
<1>9. CASE Sample(e)
  BY <1>1, <1>3, <1>9, PopFacts DEF Sample, QuietEffect, SameRecord, Settler
<1> QED
  BY <1>5, <1>6, <1>7, <1>8, <1>9

LEMMA LaunchHas ==
    ASSUME TypeInv, ServerInv, NEW e, e.when \in Nat, NEW r \in Requests,
           NEW o \in [Requests -> OriginalType], o[r].status = "pending",
           NEW keys, NEW new, Launch(e, r, o, keys, new)
    PROVE  LaunchEffect(e, r, o[r], new)
<1>1. CASE LaunchCapped(e, o, keys, new)
  BY <1>1 DEF LaunchCapped, LaunchEffect, Push
<1>2. CASE LaunchRejected(e, r, o, keys, new)
  <2> DEFINE tried == [o EXCEPT ![r].attempts = @ + 1]
  <2>1. /\ originals' = Terminate(tried, r, "queue_rejected", e.when)
        /\ UNCHANGED <<attempts, stopped, done>> /\ events' = (events \ {e}) \cup new
    BY <1>2 DEF LaunchRejected, Push
  <2>2. /\ tried \in [Requests -> OriginalType] /\ tried[r].status = "pending"
        /\ tried[r].attempts = o[r].attempts + 1 /\ tried[r].arrived = o[r].arrived
    BY DEF OriginalType
  <2> HIDE DEF tried
  <2> QED
    BY <2>1, <2>2 DEF LaunchEffect, Terminate, Pending, OriginalType
<1>3. CASE LaunchAdmitted(e, r, o, keys, new)
  <2> DEFINE timer == Event(e.when + AttemptTimeout, "timeout", NextAttempt, serial + 1)
             answer == Event(e.when + ServiceTime(e.when), "complete", NextAttempt, serial + 2)
             sent(started) == [original |-> r, sent |-> e.when, started |-> started,
                               completed |-> NoTime, timed_out |-> FALSE]
  <2>1. originals' = [o EXCEPT ![r].attempts = @ + 1] /\ UNCHANGED <<stopped, done>>
    BY <1>3 DEF LaunchAdmitted
  <2>2. PICK started \in {e.when, NoTime} : attempts' = Append(attempts, sent(started))
    BY <1>3 DEF LaunchAdmitted
  <2>3. sent(started) \in AttemptType
    BY <2>2 DEF AttemptType, Time, NoTime
  <2>4. AttemptAdded(r, e.when)
    <3>1. attempts \in Seq(AttemptType)
      BY TypeFacts
    <3> DEFINE new_attempt == sent(started)
    <3>2. new_attempt.original = r /\ new_attempt.sent = e.when
          /\ new_attempt.completed = NoTime /\ new_attempt.timed_out = FALSE
      OBVIOUS
    <3> HIDE DEF new_attempt
    <3>3. new_attempt \in AttemptType /\ attempts' = Append(attempts, new_attempt)
      BY <2>2, <2>3 DEF new_attempt
    <3>4. /\ Len(attempts) \in Nat /\ DOMAIN attempts = 1..Len(attempts)
          /\ DOMAIN attempts' = 1..(Len(attempts) + 1)
          /\ \A i \in DOMAIN attempts : attempts'[i] = attempts[i]
          /\ attempts'[Len(attempts) + 1] = new_attempt
      BY <3>1, <3>3, AppendGrows
    <3> QED
      BY <3>2, <3>4 DEF AttemptAdded, NextAttempt
  <2>5. /\ timer.kind = "timeout" /\ timer.value = NextAttempt
        /\ timer.when = e.when + AttemptTimeout
        /\ answer.kind = "complete" /\ answer.when = e.when + ServiceTime(e.when)
    BY DEF Event
  <2>6. answer.when >= e.when
    BY <2>5, ServiceTimeNat
  <2>7. \/ busy = Idle /\ Push(e, new \cup {timer, answer})
        \/ Push(e, new \cup {timer})
    BY <1>3 DEF LaunchAdmitted, NextAttempt
  <2> HIDE DEF timer, answer
  <2>8. /\ (events \ {e}) \cup new \subseteq events'
        /\ timer \in events'
        /\ \A f \in events' :
              \/ f \in (events \ {e}) \cup new
              \/ f = timer
              \/ f.kind = "complete" /\ f.when >= e.when /\ busy = Idle
    BY <2>5, <2>6, <2>7 DEF Push
  <2>9. /\ originals'[r].status = "pending" /\ originals'[r].arrived = o[r].arrived
        /\ originals'[r].attempts = o[r].attempts + 1
    BY <2>1 DEF OriginalType
  <2> QED
    BY <2>1, <2>4, <2>5, <2>8, <2>9 DEF LaunchEffect
<1> QED
  BY <1>1, <1>2, <1>3 DEF Launch

LEMMA LaunchHandled ==
    ASSUME TypeInv, NEW e, NEW kind \in {"arrival", "retry"}, Pop(e, kind), NEW r, NEW o,
           NEW new, \A f \in new : f.kind = "deadline", LaunchEffect(e, r, o, new)
    PROVE  Handled(e)
<1>1. /\ ~done /\ e \in events /\ now' = e.when /\ e.when \in Nat /\ now <= e.when /\ e.kind = kind
      /\ UNCHANGED run
      /\ \A f \in events \ {e} : Before(e, f)
  BY PopFacts DEF Pop, IsNext
<1>2. /\ (events \ {e}) \subseteq events'
      /\ \A f \in events' : f \in events \ {e} \/ f.kind \in {"deadline", "timeout", "complete"}
  BY DEF LaunchEffect
<1> QED
  BY <1>1, <1>2 DEF Handled

LEMMA ArrivalHandler ==
    ASSUME TypeInv, ServerInv, ArrivesOnce, NEW e, Arrival(e)
    PROVE  Handled(e) /\ ArrivalEffect(e)
<1> DEFINE r == e.value
           arrived == [originals EXCEPT ![r] = [arrived |-> e.when, attempts |-> 0,
                                        status |-> "pending", terminal_at |-> NoTime]]
           due == Event(e.when + OriginalDeadline, "deadline", r, serial)
<1>1. Pop(e, "arrival") /\ Launch(e, r, arrived, {"arrivals"}, {due})
  BY DEF Arrival
<1>2. e \in events /\ e.kind = "arrival" /\ r \in Requests /\ e.when \in Nat
  BY <1>1, PopFacts
<1>3. /\ arrived \in [Requests -> OriginalType]
      /\ \A q \in Requests : q # r => arrived[q] = originals[q]
      /\ arrived[r].arrived = e.when /\ arrived[r].status = "pending" /\ arrived[r].attempts = 0
  BY <1>2, TypeFacts DEF OriginalType, Time
<1>4. due.kind = "deadline" /\ due.value = r /\ due.when = e.when + OriginalDeadline
  BY DEF Event
<1>5. originals[r].status = "absent"
  BY <1>2 DEF ArrivesOnce
<1> HIDE DEF arrived, due
<1>6. LaunchEffect(e, r, arrived[r], {due})
  BY <1>1, <1>2, <1>3, LaunchHas
<1>7. \A q \in Requests : q # r => SameRecord(q)
  BY <1>1, <1>2, <1>3, <1>4, LaunchChanges DEF SameRecord
<1>8. Handled(e)
  BY <1>1, <1>4, <1>6, LaunchHandled
<1> QED
  BY <1>2, <1>3, <1>4, <1>5, <1>6, <1>7, <1>8 DEF ArrivalEffect

LEMMA RetryHandler ==
    ASSUME TypeInv, ServerInv, NEW e, RetryLaunched(e)
    PROVE  Handled(e) /\ RetryEffect(e)
<1>1. /\ Pop(e, "retry") /\ originals[e.value].status = "pending"
      /\ Launch(e, e.value, originals, {}, {})
  BY DEF RetryLaunched, Pending
<1>2. e.value \in Requests /\ e.kind = "retry" /\ e.when \in Nat
  BY <1>1, PopFacts
<1>3. LaunchEffect(e, e.value, originals[e.value], {})
  BY <1>1, <1>2, TypeFacts, LaunchHas
<1>4. \A q \in Requests : q # e.value => SameRecord(q)
  <2>1. originals \in [Requests -> OriginalType] /\ \A f \in {} : f.kind # "arrival"
    BY TypeFacts
  <2>2. \A q \in Requests : q # e.value => originals'[q] = originals[q]
    BY <1>1, <1>2, <2>1, LaunchChanges
  <2> QED
    BY <2>2 DEF SameRecord
<1>5. Handled(e)
  BY <1>1, <1>3, LaunchHandled
<1> QED
  BY <1>1, <1>2, <1>3, <1>4, <1>5 DEF RetryEffect

LEMMA AttemptFacts ==
    ASSUME TypeInv
    PROVE  /\ attempts \in [DOMAIN attempts -> AttemptType] /\ DOMAIN attempts = 1..Len(attempts)
           /\ Len(attempts) \in Nat
           /\ \A a \in DOMAIN attempts :
                /\ attempts[a].original \in Requests /\ attempts[a].sent \in Nat
                /\ attempts[a].timed_out \in BOOLEAN
                /\ attempts[a].completed \in Nat \cup {NoTime}
                /\ attempts[a].started \in Nat \cup {NoTime}
<1>1. attempts \in [DOMAIN attempts -> AttemptType] /\ DOMAIN attempts = 1..Len(attempts)
      /\ Len(attempts) \in Nat
  BY TypeFacts, LenProperties, ElementOfSeq
<1> QED
  BY <1>1 DEF AttemptType, Time

LEMMA FailHandler ==
    ASSUME TypeInv, NEW e, TimeoutFailed(e)
    PROVE  Handled(e) /\ FailEffect(e)
<1> DEFINE a == e.value
           r == attempts[a].original
<1>1. /\ Pop(e, "timeout") /\ attempts[a].completed = NoTime
      /\ attempts' = [attempts EXCEPT ![a].timed_out = TRUE]
      /\ UNCHANGED <<stopped, done>>
  BY DEF TimeoutFailed
<1>2. e.kind = "timeout" /\ a \in DOMAIN attempts /\ r \in Requests /\ serial \in Nat /\ e.when \in Nat
  BY <1>1, PopFacts, AttemptFacts, TypeFacts
<1>3. originals \in [Requests -> OriginalType]
  BY TypeFacts
<1>4. CASE /\ ~Pending(originals, r) \/ (run.policy = "none" \/ originals[r].attempts >= MaxAttempts)
           /\ originals' = Terminate(originals, r, "attempts_exhausted", e.when)
           /\ Push(e, {})
  <2>1. Handled(e) /\ events' = events \ {e}
    BY <1>1, <1>4, HandledFacts DEF Push
  <2>2. \A q \in Requests : q # r => SameRecord(q)
    BY <1>3, <1>4, TerminateChanges DEF SameRecord
  <2>3. \/ SameRecord(r) /\ originals[r].status # "pending"
        \/ SettledNow(r, "attempts_exhausted", e.when)
    BY <1>2, <1>3, <1>4 DEF Terminate, Pending, SameRecord, SettledNow, OriginalType
  <2> QED
    BY <1>1, <1>2, <2>1, <2>2, <2>3 DEF FailEffect
<1>5. CASE /\ Pending(originals, r) /\ ~(run.policy = "none" \/ originals[r].attempts >= MaxAttempts)
           /\ \E jitter \in 0..BackoffLimit(originals[r].attempts) :
                    Push(e, {Event(e.when + jitter, "retry", r, serial)})
           /\ UNCHANGED originals
  <2>1. PICK jitter \in 0..BackoffLimit(originals[r].attempts) :
                    Push(e, {Event(e.when + jitter, "retry", r, serial)})
    BY <1>5
  <2> DEFINE f == Event(e.when + jitter, "retry", r, serial)
  <2>2. f.kind = "retry" /\ f.value = r /\ f.when = e.when + jitter
    BY DEF Event
  <2> HIDE DEF f
  <2>3. Push(e, {f}) /\ e # f
    BY <1>2, <2>1, <2>2 DEF f
  <2>4. Handled(e) /\ events' = (events \ {e}) \cup {f}
    BY <1>1, <2>3, HandledFacts DEF Push
  <2>5. f.when - e.when \in 0..BackoffLimit(originals[r].attempts)
    <3>1. jitter \in Int /\ f.when - e.when = jitter
      BY <1>2, <2>2
    <3> QED
      BY <2>1, <3>1
  <2>6. run.policy # "none" /\ originals[r].attempts < MaxAttempts
    BY <1>2, <1>3, <1>5, RetrySimAssumption DEF OriginalType
  <2>7. /\ \A q \in Requests : q # r => SameRecord(q)
        /\ SameRecord(r) /\ originals[r].status = "pending"
    BY <1>5 DEF SameRecord, Pending
  <2> QED
    BY <1>1, <1>2, <2>2, <2>4, <2>5, <2>6, <2>7 DEF FailEffect
<1> QED
  BY <1>4, <1>5 DEF TimeoutFailed

LEMMA CompleteHandler ==
    ASSUME TypeInv, ServerInv, NEW e, Complete(e)
    PROVE  Handled(e) /\ CompleteEffect(e)
<1> DEFINE c == totals["completed_attempts"]
           a == e.value
           r == attempts[a].original
           next == Head(queue)
           finished == [attempts EXCEPT ![a].completed = e.when]
           answer == Event(e.when + ServiceTime(e.when), "complete", next, serial)
<1>1. Pop(e, "complete") /\ UNCHANGED <<stopped, done>>
  BY DEF Complete
<1>2. /\ e \in events /\ e.kind = "complete" /\ e.when \in Nat /\ a \in DOMAIN attempts
      /\ r \in Requests
  BY <1>1, PopFacts, AttemptFacts
<1>3. a = c + 1 /\ c \in Nat /\ attempts[a].completed = NoTime
  <2>1. a = c + 1 /\ c \in Nat
    BY <1>2, ServerFacts
  <2> QED
    BY <1>2, <2>1 DEF ServerInv, ServerAttempts
<1>4. queue # << >> => next = c + 2
  <2>1. queue # << >> => Len(queue) \in Nat /\ 1 \in 1..Len(queue) /\ next = queue[1]
    BY TypeFacts, LenProperties, EmptySeq
  <2>2. 1 \in DOMAIN queue => queue[1] = c + 1 + 1
    BY DEF ServerInv, ServerQueue
  <2> QED
    BY <1>3, <2>1, <2>2, ServerFacts
<1>5. answer.kind = "complete" /\ answer.value = next /\ answer.when >= e.when
  BY <1>2, ServiceTimeNat DEF Event
<1>6. \/ attempts' = finished /\ Push(e, {})
      \/ /\ queue # << >> /\ attempts' = [finished EXCEPT ![next].started = e.when]
         /\ Push(e, {answer})
  BY DEF Complete
<1>7. AttemptEnded(a, e.when)
  <2>1. attempts \in [DOMAIN attempts -> AttemptType]
    BY AttemptFacts
  <2>2. /\ finished \in [DOMAIN attempts -> AttemptType]
        /\ \A b \in DOMAIN attempts :
              /\ finished[b].original = attempts[b].original
              /\ finished[b].sent = attempts[b].sent
              /\ finished[b].timed_out = attempts[b].timed_out
              /\ finished[b].completed = IF b = a THEN e.when ELSE attempts[b].completed
    BY <1>2, <2>1 DEF AttemptType, Time
  <2> HIDE DEF finished, next
  <2>3. /\ DOMAIN attempts' = DOMAIN attempts
        /\ \A b \in DOMAIN attempts :
              /\ attempts'[b].original = finished[b].original
              /\ attempts'[b].sent = finished[b].sent
              /\ attempts'[b].timed_out = finished[b].timed_out
              /\ attempts'[b].completed = finished[b].completed
    BY <1>6, <2>2 DEF AttemptType
  <2> QED
    BY <2>2, <2>3 DEF AttemptEnded
<1> HIDE DEF answer, finished, next
<1>8. Handled(e)
  <2>1. queue # << >> => e # answer
    BY <1>3, <1>4, <1>5
  <2> QED
    BY <1>1, <1>6, <2>1, HandledFacts
<1>9. \A f \in events' : f \in events \ {e} \/ (f.kind = "complete" /\ f.when >= e.when)
  BY <1>5, <1>6 DEF Push
<1>10. \/ /\ ~attempts[a].timed_out /\ Pending(originals, r)
          /\ originals' = Terminate(originals, r, "success", e.when)
       \/ (attempts[a].timed_out \/ ~Pending(originals, r)) /\ UNCHANGED originals
  BY DEF Complete
<1> HIDE DEF r
<1>11. /\ \A q \in Requests : q # r => SameRecord(q)
       /\ \/ ~attempts[a].timed_out /\ SettledNow(r, "success", e.when)
          \/ SameRecord(r) /\ (attempts[a].timed_out \/ originals[r].status # "pending")
  <2>1. originals \in [Requests -> OriginalType]
    BY TypeFacts
  <2>2. CASE /\ ~attempts[a].timed_out /\ Pending(originals, r)
             /\ originals' = Terminate(originals, r, "success", e.when)
    BY <1>2, <2>1, <2>2 DEF Terminate, Pending, SameRecord, SettledNow, OriginalType
  <2>3. CASE (attempts[a].timed_out \/ ~Pending(originals, r)) /\ UNCHANGED originals
    BY <2>3 DEF SameRecord, Pending
  <2> QED
    BY <1>10, <2>2, <2>3
<1> QED
  BY <1>1, <1>2, <1>3, <1>7, <1>8, <1>9, <1>11 DEF CompleteEffect, r

LEMMA Effects == ASSUME TypeInv, ServerInv, ArrivesOnce, NEW e, Handle(e) PROVE Effect(e)
BY QuietHandlers, ArrivalHandler, RetryHandler, FailHandler, CompleteHandler DEF Handle, Effect

\* Outside the loop nothing that matters to a request changes.
Rest == UNCHANGED <<run, events, originals, attempts, stopped, now>> /\ (done => done')

LEMMA Steps ==
    ASSUME TypeInv, ServerInv, ArrivesOnce, [Next]_vars
    PROVE  Rest \/ \E e \in events : Effect(e)
<1>1. CASE Finish \/ UNCHANGED vars
  BY <1>1 DEF Finish, vars, Rest
<1>2. ASSUME NEW e \in events, Handle(e) PROVE Effect(e)
  BY <1>2, Effects
<1> QED
  BY <1>1, <1>2 DEF Next

-----------------------------------------------------------------------------
(* Deadlines.  A pending request has its deadline in the heap, so that the    *)
(* clock, which never passes an event, never passes the deadline either.      *)

Expires(e, r) == e.kind = "deadline" /\ e.value = r

\* What is known of a request by then refers to one that arrived.
Known ==
    /\ \A a \in DOMAIN attempts : originals[attempts[a].original].status # "absent"
    /\ \A e \in events : e.kind \in {"deadline", "retry"} => originals[e.value].status # "absent"
    /\ \A r \in Requests : originals[r].status # "absent" => originals[r].arrived \in 0..now

DeadlinesSet ==
    /\ \A e \in events : e.kind = "deadline" =>
            e.when = originals[e.value].arrived + OriginalDeadline
    /\ \A r \in Requests : originals[r].status = "pending" => \E e \in events : Expires(e, r)

SettledInTime(r) ==
    LET o == originals[r]
        deadline == o.arrived + OriginalDeadline
    IN  /\ o.status = "deadline_expired" => o.terminal_at = deadline
        /\ o.status \in Terminal \ {"deadline_expired"} => o.terminal_at \in o.arrived..deadline

DeadlineInv == Known /\ DeadlinesSet /\ \A r \in Requests : SettledInTime(r)

\* What can become of one request in one step.
RequestChange(e, r) ==
    \/ SameRecord(r)
    \/ /\ originals[r].status = "pending" /\ originals'[r].arrived = originals[r].arrived
       /\ \/ originals'[r].status = "pending"
          \/ /\ originals'[r].status \in Terminal /\ originals'[r].terminal_at = e.when
             /\ originals'[r].status = "deadline_expired" <=> e.kind = "deadline"
             /\ e.kind = "deadline" => e.value = r
    \/ /\ originals[r].status = "absent" /\ originals'[r].arrived = e.when
       /\ e.kind = "arrival" /\ e.value = r
       /\ \/ originals'[r].status = "pending"
          \/ originals'[r].status = "queue_rejected" /\ originals'[r].terminal_at = e.when

LEMMA RequestChanges ==
    ASSUME TypeInv, NEW e, Effect(e), NEW r \in Requests
    PROVE  RequestChange(e, r)
<1> USE DEF RequestChange
<1>0. {"queue_rejected", "deadline_expired", "attempts_exhausted", "budget_denied", "success"}
        \subseteq Terminal
  BY DEF Terminal, FailureReason
<1>1. CASE QuietEffect(e)
  BY <1>0, <1>1 DEF QuietEffect, SettledNow, SettlesFor, Settler
<1>2. CASE ArrivalEffect(e)
  BY <1>2 DEF ArrivalEffect, LaunchEffect
<1>3. CASE RetryEffect(e)
  BY <1>0, <1>3 DEF RetryEffect, LaunchEffect
<1>4. CASE FailEffect(e)
  BY <1>0, <1>4 DEF FailEffect, SettledNow
<1>5. CASE CompleteEffect(e)
  BY <1>0, <1>5 DEF CompleteEffect, SettledNow
<1> QED
  BY <1>1, <1>2, <1>3, <1>4, <1>5 DEF Effect

LEMMA DeadlineEvents ==
    ASSUME TypeInv, NEW e, Effect(e)
    PROVE  /\ \A f \in events' : f.kind = "deadline" =>
                \/ f \in events \ {e}
                \/ e.kind = "arrival" /\ f.value = e.value /\ f.when = e.when + OriginalDeadline
           /\ e.kind = "arrival" => \E f \in events' : Expires(f, e.value)
           /\ \A f \in events \ {e} : f \in events'
           /\ e.kind = "deadline" /\ e.value \in Requests => originals'[e.value].status # "pending"
<1>0. \A f \in events \ {e} : f \in events'
  BY DEF Effect, Handled
<1>1. CASE QuietEffect(e)
  BY <1>0, <1>1 DEF QuietEffect, SettledNow, SettlesFor, Settler, SameRecord
<1>2. CASE ArrivalEffect(e)
  BY <1>0, <1>2 DEF ArrivalEffect, LaunchEffect, Expires
<1>3. CASE RetryEffect(e)
  BY <1>0, <1>3 DEF RetryEffect, LaunchEffect
<1>4. CASE FailEffect(e)
  BY <1>0, <1>4 DEF FailEffect
<1>5. CASE CompleteEffect(e)
  BY <1>0, <1>5 DEF CompleteEffect
<1> QED
  BY <1>1, <1>2, <1>3, <1>4, <1>5 DEF Effect

\* An attempt keeps its request and the time it was sent; a new one is sent now.
LEMMA AttemptsStep ==
    ASSUME TypeInv, NEW e, Effect(e)
    PROVE  /\ DOMAIN attempts \subseteq DOMAIN attempts'
           /\ \A a \in DOMAIN attempts :
                /\ attempts'[a].original = attempts[a].original
                /\ attempts'[a].sent = attempts[a].sent
           /\ \A a \in DOMAIN attempts' \ DOMAIN attempts :
                /\ attempts'[a].original = e.value /\ attempts'[a].sent = e.when
                /\ e.kind \in {"arrival", "retry"} /\ e.value \in Requests
<1>1. CASE QuietEffect(e)
  BY <1>1 DEF QuietEffect
<1>2. CASE ArrivalEffect(e)
  <2>1. UNCHANGED attempts \/ AttemptAdded(e.value, e.when)
    BY <1>2 DEF ArrivalEffect, LaunchEffect
  <2>2. e.value \in Requests /\ e.kind = "arrival"
    BY <1>2 DEF ArrivalEffect
  <2> QED
    BY <2>1, <2>2 DEF AttemptAdded
<1>3. CASE RetryEffect(e)
  BY <1>3 DEF RetryEffect, LaunchEffect, AttemptAdded
<1>4. CASE FailEffect(e)
  <2>1. attempts' = [attempts EXCEPT ![e.value].timed_out = TRUE]
    BY <1>4 DEF FailEffect
  <2>2. attempts \in [DOMAIN attempts -> AttemptType]
    BY AttemptFacts
  <2> QED
    BY <2>1, <2>2 DEF AttemptType
<1>5. CASE CompleteEffect(e)
  BY <1>5 DEF CompleteEffect, AttemptEnded
<1> QED
  BY <1>1, <1>2, <1>3, <1>4, <1>5 DEF Effect

LEMMA RetryEventsStep ==
    ASSUME TypeInv, NEW e, Effect(e)
    PROVE  \A f \in events' : f.kind = "retry" =>
                \/ f \in events \ {e}
                \/ /\ e.kind = "timeout" /\ e.value \in DOMAIN attempts
                   /\ f.value = attempts[e.value].original
<1>1. CASE QuietEffect(e)
  BY <1>1 DEF QuietEffect
<1>2. CASE ArrivalEffect(e)
  BY <1>2 DEF ArrivalEffect, LaunchEffect
<1>3. CASE RetryEffect(e)
  BY <1>3 DEF RetryEffect, LaunchEffect
<1>4. CASE FailEffect(e)
  BY <1>4 DEF FailEffect
<1>5. CASE CompleteEffect(e)
  BY <1>5 DEF CompleteEffect
<1> QED
  BY <1>1, <1>2, <1>3, <1>4, <1>5 DEF Effect

\* A request that arrived stays known, with the time it arrived at.
LEMMA ArrivedStays ==
    ASSUME TypeInv, NEW e, Effect(e), NEW r \in Requests, originals[r].status # "absent"
    PROVE  originals'[r].status # "absent" /\ originals'[r].arrived = originals[r].arrived
<1>1. "absent" \notin Terminal
  BY DEF Terminal, FailureReason
<1> QED
  BY <1>1, RequestChanges DEF RequestChange, SameRecord

LEMMA KnownStep == ASSUME TypeInv, TypeInv', Known, NEW e, Effect(e) PROVE Known'
<1>1. \A a \in DOMAIN attempts : attempts[a].original \in Requests
  BY AttemptFacts
<1>2. \A f \in events : f.kind \in {"arrival", "deadline", "retry"} => f.value \in Requests
  BY DEF TypeInv, EventsOK, EventOK
<1>3. /\ e \in events /\ e.when \in Nat /\ now' = e.when /\ now <= e.when /\ now \in Nat
  BY TypeFacts DEF Effect, Handled
<1>4. e.kind = "arrival" => originals'[e.value].status # "absent"
  BY DEF Effect, QuietEffect, ArrivalEffect, LaunchEffect, RetryEffect, FailEffect, CompleteEffect
<1>5. e.kind = "retry" => originals'[e.value].status # "absent"
  BY <1>2, <1>3, ArrivedStays DEF Known
<1>6. ASSUME NEW a \in DOMAIN attempts' PROVE originals'[attempts'[a].original].status # "absent"
  <2>1. CASE a \in DOMAIN attempts
    BY <1>1, <2>1, AttemptsStep, ArrivedStays DEF Known
  <2>2. CASE a \notin DOMAIN attempts
    BY <1>4, <1>5, <2>2, AttemptsStep
  <2> QED
    BY <2>1, <2>2
<1>7. ASSUME NEW f \in events', f.kind \in {"deadline", "retry"}
      PROVE  originals'[f.value].status # "absent"
  <2>1. CASE f \in events
    BY <1>2, <1>7, <2>1, ArrivedStays DEF Known
  <2>2. CASE f \notin events /\ f.kind = "deadline"
    BY <1>4, <2>2, DeadlineEvents
  <2>3. CASE f \notin events /\ f.kind = "retry"
    <3>1. e.value \in DOMAIN attempts /\ f.value = attempts[e.value].original
      BY <2>3, RetryEventsStep
    <3> QED
      BY <1>1, <3>1, ArrivedStays DEF Known
  <2> QED
    BY <1>7, <2>1, <2>2, <2>3
<1>8. ASSUME NEW r \in Requests, originals'[r].status # "absent"
      PROVE  originals'[r].arrived \in 0..now'
  <2>1. CASE originals[r].status # "absent"
    BY <1>3, <2>1, ArrivedStays DEF Known
  <2>2. CASE originals[r].status = "absent"
    BY <1>3, <1>8, <2>2, RequestChanges DEF RequestChange, SameRecord
  <2> QED
    BY <2>1, <2>2
<1> QED
  BY <1>6, <1>7, <1>8 DEF Known

LEMMA DeadlinesStep ==
    ASSUME TypeInv, TypeInv', DeadlineInv, NEW e, Effect(e)
    PROVE  DeadlineInv'
<1> USE RetrySimAssumption
<1>1. Known'
  BY KnownStep DEF DeadlineInv
<1>2. /\ e \in events /\ e.when \in Nat /\ now' = e.when /\ now <= e.when /\ now \in Nat
      /\ \A f \in events \ {e} : e.when <= f.when
  <2>1. \A f \in events : f.when \in Nat /\ PRIORITY[f.kind] \in Nat
    <3>1. \A f \in events : f.when \in Nat /\ f.kind \in DOMAIN PRIORITY
      BY TypeFacts DEF EventType, Time
    <3>2. \A kind \in DOMAIN PRIORITY : PRIORITY[kind] \in Nat
      BY DEF PRIORITY
    <3> QED
      BY <3>1, <3>2
  <2>2. \A f \in events \ {e} : Before(e, f)
    BY DEF Effect, Handled
  <2>3. e \in events /\ e.when \in Nat /\ now' = e.when /\ now <= e.when
    BY DEF Effect, Handled
  <2>4. \A f \in events \ {e} : e.when <= f.when
    BY <2>1, <2>2, <2>3 DEF Before
  <2> QED
    BY <2>3, <2>4, TypeFacts
<1>3. \A f \in events : f.kind = "deadline" => f.value \in Requests
  BY DEF TypeInv, EventsOK, EventOK
<1>4. ASSUME NEW f \in events', f.kind = "deadline"
      PROVE  f.when = originals'[f.value].arrived + OriginalDeadline
  <2>1. CASE f \in events
    BY <1>3, <1>4, <2>1, ArrivedStays DEF DeadlineInv, DeadlinesSet, Known
  <2>2. CASE f \notin events
    <3>1. e.kind = "arrival" /\ f.value = e.value /\ f.when = e.when + OriginalDeadline
      BY <1>4, <2>2, DeadlineEvents
    <3>2. originals'[e.value].arrived = e.when
      BY <3>1 DEF Effect, QuietEffect, ArrivalEffect, LaunchEffect, RetryEffect, FailEffect,
                  CompleteEffect
    <3> QED
      BY <3>1, <3>2
  <2> QED
    BY <2>1, <2>2
<1>5. ASSUME NEW r \in Requests, originals'[r].status = "pending"
      PROVE  \E f \in events' : Expires(f, r)
  <2>1. CASE originals[r].status = "pending"
    <3>1. PICK f \in events : Expires(f, r)
      BY <2>1 DEF DeadlineInv, DeadlinesSet
    <3>2. f # e
      BY <1>5, <3>1, DeadlineEvents DEF Expires
    <3> QED
      BY <3>1, <3>2, DeadlineEvents
  <2>2. CASE originals[r].status # "pending"
    <3>1. e.kind = "arrival" /\ e.value = r
      BY <1>5, <2>2, RequestChanges DEF RequestChange, SameRecord
    <3> QED
      BY <3>1, DeadlineEvents
  <2> QED
    BY <2>1, <2>2
<1>6. ASSUME NEW r \in Requests PROVE SettledInTime(r)'
  <2> DEFINE deadline == originals[r].arrived + OriginalDeadline
  <2>1. CASE SameRecord(r)
    BY <2>1 DEF DeadlineInv, SettledInTime, SameRecord
  <2>2. CASE /\ originals[r].status = "pending" /\ originals'[r].arrived = originals[r].arrived
             /\ originals'[r].status = "pending"
    BY <2>2 DEF SettledInTime, Terminal, FailureReason
  <2>3. CASE /\ originals[r].status = "pending" /\ originals'[r].arrived = originals[r].arrived
             /\ originals'[r].status \in Terminal /\ originals'[r].terminal_at = e.when
             /\ originals'[r].status = "deadline_expired" <=> e.kind = "deadline"
             /\ e.kind = "deadline" => e.value = r
    <3>1. PICK f \in events : Expires(f, r)
      BY <2>3 DEF DeadlineInv, DeadlinesSet
    <3>2. f.when = deadline /\ originals[r].arrived \in 0..now
      BY <2>3, <3>1 DEF DeadlineInv, DeadlinesSet, Known, Expires
    <3>3. e.when <= deadline /\ e.when >= originals[r].arrived /\ originals[r].arrived \in Nat
      BY <1>2, <3>2
    <3>4. e.kind = "deadline" => e.when = deadline
      BY <1>2, <2>3 DEF DeadlineInv, DeadlinesSet
    <3>5. e.when \in originals[r].arrived..deadline
      BY <1>2, <3>3
    <3> QED
      BY <2>3, <3>4, <3>5 DEF SettledInTime
  <2>4. CASE originals'[r].arrived = e.when
             /\ \/ originals'[r].status = "pending"
                \/ originals'[r].status = "queue_rejected" /\ originals'[r].terminal_at = e.when
    <3>1. e.when \in e.when..(e.when + OriginalDeadline)
      BY <1>2
    <3> QED
      BY <2>4, <3>1 DEF SettledInTime, Terminal, FailureReason
  <2> QED
    BY <2>1, <2>2, <2>3, <2>4, RequestChanges DEF RequestChange
<1> QED
  BY <1>1, <1>4, <1>5, <1>6 DEF DeadlineInv, DeadlinesSet

LEMMA InitDeadlines == Init => DeadlineInv
<1> SUFFICES ASSUME Init PROVE DeadlineInv
  OBVIOUS
<1>1. \A r \in Requests : originals[r].status = "absent"
  BY DEF Init
<1>2. attempts = << >> /\ \A e \in events : e.kind \in {"arrival", "sample"}
  BY DEF Init, Event
<1>3. DOMAIN attempts = {}
  BY <1>2
<1>4. "absent" \notin Terminal
  BY DEF Terminal, FailureReason
<1> QED
  BY <1>1, <1>2, <1>3, <1>4 DEF DeadlineInv, Known, DeadlinesSet, SettledInTime

LEMMA RestDeadlines == ASSUME DeadlineInv, Rest PROVE DeadlineInv'
BY DEF Rest, DeadlineInv, Known, DeadlinesSet, Expires, SettledInTime

LEMMA NextDeadlines ==
    TypeInv /\ TypeInv' /\ ServerInv /\ ArrivesOnce /\ DeadlineInv /\ [Next]_vars => DeadlineInv'
BY Steps, DeadlinesStep, RestDeadlines

LEMMA DeadlineInvariance == Spec => [](ArrivesOnce /\ DeadlineInv)
<1>1. Init => ArrivesOnce /\ DeadlineInv
  BY InitArrives, InitDeadlines
<1>2. /\ TypeInv /\ TypeInv' /\ ServerInv /\ ArrivesOnce /\ DeadlineInv /\ [Next]_vars
      => (ArrivesOnce /\ DeadlineInv)'
  BY NextClient, NextDeadlines
<1> QED
  BY <1>1, <1>2, TypeInvariance, ServerInvariance, PTL DEF Spec

\* No request is pending after its deadline or settled later, and one that its
\* deadline settles is settled exactly then: the deadline event of a pending
\* request is always in the heap.
THEOREM DeadlinesKept == Spec => []DeadlineKept
<1>1. TypeInv /\ DeadlineInv => DeadlineKept
  <2> SUFFICES ASSUME TypeInv, DeadlineInv, NEW r \in Requests,
                      originals[r].status # "absent"
               PROVE  LET deadline == originals[r].arrived + OriginalDeadline
                      IN  CASE originals[r].status = "absent" -> TRUE
                            [] originals[r].status = "pending" -> now <= deadline
                            [] originals[r].status = "deadline_expired" ->
                                  originals[r].terminal_at = deadline
                            [] OTHER -> originals[r].terminal_at \in originals[r].arrived..deadline
    BY DEF DeadlineKept
  <2>1. originals[r].status \in Terminal \cup {"pending"}
    BY TypeFacts DEF OriginalType
  <2>2. "pending" \notin Terminal
    BY DEF Terminal, FailureReason
  <2>3. CASE originals[r].status = "pending"
    <3>1. PICK e \in events : Expires(e, r)
      BY <2>3 DEF DeadlineInv, DeadlinesSet
    <3>2. e.when = originals[r].arrived + OriginalDeadline /\ e.when >= now
      BY <3>1 DEF DeadlineInv, DeadlinesSet, Expires, TypeInv, EventsOK, EventOK
    <3>3. e.when \in Nat /\ now \in Nat
      BY TypeFacts, RetrySimAssumption DEF EventType, Time
    <3> QED
      BY <2>3, <3>2, <3>3
  <2>4. CASE originals[r].status \in Terminal
    BY <2>2, <2>4 DEF DeadlineInv, SettledInTime
  <2> QED
    BY <2>1, <2>3, <2>4
<1> QED
  BY <1>1, DeadlineInvariance, TypeInvariance, PTL

-----------------------------------------------------------------------------
(* Timeouts.  An attempt that is neither answered nor timed out has its one   *)
(* timer in the heap.  Answers come before timers at the same instant, so     *)
(* that what the server completes after a timer has fired is strictly later.  *)

Times(e, a) == e.kind = "timeout" /\ e.value = a
Limit(a) == attempts[a].sent + AttemptTimeout

TimerOK(e) ==
    /\ e.when = Limit(e.value) /\ ~attempts[e.value].timed_out
    /\ \A f \in events : Times(f, e.value) => f = e

TimeoutOK(a) ==
    IF attempts[a].completed = NoTime
    THEN IF attempts[a].timed_out
         THEN now >= Limit(a) /\ \A e \in events : e.kind = "complete" => e.when > Limit(a)
         ELSE \E e \in events : Times(e, a)
    ELSE attempts[a].timed_out <=> attempts[a].completed > Limit(a)

TimerInv ==
    /\ \A e \in events : e.kind = "timeout" => TimerOK(e)
    /\ \A a \in DOMAIN attempts : TimeoutOK(a)

\* The next event is no later than any other, and of those at the same instant
\* it is the one whose kind comes first.
LEMMA HandledFirst ==
    ASSUME TypeInv, NEW e, Effect(e)
    PROVE  /\ e \in events /\ e.when \in Nat /\ now' = e.when /\ now <= e.when /\ now \in Nat
           /\ ~done /\ UNCHANGED run /\ e \notin events'
           /\ \A f \in events \ {e} : f \in events' /\ f.when \in Nat /\ e.when <= f.when
           /\ \A f \in events \ {e} :
                f.kind = "complete" /\ e.kind \in {"timeout", "deadline"} => e.when < f.when
<1>1. \A f \in events : f.when \in Nat /\ PRIORITY[f.kind] \in Nat /\ f.kind \in DOMAIN PRIORITY
  BY TypeFacts DEF EventType, Time, PRIORITY
<1>2. /\ ~done /\ UNCHANGED run /\ e \in events /\ e.when \in Nat /\ now' = e.when /\ now <= e.when
      /\ e \notin events' /\ \A f \in events \ {e} : f \in events' /\ Before(e, f)
  BY DEF Effect, Handled
<1>3. PRIORITY["complete"] = 0 /\ PRIORITY["timeout"] = 2 /\ PRIORITY["deadline"] = 1
  BY DEF PRIORITY
<1>4. ASSUME NEW f \in events \ {e}
      PROVE  /\ e.when <= f.when
             /\ f.kind = "complete" /\ e.kind \in {"timeout", "deadline"} => e.when < f.when
  <2>1. e.when < f.when \/ (e.when = f.when /\ PRIORITY[e.kind] <= PRIORITY[f.kind])
    BY <1>1, <1>2 DEF Before
  <2> QED
    BY <1>1, <1>2, <1>3, <2>1
<1> QED
  BY <1>1, <1>2, <1>4, TypeFacts

\* While the server is idle every attempt has been answered.
LEMMA IdleServer ==
    ASSUME TypeInv, ServerInv, busy = Idle
    PROVE  \A a \in DOMAIN attempts : attempts[a].completed # NoTime
<1>1. /\ totals["completed_attempts"] = Len(attempts) /\ DOMAIN attempts = 1..Len(attempts)
      /\ Len(attempts) \in Nat
  BY ServerFacts
<1> QED
  BY <1>1 DEF ServerInv, ServerAttempts

LEMMA LimitNat == ASSUME TypeInv, NEW a \in DOMAIN attempts PROVE Limit(a) \in Nat
<1>1. attempts[a].sent \in Nat
  BY AttemptFacts
<1> QED
  BY <1>1, RetrySimAssumption DEF Limit

\* Handlers that neither send, end nor fail an attempt.
LEMMA QuietTimers ==
    ASSUME TypeInv, TimerInv, NEW e, Effect(e), UNCHANGED attempts,
           \A f \in events' : f \in events \ {e} \/ f.kind \in {"deadline", "retry"},
           e.kind = "timeout" => attempts[e.value].completed # NoTime
    PROVE  TimerInv'
<1>1. \A f \in events' : f.kind = "timeout" => TimerOK(f)'
  BY DEF TimerInv, TimerOK, Times, Limit
<1>2. ASSUME NEW a \in DOMAIN attempts' PROVE TimeoutOK(a)'
  <2>1. attempts' = attempts /\ TimeoutOK(a) /\ attempts[a].sent \in Nat
    BY <1>2, AttemptFacts DEF TimerInv
  <2>2. CASE attempts[a].completed = NoTime /\ attempts[a].timed_out
    <3>1. now' >= Limit(a)
      BY <2>1, <2>2, HandledFirst, RetrySimAssumption DEF TimeoutOK, Limit
    <3> QED
      BY <2>1, <2>2, <3>1 DEF TimeoutOK, Limit
  <2>3. CASE attempts[a].completed = NoTime /\ ~attempts[a].timed_out
    <3>1. PICK f \in events : Times(f, a)
      BY <2>1, <2>3 DEF TimeoutOK
    <3>2. f # e
      BY <2>3, <3>1 DEF Times
    <3>3. f \in events'
      BY <3>1, <3>2, HandledFirst
    <3> QED
      BY <2>1, <2>3, <3>1, <3>3 DEF TimeoutOK, Times
  <2>4. CASE attempts[a].completed # NoTime
    BY <2>1, <2>4 DEF TimeoutOK, Limit
  <2> QED
    BY <2>2, <2>3, <2>4, <2>1, AttemptFacts
<1> QED
  BY <1>1, <1>2 DEF TimerInv

\* A new attempt gets its timer.
LEMMA SentTimers ==
    ASSUME TypeInv, ServerInv, TimerInv, NEW e, Effect(e), e.kind # "timeout",
           NEW r, AttemptAdded(r, e.when), NEW timer \in events',
           Times(timer, NextAttempt), timer.when = e.when + AttemptTimeout,
           \A f \in events' : \/ f \in events \ {e}
                              \/ f = timer
                              \/ f.kind = "deadline"
                              \/ f.kind = "complete" /\ busy = Idle
    PROVE  TimerInv'
<1>1. /\ DOMAIN attempts' = DOMAIN attempts \cup {NextAttempt} /\ NextAttempt \notin DOMAIN attempts
      /\ \A a \in DOMAIN attempts : attempts'[a] = attempts[a] /\ Limit(a)' = Limit(a)
      /\ attempts'[NextAttempt].completed = NoTime /\ ~attempts'[NextAttempt].timed_out
      /\ attempts'[NextAttempt].sent = e.when
  BY DEF AttemptAdded, Limit
<1>2. \A f \in events : f.kind = "timeout" => f.value \in DOMAIN attempts
  BY DEF TypeInv, EventsOK, EventOK
<1>3. ASSUME NEW f \in events', f.kind = "timeout" PROVE TimerOK(f)'
  <2>1. CASE f = timer
    BY <1>1, <1>2, <2>1 DEF TimerOK, Times, Limit
  <2>2. CASE f \in events \ {e}
    <3>1. TimerOK(f) /\ f.value \in DOMAIN attempts
      BY <1>2, <1>3, <2>2 DEF TimerInv
    <3>2. \A g \in events' : Times(g, f.value) => g \in events
      BY <1>1, <3>1 DEF Times
    <3> QED
      BY <1>1, <3>1, <3>2 DEF TimerOK, Times, Limit
  <2> QED
    BY <1>3, <2>1, <2>2
<1>4. ASSUME NEW a \in DOMAIN attempts PROVE TimeoutOK(a)'
  <2>1. attempts'[a] = attempts[a] /\ TimeoutOK(a) /\ attempts[a].sent \in Nat
    BY <1>1, <1>4, AttemptFacts DEF TimerInv
  <2>2. CASE attempts[a].completed = NoTime /\ attempts[a].timed_out
    <3>1. now' >= Limit(a)
      BY <2>1, <2>2, HandledFirst, RetrySimAssumption DEF TimeoutOK, Limit
    <3>2. busy # Idle
      BY <2>2, IdleServer
    <3>3. \A f \in events' : f.kind = "complete" => f.when > Limit(a)
      BY <2>1, <2>2, <3>2 DEF TimeoutOK, Times
    <3> QED
      BY <2>1, <2>2, <3>1, <3>3 DEF TimeoutOK, Limit
  <2>3. CASE attempts[a].completed = NoTime /\ ~attempts[a].timed_out
    <3>1. PICK f \in events : Times(f, a)
      BY <2>1, <2>3 DEF TimeoutOK
    <3>2. f \in events'
      BY <3>1, HandledFirst DEF Times
    <3> QED
      BY <2>1, <2>3, <3>1, <3>2 DEF TimeoutOK, Times
  <2>4. CASE attempts[a].completed # NoTime
    BY <2>1, <2>4 DEF TimeoutOK, Limit
  <2> QED
    BY <2>2, <2>3, <2>4, <2>1, AttemptFacts
<1>5. ASSUME NEW a, a = NextAttempt PROVE TimeoutOK(a)'
  <2>1. \E f \in events' : f.kind = "timeout" /\ f.value = a
    BY <1>5 DEF Times
  <2> QED
    BY <1>1, <1>5, <2>1 DEF TimeoutOK, Times
<1>6. \A a \in DOMAIN attempts' : TimeoutOK(a)'
  BY <1>1, <1>4, <1>5
<1> QED
  BY <1>3, <1>6 DEF TimerInv

\* A timer that fires leaves no answer of that instant or before in the heap.
LEMMA FailTimers ==
    ASSUME TypeInv, TimerInv, NEW e, Effect(e), FailEffect(e)
    PROVE  TimerInv'
<1> DEFINE a == e.value
<1>1. /\ e.kind = "timeout" /\ a \in DOMAIN attempts /\ attempts[a].completed = NoTime
      /\ e.when = Limit(a) /\ \A f \in events : Times(f, a) => f = e
  BY HandledFirst DEF FailEffect, TimerInv, TimerOK
<1>2. /\ DOMAIN attempts' = DOMAIN attempts
      /\ \A b \in DOMAIN attempts :
            /\ attempts'[b].completed = attempts[b].completed /\ Limit(b)' = Limit(b)
            /\ attempts'[b].timed_out = IF b = a THEN TRUE ELSE attempts[b].timed_out
  <2>1. attempts' = [attempts EXCEPT ![a].timed_out = TRUE]
    BY DEF FailEffect
  <2>2. attempts \in [DOMAIN attempts -> AttemptType]
    BY AttemptFacts
  <2> QED
    BY <1>1, <2>1, <2>2 DEF AttemptType, Limit
<1>3. /\ \A f \in events' : f \in events \ {e} \/ f.kind = "retry"
      /\ \A f \in events \ {e} : f \in events'
  BY HandledFirst DEF FailEffect
<1> HIDE DEF a
<1>4. \A f \in events' : f.kind = "timeout" => TimerOK(f)'
  <2>1. \A f \in events : f.kind = "timeout" => f.value \in DOMAIN attempts
    BY DEF TypeInv, EventsOK, EventOK
  <2> QED
    BY <1>1, <1>2, <1>3, <2>1 DEF TimerInv, TimerOK, Times
<1>5. ASSUME NEW b \in DOMAIN attempts PROVE TimeoutOK(b)'
  <2>0. Limit(b) \in Nat
    BY LimitNat
  <2>1. TimeoutOK(b) /\ Limit(b) \in Nat /\ Limit(b)' = Limit(b)
    BY <1>2, <2>0 DEF TimerInv
  <2>2. CASE b = a
    <3>1. now' >= Limit(a)
      BY <1>1, <2>1, <2>2, HandledFirst
    <3>2. \A f \in events' : f.kind = "complete" => f.when > Limit(a)
      BY <1>1, <1>3, <2>1, <2>2, HandledFirst
    <3> QED
      BY <1>1, <1>2, <2>1, <2>2, <3>1, <3>2 DEF TimeoutOK
  <2>3. CASE b # a /\ attempts[b].completed = NoTime /\ attempts[b].timed_out
    <3>1. now' >= Limit(b)
      BY <2>1, <2>3, HandledFirst DEF TimeoutOK
    <3> QED
      BY <1>2, <1>3, <2>1, <2>3, <3>1 DEF TimeoutOK
  <2>4. CASE b # a /\ attempts[b].completed = NoTime /\ ~attempts[b].timed_out
    <3>1. PICK f \in events : Times(f, b)
      BY <2>1, <2>4 DEF TimeoutOK
    <3>2. f \in events'
      BY <1>3, <2>4, <3>1 DEF Times, a
    <3> QED
      BY <1>2, <2>4, <3>1, <3>2 DEF TimeoutOK, Times
  <2>5. CASE b # a /\ attempts[b].completed # NoTime
    BY <1>2, <2>1, <2>5 DEF TimeoutOK
  <2> QED
    BY <2>2, <2>3, <2>4, <2>5, AttemptFacts
<1> QED
  BY <1>2, <1>4, <1>5 DEF TimerInv

\* An answer is in time exactly when the timer has not fired before it.
LEMMA CompleteTimers ==
    ASSUME TypeInv, TypeInv', TimerInv, NEW e, Effect(e), CompleteEffect(e)
    PROVE  TimerInv'
<1> DEFINE a == e.value
<1>1. e.kind = "complete" /\ a \in DOMAIN attempts /\ attempts[a].completed = NoTime
  BY DEF CompleteEffect
<1>2. /\ DOMAIN attempts' = DOMAIN attempts
      /\ \A b \in DOMAIN attempts :
            /\ attempts'[b].timed_out = attempts[b].timed_out /\ Limit(b)' = Limit(b)
            /\ attempts'[b].completed = IF b = a THEN e.when ELSE attempts[b].completed
  BY DEF CompleteEffect, AttemptEnded, Limit
<1>3. /\ \A f \in events' : f \in events \ {e} \/ (f.kind = "complete" /\ f.when >= e.when)
      /\ \A f \in events \ {e} : f \in events'
  BY HandledFirst DEF CompleteEffect
<1> HIDE DEF a
<1>4. \A f \in events' : f.kind = "timeout" => TimerOK(f)'
  <2>1. \A f \in events : f.kind = "timeout" => f.value \in DOMAIN attempts
    BY DEF TypeInv, EventsOK, EventOK
  <2> QED
    BY <1>1, <1>2, <1>3, <2>1 DEF TimerInv, TimerOK, Times
<1>5. ASSUME NEW b \in DOMAIN attempts PROVE TimeoutOK(b)'
  <2>0. Limit(b) \in Nat
    BY LimitNat
  <2>1. TimeoutOK(b) /\ Limit(b) \in Nat /\ Limit(b)' = Limit(b)
    BY <1>2, <2>0 DEF TimerInv
  <2>2. CASE b = a /\ attempts[b].timed_out
    <3>1. e.when > Limit(b)
      BY <1>1, <2>1, <2>2, HandledFirst DEF TimeoutOK
    <3> QED
      BY <1>2, <2>1, <2>2, <3>1, HandledFirst DEF TimeoutOK, NoTime
  <2>3. CASE b = a /\ ~attempts[b].timed_out
    <3>1. PICK f \in events : Times(f, b)
      BY <1>1, <2>1, <2>3 DEF TimeoutOK
    <3>2. f.when = Limit(b) /\ f # e
      BY <1>1, <3>1 DEF TimerInv, TimerOK, Times
    <3>3. e.when <= Limit(b)
      BY <3>1, <3>2, HandledFirst
    <3> QED
      BY <1>2, <2>1, <2>3, <3>3, HandledFirst DEF TimeoutOK, NoTime
  <2>4. CASE b # a /\ attempts[b].completed = NoTime /\ attempts[b].timed_out
    <3>1. now' >= Limit(b) /\ e.when > Limit(b)
      BY <1>1, <2>1, <2>4, HandledFirst DEF TimeoutOK
    <3>2. \A f \in events' : f.kind = "complete" => f.when > Limit(b)
      <4>1. ASSUME NEW f \in events', f.kind = "complete", f \notin events PROVE f.when > Limit(b)
        <5>1. f.when \in Nat
          BY DEF TypeInv, TypeOK, EventType, Time
        <5>2. f.when >= e.when
          BY <1>3, <4>1
        <5> QED
          BY <2>1, <3>1, <5>1, <5>2, HandledFirst
      <4> QED
        BY <2>1, <2>4, <4>1 DEF TimeoutOK
    <3> QED
      BY <1>2, <2>1, <2>4, <3>1, <3>2 DEF TimeoutOK
  <2>5. CASE b # a /\ attempts[b].completed = NoTime /\ ~attempts[b].timed_out
    <3>1. PICK f \in events : Times(f, b)
      BY <2>1, <2>5 DEF TimeoutOK
    <3>2. f \in events'
      BY <1>1, <1>3, <3>1 DEF Times
    <3> QED
      BY <1>2, <2>5, <3>1, <3>2 DEF TimeoutOK, Times
  <2>6. CASE b # a /\ attempts[b].completed # NoTime
    BY <1>2, <2>1, <2>6 DEF TimeoutOK
  <2> QED
    BY <2>2, <2>3, <2>4, <2>5, <2>6, AttemptFacts
<1> QED
  BY <1>2, <1>4, <1>5 DEF TimerInv

LEMMA LaunchTimers ==
    ASSUME TypeInv, ServerInv, TimerInv, NEW e, Effect(e), e.kind \in {"arrival", "retry"},
           NEW r, NEW o, NEW new, \A f \in new : f.kind = "deadline", LaunchEffect(e, r, o, new)
    PROVE  TimerInv'
<1>1. CASE UNCHANGED attempts /\ events' = (events \ {e}) \cup new
  BY <1>1, QuietTimers
<1>2. CASE /\ AttemptAdded(r, e.when)
           /\ \E timer \in events' :
                /\ timer.kind = "timeout" /\ timer.value = NextAttempt
                /\ timer.when = e.when + AttemptTimeout
                /\ \A f \in events' :
                      \/ f \in (events \ {e}) \cup new
                      \/ f = timer
                      \/ f.kind = "complete" /\ f.when >= e.when /\ busy = Idle
  <2>1. PICK timer \in events' :
                /\ timer.kind = "timeout" /\ timer.value = NextAttempt
                /\ timer.when = e.when + AttemptTimeout
                /\ \A f \in events' :
                      \/ f \in (events \ {e}) \cup new
                      \/ f = timer
                      \/ f.kind = "complete" /\ f.when >= e.when /\ busy = Idle
    BY <1>2
  <2>2. Times(timer, NextAttempt)
    BY <2>1 DEF Times
  <2>3. \A f \in events' : \/ f \in events \ {e}
                           \/ f = timer
                           \/ f.kind = "deadline"
                           \/ f.kind = "complete" /\ busy = Idle
    BY <2>1
  <2> QED
    BY <1>2, <2>1, <2>2, <2>3, SentTimers
<1> QED
  BY <1>1, <1>2 DEF LaunchEffect

LEMMA TimersStep ==
    ASSUME TypeInv, TypeInv', ServerInv, TimerInv, NEW e, Effect(e)
    PROVE  TimerInv'
<1>1. CASE QuietEffect(e)
  BY <1>1, QuietTimers DEF QuietEffect
<1>2. CASE ArrivalEffect(e)
  <2>1. PICK due, o : due.kind = "deadline" /\ LaunchEffect(e, e.value, o, {due})
    BY <1>2 DEF ArrivalEffect
  <2>2. e.kind = "arrival"
    BY <1>2 DEF ArrivalEffect
  <2> QED
    BY <2>1, <2>2, LaunchTimers
<1>3. CASE RetryEffect(e)
  <2>1. LaunchEffect(e, e.value, originals[e.value], {}) /\ e.kind = "retry"
    BY <1>3 DEF RetryEffect
  <2> QED
    BY <2>1, LaunchTimers
<1>4. CASE FailEffect(e)
  BY <1>4, FailTimers
<1>5. CASE CompleteEffect(e)
  BY <1>5, CompleteTimers
<1> QED
  BY <1>1, <1>2, <1>3, <1>4, <1>5 DEF Effect

LEMMA InitTimers == Init => TimerInv
<1> SUFFICES ASSUME Init PROVE TimerInv
  OBVIOUS
<1>1. attempts = << >> /\ \A e \in events : e.kind \in {"arrival", "sample"}
  BY DEF Init, Event
<1>2. DOMAIN attempts = {}
  BY <1>1
<1> QED
  BY <1>1, <1>2 DEF TimerInv

LEMMA RestTimers == ASSUME TimerInv, Rest PROVE TimerInv'
BY DEF Rest, TimerInv, TimerOK, TimeoutOK, Times, Limit

LEMMA TimerInvariance == Spec => []TimerInv
<1>1. TypeInv /\ TypeInv' /\ ServerInv /\ ArrivesOnce /\ TimerInv /\ [Next]_vars => TimerInv'
  BY Steps, TimersStep, RestTimers
<1> QED
  BY <1>1, InitTimers, TypeInvariance, ServerInvariance, DeadlineInvariance, PTL DEF Spec

\* An attempt counts as timed out exactly when its answer comes, or will come,
\* after its timeout; an answer at that very instant is in time.
THEOREM AnswersInTime == Spec => []AnswerInTime
<1>1. TypeInv /\ TimerInv => AnswerInTime
  <2> SUFFICES ASSUME TypeInv, TimerInv, NEW a \in DOMAIN attempts
               PROVE  LET limit == attempts[a].sent + AttemptTimeout
                      IN  IF attempts[a].completed = NoTime
                          THEN IF attempts[a].timed_out THEN now >= limit
                               ELSE done \/ now <= limit
                          ELSE attempts[a].timed_out <=> attempts[a].completed > limit
    BY DEF AnswerInTime
  <2>1. TimeoutOK(a) /\ Limit(a) = attempts[a].sent + AttemptTimeout
    BY DEF TimerInv, Limit
  <2>2. CASE attempts[a].completed = NoTime /\ ~attempts[a].timed_out
    <3>1. PICK e \in events : Times(e, a)
      BY <2>1, <2>2 DEF TimeoutOK
    <3>2. e.when = Limit(a) /\ e.when >= now
      BY <3>1 DEF TimerInv, TimerOK, Times, TypeInv, EventsOK, EventOK
    <3>3. e.when \in Nat /\ now \in Nat
      BY TypeFacts, RetrySimAssumption DEF EventType, Time
    <3> QED
      BY <2>1, <2>2, <3>2, <3>3
  <2>3. CASE ~(attempts[a].completed = NoTime /\ ~attempts[a].timed_out)
    BY <2>1, <2>3, AttemptFacts DEF TimeoutOK
  <2> QED
    BY <2>2, <2>3
<1> QED
  BY <1>1, TimerInvariance, TypeInvariance, PTL

-----------------------------------------------------------------------------
(* Continuations.  A pending request waits for one attempt or for one retry,  *)
(* until the run is over; one that was settled otherwise than by its deadline *)
(* waits for no attempt any more.                                             *)

Exclusive(r) ==
    /\ \A a, b \in LiveAttempts(r) : a = b
    /\ \A e, f \in RetryEvents(r) : e = f
    /\ LiveAttempts(r) = {} \/ RetryEvents(r) = {}

Continued(r) ==
    originals[r].status = "pending" /\ ~done => LiveAttempts(r) # {} \/ RetryEvents(r) # {}

Closed(r) ==
    originals[r].status \in Terminal \ {"deadline_expired"} => LiveAttempts(r) = {}

ContinueInv == \A r \in Requests : Exclusive(r) /\ Continued(r) /\ Closed(r)

\* Nothing refers to a request that has not arrived.
LEMMA AbsentIsNew ==
    ASSUME TypeInv, Known, NEW r \in Requests, originals[r].status = "absent"
    PROVE  LiveAttempts(r) = {} /\ RetryEvents(r) = {}
BY DEF Known, LiveAttempts, RetryEvents

LEMMA QuietContinues ==
    ASSUME TypeInv, ContinueInv, NEW e, Effect(e), QuietEffect(e), NEW r \in Requests
    PROVE  Exclusive(r)' /\ Continued(r)' /\ Closed(r)'
<1>1. LiveAttempts(r)' = LiveAttempts(r)
  BY DEF QuietEffect, LiveAttempts
<1>2. RetryEvents(r)' = RetryEvents(r) \ {e}
  BY DEF QuietEffect, RetryEvents
<1>3. Exclusive(r) /\ Continued(r) /\ Closed(r)
  BY DEF ContinueInv
<1>4. Exclusive(r)'
  BY <1>1, <1>2, <1>3 DEF Exclusive
<1>5. CASE SameRecord(r)
  <2>1. originals[r].status = "pending" => e \notin RetryEvents(r)
    BY <1>5 DEF QuietEffect, SettledNow, RetryEvents, Settler, SameRecord, SettlesFor
  <2>2. done' = done
    BY DEF QuietEffect
  <2>3. Continued(r)'
    BY <1>1, <1>2, <1>3, <1>5, <2>1, <2>2 DEF Continued, SameRecord
  <2>4. Closed(r)'
    BY <1>1, <1>3, <1>5 DEF Closed, SameRecord
  <2> QED
    BY <1>4, <2>3, <2>4
<1>6. CASE e.kind \in Settler /\ e.value = r /\ SettledNow(r, SettlesFor(e.kind), e.when)
  <2>1. originals'[r].status # "pending" /\ originals[r].status = "pending"
    BY <1>6 DEF SettledNow, SettlesFor
  <2>2. e.kind = "retry" => LiveAttempts(r) = {}
    <3>1. e.kind = "retry" => e \in RetryEvents(r)
      BY <1>6, HandledFirst DEF RetryEvents
    <3> QED
      BY <1>3, <3>1 DEF Exclusive
  <2>3. e.kind # "retry" => originals'[r].status = "deadline_expired"
    BY <1>6 DEF SettledNow, SettlesFor, Settler
  <2>4. Closed(r)'
    BY <1>1, <2>2, <2>3 DEF Closed
  <2> QED
    BY <1>4, <2>1, <2>4 DEF Continued
<1> QED
  BY <1>5, <1>6 DEF QuietEffect

\* A launch for r, which waits for nothing but the handled event.
LEMMA LaunchContinues ==
    ASSUME TypeInv, ContinueInv, NEW e, Effect(e), NEW r \in Requests,
           LiveAttempts(r) = {}, RetryEvents(r) \subseteq {e},
           e.kind = "retry" => e.value = r,
           \A q \in Requests : q # r => SameRecord(q),
           NEW o, o.status = "pending", NEW new, \A f \in new : f.kind = "deadline",
           LaunchEffect(e, r, o, new),
           NEW q \in Requests
    PROVE  Exclusive(q)' /\ Continued(q)' /\ Closed(q)'
<1>1. RetryEvents(q)' = RetryEvents(q) \ {e} /\ (q # r => e \notin RetryEvents(q))
  BY HandledFirst DEF LaunchEffect, RetryEvents
<1>2. Exclusive(q) /\ Continued(q) /\ Closed(q)
  BY DEF ContinueInv
<1>3. CASE UNCHANGED attempts
  <2>1. LiveAttempts(q)' = LiveAttempts(q)
    BY <1>3 DEF LiveAttempts
  <2>2. Exclusive(q)'
    BY <1>1, <1>2, <2>1 DEF Exclusive
  <2>3. q = r => LiveAttempts(q)' = {} /\ (done' \/ originals'[q].status # "pending")
    BY <1>3, <2>1 DEF LaunchEffect, AttemptAdded
  <2>4. q # r => SameRecord(q) /\ (done' \/ done' = done)
    BY DEF LaunchEffect
  <2>5. Continued(q)'
    BY <1>1, <1>2, <2>1, <2>3, <2>4 DEF Continued, SameRecord
  <2>6. Closed(q)'
    BY <1>2, <2>1, <2>3, <2>4 DEF Closed, SameRecord
  <2> QED
    BY <2>2, <2>5, <2>6
<1>4. CASE /\ originals'[r].status = "pending"
           /\ AttemptAdded(r, e.when) /\ UNCHANGED done
  <2>1. PICK n : n = NextAttempt
    OBVIOUS
  <2>2. LiveAttempts(q)' = IF q = r THEN {n} ELSE LiveAttempts(q)
    BY <1>4, <2>1 DEF AttemptAdded, LiveAttempts
  <2>3. Exclusive(q)'
    BY <1>1, <1>2, <2>2 DEF Exclusive
  <2>4. Continued(q)'
    BY <1>1, <1>2, <1>4, <2>2 DEF Continued, SameRecord
  <2>5. "pending" \notin Terminal
    BY DEF Terminal, FailureReason
  <2>6. Closed(q)'
    BY <1>2, <1>4, <2>2, <2>5 DEF Closed, SameRecord
  <2> QED
    BY <2>3, <2>4, <2>6
<1> QED
  BY <1>3, <1>4 DEF LaunchEffect

LEMMA FailContinues ==
    ASSUME TypeInv, TimerInv, ContinueInv, NEW e, Effect(e), FailEffect(e), NEW q \in Requests
    PROVE  Exclusive(q)' /\ Continued(q)' /\ Closed(q)'
<1>1. PICK a, r : a = e.value /\ r = attempts[a].original
  OBVIOUS
<1>2. /\ e.kind = "timeout" /\ a \in DOMAIN attempts /\ r \in Requests
      /\ attempts[a].completed = NoTime /\ ~attempts[a].timed_out
  BY <1>1, HandledFirst DEF FailEffect, TimerInv, TimerOK
<1>3. LiveAttempts(q)' = LiveAttempts(q) \ {a}
  <2>1. attempts' = [attempts EXCEPT ![a].timed_out = TRUE]
    BY <1>1 DEF FailEffect
  <2>2. attempts \in [DOMAIN attempts -> AttemptType]
    BY AttemptFacts
  <2>3. /\ DOMAIN attempts' = DOMAIN attempts
        /\ \A b \in DOMAIN attempts :
              /\ attempts'[b].completed = attempts[b].completed
              /\ attempts'[b].original = attempts[b].original
              /\ attempts'[b].timed_out = IF b = a THEN TRUE ELSE attempts[b].timed_out
    BY <1>2, <2>1, <2>2 DEF AttemptType
  <2> QED
    BY <2>3 DEF LiveAttempts
<1>4. a \in LiveAttempts(r)
  BY <1>1, <1>2 DEF LiveAttempts
<1>5. Exclusive(q) /\ Continued(q) /\ Closed(q)
  BY DEF ContinueInv
<1>6. LiveAttempts(q) \ {a} = IF q = r THEN {} ELSE LiveAttempts(q)
  <2>1. q = r => LiveAttempts(q) = {a}
    BY <1>4, <1>5 DEF Exclusive
  <2>2. q # r => a \notin LiveAttempts(q)
    BY <1>1 DEF LiveAttempts
  <2> QED
    BY <2>1, <2>2
<1>7. q = r => RetryEvents(q) = {}
  BY <1>4, <1>5 DEF Exclusive
<1>8. done' = done /\ (q # r => SameRecord(q))
  BY <1>1 DEF FailEffect
<1>9. CASE events' = events \ {e} /\ originals'[r].status # "pending"
  <2>1. RetryEvents(q)' = RetryEvents(q)
    BY <1>2, <1>9 DEF RetryEvents
  <2> QED
    BY <1>3, <1>5, <1>6, <1>8, <1>9, <2>1 DEF Exclusive, Continued, Closed, SameRecord
<1>10. CASE /\ SameRecord(r) /\ originals[r].status = "pending"
            /\ \E f : f.kind = "retry" /\ f.value = r /\ events' = (events \ {e}) \cup {f}
  <2>1. PICK f : f.kind = "retry" /\ f.value = r /\ events' = (events \ {e}) \cup {f}
    BY <1>10
  <2>2. RetryEvents(q)' = IF q = r THEN {f} ELSE RetryEvents(q)
    BY <1>2, <1>7, <2>1 DEF RetryEvents
  <2>3. "pending" \notin Terminal
    BY DEF Terminal, FailureReason
  <2> QED
    BY <1>3, <1>5, <1>6, <1>8, <1>10, <2>2, <2>3 DEF Exclusive, Continued, Closed, SameRecord
<1> QED
  BY <1>1, <1>9, <1>10 DEF FailEffect, SettledNow, SameRecord

LEMMA CompleteContinues ==
    ASSUME TypeInv, ContinueInv, NEW e, Effect(e), CompleteEffect(e), NEW q \in Requests
    PROVE  Exclusive(q)' /\ Continued(q)' /\ Closed(q)'
<1>1. PICK a, r : a = e.value /\ r = attempts[a].original
  OBVIOUS
<1>2. /\ e.kind = "complete" /\ a \in DOMAIN attempts /\ r \in Requests
      /\ attempts[a].completed = NoTime /\ e.when # NoTime
  BY <1>1, HandledFirst DEF CompleteEffect, NoTime
<1>3. LiveAttempts(q)' = LiveAttempts(q) \ {a}
  BY <1>1, <1>2 DEF CompleteEffect, AttemptEnded, LiveAttempts
<1>4. RetryEvents(q)' = RetryEvents(q)
  BY <1>2, HandledFirst DEF CompleteEffect, RetryEvents
<1>5. Exclusive(q) /\ Continued(q) /\ Closed(q)
  BY DEF ContinueInv
<1>6. Exclusive(q)' /\ done' = done
  BY <1>3, <1>4, <1>5 DEF Exclusive, CompleteEffect
<1>7. CASE q # r \/ (SameRecord(q) /\ (attempts[a].timed_out \/ originals[q].status # "pending"))
  <2>1. SameRecord(q)
    BY <1>1, <1>7 DEF CompleteEffect
  <2>2. originals[q].status = "pending" => a \notin LiveAttempts(q)
    BY <1>1, <1>7 DEF LiveAttempts
  <2>3. Continued(q)'
    BY <1>3, <1>4, <1>5, <1>6, <2>1, <2>2 DEF Continued, SameRecord
  <2>4. Closed(q)'
    BY <1>3, <1>5, <2>1 DEF Closed, SameRecord
  <2> QED
    BY <1>6, <2>3, <2>4
<1>8. CASE q = r /\ ~attempts[a].timed_out /\ SettledNow(r, "success", e.when)
  <2>1. a \in LiveAttempts(q)
    BY <1>1, <1>2, <1>8 DEF LiveAttempts
  <2>2. LiveAttempts(q)' = {}
    BY <1>3, <1>5, <2>1 DEF Exclusive
  <2>3. originals'[q].status # "pending"
    BY <1>8 DEF SettledNow
  <2> QED
    BY <1>6, <2>2, <2>3 DEF Continued, Closed
<1> QED
  BY <1>1, <1>7, <1>8 DEF CompleteEffect

LEMMA ContinuesStep ==
    ASSUME TypeInv, DeadlineInv, TimerInv, ContinueInv, NEW e, Effect(e)
    PROVE  ContinueInv'
<1> SUFFICES ASSUME NEW q \in Requests PROVE Exclusive(q)' /\ Continued(q)' /\ Closed(q)'
  BY DEF ContinueInv
<1>1. CASE QuietEffect(e)
  BY <1>1, QuietContinues
<1>2. CASE ArrivalEffect(e)
  <2> DEFINE r == e.value
  <2>1. /\ r \in Requests /\ originals[r].status = "absent" /\ e.kind = "arrival"
        /\ \A p \in Requests : p # r => SameRecord(p)
    BY <1>2 DEF ArrivalEffect
  <2>2. PICK due, o : due.kind = "deadline" /\ o.status = "pending" /\ LaunchEffect(e, r, o, {due})
    BY <1>2 DEF ArrivalEffect
  <2>3. LiveAttempts(r) = {} /\ RetryEvents(r) = {}
    BY <2>1, AbsentIsNew DEF DeadlineInv
  <2> QED
    BY <2>1, <2>2, <2>3, LaunchContinues
<1>3. CASE RetryEffect(e)
  <2> DEFINE r == e.value
  <2>1. /\ r \in Requests /\ originals[r].status = "pending" /\ e.kind = "retry"
        /\ \A p \in Requests : p # r => SameRecord(p)
        /\ LaunchEffect(e, r, originals[r], {})
    BY <1>3 DEF RetryEffect
  <2>2. e \in RetryEvents(r) /\ Exclusive(r)
    BY <2>1, HandledFirst DEF RetryEvents, ContinueInv
  <2>3. LiveAttempts(r) = {} /\ RetryEvents(r) \subseteq {e}
    BY <2>2 DEF Exclusive
  <2> QED
    BY <2>1, <2>3, LaunchContinues
<1>4. CASE FailEffect(e)
  BY <1>4, FailContinues
<1>5. CASE CompleteEffect(e)
  BY <1>5, CompleteContinues
<1> QED
  BY <1>1, <1>2, <1>3, <1>4, <1>5 DEF Effect

LEMMA InitContinues == Init => ContinueInv
<1> SUFFICES ASSUME Init, NEW r \in Requests PROVE Exclusive(r) /\ Continued(r) /\ Closed(r)
  BY DEF ContinueInv
<1>1. attempts = << >> /\ \A e \in events : e.kind \in {"arrival", "sample"}
  BY DEF Init, Event
<1>2. DOMAIN attempts = {}
  BY <1>1
<1>3. LiveAttempts(r) = {} /\ RetryEvents(r) = {}
  BY <1>1, <1>2 DEF LiveAttempts, RetryEvents
<1>4. originals[r].status = "absent"
  BY DEF Init
<1> QED
  BY <1>3, <1>4 DEF Exclusive, Continued, Closed

LEMMA RestContinues == ASSUME ContinueInv, Rest PROVE ContinueInv'
BY DEF Rest, ContinueInv, Exclusive, Continued, Closed, LiveAttempts, RetryEvents

LEMMA ContinueInvariance == Spec => []ContinueInv
<1>1. /\ TypeInv /\ ServerInv /\ ArrivesOnce /\ DeadlineInv /\ TimerInv /\ ContinueInv /\ [Next]_vars
      => ContinueInv'
  BY Steps, ContinuesStep, RestContinues
<1> QED
  BY <1>1, InitContinues, TypeInvariance, ServerInvariance, DeadlineInvariance, TimerInvariance,
     PTL DEF Spec

\* While the run goes on, a pending request waits for exactly one attempt or
\* for exactly one scheduled retry: it is never forgotten, and never sends two
\* attempts side by side.
THEOREM ContinuationLives == Spec => []LiveContinuation
<1>1. ContinueInv => LiveContinuation
  <2> SUFFICES ASSUME ContinueInv, ~done, NEW r \in Requests, originals[r].status = "pending"
               PROVE  Cardinality(LiveAttempts(r)) + Cardinality(RetryEvents(r)) = 1
    BY DEF LiveContinuation, With
  <2>1. Exclusive(r) /\ Continued(r)
    BY DEF ContinueInv
  <2>2. \/ RetryEvents(r) = {} /\ \E a : LiveAttempts(r) = {a}
        \/ LiveAttempts(r) = {} /\ \E e : RetryEvents(r) = {e}
    <3>1. LiveAttempts(r) # {} => \E a : LiveAttempts(r) = {a}
      BY <2>1 DEF Exclusive
    <3>2. RetryEvents(r) # {} => \E e : RetryEvents(r) = {e}
      BY <2>1 DEF Exclusive
    <3> QED
      BY <2>1, <3>1, <3>2 DEF Exclusive, Continued
  <2>3. Cardinality({}) = 0 /\ \A x : Cardinality({x}) = 1
    BY FS_EmptySet, FS_Singleton
  <2>4. CASE RetryEvents(r) = {} /\ \E a : LiveAttempts(r) = {a}
    <3>1. Cardinality(RetryEvents(r)) = 0 /\ Cardinality(LiveAttempts(r)) = 1
      BY <2>3, <2>4, Zenon
    <3> QED
      BY <3>1
  <2>5. CASE LiveAttempts(r) = {} /\ \E e : RetryEvents(r) = {e}
    <3>1. Cardinality(RetryEvents(r)) = 1 /\ Cardinality(LiveAttempts(r)) = 0
      BY <2>3, <2>5, Zenon
    <3> QED
      BY <3>1
  <2> QED
    BY <2>2, <2>4, <2>5
<1> QED
  BY <1>1, ContinueInvariance, PTL

-----------------------------------------------------------------------------
(* Successes.  A request that expired while one of its attempts was still on  *)
(* the server is answered after its deadline only.                            *)

Due(r) == originals[r].arrived + OriginalDeadline

Answered(a) ==
    LET r == attempts[a].original
    IN  /\ InTime(a) => /\ originals[r].status = "success"
                        /\ originals[r].terminal_at = attempts[a].completed
        /\ attempts[a].completed = NoTime /\ originals[r].status = "deadline_expired" =>
                \A e \in events : e.kind = "complete" => e.when > Due(r)

AnswerInv ==
    /\ \A a \in DOMAIN attempts : Answered(a)
    /\ \A r \in Requests : originals[r].status = "success" =>
            \E a \in DOMAIN attempts : attempts[a].original = r /\ InTime(a)

\* An attempt whose completion does not change stays in time, or not.
LEMMA InTimeStays ==
    ASSUME TypeInv, Known, NEW e, Effect(e), NEW a \in DOMAIN attempts,
           attempts'[a].completed = attempts[a].completed
    PROVE  /\ InTime(a)' <=> InTime(a)
           /\ attempts'[a].original = attempts[a].original
           /\ originals'[attempts[a].original].arrived = originals[attempts[a].original].arrived
<1>1. attempts[a].original \in Requests /\ originals[attempts[a].original].status # "absent"
  BY AttemptFacts DEF Known
<1>2. originals'[attempts[a].original].arrived = originals[attempts[a].original].arrived
  BY <1>1, ArrivedStays
<1>3. /\ attempts'[a].original = attempts[a].original /\ attempts'[a].sent = attempts[a].sent
  BY AttemptsStep
<1> QED
  BY <1>2, <1>3 DEF InTime

\* What settles a request other than an answer, and what a handler that ends no
\* attempt does to the others.
LEMMA OthersAnswer ==
    ASSUME TypeInv, TypeInv', ServerInv, DeadlineInv, AnswerInv, NEW e, Effect(e),
           ~CompleteEffect(e)
    PROVE  AnswerInv'
<1>1. ASSUME NEW r \in Requests
      PROVE  originals'[r].status = "success" <=> originals[r].status = "success"
  <2>1. originals'[r] = originals[r] \/ originals'[r].status # "success"
    BY DEF Effect, QuietEffect, ArrivalEffect, RetryEffect, FailEffect, LaunchEffect,
           SettledNow, SettlesFor, SameRecord
  <2>2. originals[r].status = "success" => originals'[r] = originals[r]
    BY RequestChanges DEF RequestChange, SameRecord
  <2> QED
    BY <2>1, <2>2
<1>2. ASSUME NEW r \in Requests, originals[r].status = "success"
      PROVE  originals'[r] = originals[r]
  BY <1>2, RequestChanges DEF RequestChange, SameRecord
<1>3. ASSUME NEW a \in DOMAIN attempts
      PROVE  a \in DOMAIN attempts' /\ attempts'[a].completed = attempts[a].completed
  <2>1. CASE UNCHANGED attempts
    BY <2>1
  <2>2. CASE FailEffect(e)
    <3>1. attempts' = [attempts EXCEPT ![e.value].timed_out = TRUE]
      BY <2>2 DEF FailEffect
    <3>2. attempts \in [DOMAIN attempts -> AttemptType]
      BY AttemptFacts
    <3> QED
      BY <3>1, <3>2 DEF AttemptType
  <2>3. CASE \E r : AttemptAdded(r, e.when)
    BY <2>3 DEF AttemptAdded
  <2> QED
    BY <2>1, <2>2, <2>3 DEF Effect, QuietEffect, ArrivalEffect, RetryEffect, LaunchEffect
<1>4. ASSUME NEW a \in DOMAIN attempts' \ DOMAIN attempts
      PROVE  /\ attempts'[a].completed = NoTime
             /\ originals'[attempts'[a].original].status # "deadline_expired"
  BY DEF Effect, QuietEffect, ArrivalEffect, RetryEffect, FailEffect, LaunchEffect, AttemptAdded
<1>5. \A f \in events' : f.kind = "complete" => f \in events \ {e} \/ busy = Idle
  BY DEF Effect, QuietEffect, ArrivalEffect, RetryEffect, FailEffect, LaunchEffect
<1>6. ASSUME NEW a \in DOMAIN attempts' PROVE Answered(a)'
  <2>1. CASE a \in DOMAIN attempts
    <3> DEFINE r == attempts[a].original
    <3>1. Answered(a) /\ r \in Requests /\ originals[r].status # "absent"
      BY <2>1, AttemptFacts DEF AnswerInv, DeadlineInv, Known
    <3>2. /\ InTime(a)' <=> InTime(a)
          /\ attempts'[a].original = r /\ originals'[r].arrived = originals[r].arrived
          /\ attempts'[a].completed = attempts[a].completed
      BY <1>3, <2>1, InTimeStays DEF DeadlineInv
    <3>3. InTime(a) => originals'[r] = originals[r]
      BY <1>2, <3>1 DEF Answered
    <3>4. ASSUME attempts[a].completed = NoTime, originals'[r].status = "deadline_expired",
                 NEW f \in events', f.kind = "complete"
          PROVE  f.when > originals[r].arrived + OriginalDeadline
      <4>1. f \in events \ {e}
        BY <1>5, <2>1, <3>4, IdleServer
      <4>2. CASE originals[r].status = "deadline_expired"
        BY <3>1, <3>4, <4>1, <4>2 DEF Answered, Due
      <4>3. CASE originals[r].status # "deadline_expired"
        <5>1. e.kind = "deadline" /\ e.value = r
          BY <3>1, <3>4, <4>3, RequestChanges DEF RequestChange, SameRecord
        <5>2. e.when = originals[r].arrived + OriginalDeadline /\ e.when < f.when
          BY <3>4, <4>1, <5>1, HandledFirst DEF DeadlineInv, DeadlinesSet
        <5>3. f.when \in Nat /\ e.when \in Nat
          BY <4>1, HandledFirst
        <5> QED
          BY <5>2, <5>3
      <4> QED
        BY <4>2, <4>3
    <3> QED
      BY <3>1, <3>2, <3>3, <3>4 DEF Answered, Due
  <2>2. CASE a \notin DOMAIN attempts
    BY <1>4, <2>2 DEF Answered, InTime
  <2> QED
    BY <2>1, <2>2
<1>7. ASSUME NEW r \in Requests, originals'[r].status = "success"
      PROVE  \E a \in DOMAIN attempts' : attempts'[a].original = r /\ InTime(a)'
  <2>1. PICK a \in DOMAIN attempts : attempts[a].original = r /\ InTime(a)
    BY <1>1, <1>7 DEF AnswerInv
  <2> QED
    BY <1>3, <2>1, InTimeStays DEF DeadlineInv
<1> QED
  BY <1>6, <1>7 DEF AnswerInv

\* The server ends attempt a of request r.
LEMMA CompleteAnswers ==
    ASSUME TypeInv, TypeInv', DeadlineInv, DeadlineInv', TimerInv', ContinueInv, AnswerInv,
           NEW e, Effect(e), CompleteEffect(e)
    PROVE  AnswerInv'
<1>1. PICK a, r : a = e.value /\ r = attempts[a].original
  OBVIOUS
<1>2. /\ e.kind = "complete" /\ a \in DOMAIN attempts /\ r \in Requests
      /\ attempts[a].completed = NoTime /\ originals[r].status # "absent"
      /\ e.when \in Nat /\ e.when # NoTime
  BY <1>1, HandledFirst DEF CompleteEffect, NoTime, DeadlineInv, Known
<1>3. /\ DOMAIN attempts' = DOMAIN attempts
      /\ \A b \in DOMAIN attempts :
            /\ attempts'[b].original = attempts[b].original
            /\ attempts'[b].timed_out = attempts[b].timed_out
            /\ attempts'[b].completed = IF b = a THEN e.when ELSE attempts[b].completed
  BY <1>1 DEF CompleteEffect, AttemptEnded
<1>4. \A q \in Requests : q # r => originals'[q] = originals[q]
  BY <1>1 DEF CompleteEffect, SameRecord
<1>5. \/ ~attempts[a].timed_out /\ SettledNow(r, "success", e.when)
      \/ originals'[r] = originals[r] /\ (attempts[a].timed_out \/ originals[r].status # "pending")
  BY <1>1 DEF CompleteEffect, SameRecord
<1>6. originals'[r].arrived = originals[r].arrived
  BY <1>2, ArrivedStays
<1>7. \A f \in events' : f.kind = "complete" =>
            f \in events \ {e} \/ (f.when >= e.when /\ f.when \in Nat)
  <2>1. \A f \in events' : f.when \in Nat
    BY DEF TypeInv, TypeOK, EventType, Time
  <2> QED
    BY <2>1 DEF CompleteEffect
<1>8. InTime(a)' <=> SettledNow(r, "success", e.when)
  <2>1. InTime(a)' <=> /\ e.when <= attempts'[a].sent + AttemptTimeout
                       /\ e.when <= originals[r].arrived + OriginalDeadline
    BY <1>1, <1>2, <1>3, <1>6 DEF InTime
  <2>2. attempts[a].timed_out <=> e.when > attempts'[a].sent + AttemptTimeout
    <3>1. TimeoutOK(a)'
      BY <1>2, <1>3 DEF TimerInv
    <3> QED
      BY <1>2, <1>3, <3>1 DEF TimeoutOK, Limit
  <2>3. attempts'[a].sent + AttemptTimeout \in Nat
    <3>1. attempts'[a].sent = attempts[a].sent /\ attempts[a].sent \in Nat
      BY <1>2, AttemptsStep, AttemptFacts
    <3> QED
      BY <3>1, RetrySimAssumption
  <2>4. originals[r].arrived + OriginalDeadline \in Nat
    <3>1. originals[r].arrived \in 0..now /\ now \in Nat
      BY <1>2, HandledFirst DEF DeadlineInv, Known
    <3> QED
      BY <3>1, RetrySimAssumption
  <2>5. CASE ~attempts[a].timed_out /\ SettledNow(r, "success", e.when)
    <3>1. originals'[r].status = "success" /\ originals'[r].terminal_at = e.when
      BY <2>5 DEF SettledNow
    <3>2. "success" \in Terminal \ {"deadline_expired"}
      BY DEF Terminal
    <3>3. e.when \in originals[r].arrived..(originals[r].arrived + OriginalDeadline)
      BY <1>2, <1>6, <3>1, <3>2 DEF DeadlineInv, SettledInTime
    <3> QED
      BY <1>2, <2>1, <2>2, <2>3, <2>4, <2>5, <3>3
  <2>6. CASE originals'[r] = originals[r] /\ attempts[a].timed_out
    BY <1>2, <2>1, <2>2, <2>3, <2>6 DEF SettledNow
  <2>7. CASE /\ originals'[r] = originals[r] /\ ~attempts[a].timed_out
             /\ originals[r].status # "pending"
    <3>1. a \in LiveAttempts(r) /\ Closed(r)
      BY <1>1, <1>2, <2>7 DEF LiveAttempts, ContinueInv
    <3>2. originals[r].status = "deadline_expired"
      BY <1>2, <2>7, <3>1, TypeFacts DEF Closed, OriginalType
    <3>3. e.when > originals[r].arrived + OriginalDeadline
      BY <1>1, <1>2, <3>2, HandledFirst DEF AnswerInv, Answered, Due
    <3> QED
      BY <1>2, <2>1, <2>4, <2>7, <3>3 DEF SettledNow
  <2> QED
    BY <1>5, <2>5, <2>6, <2>7
<1>9. \A b \in DOMAIN attempts : b # a => (InTime(b)' <=> InTime(b))
  BY <1>3, InTimeStays DEF DeadlineInv
<1>10. ASSUME NEW b \in DOMAIN attempts' PROVE Answered(b)'
  <2>1. b \in DOMAIN attempts /\ attempts'[b].original = attempts[b].original
    BY <1>3
  <2>2. CASE b = a
    <3>1. InTime(a)' => originals'[r].status = "success" /\ originals'[r].terminal_at = e.when
      BY <1>8 DEF SettledNow
    <3> QED
      BY <1>1, <1>2, <1>3, <2>2, <3>1 DEF Answered
  <2>3. CASE b # a
    <3> DEFINE q == attempts[b].original
    <3>1. /\ Answered(b) /\ q \in Requests /\ attempts'[b].completed = attempts[b].completed
          /\ originals[q].status # "absent"
      BY <1>3, <2>1, <2>3, AttemptFacts DEF AnswerInv, DeadlineInv, Known
    <3>2. originals[q].status = "success" \/ originals[q].status = "deadline_expired"
            => originals'[q] = originals[q]
      BY <1>4, <1>5, <3>1 DEF SettledNow
    <3>3. InTime(b)' => originals'[q].status = "success"
                        /\ originals'[q].terminal_at = attempts[b].completed
      BY <1>9, <2>1, <2>3, <3>1, <3>2 DEF Answered
    <3>4. originals'[q].status = "deadline_expired" => originals[q] = originals'[q]
      BY <1>4, <1>5, <3>1 DEF SettledNow
    <3>5. ASSUME attempts[b].completed = NoTime, originals'[q].status = "deadline_expired",
                 NEW f \in events', f.kind = "complete"
          PROVE  f.when > originals[q].arrived + OriginalDeadline
      <4>1. \A g \in events : g.kind = "complete" => g.when > originals[q].arrived + OriginalDeadline
        BY <3>1, <3>4, <3>5 DEF Answered, Due
      <4>2. e.when > originals[q].arrived + OriginalDeadline
        BY <1>2, <4>1, HandledFirst
      <4>3. originals[q].arrived + OriginalDeadline \in Int
        <5>1. originals[q].arrived \in 0..now
          BY <3>1 DEF DeadlineInv, Known
        <5> QED
          BY <5>1, RetrySimAssumption
      <4> QED
        BY <1>2, <1>7, <3>5, <4>1, <4>2, <4>3
    <3> QED
      BY <2>1, <3>1, <3>3, <3>4, <3>5 DEF Answered, Due
  <2> QED
    BY <2>2, <2>3
<1>11. ASSUME NEW q \in Requests, originals'[q].status = "success"
       PROVE  \E b \in DOMAIN attempts' : attempts'[b].original = q /\ InTime(b)'
  <2>1. CASE q = r /\ SettledNow(r, "success", e.when)
    BY <1>1, <1>2, <1>3, <1>8, <2>1
  <2>2. CASE originals'[q] = originals[q]
    <3>1. PICK b \in DOMAIN attempts : attempts[b].original = q /\ InTime(b)
      BY <1>11, <2>2 DEF AnswerInv
    <3>2. b # a
      BY <1>2, <3>1 DEF InTime
    <3> QED
      BY <1>3, <1>9, <3>1, <3>2
  <2> QED
    BY <1>4, <1>5, <2>1, <2>2
<1> QED
  BY <1>10, <1>11 DEF AnswerInv

LEMMA InitAnswers == Init => AnswerInv
<1> SUFFICES ASSUME Init PROVE AnswerInv
  OBVIOUS
<1>1. attempts = << >>
  BY DEF Init
<1>2. DOMAIN attempts = {}
  BY <1>1
<1>3. \A r \in Requests : originals[r].status = "absent"
  BY DEF Init
<1> QED
  BY <1>2, <1>3 DEF AnswerInv

LEMMA RestAnswers == ASSUME AnswerInv, Rest PROVE AnswerInv'
BY DEF Rest, AnswerInv, Answered, InTime, Due

LEMMA AnswerInvariance == Spec => []AnswerInv
<1>1. /\ TypeInv /\ TypeInv' /\ ServerInv /\ ArrivesOnce /\ DeadlineInv /\ DeadlineInv'
      /\ TimerInv /\ TimerInv' /\ ContinueInv /\ AnswerInv /\ [Next]_vars
      => AnswerInv'
  BY Steps, OthersAnswer, CompleteAnswers, RestAnswers
<1> QED
  BY <1>1, InitAnswers, TypeInvariance, ServerInvariance, DeadlineInvariance, TimerInvariance,
     ContinueInvariance, PTL DEF Spec

\* A request succeeded exactly when one of its attempts was answered within the
\* attempt's timeout and by the request's deadline, at that very time: a late
\* answer never turns a failed request into a success, and no answer is missed.
THEOREM SuccessesExplained == Spec => []SuccessExplained
<1>1. AnswerInv => SuccessExplained
  BY DEF AnswerInv, Answered, SuccessExplained
<1> QED
  BY <1>1, AnswerInvariance, PTL
=============================================================================
