---------------------------- MODULE ApprovalProofs ----------------------------
(***************************************************************************)
(* The approval-scope lab.                                                 *)
(*                                                                         *)
(* parseTrace gives a faithful record of what the traced processes did, of *)
(* any number of them and of calls, in every interleaving, with process    *)
(* IDs that are used again: the halves it joins belong together.           *)
(*                                                                         *)
(* What main and observe record of the arms is true, and the controls      *)
(* vouch for the rest of it, whatever the sandbox denies and however often *)
(* an install goes another way.                                            *)
(*                                                                         *)
(* The parser folds the file and the arms filter their lists with a        *)
(* recursive function; that it has a value, and what a further line does   *)
(* to it, is shown by induction, which the prover only takes as a          *)
(* statement about sets.                                                   *)
(***************************************************************************)
EXTENDS ApprovalTrace, ApprovalArms, SequenceTheorems, WellFoundedInduction, TLAPS

LEMMA NatSets ==
    ASSUME NEW S, 0 \in S, \A n \in Nat : n \in S => n + 1 \in S
    PROVE  Nat \subseteq S
<1> DEFINE T == Nat \ S
<1>1. SUFFICES ASSUME T # {} PROVE FALSE
  OBVIOUS
<1>2. PICK x \in T : \A y \in T : <<y, x>> \notin OpToRel(<, Nat)
  <2>1. T \subseteq Nat
    OBVIOUS
  <2> HIDE DEF T
  <2> QED
    BY <1>1, <2>1, NatLessThanWellFounded, WFMin
<1>3. x \in Nat /\ x \notin S
  OBVIOUS
<1>4. x # 0
  BY <1>3
<1>5. x - 1 \in Nat /\ (x - 1) + 1 = x
  BY <1>3, <1>4
<1>6. x - 1 \in T
  BY <1>3, <1>5
<1>7. <<x - 1, x>> \in OpToRel(<, Nat)
  BY <1>3, <1>5 DEF OpToRel
<1> QED
  BY <1>2, <1>6, <1>7

-----------------------------------------------------------------------------
(* The fold.  *)

Nothing == [pending |-> [p \in Pids |-> NoCall], lines |-> << >>]

\* The state of the parser after i lines, when it was s after the line before.
After(trace, i, s) == IF i = 0 THEN Nothing ELSE JoinLine(s, trace[i])

Folds(g, trace, n) == g = [i \in 0..n |-> After(trace, i, g[i - 1])]

\* There are such states for every trace.
LEMMA FoldExists == ASSUME NEW trace, NEW k \in Nat PROVE \E g : Folds(g, trace, k)
<1> DEFINE S == {m \in Nat : \E g : Folds(g, trace, m)}
<1>1. 0 \in S
  <2>1. PICK g : g = [i \in 0..0 |-> Nothing]
    OBVIOUS
  <2>2. \A s : After(trace, 0, s) = Nothing
    BY DEF After
  <2>3. g = [i \in 0..0 |-> After(trace, i, g[i - 1])]
    BY <2>1, <2>2
  <2> QED
    BY <2>3 DEF Folds
<1>2. ASSUME NEW m \in Nat, m \in S PROVE m + 1 \in S
  <2>1. PICK g : Folds(g, trace, m)
    BY <1>2
  <2>2. PICK h : h = [i \in 0..(m + 1) |-> After(trace, i, g[i - 1])]
    OBVIOUS
  <2>3. \A i \in 0..m : h[i] = g[i]
    BY <2>1, <2>2 DEF Folds
  <2>4. ASSUME NEW i \in 0..(m + 1)
        PROVE  After(trace, i, g[i - 1]) = After(trace, i, h[i - 1])
    <3>1. CASE i = 0
      BY <3>1 DEF After
    <3>2. CASE i # 0
      <4>1. i - 1 \in 0..m
        BY <3>2
      <4> QED
        BY <2>3, <4>1
    <3> QED
      BY <3>1, <3>2
  <2>5. h = [i \in 0..(m + 1) |-> After(trace, i, h[i - 1])]
    BY <2>2, <2>4
  <2> QED
    BY <2>5 DEF Folds
<1> HIDE DEF S
<1>3. Nat \subseteq S
  BY <1>1, <1>2, NatSets
<1> QED
  BY <1>3 DEF S

LEMMA JoiningFolds ==
    ASSUME NEW trace, Len(trace) \in Nat
    PROVE  \E g : Folds(g, trace, Len(trace)) /\ Joining(trace) = g[Len(trace)]
<1> DEFINE
        state == CHOOSE g : g = [i \in 0..Len(trace) |->
                     IF i = 0 THEN [pending |-> [p \in Pids |-> NoCall], lines |-> << >>]
                     ELSE JoinLine(g[i - 1], trace[i])]
<1>1. Joining(trace) = state[Len(trace)]
  BY DEF Joining
<1>2. PICK f : Folds(f, trace, Len(trace))
  BY FoldExists
<1>3. f = [i \in 0..Len(trace) |->
                     IF i = 0 THEN [pending |-> [p \in Pids |-> NoCall], lines |-> << >>]
                     ELSE JoinLine(f[i - 1], trace[i])]
  BY <1>2 DEF Folds, After, Nothing
<1>4. state = [i \in 0..Len(trace) |->
                     IF i = 0 THEN [pending |-> [p \in Pids |-> NoCall], lines |-> << >>]
                     ELSE JoinLine(state[i - 1], trace[i])]
  BY <1>3
<1> HIDE DEF state
<1>5. Folds(state, trace, Len(trace))
  BY <1>4 DEF Folds, After, Nothing
<1> QED
  BY <1>1, <1>5

\* Before the first line.
LEMMA NothingJoined == Joining(<< >>) = Nothing
<1>1. PICK g : Folds(g, << >>, 0) /\ Joining(<< >>) = g[0]
  BY JoiningFolds
<1> QED
  BY <1>1 DEF Folds, After

\* A further line is joined to what the lines before gave.
LEMMA OneMoreLine ==
    ASSUME NEW L, NEW trace \in Seq(L), NEW line \in L
    PROVE  Joining(Append(trace, line)) = JoinLine(Joining(trace), line)
<1> DEFINE n == Len(trace)
<1>1. PICK longer : longer = Append(trace, line)
  OBVIOUS
<1>2. /\ n \in Nat /\ Len(longer) = n + 1 /\ longer[n + 1] = line
      /\ \A i \in 1..n : longer[i] = trace[i]
  BY <1>1, AppendProperties, LenProperties
<1>3. PICK g : Folds(g, trace, n) /\ Joining(trace) = g[n]
  BY <1>2, JoiningFolds
<1>4. PICK h : Folds(h, longer, n + 1) /\ Joining(longer) = h[n + 1]
  BY <1>2, JoiningFolds
<1> HIDE DEF n
<1>5. \A i \in 0..n : g[i] = After(trace, i, g[i - 1])
  BY <1>3 DEF Folds
<1>6. \A i \in 0..(n + 1) : h[i] = After(longer, i, h[i - 1])
  BY <1>4 DEF Folds
<1> DEFINE S == {i \in Nat : i <= n => g[i] = h[i]}
<1>7. 0 \in S
  <2>1. g[0] = Nothing /\ h[0] = Nothing
    BY <1>2, <1>5, <1>6 DEF After
  <2> QED
    BY <2>1
<1>8. ASSUME NEW i \in Nat, i \in S PROVE i + 1 \in S
  <2>1. SUFFICES ASSUME i + 1 <= n PROVE g[i + 1] = h[i + 1]
    OBVIOUS
  <2>2. g[i] = h[i] /\ (i + 1) - 1 = i /\ i + 1 # 0
    BY <1>2, <1>8, <2>1
  <2>3. i + 1 \in 1..n /\ i + 1 \in 0..n /\ i + 1 \in 0..(n + 1)
    BY <1>2, <2>1
  <2>4. g[i + 1] = JoinLine(g[i], trace[i + 1])
    BY <1>5, <2>2, <2>3 DEF After
  <2>5. h[i + 1] = JoinLine(h[i], longer[i + 1])
    BY <1>6, <2>2, <2>3 DEF After
  <2> QED
    BY <1>2, <2>2, <2>3, <2>4, <2>5
<1> HIDE DEF S
<1>9. n \in S
  BY <1>2, <1>7, <1>8, NatSets
<1>10. g[n] = h[n]
  BY <1>2, <1>9 DEF S
<1>11. n + 1 \in 0..(n + 1) /\ (n + 1) - 1 = n /\ n + 1 # 0
  BY <1>2
<1>12. h[n + 1] = JoinLine(h[n], longer[n + 1])
  BY <1>6, <1>11 DEF After
<1> QED
  BY <1>1, <1>2, <1>3, <1>4, <1>10, <1>12

-----------------------------------------------------------------------------
(* What the parser has of a file: the calls that returned and, of every call *)
(* that is cut short and goes on, the first half.                            *)

TraceLines == [form : {"whole", "unfinished", "resumed"}, pid : Pids,
               call : Calls \cup {NoCall}, return : Returns \cup {NoReturn}]
Ended == [pid : Pids, call : Calls, return : Returns]
Parsed == [pending : [Pids -> Calls \cup {NoCall}], lines : Seq(Ended)]

\* f says what has returned, and of the calls of these processes how they began.
Tells(f, processes) ==
    /\ f \in Seq(TraceLines)
    /\ Joining(f) \in Parsed
    /\ Joining(f).lines = returned
    /\ \A p \in processes : inside[p] # NoCall => Joining(f).pending[p] = inside[p]

TraceInv ==
    /\ inside \in [Pids -> Calls \cup {NoCall}]
    /\ printing \in Pids \cup {Nobody}
    /\ printing # Nobody => inside[printing] # NoCall
    /\ returned \in Seq(Ended)
    /\ Tells(file, Pids \ {printing})

LEMMA NoCallApart == NoCall \notin Calls /\ \A c \in Calls : c.name # "none"
BY ApprovalTraceAssumption DEF NoCall

LEMMA InitTrace == Init => TraceInv
<1> SUFFICES ASSUME Init PROVE TraceInv
  OBVIOUS
<1> USE DEF Init
<1>1. inside \in [Pids -> Calls \cup {NoCall}] /\ \A p \in Pids : inside[p] = NoCall
  OBVIOUS
<1>2. file \in Seq(TraceLines) /\ returned \in Seq(Ended)
  BY EmptySeq
<1>3. Joining(file) = [pending |-> [p \in Pids |-> NoCall], lines |-> << >>]
  BY NothingJoined DEF Nothing
<1>4. Joining(file) \in Parsed /\ Joining(file).lines = << >>
  <2>1. PICK empty \in Seq(Ended) : empty = << >>
    BY <1>2
  <2>2. PICK pending \in [Pids -> Calls \cup {NoCall}] : pending = [p \in Pids |-> NoCall]
    OBVIOUS
  <2>3. Joining(file) = [pending |-> pending, lines |-> empty]
    BY <1>3, <2>1, <2>2
  <2>4. [pending |-> pending, lines |-> empty] \in Parsed
    BY <2>1, <2>2 DEF Parsed
  <2> QED
    BY <2>1, <2>3, <2>4
<1> QED
  BY <1>1, <1>2, <1>4 DEF TraceInv, Tells

\* The three forms of a line, and what each adds.
HalfHeld(new, f, p, call) ==
    /\ new \in Seq(TraceLines) /\ Joining(new) \in Parsed
    /\ Joining(new).lines = Joining(f).lines
    /\ Joining(new).pending = [Joining(f).pending EXCEPT ![p] = call]
WholeAdded(new, f, p, call, return) ==
    /\ new \in Seq(TraceLines) /\ Joining(new) \in Parsed
    /\ Joining(new).lines =
         Append(Joining(f).lines, [pid |-> p, call |-> call, return |-> return])
    /\ Joining(new).pending = Joining(f).pending
HalvesJoined(new, f, p, return) ==
    /\ new \in Seq(TraceLines) /\ Joining(new) \in Parsed
    /\ Joining(new).lines =
         Append(Joining(f).lines,
                [pid |-> p, call |-> Joining(f).pending[p], return |-> return])
    /\ Joining(new).pending = [Joining(f).pending EXCEPT ![p] = NoCall]

LEMMA UnfinishedTells ==
    ASSUME NEW f \in Seq(TraceLines), Joining(f) \in Parsed, NEW p \in Pids, NEW call \in Calls,
           NEW new, new = Append(f, Line("unfinished", p, call, NoReturn))
    PROVE  HalfHeld(new, f, p, call)
<1>1. PICK line : line = Line("unfinished", p, call, NoReturn)
  OBVIOUS
<1>2. line \in TraceLines
  BY <1>1 DEF TraceLines, Line
<1>3. new \in Seq(TraceLines)
  BY <1>1, <1>2, AppendProperties
<1>4. Joining(new) = JoinLine(Joining(f), line)
  BY <1>1, <1>2, OneMoreLine
<1>5. PICK state \in Parsed : state = Joining(f)
  OBVIOUS
<1>6. line.form = "unfinished" /\ line.pid = p /\ line.call = call
  BY <1>1 DEF Line
<1>7. JoinLine(state, line) = [state EXCEPT !.pending = [state.pending EXCEPT ![p] = call]]
  BY <1>6 DEF JoinLine, Hold
<1>8. PICK new_pending \in [Pids -> Calls \cup {NoCall}] :
            new_pending = [state.pending EXCEPT ![p] = call]
  BY DEF Parsed
<1>9. PICK next : next = [state EXCEPT !.pending = new_pending]
  OBVIOUS
<1>10. next \in Parsed /\ next.lines = state.lines /\ next.pending = new_pending
  BY <1>9 DEF Parsed
<1> QED
  BY <1>3, <1>4, <1>5, <1>7, <1>8, <1>9, <1>10 DEF HalfHeld

LEMMA WholeTells ==
    ASSUME NEW f \in Seq(TraceLines), Joining(f) \in Parsed, NEW p \in Pids, NEW call \in Calls,
           NEW return \in Returns,
           NEW new, new = Append(f, Line("whole", p, call, return))
    PROVE  WholeAdded(new, f, p, call, return)
<1>1. PICK line : line = Line("whole", p, call, return)
  OBVIOUS
<1>2. line \in TraceLines
  BY <1>1 DEF TraceLines, Line
<1>3. new \in Seq(TraceLines)
  BY <1>1, <1>2, AppendProperties
<1>4. Joining(new) = JoinLine(Joining(f), line)
  BY <1>1, <1>2, OneMoreLine
<1>5. PICK state \in Parsed : state = Joining(f)
  OBVIOUS
<1>6. line.form = "whole" /\ line.pid = p /\ line.call = call /\ line.return = return
  BY <1>1 DEF Line
<1>7. PICK ended \in Ended : ended = [pid |-> p, call |-> call, return |-> return]
  BY DEF Ended
<1>8. JoinLine(state, line) = [state EXCEPT !.lines = Append(state.lines, ended)]
  BY <1>6, <1>7 DEF JoinLine, Joined
<1>9. PICK new_lines \in Seq(Ended) : new_lines = Append(state.lines, ended)
  BY AppendProperties DEF Parsed
<1>10. PICK next : next = [state EXCEPT !.lines = new_lines]
  OBVIOUS
<1>11. next \in Parsed /\ next.lines = new_lines /\ next.pending = state.pending
  BY <1>10 DEF Parsed
<1> QED
  BY <1>3, <1>4, <1>5, <1>7, <1>8, <1>9, <1>10, <1>11 DEF WholeAdded

LEMMA ResumedTells ==
    ASSUME NEW f \in Seq(TraceLines), Joining(f) \in Parsed, NEW p \in Pids,
           Joining(f).pending[p] \in Calls, NEW return \in Returns,
           NEW new, new = Append(f, Line("resumed", p, NoCall, return))
    PROVE  HalvesJoined(new, f, p, return)
<1>1. PICK line : line = Line("resumed", p, NoCall, return)
  OBVIOUS
<1>2. line \in TraceLines
  BY <1>1 DEF TraceLines, Line
<1>3. new \in Seq(TraceLines)
  BY <1>1, <1>2, AppendProperties
<1>4. Joining(new) = JoinLine(Joining(f), line)
  BY <1>1, <1>2, OneMoreLine
<1>5. PICK state \in Parsed : state = Joining(f)
  OBVIOUS
<1>6. line.form = "resumed" /\ line.pid = p /\ line.return = return
  BY <1>1 DEF Line
<1>7. PICK ended \in Ended : ended = [pid |-> p, call |-> state.pending[p], return |-> return]
  BY <1>5 DEF Ended
<1>8. JoinLine(state, line) = [pending |-> [state.pending EXCEPT ![p] = NoCall],
                               lines |-> Append(state.lines, ended)]
  BY <1>6, <1>7 DEF JoinLine, Resume, Joined
<1>9. PICK new_lines \in Seq(Ended) : new_lines = Append(state.lines, ended)
  BY AppendProperties DEF Parsed
<1>10. PICK new_pending \in [Pids -> Calls \cup {NoCall}] :
            new_pending = [state.pending EXCEPT ![p] = NoCall]
  BY DEF Parsed
<1>11. PICK next : next = [pending |-> new_pending, lines |-> new_lines]
  OBVIOUS
<1>12. next \in Parsed /\ next.lines = new_lines /\ next.pending = new_pending
  BY <1>11 DEF Parsed
<1> QED
  BY <1>3, <1>4, <1>5, <1>7, <1>8, <1>9, <1>10, <1>11, <1>12 DEF HalvesJoined

-----------------------------------------------------------------------------
\* An event of p leaves the file telling of every other process, and of p when
\* p's own line was cut short before.
LEMMA InterruptedTells ==
    ASSUME TraceInv, NEW p \in Pids
    PROVE  Tells(Interrupted(p), {q \in Pids : q = p => printing # p})
<1> DEFINE others == {q \in Pids : q = p => printing # p}
<1>1. Tells(file, Pids \ {printing})
  BY DEF TraceInv
<1>2. CASE printing \in {Nobody, p}
  <2>1. others \subseteq Pids \ {printing}
    BY <1>2, ApprovalTraceAssumption
  <2> QED
    BY <1>1, <1>2, <2>1 DEF Tells, Interrupted
<1>3. CASE printing \notin {Nobody, p}
  <2>1. printing \in Pids /\ inside[printing] \in Calls
    BY <1>3 DEF TraceInv
  <2>2. PICK new : new = Interrupted(p)
    OBVIOUS
  <2>3. new = Append(file, Line("unfinished", printing, inside[printing], NoReturn))
    BY <1>3, <2>2 DEF Interrupted
  <2>4. file \in Seq(TraceLines) /\ Joining(file) \in Parsed /\ Joining(file).lines = returned
    BY <1>1 DEF Tells
  <2>5. /\ new \in Seq(TraceLines) /\ Joining(new) \in Parsed
        /\ Joining(new).lines = returned
        /\ Joining(new).pending = [Joining(file).pending EXCEPT ![printing] = inside[printing]]
    <3>1. HalfHeld(new, file, printing, inside[printing])
      BY <2>1, <2>3, <2>4, UnfinishedTells
    <3> QED
      BY <2>4, <3>1 DEF HalfHeld
  <2>6. Joining(file).pending \in [Pids -> Calls \cup {NoCall}]
    BY <2>4 DEF Parsed
  <2>7. ASSUME NEW q \in others, inside[q] # NoCall PROVE Joining(new).pending[q] = inside[q]
    <3>1. CASE q = printing
      BY <2>1, <2>5, <2>6, <3>1
    <3>2. CASE q # printing
      <4>1. Joining(file).pending[q] = inside[q]
        BY <1>1, <2>7, <3>2 DEF Tells
      <4> QED
        BY <2>1, <2>5, <2>6, <3>2, <4>1
    <3> QED
      BY <3>1, <3>2
  <2> QED
    BY <2>2, <2>5, <2>7 DEF Tells
<1> QED
  BY <1>2, <1>3

LEMMA EnterTrace ==
    ASSUME TraceInv, NEW p \in Pids, NEW call \in Calls, Enter(p, call)
    PROVE  TraceInv'
<1>1. /\ inside \in [Pids -> Calls \cup {NoCall}] /\ inside[p] = NoCall
      /\ inside' = [inside EXCEPT ![p] = call]
      /\ file' = Interrupted(p) /\ printing' = p /\ returned' = returned
  BY DEF Enter, TraceInv
<1>2. inside' \in [Pids -> Calls \cup {NoCall}] /\ inside'[p] # NoCall
  BY <1>1, NoCallApart
<1>3. Tells(Interrupted(p), {q \in Pids : q = p => printing # p})
  BY InterruptedTells
<1>4. PICK new : new = Interrupted(p)
  OBVIOUS
<1>5. /\ new \in Seq(TraceLines) /\ Joining(new) \in Parsed /\ Joining(new).lines = returned
      /\ \A q \in Pids \ {p} : inside[q] # NoCall => Joining(new).pending[q] = inside[q]
  BY <1>3, <1>4 DEF Tells
<1>6. \A q \in Pids \ {p} : inside'[q] = inside[q]
  BY <1>1
<1>7. file' = new
  BY <1>1, <1>4
<1>8. Tells(file, Pids \ {printing})'
  BY <1>1, <1>5, <1>6, <1>7 DEF Tells
<1>9. returned' \in Seq(Ended)
  BY <1>1 DEF TraceInv
<1> QED
  BY <1>1, <1>2, <1>8, <1>9 DEF TraceInv

\* A call ends: its line is printed, or its second half, which finds the first.
LEMMA ReturnTrace ==
    ASSUME TraceInv, NEW p \in Pids, NEW return \in Returns, Return(p, return)
    PROVE  TraceInv'
<1>1. /\ inside \in [Pids -> Calls \cup {NoCall}] /\ inside[p] # NoCall
      /\ inside' = [inside EXCEPT ![p] = NoCall] /\ printing' = Nobody
      /\ returned' = Append(returned, [pid |-> p, call |-> inside[p], return |-> return])
      /\ returned \in Seq(Ended)
  BY DEF Return, TraceInv
<1>2. /\ inside' \in [Pids -> Calls \cup {NoCall}] /\ inside'[p] = NoCall
      /\ \A q \in Pids \ {p} : inside'[q] = inside[q]
      /\ inside[p] \in Calls
  BY <1>1
<1>3. PICK ended \in Ended : ended = [pid |-> p, call |-> inside[p], return |-> return]
  BY <1>2 DEF Ended
<1>4. returned' \in Seq(Ended) /\ returned' = Append(returned, ended)
  BY <1>1, <1>3, AppendProperties
<1>5. PICK new : new = file'
  OBVIOUS
<1>6. /\ new \in Seq(TraceLines) /\ Joining(new) \in Parsed
      /\ Joining(new).lines = returned'
      /\ \A q \in Pids \ {p} : inside[q] # NoCall => Joining(new).pending[q] = inside[q]
  <2>1. CASE printing = p
    <3>1. new = Append(file, Line("whole", p, inside[p], return))
      BY <1>5, <2>1 DEF Return
    <3>2. /\ file \in Seq(TraceLines) /\ Joining(file) \in Parsed
          /\ Joining(file).lines = returned
          /\ \A q \in Pids \ {p} : inside[q] # NoCall => Joining(file).pending[q] = inside[q]
      BY <2>1 DEF TraceInv, Tells
    <3>3. /\ new \in Seq(TraceLines) /\ Joining(new) \in Parsed
          /\ Joining(new).lines =
                Append(Joining(file).lines, [pid |-> p, call |-> inside[p], return |-> return])
          /\ Joining(new).pending = Joining(file).pending
      <4>1. WholeAdded(new, file, p, inside[p], return)
        BY <1>2, <3>1, <3>2, WholeTells
      <4> QED
        BY <4>1 DEF WholeAdded
    <3> QED
      BY <1>1, <3>2, <3>3
  <2>2. CASE printing # p
    <3>1. PICK f : f = Interrupted(p)
      OBVIOUS
    <3>2. new = Append(f, Line("resumed", p, NoCall, return))
      BY <1>5, <2>2, <3>1 DEF Return
    <3>3. /\ f \in Seq(TraceLines) /\ Joining(f) \in Parsed
          /\ Joining(f).lines = returned
          /\ \A q \in Pids : inside[q] # NoCall => Joining(f).pending[q] = inside[q]
      BY <2>2, <3>1, InterruptedTells DEF Tells
    <3>4. Joining(f).pending[p] = inside[p]
      BY <1>1, <3>3
    <3>5. /\ new \in Seq(TraceLines) /\ Joining(new) \in Parsed
          /\ Joining(new).lines =
                Append(Joining(f).lines,
                       [pid |-> p, call |-> Joining(f).pending[p], return |-> return])
          /\ Joining(new).pending = [Joining(f).pending EXCEPT ![p] = NoCall]
      <4>1. HalvesJoined(new, f, p, return)
        BY <1>2, <3>2, <3>3, <3>4, ResumedTells
      <4> QED
        BY <4>1 DEF HalvesJoined
    <3>6. Joining(f).pending \in [Pids -> Calls \cup {NoCall}]
      BY <3>3 DEF Parsed
    <3>7. \A q \in Pids \ {p} : Joining(new).pending[q] = Joining(f).pending[q]
      BY <3>5, <3>6
    <3> QED
      BY <1>1, <3>3, <3>4, <3>5, <3>7
  <2> QED
    BY <2>1, <2>2
<1>7. Tells(file, Pids \ {printing})'
  BY <1>2, <1>5, <1>6 DEF Tells
<1> QED
  BY <1>1, <1>2, <1>4, <1>7 DEF TraceInv

\* A first half that is left behind is no call of the process that gets the ID.
LEMMA KilledTrace == ASSUME TraceInv, NEW p \in Pids, Killed(p) PROVE TraceInv'
<1>1. /\ inside \in [Pids -> Calls \cup {NoCall}] /\ inside[p] # NoCall
      /\ inside' = [inside EXCEPT ![p] = NoCall] /\ printing' = Nobody
      /\ returned' = returned
  BY DEF Killed, TraceInv
<1>2. /\ inside' \in [Pids -> Calls \cup {NoCall}] /\ inside'[p] = NoCall
      /\ \A q \in Pids \ {p} : inside'[q] = inside[q]
      /\ inside[p] \in Calls
  BY <1>1
<1>3. PICK new : new = file'
  OBVIOUS
<1>4. /\ new \in Seq(TraceLines) /\ Joining(new) \in Parsed
      /\ Joining(new).lines = returned
      /\ \A q \in Pids \ {p} : inside[q] # NoCall => Joining(new).pending[q] = inside[q]
  <2>1. CASE printing = p
    <3>1. new = Append(file, Line("unfinished", p, inside[p], NoReturn))
      BY <1>3, <2>1 DEF Killed
    <3>2. /\ file \in Seq(TraceLines) /\ Joining(file) \in Parsed
          /\ Joining(file).lines = returned
          /\ \A q \in Pids \ {p} : inside[q] # NoCall => Joining(file).pending[q] = inside[q]
      BY <2>1 DEF TraceInv, Tells
    <3>3. /\ new \in Seq(TraceLines) /\ Joining(new) \in Parsed
          /\ Joining(new).lines = Joining(file).lines
          /\ Joining(new).pending = [Joining(file).pending EXCEPT ![p] = inside[p]]
      <4>1. HalfHeld(new, file, p, inside[p])
        BY <1>2, <3>1, <3>2, UnfinishedTells
      <4> QED
        BY <4>1 DEF HalfHeld
    <3>4. Joining(file).pending \in [Pids -> Calls \cup {NoCall}]
      BY <3>2 DEF Parsed
    <3>5. \A q \in Pids \ {p} : Joining(new).pending[q] = Joining(file).pending[q]
      BY <3>3, <3>4
    <3> QED
      BY <3>2, <3>3, <3>5
  <2>2. CASE printing # p
    <3>1. new = Interrupted(p)
      BY <1>3, <2>2 DEF Killed
    <3> QED
      BY <2>2, <3>1, InterruptedTells DEF Tells
  <2> QED
    BY <2>1, <2>2
<1>5. Tells(file, Pids \ {printing})'
  BY <1>1, <1>2, <1>3, <1>4 DEF Tells
<1>6. returned' \in Seq(Ended)
  BY <1>1 DEF TraceInv
<1> QED
  BY <1>1, <1>2, <1>5, <1>6 DEF TraceInv

LEMMA NextTrace == TraceInv /\ [Next]_vars => TraceInv'
<1> SUFFICES ASSUME TraceInv, [Next]_vars PROVE TraceInv'
  OBVIOUS
<1>1. CASE UNCHANGED vars
  BY <1>1 DEF vars, TraceInv, Tells
<1>2. ASSUME NEW p \in Pids, NEW call \in Calls, Enter(p, call) PROVE TraceInv'
  BY <1>2, EnterTrace
<1>3. ASSUME NEW p \in Pids, NEW return \in Returns, Return(p, return) PROVE TraceInv'
  BY <1>3, ReturnTrace
<1>4. ASSUME NEW p \in Pids, Killed(p) PROVE TraceInv'
  BY <1>4, KilledTrace
<1> QED
  BY <1>1, <1>2, <1>3, <1>4 DEF Next

\* The lines of the file are the calls that returned.
LEMMA TraceInvariance == Spec => []TraceInv
BY InitTrace, NextTrace, PTL DEF Spec

LEMMA WhatReturned ==
    ASSUME TraceInv
    PROVE  /\ Lines(file) = returned
           /\ \A i \in DOMAIN returned : returned[i] \in Ended
BY ElementOfSeq DEF TraceInv, Tells, Lines

-----------------------------------------------------------------------------
\* When strace prints failures, and only failures, as -1, the record lists the
\* programs that were started and by whom, in order, and nothing else, whatever
\* the number of processes and of calls, their interleaving, their deaths and the
\* reuse of their IDs.  Where a result can be printed as a question mark this is
\* false, as the run approval_interrupted shows.
THEOREM ExecsAreExact == ResultsKnown => (Spec => []ExecsExact)
<1> SUFFICES ASSUME ResultsKnown PROVE Spec => []ExecsExact
  OBVIOUS
<1>1. TraceInv => ExecsExact
  <2> SUFFICES ASSUME TraceInv PROVE ExecsExact
    OBVIOUS
  <2>1. \A i \in DOMAIN returned : IsExec(returned[i]) <=> Started(returned[i])
    BY WhatReturned DEF ResultsKnown, Ended, IsExec, ok, Started
  <2>2. PICK wanted : /\ wanted = {i \in DOMAIN returned : IsExec(returned[i])}
                      /\ wanted = {i \in DOMAIN returned : Started(returned[i])}
    BY <2>1
  <2> QED
    BY <2>2, WhatReturned DEF ExecsExact, execs, Exec
<1> QED
  BY <1>1, TraceInvariance, PTL

\* Under the same condition the record lists every attempt to change a file, its
\* process and its result, and no call that could not change one.
THEOREM MutationsAreExact == ResultsKnown => (Spec => []MutationsExact)
<1> SUFFICES ASSUME ResultsKnown PROVE Spec => []MutationsExact
  OBVIOUS
<1>1. TraceInv => MutationsExact
  <2> SUFFICES ASSUME TraceInv PROVE MutationsExact
    OBVIOUS
  <2>1. ASSUME NEW i \in DOMAIN returned
        PROVE  /\ IsMutation(returned[i]) <=> Attempt(returned[i])
               /\ Mutation(returned[i]) =
                    [pid |-> returned[i].pid, call |-> returned[i].call.name,
                     path |-> returned[i].call.path, ok |-> returned[i].return.ok,
                     errno |-> returned[i].return.errno]
    <3>1. returned[i] \in Ended
      BY WhatReturned
    <3>2. PICK call \in Calls : call = returned[i].call
      BY <3>1 DEF Ended
    <3>3. PICK return \in Returns : return = returned[i].return
      BY <3>1 DEF Ended
    <3>4. call.name # NoCall.name /\ (call.name \notin {"execve", "openat"} => call.writes)
      BY ApprovalTraceAssumption
    <3>5. IsMutation(returned[i]) <=> Attempt(returned[i])
      BY <3>2, <3>3, <3>4 DEF IsMutation, Attempt
    <3>6. return.ok = (return.text # "-1") /\ (return.ok => return.errno = "null")
      BY DEF ResultsKnown
    <3>7. (IF return.text # "-1" THEN "null" ELSE return.errno) = return.errno
      BY <3>6
    <3> QED
      BY <3>2, <3>3, <3>5, <3>6, <3>7 DEF Mutation, ok
  <2>2. PICK wanted : /\ wanted = {i \in DOMAIN returned : IsMutation(returned[i])}
                      /\ wanted = {i \in DOMAIN returned : Attempt(returned[i])}
    BY <2>1
  <2>3. [i \in DOMAIN returned |-> Mutation(returned[i])] =
        [i \in DOMAIN returned |->
                    [pid |-> returned[i].pid, call |-> returned[i].call.name,
                     path |-> returned[i].call.path, ok |-> returned[i].return.ok,
                     errno |-> returned[i].return.errno]]
    BY <2>1
  <2> QED
    BY <2>2, <2>3, WhatReturned DEF MutationsExact, mutations
<1> QED
  BY <1>1, TraceInvariance, PTL

-----------------------------------------------------------------------------
(* The arms: what Only keeps of a sequence, and what one more element adds.   *)

Part(s, S, i, k) == IF i = 0 THEN << >> ELSE IF s[i] \in S THEN Append(k, s[i]) ELSE k

Parts(g, s, S, n) == g = [i \in 0..n |-> Part(s, S, i, g[i - 1])]

LEMMA PartsExist == ASSUME NEW s, NEW S, NEW n \in Nat PROVE \E g : Parts(g, s, S, n)
<1> DEFINE T == {m \in Nat : \E g : Parts(g, s, S, m)}
<1>1. 0 \in T
  <2>1. PICK g : g = [i \in 0..0 |-> << >>]
    OBVIOUS
  <2>2. \A k : Part(s, S, 0, k) = << >>
    BY DEF Part
  <2>3. g = [i \in 0..0 |-> Part(s, S, i, g[i - 1])]
    BY <2>1, <2>2
  <2> QED
    BY <2>3 DEF Parts
<1>2. ASSUME NEW m \in Nat, m \in T PROVE m + 1 \in T
  <2>1. PICK g : Parts(g, s, S, m)
    BY <1>2
  <2>2. PICK h : h = [i \in 0..(m + 1) |->
                          IF i = m + 1 THEN Part(s, S, m + 1, g[m]) ELSE g[i]]
    OBVIOUS
  <2>3. ASSUME NEW i \in 0..(m + 1) PROVE h[i] = Part(s, S, i, h[i - 1])
    <3>1. CASE i = m + 1
      BY <2>2, <3>1
    <3>2. CASE i # m + 1
      <4>1. i \in 0..m /\ h[i] = g[i] /\ g[i] = Part(s, S, i, g[i - 1])
        BY <2>1, <2>2, <3>2 DEF Parts
      <4>2. i # 0 => h[i - 1] = g[i - 1]
        BY <2>2, <3>2
      <4> QED
        BY <4>1, <4>2 DEF Part
    <3> QED
      BY <3>1, <3>2
  <2>4. h = [i \in 0..(m + 1) |-> Part(s, S, i, h[i - 1])]
    BY <2>2, <2>3
  <2> QED
    BY <2>4 DEF Parts
<1> QED
  <2> HIDE DEF T
  <2>1. Nat \subseteq T
    BY <1>1, <1>2, NatSets
  <2> QED
    BY <2>1 DEF T

Alike(s, t, n) == \A i \in 1..n : s[i] = t[i]

\* Two such sequences agree as far as both go.
LEMMA PartsAgree ==
    ASSUME NEW s, NEW t, NEW S, NEW n \in Nat, NEW m \in Nat, n <= m, Alike(s, t, n),
           NEW g, Parts(g, s, S, n), NEW h, Parts(h, t, S, m)
    PROVE  g[n] = h[n]
<1> DEFINE T == {k \in Nat : k <= n => g[k] = h[k]}
<1>1. /\ \A i \in 0..n : g[i] = Part(s, S, i, g[i - 1])
      /\ \A i \in 0..m : h[i] = Part(t, S, i, h[i - 1])
  BY DEF Parts
<1>2. 0 \in T
  BY <1>1 DEF Part
<1>3. ASSUME NEW k \in Nat, k \in T PROVE k + 1 \in T
  <2>1. SUFFICES ASSUME k + 1 <= n PROVE g[k + 1] = h[k + 1]
    OBVIOUS
  <2>2. g[k] = h[k] /\ s[k + 1] = t[k + 1]
    BY <1>3, <2>1 DEF Alike
  <2>3. /\ g[k + 1] = Part(s, S, k + 1, g[k])
        /\ h[k + 1] = Part(t, S, k + 1, h[k])
    BY <1>1, <2>1
  <2> QED
    BY <2>2, <2>3 DEF Part
<1> QED
  <2> HIDE DEF T
  <2>1. n \in T
    BY <1>2, <1>3, NatSets
  <2> QED
    BY <2>1 DEF T

LEMMA OnlyParts ==
    ASSUME NEW X, NEW s \in Seq(X), NEW S
    PROVE  \E g : Parts(g, s, S, Len(s)) /\ Only(s, S) = g[Len(s)]
<1> DEFINE n == Len(s)
           g == CHOOSE g : g = [i \in 0..n |-> IF i = 0 THEN << >>
                    ELSE IF s[i] \in S THEN Append(g[i - 1], s[i]) ELSE g[i - 1]]
<1>1. n \in Nat
  OBVIOUS
<1>2. PICK h : Parts(h, s, S, n)
  BY <1>1, PartsExist
<1>3. h = [i \in 0..n |-> IF i = 0 THEN << >>
                    ELSE IF s[i] \in S THEN Append(h[i - 1], s[i]) ELSE h[i - 1]]
  BY <1>2 DEF Parts, Part
<1>4. g = [i \in 0..n |-> IF i = 0 THEN << >>
                    ELSE IF s[i] \in S THEN Append(g[i - 1], s[i]) ELSE g[i - 1]]
  BY <1>3
<1>5. Only(s, S) = g[n]
  BY DEF Only
<1>6. Parts(g, s, S, n)
  BY <1>4 DEF Parts, Part
<1> QED
  BY <1>5, <1>6

LEMMA OnlyEmpty == ASSUME NEW S PROVE Only(<< >>, S) = << >>
<1>1. << >> \in Seq({}) /\ Len(<< >>) = 0
  OBVIOUS
<1>2. PICK g : Parts(g, << >>, S, 0) /\ Only(<< >>, S) = g[0]
  BY <1>1, OnlyParts
<1> QED
  BY <1>2 DEF Parts, Part

LEMMA OnlyAppend ==
    ASSUME NEW X, NEW s \in Seq(X), NEW x \in X, NEW S, NEW t, t = Append(s, x)
    PROVE  Only(t, S) = IF x \in S THEN Append(Only(s, S), x) ELSE Only(s, S)
<1>1. PICK n \in Nat : n = Len(s)
  OBVIOUS
<1>2. /\ t \in Seq(X) /\ Len(t) = n + 1 /\ t[n + 1] = x
      /\ Alike(s, t, n)
  BY <1>1 DEF Alike
<1>3. PICK g : Parts(g, s, S, n) /\ Only(s, S) = g[n]
  BY <1>1, OnlyParts
<1>4. PICK m \in Nat : m = n + 1 /\ n <= m
  OBVIOUS
<1>5. PICK h : Parts(h, t, S, m) /\ Only(t, S) = h[m]
  BY <1>2, <1>4, OnlyParts
<1>6. g[n] = h[n]
  BY <1>2, <1>3, <1>4, <1>5, PartsAgree
<1>7. h[m] = Part(t, S, m, h[n])
  BY <1>4, <1>5 DEF Parts
<1> QED
  BY <1>2, <1>3, <1>4, <1>5, <1>6, <1>7 DEF Part

Kept(s, S, i, k) ==
    /\ k \in Seq(S)
    /\ \A j \in 1..i : s[j] \in S => \E l \in 1..Len(k) : k[l] = s[j]

LEMMA KeptStep ==
    ASSUME NEW X, NEW s \in Seq(X), NEW S, NEW i \in Nat, i + 1 \in 1..Len(s),
           NEW k, Kept(s, S, i, k)
    PROVE  Kept(s, S, i + 1, Part(s, S, i + 1, k))
<1>1. k \in Seq(S) /\ i + 1 # 0
  BY DEF Kept
<1>2. CASE s[i + 1] \notin S
  BY <1>1, <1>2 DEF Kept, Part
<1>3. CASE s[i + 1] \in S
  <2>1. PICK x \in S : x = s[i + 1]
    BY <1>3
  <2>2. PICK m : m = Append(k, x)
    OBVIOUS
  <2>3. /\ m \in Seq(S) /\ Len(m) = Len(k) + 1 /\ m[Len(k) + 1] = x
        /\ Len(k) \in Nat /\ \A l \in 1..Len(k) : m[l] = k[l]
    BY <1>1, <2>2
  <2>4. ASSUME NEW j \in 1..(i + 1), s[j] \in S PROVE \E l \in 1..Len(m) : m[l] = s[j]
    <3>1. CASE j = i + 1
      BY <2>1, <2>3, <3>1
    <3>2. CASE j \in 1..i
      <4>1. PICK l \in 1..Len(k) : k[l] = s[j]
        BY <2>4, <3>2 DEF Kept
      <4> QED
        BY <2>3, <4>1
    <3> QED
      BY <3>1, <3>2
  <2>5. Part(s, S, i + 1, k) = m
    BY <1>1, <1>3, <2>1, <2>2 DEF Part
  <2> QED
    BY <2>3, <2>4, <2>5 DEF Kept
<1> QED
  BY <1>2, <1>3

\* Only drops nothing that is in S and keeps nothing else.
LEMMA OnlyKept ==
    ASSUME NEW X, NEW s \in Seq(X), NEW S
    PROVE  Kept(s, S, Len(s), Only(s, S))
<1>1. PICK n \in Nat : n = Len(s)
  OBVIOUS
<1>2. PICK g : Parts(g, s, S, n) /\ Only(s, S) = g[n]
  BY <1>1, OnlyParts
<1> DEFINE T == {i \in Nat : i <= n => Kept(s, S, i, g[i])}
<1>3. \A i \in 0..n : g[i] = Part(s, S, i, g[i - 1])
  BY <1>2 DEF Parts
<1>4. 0 \in T
  <2>1. g[0] = << >>
    BY <1>3 DEF Part
  <2>2. Kept(s, S, 0, << >>)
    BY DEF Kept
  <2> QED
    BY <2>1, <2>2
<1>5. ASSUME NEW i \in Nat, i \in T PROVE i + 1 \in T
  <2>1. SUFFICES ASSUME i + 1 <= n PROVE Kept(s, S, i + 1, g[i + 1])
    OBVIOUS
  <2>2. Kept(s, S, i, g[i]) /\ i + 1 \in 1..Len(s)
    BY <1>1, <1>5, <2>1
  <2>3. g[i + 1] = Part(s, S, i + 1, g[i])
    BY <1>3, <2>1
  <2> HIDE DEF T
  <2>4. PICK k : k = g[i]
    OBVIOUS
  <2>5. Kept(s, S, i + 1, Part(s, S, i + 1, k))
    BY <2>2, <2>4, KeptStep
  <2> QED
    BY <2>3, <2>4, <2>5
<1> QED
  <2> HIDE DEF T
  <2>1. n \in T
    BY <1>4, <1>5, NatSets
  <2> QED
    BY <1>1, <1>2, <2>1 DEF T

-----------------------------------------------------------------------------
(* The arms of an experiment.                                                *)

Arms == ToSet(ARMS)
ScriptNames == ToSet(AllScripts)

Tools == {"npm", "pnpm"}

IsArm(x) == x.tool \in Tools /\ x.control \in BOOLEAN /\ x.allowDepBuild \in BOOLEAN

LEMMA Elements ==
    ASSUME NEW X, NEW s \in Seq(X)
    PROVE  /\ ToSet(s) \subseteq X /\ s \in Seq(ToSet(s))
           /\ \A i \in 1..Len(s) : s[i] \in X /\ s[i] \in ToSet(s)
<1>1. /\ DOMAIN s = 1..Len(s) /\ Len(s) \in Nat
      /\ \A i \in 1..Len(s) : s[i] \in X
  OBVIOUS
<1>2. ToSet(s) = {s[i] : i \in 1..Len(s)}
  BY <1>1 DEF ToSet
<1>3. \A i \in 1..Len(s) : s[i] \in ToSet(s)
  BY <1>2
<1>4. s \in Seq(ToSet(s))
  BY <1>1, <1>3
<1> QED
  BY <1>1, <1>2, <1>3, <1>4

LEMMA ArmsListed ==
    /\ ARMS \in Seq(Arms) /\ \A arm \in Arms : IsArm(arm)
    /\ Len(ARMS) = 8 /\ ARMS[1].name = "npm-install-ignore-scripts" /\ ARMS[1] \in Arms
<1> DEFINE a == Arm("npm-install-ignore-scripts", "npm", TRUE, FALSE)
           b == Arm("npm-ci-ignore-scripts", "npm", TRUE, FALSE)
           c == Arm("pnpm-install-ignore-scripts", "pnpm", TRUE, FALSE)
           d == Arm("npm-install", "npm", FALSE, FALSE)
           e == Arm("npm-ci", "npm", FALSE, FALSE)
           f == Arm("npm-install-foreground-scripts", "npm", FALSE, FALSE)
           g == Arm("pnpm-install", "pnpm", FALSE, FALSE)
           h == Arm("pnpm-install-dep-allowed", "pnpm", FALSE, TRUE)
<1>1. IsArm(a) /\ IsArm(b) /\ IsArm(c) /\ IsArm(d)
  BY DEF Arm, IsArm, Tools
<1>2. IsArm(e) /\ IsArm(f) /\ IsArm(g) /\ IsArm(h)
  BY DEF Arm, IsArm, Tools
<1>3. a.name = "npm-install-ignore-scripts"
  BY DEF Arm
<1>4. ARMS = <<a, b, c, d, e, f, g, h>>
  BY Zenon DEF ARMS
<1> HIDE DEF a, b, c, d, e, f, g, h
<1>5. PICK X : X = {a, b, c, d, e, f, g, h}
  OBVIOUS
<1>6. PICK s : s = <<a, b, c, d, e, f, g, h>>
  OBVIOUS
<1>7. s \in Seq(X) /\ Len(s) = 8 /\ s[1] = a
  <2>1. s \in Seq({a, b, c, d, e, f, g, h})
    BY <1>6
  <2> QED
    BY <1>5, <1>6, <2>1
<1>8. ToSet(s) \subseteq X /\ s \in Seq(ToSet(s)) /\ s[1] \in ToSet(s)
  <2>1. 1 \in 1..Len(s)
    BY <1>7
  <2> QED
    BY <1>7, <2>1, Elements
<1>9. \A x \in X : IsArm(x)
  BY <1>1, <1>2, <1>5
<1>10. s = ARMS
  BY <1>4, <1>6, Zenon
<1> QED
  BY <1>3, <1>7, <1>8, <1>9, <1>10 DEF Arms

\* Any arms are put in this order.
LEMMA OrderedArms ==
    ASSUME NEW arms \in Seq(Arms), arms # << >>
    PROVE  /\ Ordered(arms) \in Seq(Arms) /\ Len(Ordered(arms)) \in Nat \ {0}
           /\ \A i, j \in 1..Len(Ordered(arms)) :
                Ordered(arms)[i].control /\ ~Ordered(arms)[j].control => i < j
<1>1. PICK first, rest : first = Only(arms, Controls) /\ rest = Only(arms, Arms \ Controls)
  OBVIOUS
<1>2. Kept(arms, Controls, Len(arms), first) /\ Kept(arms, Arms \ Controls, Len(arms), rest)
  BY <1>1, OnlyKept
<1>3. /\ first \in Seq(Controls) /\ rest \in Seq(Arms \ Controls)
      /\ Controls \subseteq Arms
      /\ \A i \in 1..Len(first) : first[i].control
      /\ \A i \in 1..Len(rest) : ~rest[i].control
  BY <1>2 DEF Kept, Controls, Arms
<1>4. Len(first) # 0 \/ Len(rest) # 0
  <2>1. 1 \in 1..Len(arms) /\ arms[1] \in Arms
    OBVIOUS
  <2> QED
    BY <1>2, <1>3, <2>1 DEF Kept
<1>5. PICK all : all = first \o rest
  OBVIOUS
<1>6. /\ all \in Seq(Arms) /\ Len(all) = Len(first) + Len(rest)
      /\ Len(first) \in Nat /\ Len(rest) \in Nat
      /\ \A i \in 1..Len(all) : all[i] = IF i <= Len(first) THEN first[i] ELSE rest[i - Len(first)]
  BY <1>3, <1>5
<1>7. ASSUME NEW i \in 1..Len(all) PROVE all[i].control <=> i <= Len(first)
  BY <1>3, <1>6, <1>7
<1>8. Ordered(arms) = all
  BY <1>1, <1>5 DEF Ordered, Arms
<1> QED
  BY <1>4, <1>6, <1>7, <1>8

LEMMA NamesListed ==
    /\ Names \in Seq(Arms) /\ Len(Names) \in Nat \ {0}
    /\ \A i, j \in 1..Len(Names) : Names[i].control /\ ~Names[j].control => i < j
<1>1. PICK arms : arms = IF sandbox THEN Only(ARMS, InSandbox) ELSE ARMS
  OBVIOUS
<1>2. arms \in Seq(Arms) /\ arms # << >>
  <2>1. CASE sandbox
    <3>1. Kept(ARMS, InSandbox, Len(ARMS), arms)
      BY <1>1, <2>1, OnlyKept, ArmsListed
    <3>2. arms \in Seq(InSandbox) /\ InSandbox \subseteq Arms
      BY <3>1 DEF Kept, InSandbox, Arms
    <3>3. ARMS[1] \in InSandbox /\ 1 \in 1..Len(ARMS)
      BY ArmsListed DEF InSandbox, SANDBOX_ARMS, Arms
    <3>4. Len(arms) # 0
      BY <3>1, <3>2, <3>3 DEF Kept
    <3> QED
      BY <3>2, <3>4
  <2>2. CASE ~sandbox
    <3>1. ARMS \in Seq(Arms) /\ Len(ARMS) = 8
      BY ArmsListed
    <3> QED
      BY <1>1, <2>2, <3>1
  <2> QED
    BY <2>1, <2>2
<1>3. Names = Ordered(arms)
  BY <1>1 DEF Names
<1> QED
  BY <1>2, <1>3, OrderedArms

LEMMA ScriptsListed ==
    /\ AllScripts \in Seq(ScriptNames) /\ "sh" \notin ScriptNames /\ "" \notin ScriptNames
    /\ \A arm \in Arms : /\ Scripts(arm) \in Seq(ScriptNames)
                         /\ arm.control => Scripts(arm) = << >>
                         /\ arm.tool \in Tools /\ arm.tool \notin ScriptNames
                         /\ arm.control \in BOOLEAN
<1>1. PICK a, b, c : /\ a = "dep:postinstall" /\ b = "app:postinstall" /\ c = "prepare"
                     /\ AllScripts = <<a, b, c>>
  BY DEF AllScripts
<1>2. AllScripts \in Seq({a, b, c}) /\ Len(AllScripts) = 3
  BY <1>1
<1>3. ScriptNames \subseteq {a, b, c} /\ AllScripts \in Seq(ScriptNames)
  BY <1>2, Elements DEF ScriptNames
<1>4. Tail(AllScripts) \in Seq(ScriptNames)
  BY <1>2, <1>3
<1>5. "sh" \notin ScriptNames /\ "" \notin ScriptNames
      /\ "npm" \notin ScriptNames /\ "pnpm" \notin ScriptNames
  BY <1>1, <1>3
<1>6. \A arm \in Arms : /\ arm.tool \in Tools
                         /\ arm.control \in BOOLEAN /\ arm.allowDepBuild \in BOOLEAN
  BY ArmsListed DEF IsArm
<1>7. ASSUME NEW arm \in Arms
      PROVE  Scripts(arm) \in Seq(ScriptNames) /\ (arm.control => Scripts(arm) = << >>)
  <2>1. << >> \in Seq(ScriptNames)
    OBVIOUS
  <2> QED
    BY <1>3, <1>4, <2>1 DEF Scripts
<1>8. \A arm \in Arms : arm.tool \in Tools /\ arm.tool \notin ScriptNames
  BY <1>5, <1>6 DEF Tools
<1> QED
  BY <1>3, <1>5, <1>6, <1>7, <1>8

-----------------------------------------------------------------------------
(* The invariant of an arm that is being observed.                            *)

Programs == ScriptNames \cup Tools \cup {"sh"}
ExitCodes == {Running, 0, 1, Null}
DiskType == [inside : SUBSET Canaries, outside : SUBSET Canaries, hook : BOOLEAN]
InstallType ==
    [exit : ExitCodes, traceCaptured : BOOLEAN, processesStarted : Nat,
     lifecycleScripts : Seq(ScriptNames), markersInside : SUBSET Canaries,
     markersOutside : SUBSET Canaries, preCommitHookPresent : BOOLEAN]
ObservationType ==
    [arm : Arms, control : BOOLEAN, install : InstallType, hookRan : BOOLEAN,
     ran : Seq(ScriptNames)]

ArmsTypeOK ==
    /\ sandbox \in BOOLEAN
    /\ observations \in Seq(ObservationType)
    /\ pc \in {"install", "running", "trace", "markers", "commit"}
    /\ plan \in Seq(ScriptNames) /\ ran \in Seq(ScriptNames)
    /\ script \in ScriptNames \cup {""}
    /\ traced \in Seq(Programs)
    /\ exit \in ExitCodes
    /\ disk \in DiskType
    /\ noted \in InstallType
    /\ status \in {Running, 0, 1, 3}

\* Where observe is in the arm: an install that has ended by itself leaves
\* nothing to run, and a new arm starts clean.
WalkInv ==
    /\ status # Running => pc \in {"install", "commit"}
    /\ status \in {0, 3} => pc = "install"
    /\ pc \in {"install", "running"} <=> exit = Running
    /\ pc = "install" =>
            plan = << >> /\ script = "" /\ ran = << >> /\ traced = << >> /\ disk = Clean
    /\ exit \in {0, 1} => plan = << >> /\ script = ""

\* There is an arm to be observed.
RoomInv == pc # "install" \/ status = Running => Len(observations) < Len(Names)

\* The trace has what ran until strace was gone; what was written is what ran,
\* up to the script that runs now.
RanInv ==
    /\ exit # Null => scriptCommands(traced) = ran
    /\ exit = Null => IsPrefix(scriptCommands(traced), ran)
    /\ disk.inside \cup ({script} \cap Canaries) = ToSet(ran) \cap Canaries
    /\ disk.outside = IF "outside" \in denied THEN {} ELSE disk.inside
    /\ (disk.hook \/ script = "prepare") /\ "hook" \notin denied <=>
            "prepare" \in ToSet(ran) /\ "hook" \notin denied
    /\ "hook" \in denied => ~disk.hook

\* What has been read is true, and stays true if nothing runs any more.
NotedInv ==
    /\ pc \in {"markers", "commit"} =>
            /\ noted.exit = exit /\ noted.lifecycleScripts = scriptCommands(traced)
            /\ noted.processesStarted = Len(traced)
            /\ noted.traceCaptured = (traced # << >>)
    /\ pc = "commit" =>
            /\ noted.markersInside \subseteq disk.inside
            /\ noted.markersOutside \subseteq disk.outside
            /\ noted.preCommitHookPresent => disk.hook
            /\ exit # Null => /\ noted.markersInside = disk.inside
                              /\ noted.markersOutside = disk.outside
                              /\ noted.preCommitHookPresent = disk.hook

\* A control in which nothing went another way installs and runs no script.
ControlInv ==
    pc # "install" /\ Current.control /\ (\A f \in faults : f.arm # Current.name) =>
        /\ plan = << >> /\ script = "" /\ ran = << >>
        /\ exit \in {Running, 0} /\ traced # << >>

\* The arms so far, in their order: each record is true, and no control failed
\* but the last, in which something went another way.
DoneInv ==
    /\ \A i \in DOMAIN observations :
        LET o == observations[i]
        IN  /\ TrueOf(o)
            /\ i <= Len(Names) /\ o.arm = Names[i] /\ o.control = o.arm.control
            /\ o.control /\ (i < Len(observations) \/ status # 3) => ~ControlFailed(o)
    /\ status = 3 => /\ observations # << >>
                     /\ \E f \in faults : f.arm = observations[Len(observations)].arm.name

ArmsInv == WalkInv /\ RoomInv /\ RanInv /\ NotedInv /\ ControlInv /\ DoneInv

-----------------------------------------------------------------------------
(* Each step keeps it.                                                        *)

LEMMA ArmsFixed ==
    ASSUME ArmsNext \/ UNCHANGED armsVars
    PROVE  sandbox' = sandbox /\ denied' = denied /\ Names' = Names
<1>1. sandbox' = sandbox /\ denied' = denied
  BY DEF ArmsNext, armsVars, fixed, Start, StartsNothing, ScriptStarts, ScriptEnds, InstallEnds,
         InstallFails, Timeout, ReadTrace, ReadMarkers, Commit, RemoveFails
<1> QED
  BY <1>1 DEF Names

LEMMA Sequence ==
    ASSUME NEW X, NEW s \in Seq(X)
    PROVE  /\ Len(s) \in Nat /\ DOMAIN s = 1..Len(s)
           /\ s # << >> => Len(s) # 0 /\ Head(s) \in X /\ Tail(s) \in Seq(X)
           /\ \A i \in 1..Len(s) : s[i] \in X
OBVIOUS

LEMMA Appended ==
    ASSUME NEW X, NEW s \in Seq(X), NEW x \in X, NEW t, t = Append(s, x)
    PROVE  /\ t \in Seq(X) /\ Len(t) = Len(s) + 1 /\ t[Len(s) + 1] = x /\ t # << >>
           /\ \A i \in 1..Len(s) : t[i] = s[i]
OBVIOUS

LEMMA OneMore ==
    ASSUME NEW X, NEW s \in Seq(X), NEW x, NEW t, t = Append(s, x)
    PROVE  /\ Len(t) = Len(s) + 1 /\ DOMAIN t = 1..(Len(s) + 1) /\ t[Len(s) + 1] = x
           /\ t # << >> /\ \A i \in 1..Len(s) : t[i] = s[i]
<1>1. s \in Seq(X \cup {x}) /\ x \in X \cup {x}
  OBVIOUS
<1>2. t \in Seq(X \cup {x}) /\ Len(t) = Len(s) + 1 /\ t[Len(s) + 1] = x
      /\ \A i \in 1..Len(s) : t[i] = s[i]
  BY <1>1, Appended
<1>3. DOMAIN t = 1..Len(t) /\ t # << >>
  BY <1>1, <1>2, Appended, Sequence
<1> QED
  BY <1>2, <1>3

LEMMA OneLonger == ASSUME NEW X, NEW s \in Seq(X), NEW x PROVE Len(Append(s, x)) = Len(s) + 1
<1>1. s \in Seq(X \cup {x})
  OBVIOUS
<1> QED
  BY <1>1

LEMMA ArmTypes ==
    ASSUME ArmsTypeOK
    PROVE  /\ observations \in Seq(ObservationType)
           /\ plan \in Seq(ScriptNames) /\ ran \in Seq(ScriptNames)
           /\ traced \in Seq(Programs) /\ script \in ScriptNames \cup {""}
           /\ disk \in DiskType /\ noted \in InstallType /\ exit \in ExitCodes
BY Zenon DEF ArmsTypeOK

LEMMA CurrentArm ==
    ASSUME ArmsTypeOK, Len(observations) < Len(Names)
    PROVE  /\ Current \in Arms /\ Current = Names[Len(observations) + 1]
           /\ Len(observations) + 1 \in 1..Len(Names)
<1>1. Len(observations) \in Nat
  BY ArmTypes, Sequence
<1>2. Len(observations) + 1 \in 1..Len(Names)
  BY <1>1, NamesListed
<1> QED
  BY <1>2, NamesListed DEF Current

\* The script that starts next.
LEMMA NextScript ==
    ASSUME ArmsTypeOK, plan # << >>
    PROVE  \E x \in ScriptNames : /\ x = Head(plan) /\ Tail(plan) \in Seq(ScriptNames)
                                  /\ Append(ran, x) \in Seq(ScriptNames)
                                  /\ Append(Append(traced, "sh"), x) \in Seq(Programs)
<1>1. PICK x \in ScriptNames : x = Head(plan)
  BY ArmTypes, Sequence
<1>2. Tail(plan) \in Seq(ScriptNames)
  BY ArmTypes, Sequence
<1>3. PICK t, u, r : t = Append(traced, "sh") /\ u = Append(t, x) /\ r = Append(ran, x)
  OBVIOUS
<1>4. "sh" \in Programs /\ x \in Programs
  BY DEF Programs
<1>5. t \in Seq(Programs)
  BY <1>3, <1>4, ArmTypes, Appended
<1>6. u \in Seq(Programs)
  BY <1>3, <1>4, <1>5, Appended
<1>7. r \in Seq(ScriptNames)
  BY <1>3, ArmTypes, Appended
<1> QED
  BY <1>1, <1>2, <1>3, <1>6, <1>7

LEMMA ArmsTypeStep ==
    ASSUME ArmsTypeOK, RoomInv, ArmsNext
    PROVE  ArmsTypeOK'
<1>1. ASSUME Start PROVE ArmsTypeOK'
  <2>1. Current \in Arms
    BY <1>1, CurrentArm DEF Start, RoomInv
  <2>2. plan' \in Seq(ScriptNames)
    BY <1>1, <2>1, ScriptsListed DEF Start
  <2>3. traced' \in Seq(Programs)
    <3>1. PICK x : x = Current.tool
      OBVIOUS
    <3>2. x \in Programs /\ traced' = <<x>>
      BY <1>1, <2>1, <3>1, ScriptsListed DEF Start, Programs
    <3> QED
      BY <3>2
  <2> QED
    BY <1>1, <2>2, <2>3 DEF Start, ArmsTypeOK
<1>2. ASSUME StartsNothing PROVE ArmsTypeOK'
  BY <1>2 DEF StartsNothing, ArmsTypeOK, fixed, install, ExitCodes
<1>3. ASSUME ScriptStarts PROVE ArmsTypeOK'
  <2>1. PICK x \in ScriptNames : /\ x = Head(plan) /\ Tail(plan) \in Seq(ScriptNames)
                                 /\ Append(ran, x) \in Seq(ScriptNames)
                                 /\ Append(Append(traced, "sh"), x) \in Seq(Programs)
    BY <1>3, NextScript DEF ScriptStarts
  <2>2. /\ script' = x /\ plan' \in Seq(ScriptNames) /\ ran' \in Seq(ScriptNames)
        /\ traced' \in Seq(Programs)
    BY <1>3, <2>1 DEF ScriptStarts, ArmsTypeOK
  <2> QED
    BY <1>3, <2>2 DEF ScriptStarts, ArmsTypeOK, fixed
<1>4. ASSUME ScriptEnds PROVE ArmsTypeOK'
  <2>1. disk' \in DiskType
    BY <1>4 DEF ScriptEnds, ArmsTypeOK, DiskType
  <2> QED
    BY <1>4, <2>1 DEF ScriptEnds, ArmsTypeOK, fixed
<1>5. ASSUME InstallEnds PROVE ArmsTypeOK'
  BY <1>5 DEF InstallEnds, ArmsTypeOK, fixed, install, ExitCodes
<1>6. ASSUME InstallFails PROVE ArmsTypeOK'
  <2>1. plan' \in Seq(ScriptNames) /\ exit' \in ExitCodes
    <3>1. << >> \in Seq(ScriptNames)
      BY EmptySeq
    <3> QED
      BY <1>6, <3>1 DEF InstallFails, ExitCodes
  <2> QED
    BY <1>6, <2>1 DEF InstallFails, ArmsTypeOK, fixed
<1>7. ASSUME Timeout PROVE ArmsTypeOK'
  BY <1>7 DEF Timeout, ArmsTypeOK, fixed, install, ExitCodes
<1>8. ASSUME ReadTrace PROVE ArmsTypeOK'
  <2>1. scriptCommands(traced) \in Seq(ScriptNames)
    BY OnlyKept DEF scriptCommands, Kept, ArmsTypeOK, ScriptNames
  <2>2. noted' \in InstallType
    <3>1. PICK s, n : s = scriptCommands(traced) /\ n = Len(traced)
      OBVIOUS
    <3>2. s \in Seq(ScriptNames) /\ n \in Nat
      BY <2>1, <3>1, ArmTypes, Sequence
    <3>3. noted' = [noted EXCEPT !.exit = exit, !.traceCaptured = traced # << >>,
                                 !.processesStarted = n, !.lifecycleScripts = s]
      BY <1>8, <3>1 DEF ReadTrace
    <3> QED
      BY <3>2, <3>3 DEF ArmsTypeOK, InstallType
  <2> QED
    BY <1>8, <2>2 DEF ReadTrace, ArmsTypeOK, fixed, install
<1>9. ASSUME ReadMarkers PROVE ArmsTypeOK'
  <2>1. noted' \in InstallType
    BY <1>9 DEF ReadMarkers, ArmsTypeOK, InstallType, DiskType
  <2> QED
    BY <1>9, <2>1 DEF ReadMarkers, ArmsTypeOK, fixed, install
<1>10. ASSUME Commit PROVE ArmsTypeOK'
  <2>1. Current \in Arms /\ Current.control \in BOOLEAN
    BY <1>10, CurrentArm, ScriptsListed DEF Commit, RoomInv
  <2>2. PICK o : /\ o = [arm |-> Current, control |-> Current.control, install |-> noted,
                         hookRan |-> disk.hook, ran |-> ran]
                 /\ observations' = Append(observations, o)
    BY <1>10 DEF Commit
  <2>3. o \in ObservationType
    BY <2>1, <2>2 DEF ObservationType, ArmsTypeOK, DiskType
  <2>4. observations' \in Seq(ObservationType)
    <3>1. PICK t : t = observations'
      OBVIOUS
    <3>2. t = Append(observations, o) /\ observations \in Seq(ObservationType)
      BY <2>2, <3>1, ArmTypes
    <3>3. t \in Seq(ObservationType)
      BY <2>3, <3>2, Appended
    <3> QED
      BY <3>1, <3>3
  <2>5. status' \in {Running, 0, 1, 3}
    BY <1>10 DEF Commit
  <2>6. disk' \in DiskType /\ exit' \in ExitCodes /\ pc' = "install" /\ script' = ""
    BY <1>10 DEF Commit, Removed, Clean, DiskType, ExitCodes
  <2>7. /\ plan' \in Seq(ScriptNames) /\ ran' \in Seq(ScriptNames) /\ traced' \in Seq(Programs)
        /\ sandbox' \in BOOLEAN
    <3>1. plan' = << >> /\ ran' = << >> /\ traced' = << >> /\ sandbox' = sandbox
      BY <1>10 DEF Commit
    <3>2. << >> \in Seq(ScriptNames) /\ << >> \in Seq(Programs)
      BY EmptySeq
    <3> QED
      BY <3>1, <3>2, Zenon DEF ArmsTypeOK
  <2>8. noted' \in InstallType
    <3>1. << >> \in Seq(ScriptNames)
      BY EmptySeq
    <3>2. PICK e \in Seq(ScriptNames) : e = << >>
      BY <3>1, Zenon
    <3>3. noted' = [exit |-> Running, traceCaptured |-> FALSE, processesStarted |-> 0,
                    lifecycleScripts |-> e, markersInside |-> {}, markersOutside |-> {},
                    preCommitHookPresent |-> FALSE]
      BY <1>10, <3>2, Zenon DEF Commit, Unread
    <3> QED
      BY <3>3 DEF InstallType, ExitCodes
  <2> QED
    BY <2>4, <2>5, <2>6, <2>7, <2>8 DEF ArmsTypeOK
<1>11. ASSUME RemoveFails PROVE ArmsTypeOK'
  BY <1>11 DEF RemoveFails, ArmsTypeOK, install
<1> QED
  BY <1>1, <1>2, <1>3, <1>4, <1>5, <1>6, <1>7, <1>8, <1>9, <1>10, <1>11 DEF ArmsNext

LEMMA ArmsTypeInvariance == ArmsTypeOK /\ RoomInv /\ [ArmsNext]_armsVars => ArmsTypeOK'
<1> SUFFICES ASSUME ArmsTypeOK, RoomInv, [ArmsNext]_armsVars PROVE ArmsTypeOK'
  OBVIOUS
<1>1. CASE UNCHANGED armsVars
  BY <1>1 DEF armsVars, ArmsTypeOK
<1> QED
  BY <1>1, ArmsTypeStep

LEMMA Codes == Running \notin {0, 1, 3, Null} /\ Null \notin {0, 1}
BY DEF Running, Null

LEMMA WalkStep ==
    ASSUME WalkInv, ArmsNext
    PROVE  WalkInv'
<1>1. CASE Start
  BY <1>1, Codes DEF Start, WalkInv
<1>2. CASE StartsNothing
  BY <1>2, Codes DEF StartsNothing, WalkInv, fixed, install
<1>3. CASE ScriptStarts
  BY <1>3, Codes DEF ScriptStarts, WalkInv, fixed
<1>4. CASE ScriptEnds
  BY <1>4, Codes DEF ScriptEnds, WalkInv, fixed
<1>5. CASE InstallEnds
  BY <1>5, Codes DEF InstallEnds, WalkInv, fixed, install
<1>6. CASE InstallFails
  BY <1>6, Codes DEF InstallFails, WalkInv, fixed
<1>7. CASE Timeout
  BY <1>7, Codes DEF Timeout, WalkInv, fixed, install
<1>8. CASE ReadTrace
  BY <1>8, Codes DEF ReadTrace, WalkInv, fixed, install
<1>9. CASE ReadMarkers
  BY <1>9, Codes DEF ReadMarkers, WalkInv, fixed, install
<1>10. CASE Commit
  <2>1. /\ pc' = "install" /\ plan' = << >> /\ script' = "" /\ ran' = << >> /\ traced' = << >>
        /\ disk' = Clean /\ exit' = Running
    BY <1>10, Codes DEF Commit, Removed
  <2> QED
    BY <2>1, Codes DEF WalkInv
<1>11. CASE RemoveFails
  <2>1. pc = "commit" /\ pc' = "commit" /\ status' = 1
    BY <1>11 DEF RemoveFails, install
  <2>2. exit' = exit /\ plan' = plan /\ script' = script
    BY <1>11 DEF RemoveFails, install
  <2>3. (pc' \in {"install", "running"} <=> exit' = Running) /\ pc' # "install"
    BY <2>1, <2>2 DEF WalkInv
  <2>4. exit' \in {0, 1} => plan' = << >> /\ script' = ""
    BY <2>2 DEF WalkInv
  <2>5. status' \notin {0, 3} /\ pc' \in {"install", "commit"}
    BY <2>1
  <2> QED
    BY <2>3, <2>4, <2>5 DEF WalkInv
<1> QED
  BY <1>1, <1>2, <1>3, <1>4, <1>5, <1>6, <1>7, <1>8, <1>9, <1>10, <1>11 DEF ArmsNext

\* The arms so far change only when one is done.
LEMMA ArmsSoFar ==
    ASSUME ArmsNext
    PROVE  \/ Commit
           \/ /\ UNCHANGED observations
              /\ status' = status \/ (status = Running /\ status' = 1)
              /\ faults \subseteq faults'
              /\ pc' # "install" \/ status' = Running => pc # "install" \/ status = Running
BY DEF ArmsNext, fixed, Start, StartsNothing, ScriptStarts, ScriptEnds, InstallEnds, InstallFails,
       Timeout, ReadTrace, ReadMarkers, RemoveFails, Running, Fault

\* What Commit records.
Record == [arm |-> Current, control |-> Current.control, install |-> noted,
           hookRan |-> disk.hook, ran |-> ran]

LEMMA RoomStep ==
    ASSUME ArmsTypeOK, RoomInv, ArmsNext
    PROVE  RoomInv'
<1>1. Names' = Names
  BY ArmsFixed
<1>2. CASE ~Commit
  BY <1>1, <1>2, ArmsSoFar DEF RoomInv
<1>3. CASE Commit
  <2>1. PICK l, n : l = Len(observations) /\ n = Len(Names) /\ l \in Nat /\ n \in Nat
    BY NamesListed, ArmTypes, Sequence
  <2>2. l < n
    BY <1>3, <2>1 DEF Commit, RoomInv
  <2>3. PICK o : observations' = Append(observations, o)
    BY <1>3 DEF Commit
  <2>4. Len(observations') = l + 1
    BY <2>1, <2>3, ArmTypes, OneLonger
  <2>5. pc' = "install" /\ (status' = Running => l + 1 # n)
    <3>1. status' = IF Record.control /\ ControlFailed(Record) THEN 3
                    ELSE IF l + 1 = n THEN 0 ELSE Running
      BY <1>3, <2>1 DEF Commit, Record
    <3> QED
      BY <1>3, <3>1, Codes DEF Commit
  <2>6. status' = Running => l + 1 < n
    BY <2>1, <2>2, <2>5
  <2> QED
    BY <1>1, <2>1, <2>4, <2>5, <2>6 DEF RoomInv
<1> QED
  BY <1>2, <1>3

LEMMA ScriptsOf ==
    ASSUME NEW s \in Seq(Programs), NEW x \in Programs, NEW t, t = Append(s, x)
    PROVE  /\ x \in ScriptNames => scriptCommands(t) = Append(scriptCommands(s), x)
           /\ x \notin ScriptNames => scriptCommands(t) = scriptCommands(s)
<1>1. Only(t, ScriptNames) = IF x \in ScriptNames THEN Append(Only(s, ScriptNames), x)
                             ELSE Only(s, ScriptNames)
  BY OnlyAppend
<1> QED
  BY <1>1 DEF scriptCommands, ScriptNames

LEMMA ScriptTraced ==
    ASSUME ArmsTypeOK, NEW x \in ScriptNames, NEW t, NEW u,
           t = Append(traced, "sh"), u = Append(t, x)
    PROVE  scriptCommands(u) = Append(scriptCommands(traced), x)
<1>1. traced \in Seq(Programs) /\ x \in Programs /\ "sh" \notin ScriptNames
  BY ArmTypes, ScriptsListed DEF Programs
<1>2. PICK y \in Programs : y = "sh"
  BY DEF Programs
<1>3. t \in Seq(Programs) /\ t = Append(traced, y)
  BY <1>1, <1>2
<1>4. scriptCommands(t) = scriptCommands(traced)
  BY <1>1, <1>2, <1>3, ScriptsOf
<1>5. scriptCommands(u) = Append(scriptCommands(t), x)
  BY <1>1, <1>3, ScriptsOf
<1> QED
  BY <1>4, <1>5

LEMMA PrefixGrows ==
    ASSUME NEW X, NEW s \in Seq(X), NEW t \in Seq(X), NEW x \in X, NEW u, u = Append(t, x),
           IsPrefix(s, t)
    PROVE  IsPrefix(s, u)
<1>1. Len(s) <= Len(t) /\ SubSeq(s, 1, Len(s)) = SubSeq(t, 1, Len(s))
  BY DEF IsPrefix
<1>2. Len(s) <= Len(u) /\ SubSeq(u, 1, Len(s)) = SubSeq(t, 1, Len(s))
  BY <1>1
<1> QED
  BY <1>1, <1>2 DEF IsPrefix

LEMMA PrefixOfItself == ASSUME NEW s PROVE Len(s) \in Nat => IsPrefix(s, s)
BY DEF IsPrefix

LEMMA RanGrows ==
    ASSUME ArmsTypeOK, NEW x \in ScriptNames, NEW r, r = Append(ran, x)
    PROVE  ToSet(r) = ToSet(ran) \cup {x}
<1>1. ran \in Seq(ScriptNames)
  BY ArmTypes
<1>2. /\ Len(ran) \in Nat /\ DOMAIN ran = 1..Len(ran) /\ DOMAIN r = 1..(Len(ran) + 1)
      /\ r[Len(ran) + 1] = x /\ \A i \in 1..Len(ran) : r[i] = ran[i]
  BY <1>1
<1>3. ToSet(ran) = {ran[i] : i \in 1..Len(ran)} /\ ToSet(r) = {r[i] : i \in 1..(Len(ran) + 1)}
  BY <1>2 DEF ToSet
<1> QED
  BY <1>2, <1>3

LEMMA RanUnchanged ==
    ASSUME RanInv, UNCHANGED <<script, ran, disk, traced, denied>>,
           exit = Null <=> exit' = Null
    PROVE  RanInv'
BY DEF RanInv, scriptCommands, Only

LEMMA CommandsTyped == ASSUME ArmsTypeOK PROVE scriptCommands(traced) \in Seq(ScriptNames)
BY ArmTypes, OnlyKept DEF scriptCommands, Kept, ScriptNames

LEMMA RanStep ==
    ASSUME ArmsTypeOK, WalkInv, RoomInv, RanInv, ArmsNext
    PROVE  RanInv'
<1>1. denied' = denied
  BY ArmsFixed
<1>2. CASE Start
  <2>1. Current \in Arms
    BY <1>2, CurrentArm DEF Start, RoomInv
  <2>2. PICK x \in Programs : x = Current.tool /\ x \notin ScriptNames
    BY <2>1, ScriptsListed DEF Programs
  <2>3. traced' = Append(traced, x)
    <3>1. traced = << >> /\ traced' = <<x>>
      BY <1>2, <2>2, Zenon DEF Start, WalkInv
    <3> QED
      BY <3>1
  <2>4. scriptCommands(traced') = scriptCommands(traced)
    <3>1. PICK t : t = traced'
      OBVIOUS
    <3>2. traced \in Seq(Programs) /\ t = Append(traced, x)
      BY <2>3, <3>1, ArmTypes
    <3> QED
      <4>1. scriptCommands(t) = scriptCommands(traced)
        BY <2>2, <3>2, ScriptsOf
      <4> QED
        BY <3>1, <4>1
  <2> QED
    BY <1>1, <1>2, <2>4 DEF Start, RanInv
<1>3. CASE StartsNothing
  <2>1. ran = << >> /\ traced = << >>
    BY <1>3 DEF StartsNothing, WalkInv
  <2>2. UNCHANGED <<script, ran, disk, traced, denied>> /\ exit # Null /\ exit' # Null
    BY <1>3, Codes DEF StartsNothing, fixed, install, WalkInv
  <2> QED
    BY <2>2, RanUnchanged
<1>4. CASE ScriptStarts
  <2>1. PICK x \in ScriptNames : /\ x = Head(plan)
                                 /\ Append(ran, x) \in Seq(ScriptNames)
    BY <1>4, NextScript DEF ScriptStarts
  <2>2. script = "" /\ script' = x /\ ran' = Append(ran, x) /\ exit' = exit /\ disk' = disk
    BY <1>4, <2>1 DEF ScriptStarts
  <2>3. ToSet(ran') = ToSet(ran) \cup {x}
    <3>1. PICK r : r = ran'
      OBVIOUS
    <3>2. r = Append(ran, x)
      BY <2>2, <3>1
    <3>3. ToSet(r) = ToSet(ran) \cup {x}
      BY <3>2, RanGrows, Zenon
    <3> QED
      BY <3>1, <3>3, Zenon
  <2>4. exit = Null => IsPrefix(scriptCommands(traced'), ran')
    <3>1. SUFFICES ASSUME exit = Null PROVE IsPrefix(scriptCommands(traced'), ran')
      OBVIOUS
    <3>2. traced' = traced
      BY <1>4, <3>1, Codes DEF ScriptStarts
    <3>3. PICK s : s = scriptCommands(traced)
      OBVIOUS
    <3>4. s \in Seq(ScriptNames) /\ IsPrefix(s, ran)
      BY <3>1, <3>3, CommandsTyped DEF RanInv
    <3>5. IsPrefix(s, ran')
      BY <2>2, <3>4, ArmTypes, PrefixGrows
    <3> QED
      BY <3>2, <3>3, <3>5
  <2>5. exit # Null => scriptCommands(traced') = ran'
    <3>1. SUFFICES ASSUME exit # Null PROVE scriptCommands(traced') = ran'
      OBVIOUS
    <3>2. exit = Running
      BY <1>4, <3>1, ArmTypes DEF ScriptStarts, WalkInv, ExitCodes
    <3>3. PICK t : t = Append(traced, "sh")
      OBVIOUS
    <3>4. traced' = Append(t, x)
      BY <1>4, <2>1, <3>2, <3>3 DEF ScriptStarts
    <3>5. PICK u : u = traced'
      OBVIOUS
    <3>6. scriptCommands(u) = Append(scriptCommands(traced), x)
      BY <3>3, <3>4, <3>5, ScriptTraced
    <3>7. scriptCommands(traced) = ran
      BY <3>1 DEF RanInv
    <3> QED
      BY <2>2, <3>5, <3>6, <3>7
  <2>6. /\ disk.inside \cup ({x} \cap Canaries) = ToSet(ran') \cap Canaries
        /\ (disk.hook \/ x = "prepare") /\ "hook" \notin denied <=>
                "prepare" \in ToSet(ran') /\ "hook" \notin denied
    <3>1. disk.inside = ToSet(ran) \cap Canaries
      BY <2>2 DEF RanInv, Canaries
    <3>2. disk.hook /\ "hook" \notin denied <=> "prepare" \in ToSet(ran) /\ "hook" \notin denied
      BY <2>2 DEF RanInv
    <3> QED
      BY <2>3, <3>1, <3>2
  <2> QED
    BY <1>1, <2>2, <2>4, <2>5, <2>6 DEF RanInv
<1>5. CASE ScriptEnds
  <2>1. /\ UNCHANGED <<ran, traced, exit>> /\ script' = ""
        /\ disk'.inside = disk.inside \cup ({script} \cap Canaries)
        /\ disk'.outside = disk.outside
                           \cup IF "outside" \in denied THEN {} ELSE {script} \cap Canaries
        /\ disk'.hook = (disk.hook \/ (script = "prepare" /\ "hook" \notin denied))
    BY <1>5 DEF ScriptEnds, fixed
  <2>2. scriptCommands(traced') = scriptCommands(traced)
    BY <2>1
  <2>3. {script'} \cap Canaries = {} /\ script' # "prepare"
    BY <2>1 DEF Canaries
  <2> QED
    BY <1>1, <2>1, <2>2, <2>3 DEF RanInv
<1>6. CASE InstallEnds \/ InstallFails
  <2>1. UNCHANGED <<script, ran, disk, traced, denied>> /\ exit = Running /\ exit' \in {0, 1}
    BY <1>6 DEF InstallEnds, InstallFails, fixed, install, WalkInv
  <2> QED
    BY <2>1, Codes, RanUnchanged
<1>7. CASE Timeout
  <2>1. UNCHANGED <<script, ran, disk, traced, denied>> /\ exit = Running /\ exit' = Null
    BY <1>7 DEF Timeout, fixed, install, WalkInv
  <2>2. scriptCommands(traced) = ran
    BY <2>1, Codes DEF RanInv
  <2>3. IsPrefix(ran, ran)
    BY ArmTypes, Sequence, PrefixOfItself
  <2> QED
    BY <2>1, <2>2, <2>3 DEF RanInv
<1>8. CASE ReadTrace \/ ReadMarkers
  BY <1>8, RanUnchanged DEF ReadTrace, ReadMarkers, fixed, install
<1>9. CASE Commit
  <2>1. /\ script' = "" /\ ran' = << >> /\ traced' = << >>
        /\ disk' = Clean /\ exit' = Running
    BY <1>9 DEF Commit, Removed
  <2>2. scriptCommands(traced') = ran' /\ ToSet(ran') = {}
    <3>1. scriptCommands(<< >>) = << >>
      BY OnlyEmpty DEF scriptCommands
    <3>2. ToSet(<< >>) = {}
      BY DEF ToSet
    <3> QED
      BY <2>1, <3>1, <3>2
  <2>3. "" \notin Canaries
    BY DEF Canaries
  <2> QED
    BY <2>1, <2>2, <2>3, Codes DEF RanInv, Clean
<1>10. CASE RemoveFails
  BY <1>10, RanUnchanged DEF RemoveFails, install
<1> QED
  BY <1>2, <1>3, <1>4, <1>5, <1>6, <1>7, <1>8, <1>9, <1>10 DEF ArmsNext

\* What still runs once the trace is read was left behind by a timeout.
LEMMA LeftBehind ==
    ASSUME ArmsTypeOK, WalkInv, ScriptStarts \/ ScriptEnds, pc \in {"markers", "commit"}
    PROVE  exit = Null
<1>1. plan # << >> \/ script # ""
  BY DEF ScriptStarts, ScriptEnds
<1>2. exit # Running /\ exit \notin {0, 1}
  BY <1>1 DEF WalkInv
<1> QED
  BY <1>2, ArmTypes DEF ExitCodes

LEMMA NotedStep ==
    ASSUME ArmsTypeOK, WalkInv, NotedInv, ArmsNext
    PROVE  NotedInv'
<1>1. CASE Start \/ StartsNothing \/ InstallEnds \/ InstallFails \/ Timeout \/ Commit
  <2>1. pc' \notin {"markers", "commit"}
    BY <1>1 DEF Start, StartsNothing, InstallEnds, InstallFails, Timeout, Commit
  <2> QED
    BY <2>1 DEF NotedInv
<1>2. CASE ScriptStarts \/ ScriptEnds
  <2>1. SUFFICES ASSUME pc \in {"markers", "commit"} PROVE NotedInv'
    <3>1. pc' = pc
      BY <1>2 DEF ScriptStarts, ScriptEnds, fixed
    <3> QED
      BY <2>1, <3>1 DEF NotedInv
  <2>2. exit = Null /\ exit # Running
    BY <1>2, <2>1, LeftBehind, Codes
  <2>3. pc' = pc /\ exit' = exit /\ noted' = noted /\ traced' = traced
    BY <1>2, <2>2 DEF ScriptStarts, ScriptEnds, fixed
  <2>4. disk.inside \subseteq disk'.inside /\ disk.outside \subseteq disk'.outside
        /\ (disk.hook => disk'.hook)
    <3>1. CASE ScriptStarts
      <4>1. disk' = disk
        BY <3>1 DEF ScriptStarts, fixed
      <4> QED
        BY <4>1
    <3>2. CASE ScriptEnds
      <4>1. /\ disk'.inside = disk.inside \cup ({script} \cap Canaries)
            /\ disk'.outside = disk.outside
                               \cup IF "outside" \in denied THEN {} ELSE {script} \cap Canaries
            /\ disk'.hook = (disk.hook \/ (script = "prepare" /\ "hook" \notin denied))
        BY <3>2 DEF ScriptEnds
      <4> QED
        BY <4>1
    <3> QED
      BY <1>2, <3>1, <3>2
  <2>5. scriptCommands(traced') = scriptCommands(traced)
    BY <2>3
  <2> QED
    BY <2>2, <2>3, <2>4, <2>5 DEF NotedInv
<1>3. CASE ReadTrace
  <2>1. PICK s, n, b : s = scriptCommands(traced) /\ n = Len(traced) /\ b = (traced # << >>)
    OBVIOUS
  <2>2. noted' = [noted EXCEPT !.exit = exit, !.traceCaptured = b,
                               !.processesStarted = n, !.lifecycleScripts = s]
    BY <1>3, <2>1 DEF ReadTrace
  <2>3. /\ noted'.exit = exit /\ noted'.traceCaptured = b
        /\ noted'.processesStarted = n /\ noted'.lifecycleScripts = s
    BY <2>2, ArmTypes DEF InstallType
  <2>4. pc' = "markers" /\ exit' = exit /\ traced' = traced
    BY <1>3 DEF ReadTrace
  <2>5. scriptCommands(traced') = s
    BY <2>1, <2>4
  <2> QED
    BY <2>1, <2>3, <2>4, <2>5 DEF NotedInv
<1>4. CASE ReadMarkers
  <2>1. noted' = [noted EXCEPT !.markersInside = disk.inside, !.markersOutside = disk.outside,
                               !.preCommitHookPresent = disk.hook]
    BY <1>4 DEF ReadMarkers
  <2>2. /\ noted'.exit = noted.exit /\ noted'.traceCaptured = noted.traceCaptured
        /\ noted'.processesStarted = noted.processesStarted
        /\ noted'.lifecycleScripts = noted.lifecycleScripts
        /\ noted'.markersInside = disk.inside /\ noted'.markersOutside = disk.outside
        /\ noted'.preCommitHookPresent = disk.hook
    BY <2>1, ArmTypes DEF InstallType
  <2>3. pc = "markers" /\ exit' = exit /\ traced' = traced /\ disk' = disk
    BY <1>4 DEF ReadMarkers, install
  <2>4. scriptCommands(traced') = scriptCommands(traced)
    BY <2>3
  <2> QED
    BY <2>2, <2>3, <2>4 DEF NotedInv
<1>5. CASE RemoveFails
  <2>1. pc' = pc /\ exit' = exit /\ traced' = traced /\ disk' = disk /\ noted' = noted
    BY <1>5 DEF RemoveFails, install
  <2>2. scriptCommands(traced') = scriptCommands(traced)
    BY <2>1
  <2> QED
    BY <2>1, <2>2 DEF NotedInv
<1> QED
  BY <1>1, <1>2, <1>3, <1>4, <1>5 DEF ArmsNext

LEMMA FaultHere ==
    ASSUME NEW kind, Fault(kind)
    PROVE  \E f \in faults' : f.arm = Current.name
<1>1. PICK f : f = [arm |-> Current.name, kind |-> kind]
  OBVIOUS
<1>2. f \in faults' /\ f.arm = Current.name
  BY <1>1 DEF Fault
<1> QED
  BY <1>2

LEMMA ControlStep ==
    ASSUME ArmsTypeOK, WalkInv, RoomInv, ControlInv, ArmsNext
    PROVE  ControlInv'
<1>1. CASE Commit
  BY <1>1 DEF Commit, ControlInv
<1>2. CASE ~Commit
  <2>1. Current' = Current
    <3>1. observations' = observations /\ Names' = Names
      BY <1>2, ArmsSoFar, ArmsFixed
    <3> QED
      BY <3>1 DEF Current
  <2>2. SUFFICES ASSUME pc' # "install", Current.control, \A f \in faults' : f.arm # Current.name
                 PROVE  /\ plan' = << >> /\ script' = "" /\ ran' = << >>
                        /\ exit' \in {Running, 0} /\ traced' # << >>
    BY <2>1 DEF ControlInv
  <2>3. \A kind : ~Fault(kind)
    BY <2>2, FaultHere
  <2>4. \A f \in faults : f.arm # Current.name
    BY <1>2, <2>2, ArmsSoFar
  <2>5. CASE Start
    <3>1. plan' = Scripts(Current) /\ traced' = <<Current.tool>>
      BY <2>3, <2>5 DEF Start
    <3>2. Current \in Arms
      BY <2>5, CurrentArm DEF Start, RoomInv
    <3>3. plan' = << >>
      BY <2>2, <3>1, <3>2, ScriptsListed
    <3>4. script' = "" /\ ran' = << >> /\ exit' = Running
      BY <2>5 DEF Start, WalkInv
    <3> QED
      BY <3>1, <3>3, <3>4
  <2>6. ~StartsNothing /\ ~InstallFails /\ ~Timeout
    BY <2>3 DEF StartsNothing, InstallFails, Timeout
  <2>7. CASE ScriptStarts \/ ScriptEnds
    <3>1. pc' = pc /\ (plan # << >> \/ script # "")
      BY <2>7 DEF ScriptStarts, ScriptEnds, fixed
    <3> QED
      BY <2>2, <2>4, <3>1 DEF ControlInv
  <2>8. CASE InstallEnds \/ ReadTrace \/ ReadMarkers \/ RemoveFails
    <3>1. pc # "install" /\ UNCHANGED <<plan, script, ran, traced>> /\ (exit' = exit \/ exit' = 0)
      BY <2>8 DEF InstallEnds, ReadTrace, ReadMarkers, RemoveFails, install
    <3> QED
      BY <2>2, <2>4, <3>1 DEF ControlInv
  <2> QED
    BY <1>2, <2>5, <2>6, <2>7, <2>8 DEF ArmsNext
<1> QED
  BY <1>1, <1>2

-----------------------------------------------------------------------------
(* The records.                                                              *)

LEMMA RecordFields ==
    /\ Record.arm = Current /\ Record.control = Current.control /\ Record.install = noted
    /\ Record.hookRan = disk.hook /\ Record.ran = ran
BY Zenon DEF Record

\* What Commit records is true.
LEMMA RecordTrue ==
    ASSUME ArmsTypeOK, WalkInv, RanInv, NotedInv, pc = "commit"
    PROVE  TrueOf(Record)
<1> DEFINE left == ToSet(ran) \cap Canaries
           hooked == "prepare" \in ToSet(ran) /\ "hook" \notin denied
<1>1. /\ Record.install = noted /\ Record.hookRan = disk.hook /\ Record.ran = ran
  BY RecordFields
<1>2. /\ noted.exit = exit /\ noted.lifecycleScripts = scriptCommands(traced)
      /\ noted.markersInside \subseteq disk.inside
      /\ noted.markersOutside \subseteq disk.outside
      /\ noted.preCommitHookPresent => disk.hook
      /\ exit # Null => /\ noted.markersInside = disk.inside
                        /\ noted.markersOutside = disk.outside
                        /\ noted.preCommitHookPresent = disk.hook
  BY DEF NotedInv
<1>3. disk.inside \subseteq left /\ disk.outside \subseteq left
  BY DEF RanInv
<1>4. disk.hook => hooked
  BY DEF RanInv
<1>5. CASE exit = Null
  <2>1. IsPrefix(noted.lifecycleScripts, ran)
    BY <1>2, <1>5 DEF RanInv
  <2>2. noted.markersInside \subseteq left /\ noted.markersOutside \subseteq left
    BY <1>2, <1>3
  <2> QED
    BY <1>1, <1>2, <1>4, <1>5, <2>1, <2>2 DEF TrueOf
<1>6. CASE exit # Null
  <2>1. script = ""
    <3>1. exit \in {0, 1}
      BY <1>6, ArmTypes DEF WalkInv, ExitCodes
    <3> QED
      BY <3>1 DEF WalkInv
  <2>2. disk.inside = left
    BY <2>1 DEF RanInv, Canaries
  <2>3. disk.outside = IF "outside" \in denied THEN {} ELSE left
    BY <2>2 DEF RanInv
  <2>4. disk.hook <=> hooked
    BY <2>1 DEF RanInv
  <2>5. disk.hook \in BOOLEAN /\ hooked \in BOOLEAN
    BY ArmTypes DEF DiskType
  <2>6. disk.hook = hooked
    BY <2>4, <2>5
  <2>7. noted.lifecycleScripts = ran
    BY <1>2, <1>6 DEF RanInv
  <2>8. /\ noted.markersInside = left
        /\ noted.markersOutside = IF "outside" \in denied THEN {} ELSE left
        /\ noted.preCommitHookPresent = hooked
    BY <1>2, <1>6, <2>2, <2>3, <2>6
  <2> HIDE DEF left, hooked
  <2>9. noted.exit # Null
    BY <1>2, <1>6
  <2> QED
    BY <1>1, <2>6, <2>7, <2>8, <2>9, Zenon DEF TrueOf, left, hooked
<1> QED
  BY <1>5, <1>6

\* A control in which nothing went another way passes.
LEMMA RecordPasses ==
    ASSUME ArmsTypeOK, WalkInv, RanInv, NotedInv, ControlInv, pc = "commit", Current.control,
           \A f \in faults : f.arm # Current.name
    PROVE  ~ControlFailed(Record)
<1>1. Record.install = noted
  BY RecordFields
<1>2. script = "" /\ ran = << >> /\ exit \in {Running, 0} /\ traced # << >>
  BY DEF ControlInv
<1>3. exit = 0 /\ exit # Null
  BY <1>2, Codes DEF WalkInv
<1>4. /\ noted.exit = 0 /\ noted.traceCaptured /\ noted.lifecycleScripts = << >>
      /\ noted.processesStarted = Len(traced)
  <2>1. scriptCommands(traced) = << >>
    BY <1>2, <1>3 DEF RanInv
  <2> QED
    BY <1>2, <1>3, <2>1 DEF NotedInv
<1>5. Len(traced) # 0
  BY <1>2, ArmTypes, Sequence
<1>6. ToSet(ran) = {}
  <2>1. ToSet(<< >>) = {}
    BY DEF ToSet
  <2> QED
    BY <1>2, <2>1
<1>7. disk.inside = {} /\ disk.outside = {}
  BY <1>6 DEF RanInv
<1>8. noted.markersInside = {} /\ noted.markersOutside = {}
  BY <1>3, <1>7 DEF NotedInv
<1> QED
  BY <1>1, <1>4, <1>5, <1>8 DEF ControlFailed

LEMMA DoneStep ==
    ASSUME ArmsTypeOK, WalkInv, RoomInv, RanInv, NotedInv, ControlInv, DoneInv, ArmsNext
    PROVE  DoneInv'
<1>1. denied' = denied /\ Names' = Names
  BY ArmsFixed
<1>2. CASE ~Commit
  <2>1. /\ observations' = observations /\ faults \subseteq faults'
        /\ (status' = 3 => status = 3) /\ (status = 3 => status' = 3)
    BY <1>2, ArmsSoFar, Codes
  <2>2. \A o : TrueOf(o)' <=> TrueOf(o)
    BY <1>1 DEF TrueOf
  <2>3. \A i \in DOMAIN observations' :
            LET o == observations[i]
            IN  /\ TrueOf(o)'
                /\ i <= Len(Names') /\ o.arm = Names'[i] /\ o.control = o.arm.control
                /\ o.control /\ (i < Len(observations') \/ status' # 3) => ~ControlFailed(o)
    BY <1>1, <2>1, <2>2 DEF DoneInv
  <2>4. status' = 3 => /\ observations' # << >>
                       /\ \E f \in faults' :
                             f.arm = observations'[Len(observations')].arm.name
    BY <2>1 DEF DoneInv
  <2> QED
    BY <2>1, <2>3, <2>4 DEF DoneInv, ControlFailed, TrueOf
<1>3. CASE Commit
  <2>1. pc = "commit" /\ status = Running /\ status # 3 /\ faults' = faults
    BY <1>3, Codes DEF Commit
  <2>2. PICK o : o = Record
    OBVIOUS
  <2>3. /\ observations' = Append(observations, o)
        /\ status' = 3 <=> o.control /\ ControlFailed(o)
    <3>1. observations' = Append(observations, o)
      BY <1>3, <2>2 DEF Commit, Record
    <3>2. status' = IF o.control /\ ControlFailed(o) THEN 3
                    ELSE IF Len(observations) + 1 = Len(Names) THEN 0 ELSE Running
      BY <1>3, <2>2 DEF Commit, Record
    <3> QED
      BY <3>1, <3>2, Codes
  <2>4. PICK l : l = Len(observations) /\ l \in Nat
    BY ArmTypes, Sequence
  <2>5. /\ Len(observations') = l + 1 /\ DOMAIN observations' = 1..(l + 1)
        /\ observations'[l + 1] = o /\ observations' # << >>
        /\ \A i \in 1..l : observations'[i] = observations[i]
    <3>1. PICK t : t = observations'
      OBVIOUS
    <3>2. /\ Len(t) = l + 1 /\ DOMAIN t = 1..(l + 1) /\ t[l + 1] = o /\ t # << >>
          /\ \A i \in 1..l : t[i] = observations[i]
      <4>1. t = Append(observations, o) /\ observations \in Seq(ObservationType)
        BY <2>3, <3>1, ArmTypes
      <4> QED
        BY <2>4, <4>1, OneMore
    <3> QED
      BY <3>1, <3>2, Zenon
  <2>6. l < Len(Names) /\ l + 1 <= Len(Names) /\ Current = Names[l + 1]
    <3>1. l < Len(Names)
      BY <2>1, <2>4 DEF RoomInv
    <3>2. l + 1 <= Len(Names)
      BY <2>4, <3>1, NamesListed
    <3> QED
      BY <2>4, <3>1, <3>2 DEF Current
  <2>7. TrueOf(o) /\ o.arm = Current /\ o.control = Current.control
    BY <2>1, <2>2, RecordTrue, RecordFields
  <2>8. \A i \in 1..l : /\ TrueOf(observations[i]) /\ i <= Len(Names)
                        /\ observations[i].arm = Names[i]
                        /\ observations[i].control = observations[i].arm.control
                        /\ observations[i].control => ~ControlFailed(observations[i])
    <3>1. DOMAIN observations = 1..l
      BY <2>4, ArmTypes, Sequence
    <3> QED
      BY <2>1, <3>1 DEF DoneInv
  <2>9. \A i \in 1..(l + 1) : i \in 1..l \/ i = l + 1
    BY <2>4
  <2>10. \A x : TrueOf(x)' <=> TrueOf(x)
    BY <1>1 DEF TrueOf
  <2>11. ~(l + 1 < l + 1)
    BY <2>4
  <2>12. ASSUME NEW i \in DOMAIN observations', NEW x, x = observations'[i]
         PROVE  /\ TrueOf(x)' /\ i <= Len(Names) /\ x.arm = Names[i]
                /\ x.control = x.arm.control
                /\ x.control /\ (i < l + 1 \/ status' # 3) => ~ControlFailed(x)
    <3>1. CASE i \in 1..l
      <4>1. x = observations[i]
        BY <2>5, <2>12, <3>1
      <4> QED
        BY <2>8, <2>10, <3>1, <4>1
    <3>2. CASE i = l + 1
      <4>1. x = o
        BY <2>5, <2>12, <3>2
      <4> QED
        BY <2>3, <2>6, <2>7, <2>10, <2>11, <3>2, <4>1
    <3> QED
      BY <2>5, <2>9, <2>12, <3>1, <3>2
  <2>13. status' = 3 => \E f \in faults' : f.arm = o.arm.name
    BY <2>1, <2>2, <2>3, <2>7, RecordPasses
  <2>14. ASSUME NEW i \in DOMAIN observations'
         PROVE  LET x == observations'[i]
                IN  /\ TrueOf(observations[i])'
                    /\ i <= Len(Names') /\ x.arm = Names'[i] /\ x.control = x.arm.control
                    /\ x.control /\ (i < Len(observations') \/ status' # 3)
                            => ~ControlFailed(x)
    <3>1. PICK x : x = observations'[i]
      OBVIOUS
    <3>2. TrueOf(observations[i])'
      <4>1. TrueOf(x)'
        BY <2>12, <3>1
      <4> QED
        BY <3>1, <4>1 DEF TrueOf
    <3>3. i <= Len(Names) /\ x.arm = Names[i] /\ x.control = x.arm.control
      BY <2>12, <3>1
    <3>4. x.control /\ (i < l + 1 \/ status' # 3) => ~ControlFailed(x)
      BY <2>12, <3>1
    <3> QED
      BY <1>1, <2>5, <3>1, <3>2, <3>3, <3>4
  <2> QED
    BY <2>5, <2>13, <2>14 DEF DoneInv, ControlFailed
<1> QED
  BY <1>2, <1>3

LEMMA ArmsStart == ArmsInit => ArmsTypeOK /\ ArmsInv
<1> SUFFICES ASSUME ArmsInit PROVE ArmsTypeOK /\ ArmsInv
  OBVIOUS
<1>1. /\ pc = "install" /\ status = Running /\ exit = Running /\ script = ""
      /\ observations = << >> /\ plan = << >> /\ ran = << >> /\ traced = << >>
      /\ disk = Clean /\ noted = Unread /\ sandbox \in BOOLEAN
  BY Zenon DEF ArmsInit
<1>2. PICK e : e = << >>
  OBVIOUS
<1>3. \A X : e \in Seq(X)
  BY <1>2, EmptySeq
<1>4. Len(e) = 0 /\ DOMAIN e = {}
  BY <1>2
<1>5. disk \in DiskType /\ disk.inside = {} /\ disk.outside = {} /\ disk.hook = FALSE
  BY <1>1 DEF Clean, DiskType
<1>6. noted \in InstallType
  <2>1. noted = [exit |-> Running, traceCaptured |-> FALSE, processesStarted |-> 0,
                 lifecycleScripts |-> e, markersInside |-> {}, markersOutside |-> {},
                 preCommitHookPresent |-> FALSE]
    BY <1>1, <1>2, Zenon DEF Unread
  <2> QED
    BY <1>3, <2>1 DEF InstallType, ExitCodes
<1>7. ArmsTypeOK
  <2>1. /\ observations \in Seq(ObservationType) /\ plan \in Seq(ScriptNames)
        /\ ran \in Seq(ScriptNames) /\ traced \in Seq(Programs)
    BY <1>1, <1>2, <1>3, Zenon
  <2> QED
    BY <1>1, <1>5, <1>6, <2>1 DEF ArmsTypeOK, ExitCodes
<1>8. WalkInv
  BY <1>1, Codes DEF WalkInv
<1>9. RoomInv
  <2>1. PICK n \in Nat \ {0} : n = Len(Names)
    BY NamesListed
  <2>2. Len(observations) = 0
    BY <1>1, <1>2, <1>4
  <2>3. 0 < n
    OBVIOUS
  <2> QED
    BY <2>1, <2>2, <2>3 DEF RoomInv
<1>10. RanInv
  <2>1. scriptCommands(traced) = ran
    BY <1>1, OnlyEmpty DEF scriptCommands
  <2>2. ToSet(ran) = {}
    BY <1>1, <1>2, <1>4 DEF ToSet
  <2> QED
    BY <1>1, <1>5, <2>1, <2>2, Codes DEF RanInv, Canaries
<1>11. NotedInv /\ ControlInv
  BY <1>1 DEF NotedInv, ControlInv
<1>12. DoneInv
  BY <1>1, <1>2, <1>4, Codes DEF DoneInv
<1> QED
  BY <1>7, <1>8, <1>9, <1>10, <1>11, <1>12 DEF ArmsInv

LEMMA ArmsStutter ==
    ASSUME ArmsInv, UNCHANGED armsVars
    PROVE  ArmsInv'
<1>1. /\ UNCHANGED <<sandbox, denied, observations, pc, plan, script>>
      /\ UNCHANGED <<ran, traced, exit, disk, noted, faults, status>>
  BY DEF armsVars
<1>2. Names' = Names
  BY ArmsFixed
<1>3. Current' = Current /\ scriptCommands(traced') = scriptCommands(traced)
  BY <1>1, <1>2 DEF Current
<1>4. WalkInv' /\ RoomInv'
  BY <1>1, <1>2 DEF ArmsInv, WalkInv, RoomInv
<1>5. RanInv'
  BY <1>1, <1>3 DEF ArmsInv, RanInv
<1>6. NotedInv'
  BY <1>1, <1>3 DEF ArmsInv, NotedInv
<1>7. ControlInv'
  BY <1>1, <1>3 DEF ArmsInv, ControlInv
<1>8. DoneInv'
  BY <1>1, <1>2 DEF ArmsInv, DoneInv, TrueOf, ControlFailed
<1> QED
  BY <1>4, <1>5, <1>6, <1>7, <1>8 DEF ArmsInv

LEMMA ArmsStep == ArmsTypeOK /\ ArmsInv /\ [ArmsNext]_armsVars => ArmsTypeOK' /\ ArmsInv'
<1> SUFFICES ASSUME ArmsTypeOK, ArmsInv, [ArmsNext]_armsVars PROVE ArmsTypeOK' /\ ArmsInv'
  OBVIOUS
<1>1. WalkInv /\ RoomInv /\ RanInv /\ NotedInv /\ ControlInv /\ DoneInv
  BY DEF ArmsInv
<1>2. ArmsTypeOK'
  BY <1>1, ArmsTypeInvariance
<1>3. CASE ArmsNext
  <2>1. WalkInv' /\ RoomInv'
    BY <1>1, <1>3, WalkStep, RoomStep
  <2>2. RanInv' /\ NotedInv'
    BY <1>1, <1>3, RanStep, NotedStep
  <2>3. ControlInv' /\ DoneInv'
    BY <1>1, <1>3, ControlStep, DoneStep
  <2> QED
    BY <1>2, <2>1, <2>2, <2>3 DEF ArmsInv
<1>4. CASE UNCHANGED armsVars
  BY <1>2, <1>4, ArmsStutter
<1> QED
  BY <1>3, <1>4

\* The invariant holds of every experiment, whatever the sandbox denies and
\* whatever goes another way in an install, however often.
THEOREM ArmsInvariance == ArmsSpec => [](ArmsTypeOK /\ ArmsInv)
<1> QED
  BY ArmsStart, ArmsStep, PTL DEF ArmsSpec

\* The record that observe makes of an arm (run.mjs) is true of its install: all
\* scripts, markers and the hook if the install ended by itself; if it was
\* killed, a beginning of the scripts and nothing that no script had done.
THEOREM ArmsAreTrue == ArmsSpec => []ArmTrue
<1>1. DoneInv => ArmTrue
  BY DEF DoneInv, ArmTrue
<1> QED
  BY <1>1, ArmsInvariance, PTL DEF ArmsInv

\* Controls run first (run.mjs): before there is a record of any other arm every
\* control has been installed and no script ran in it, and an experiment is only
\* stopped by a control in which something went another way.
THEOREM ControlsAreVouched == ArmsSpec => []ControlsVouch
<1>1. ASSUME ArmsTypeOK, DoneInv PROVE ControlsVouch
  <2>1. PICK l : l = Len(observations) /\ l \in Nat /\ DOMAIN observations = 1..l
    BY <1>1, ArmTypes, Sequence
  <2>2. ASSUME NEW i \in DOMAIN observations, ~observations[i].control,
               NEW a \in ToSet(Names), a.control
        PROVE  \E j \in 1..(i - 1) : /\ observations[j].arm = a
                                     /\ observations[j].install.exit = 0
                                     /\ observations[j].install.processesStarted > 0
                                     /\ observations[j].ran = << >>
    <3>1. PICK j \in 1..Len(Names) : a = Names[j]
      <4>1. DOMAIN Names = 1..Len(Names)
        BY NamesListed, Sequence
      <4> QED
        BY <2>2, <4>1 DEF ToSet
    <3>2. i \in 1..Len(Names) /\ i <= l /\ ~Names[i].control
      <4>1. i <= Len(Names) /\ ~Names[i].control
        BY <1>1, <2>2 DEF DoneInv
      <4> QED
        BY <2>1, <4>1, NamesListed
    <3>3. j < i
      BY <2>2, <3>1, <3>2, NamesListed
    <3>4. j \in 1..(i - 1) /\ j \in 1..l /\ j < l
      BY <2>1, <3>2, <3>3, NamesListed
    <3>5. PICK o : o = observations[j]
      OBVIOUS
    <3>6. TrueOf(o) /\ o.arm = a /\ o.control /\ ~ControlFailed(o)
      BY <1>1, <2>1, <2>2, <3>1, <3>4, <3>5 DEF DoneInv
    <3>7. o.install.exit = 0 /\ o.install.lifecycleScripts = << >>
          /\ o.install.processesStarted # 0
      BY <3>6 DEF ControlFailed
    <3>8. o.ran = << >>
      BY <3>6, <3>7, Codes DEF TrueOf
    <3>9. o.install.processesStarted > 0
      <4>1. o \in ObservationType
        BY <1>1, <2>1, <3>4, <3>5, ArmTypes, Sequence
      <4>2. o.install.processesStarted \in Nat
        BY <4>1 DEF ObservationType, InstallType
      <4> QED
        BY <3>7, <4>2
    <3> QED
      BY <3>4, <3>5, <3>6, <3>7, <3>8, <3>9
  <2>3. status = 3 => \E f \in faults : f.arm = Last(observations).arm.name
    BY <1>1 DEF DoneInv, Last
  <2> QED
    BY <2>2, <2>3 DEF ControlsVouch
<1> QED
  BY <1>1, ArmsInvariance, PTL DEF ArmsInv
=============================================================================
