----------------------------- MODULE ApprovalTrace -----------------------------
(***************************************************************************)
(* parseTrace of labs/approval-scope/run.mjs reads what `strace -f -o`     *)
(* wrote while an approved command ran: all processes of the command write *)
(* to one file, a call that another process's event interrupts is split in *)
(* two lines, and the parser joins the halves by process ID.               *)
(*                                                                         *)
(* The processes and strace are external: they make the file.  A call is   *)
(* its name and, for an open, whether it can write; its arguments are the  *)
(* path.  The parser is a function of the file, evaluated at every moment  *)
(* and compared with what the processes really did.                        *)
(***************************************************************************)
EXTENDS Integers, Sequences, FiniteSets

CONSTANTS
    Pids,               \* process IDs; the system reuses them
    Calls,              \* [name, writes, path] of the traced calls
    Returns,            \* [ok, text, errno]: how a call can return
    MaxCalls            \* bound: the calls of one trace

NoCall == [name |-> "none", writes |-> FALSE, path |-> "none"]
Nobody == 0

ASSUME ApprovalTraceAssumption ==
    /\ Nobody \notin Pids
    /\ MaxCalls \in Nat
    /\ NoCall.name \notin {c.name : c \in Calls}
    \* What TRACED lists beside execve and the opens changes a file.
    /\ \A c \in Calls : c.name \notin {"execve", "openat"} => c.writes

VARIABLES
    inside,             \* the call each process is in
    printing,           \* the process whose line strace has not finished
    file,               \* the lines of the trace
    returned,           \* what really happened: the calls in order of return
    made                \* the number of calls so far

vars == <<inside, printing, file, returned, made>>

Line(form, pid, call, return) == [form |-> form, pid |-> pid, call |-> call, return |-> return]
NoReturn == [text |-> "none"]

Init ==
    /\ inside = [p \in Pids |-> NoCall]
    /\ printing = Nobody
    /\ file = << >>
    /\ returned = << >>
    /\ made = 0

\* An event of one process cuts the line of another one short.
Interrupted(p) ==
    IF printing \in {Nobody, p} THEN file
    ELSE Append(file, Line("unfinished", printing, inside[printing], NoReturn))

Enter(p, call) ==
    /\ inside[p] = NoCall
    /\ made < MaxCalls
    /\ inside' = [inside EXCEPT ![p] = call]
    /\ file' = Interrupted(p)
    /\ printing' = p
    /\ made' = made + 1
    /\ UNCHANGED returned

Return(p, return) ==
    /\ inside[p] # NoCall
    /\ file' = IF printing = p
               THEN Append(file, Line("whole", p, inside[p], return))
               ELSE Append(Interrupted(p), Line("resumed", p, NoCall, return))
    /\ returned' = Append(returned, [pid |-> p, call |-> inside[p], return |-> return])
    /\ inside' = [inside EXCEPT ![p] = NoCall]
    /\ printing' = Nobody
    /\ UNCHANGED made

\* A process is killed inside a call; another one may get its ID.
Killed(p) ==
    /\ inside[p] # NoCall
    /\ file' = IF printing = p
               THEN Append(file, Line("unfinished", p, inside[p], NoReturn))
               ELSE Interrupted(p)
    /\ inside' = [inside EXCEPT ![p] = NoCall]
    /\ printing' = Nobody
    /\ UNCHANGED <<returned, made>>

Next ==
    \/ \E p \in Pids : \E call \in Calls : Enter(p, call)
    \/ \E p \in Pids : \E return \in Returns : Return(p, return)
    \/ \E p \in Pids : Killed(p)

Spec == Init /\ [][Next]_vars

-----------------------------------------------------------------------------
(* parseTrace.  First the halves are joined: pending holds the first half of *)
(* each process's call.                                                      *)
Joined(pid, call, return) == [pid |-> pid, call |-> call, return |-> return]

Hold(pending, line) == [pending EXCEPT ![line.pid] = line.call]

OneSlotResume(state, line) ==               \* Faulty: takes whichever half is pending
    LET pid == IF \E p \in Pids : state.pending[p] # NoCall
               THEN CHOOSE p \in Pids : state.pending[p] # NoCall
               ELSE line.pid
    IN  [pending |-> [state.pending EXCEPT ![pid] = NoCall],
         lines |-> Append(state.lines, Joined(line.pid, state.pending[pid], line.return))]
Resume(state, line) ==
    [pending |-> [state.pending EXCEPT ![line.pid] = NoCall],
     lines |-> Append(state.lines, Joined(line.pid, state.pending[line.pid], line.return))]

JoinLine(state, line) ==
    CASE line.form = "unfinished" -> [state EXCEPT !.pending = Hold(@, line)]
      [] line.form = "resumed" -> Resume(state, line)
      [] line.form = "whole" ->
            [state EXCEPT !.lines = Append(@, Joined(line.pid, line.call, line.return))]

Joining(trace) ==
    LET state[i \in 0..Len(trace)] ==
            IF i = 0 THEN [pending |-> [p \in Pids |-> NoCall], lines |-> << >>]
            ELSE JoinLine(state[i - 1], trace[i])
    IN  state[Len(trace)]

Lines(trace) == Joining(trace).lines

(* Then every line that reads as a call is an exec, a mutation, or skipped.  *)
ok(line) == line.return.text # "-1"

IsExec(line) == line.call.name = "execve" /\ ok(line)

FaultyIsMutation(line) ==                   \* Faulty: reads count
    line.call.name \notin {"execve", NoCall.name}
IsMutation(line) ==
    /\ line.call.name \notin {"execve", NoCall.name}
    /\ line.call.name = "openat" => line.call.writes
    /\ line.call.name = "mkdir" => line.return.errno # "EEXIST"

\* The elements of a list at the wanted places, in order.
Chosen(list, wanted) ==
    LET Wanted(i) == i \in wanted
        places == SelectSeq([i \in DOMAIN list |-> i], Wanted)
    IN  [k \in DOMAIN places |-> list[places[k]]]

Exec(line) == [pid |-> line.pid, path |-> line.call.path]
Mutation(line) ==
    [pid |-> line.pid, call |-> line.call.name, path |-> line.call.path,
     ok |-> ok(line), errno |-> IF ok(line) THEN "null" ELSE line.return.errno]

execs(trace) ==
    LET lines == Lines(trace)
    IN  Chosen([i \in DOMAIN lines |-> Exec(lines[i])], {i \in DOMAIN lines : IsExec(lines[i])})

mutations(trace) ==
    LET lines == Lines(trace)
    IN  Chosen([i \in DOMAIN lines |-> Mutation(lines[i])],
               {i \in DOMAIN lines : IsMutation(lines[i])})

-----------------------------------------------------------------------------
\* What a call really was.
Started(c) == c.call.name = "execve" /\ c.return.ok
Attempt(c) == /\ c.call.name # "execve" /\ c.call.writes
              /\ ~(c.call.name = "mkdir" /\ c.return.errno = "EEXIST")

\* A return that strace prints as -1 is a failure, and no other is; only a
\* failure has an error number.
ResultsKnown ==
    \A r \in Returns : r.ok = (r.text # "-1") /\ (r.ok => r.errno = "null")

\* Whatever the processes' calls were interleaved, cut short or left unfinished,
\* and whichever process IDs were used again, the record lists the programs that
\* were started and by whom, in order, and nothing else (README.md: "every
\* successful execve"; run.test.mjs: "successful execs only, resumed lines
\* rejoined").
ExecsExact ==
    execs(file) = Chosen([i \in DOMAIN returned |-> [pid |-> returned[i].pid,
                                                     path |-> returned[i].call.path]],
                         {i \in DOMAIN returned : Started(returned[i])})

\* The record lists every attempt to change a file, its process and its result,
\* and no call that could not change one: no open for reading, and no mkdir of a
\* directory that exists already.
MutationsExact ==
    mutations(file) =
        Chosen([i \in DOMAIN returned |->
                    [pid |-> returned[i].pid, call |-> returned[i].call.name,
                     path |-> returned[i].call.path, ok |-> returned[i].return.ok,
                     errno |-> returned[i].return.errno]],
               {i \in DOMAIN returned : Attempt(returned[i])})
=============================================================================
