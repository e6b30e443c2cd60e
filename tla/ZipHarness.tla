------------------------------ MODULE ZipHarness ------------------------------
(***************************************************************************)
(* labs/zip-differentials: run.py gives every archive of a corpus to three *)
(* readers, each in a process of its own (probe.py once, ZipProbe.java in  *)
(* two modes), classifies how each process ended, compares what the        *)
(* readers accepted, and decides its exit status.  The readers stop at two *)
(* ceilings, on entries and on decoded bytes.                              *)
(*                                                                         *)
(* An archive is what fixtures.archive makes one from: its local records   *)
(* in order, and the order of its central directory.  A payload is its     *)
(* size and whether it holds the marker.  How the libraries enumerate an   *)
(* archive (Listing, Conflict) is external.                                *)
(***************************************************************************)
EXTENDS Integers, Sequences, FiniteSets

CONSTANTS
    Corpus,             \* the archives; the first one is the control
    MaxEntries, MaxBytes,   \* the ceilings of a reader
    Buffer              \* the bytes that ZipProbe reads at once, at most

Payload(size, marked) == [size |-> size, marked |-> marked]
Record(name, central, data) == [name |-> name, central |-> central, data |-> data]

ASSUME ZipHarnessAssumption ==
    /\ MaxEntries \in Nat /\ MaxBytes \in Nat /\ Buffer \in Nat \ {0}
    /\ Corpus # << >>
    /\ Corpus \in Seq([records : Seq([name : STRING, central : STRING,
                                     data : [size : Nat, marked : BOOLEAN]]),
                      order : Seq(Nat)])
    /\ \A i \in DOMAIN Corpus : \A j \in DOMAIN Corpus[i].order :
            Corpus[i].order[j] \in DOMAIN Corpus[i].records

Adapters == <<"python-zipinfo", "java-zipfile", "java-stream">>

VARIABLES
    fixture,            \* the archive that is examined
    adapter,            \* the reader that runs or runs next
    process,            \* "none", "reading", "entry" (inside observe) or "compared"
    entries,            \* result["entries"] of the process
    total,              \* the bytes it has decoded
    got,                \* those of the entry it is in
    runs,               \* the finished runs on this archive
    failed,             \* some run so far belongs to failures
    control,            \* control_passes, of the first archive
    status              \* the exit status, or Running

vars == <<fixture, adapter, process, entries, total, got, runs, failed, control, status>>

Running == -1

Archive == Corpus[fixture]
Reader == Adapters[adapter]

(* What a reader enumerates: the stream goes through the local records, the  *)
(* indexed readers through the central directory.                            *)
Listing(archive, reader) ==
    IF reader = "java-stream"
    THEN [i \in DOMAIN archive.records |->
            [name |-> archive.records[i].name, data |-> archive.records[i].data]]
    ELSE [i \in DOMAIN archive.order |->
            [name |-> archive.records[archive.order[i]].central,
             data |-> archive.records[archive.order[i]].data]]

\* CPython refuses an entry whose two names differ.
Conflict(archive, reader, i) ==
    /\ reader = "python-zipinfo"
    /\ archive.records[archive.order[i]].name # archive.records[archive.order[i]].central

Due == Listing(Archive, Reader)[Len(entries) + 1]
AllRead == Len(entries) = Len(Listing(Archive, Reader))

Observed(item) == [name |-> item.name, size |-> item.data.size, marker |-> item.data.marked]

Init ==
    /\ fixture = 1 /\ adapter = 1
    /\ process = "none"
    /\ entries = << >> /\ total = 0 /\ got = 0
    /\ runs = << >>
    /\ failed = FALSE /\ control = FALSE
    /\ status = Running

Harness == UNCHANGED <<fixture, adapter, runs, failed, control, status>>

-----------------------------------------------------------------------------
(* run_adapter: the process ended with an exit code and an observation, or   *)
(* without a usable one; it may have written to stderr or warned.            *)
Classification(code, error, noisy) ==
    CASE error = "limit" -> "limit-exceeded"
      [] code = 2 /\ error = "refused" -> "rejected"
      [] code = 0 /\ error = "none" -> IF noisy THEN "success-with-warning" ELSE "success"
      [] OTHER -> "adapter-error"

\* What makes the whole experiment fail.
FaultyFailure == {"adapter-error", "limit-exceeded"}    \* Faulty: a hang is no failure
Failure == {"timeout", "adapter-error", "limit-exceeded"}

\* The run is over; the next reader gets a new process.
RecordRun(classification, observation) ==
    /\ runs' = Append(runs, [classification |-> classification, entries |-> observation])
    /\ failed' = (failed \/ classification \in Failure)
    /\ adapter' = adapter + 1
    /\ process' = "none"
    /\ entries' = << >> /\ total' = 0 /\ got' = 0
    /\ UNCHANGED <<fixture, control, status>>

Report(code, error) ==
    \E noisy \in BOOLEAN : RecordRun(Classification(code, error, noisy), entries)

Start ==
    /\ status = Running
    /\ process = "none"
    /\ adapter <= Len(Adapters)
    /\ process' = "reading"
    /\ Harness
    /\ UNCHANGED <<entries, total, got>>

\* The ten seconds are over: whatever the process was doing, it is killed.
FaultyTimeout ==                            \* Faulty: only between entries
    /\ process = "reading"
    /\ RecordRun("timeout", << >>)
Timeout ==
    /\ process \in {"reading", "entry"}
    /\ RecordRun("timeout", << >>)

\* The process dies without a line of JSON (an interpreter or JVM error).
Crash ==
    /\ process \in {"reading", "entry"}
    /\ RecordRun("adapter-error", << >>)

\* Every entry was read.
Succeed ==
    /\ process = "reading"
    /\ AllRead
    /\ Report(0, "none")

\* The library refuses the next entry, or the archive: what was read stays.
Refuse ==
    /\ process = "reading"
    /\ ~AllRead
    /\ Conflict(Archive, Reader, Len(entries) + 1)
    /\ Len(entries) < MaxEntries
    /\ Report(2, "refused")

EntryCeiling ==
    /\ process = "reading"
    /\ ~AllRead
    /\ Len(entries) >= MaxEntries
    /\ Report(2, "limit")

-----------------------------------------------------------------------------
(* probe.py reads an entry at once, up to a byte more than is left.          *)
Least(a, b) == IF a <= b THEN a ELSE b

Readable == ~AllRead /\ Len(entries) < MaxEntries /\ ~Conflict(Archive, Reader, Len(entries) + 1)

FaultyPythonTotal == total + Least(Due.data.size, MaxBytes - total)    \* Faulty: not one more
PythonTotal == total + Least(Due.data.size, MaxBytes + 1 - total)

PythonEntry ==
    /\ process = "reading" /\ Reader = "python-zipinfo"
    /\ Readable
    /\ \/ /\ PythonTotal > MaxBytes
          /\ Report(2, "limit")
       \/ /\ PythonTotal <= MaxBytes
          /\ total' = PythonTotal
          /\ entries' = Append(entries, Observed(Due))
          /\ Harness
          /\ UNCHANGED <<process, got>>

(* ZipProbe reads an entry by the buffer, and learns of its end by one more  *)
(* read; a read may return less than it was asked for.                       *)
JavaEntry ==
    /\ process = "reading" /\ Reader # "python-zipinfo"
    /\ Readable
    /\ process' = "entry"
    /\ got' = 0
    /\ Harness
    /\ UNCHANGED <<entries, total>>

ReadLimit == Least(Buffer, MaxBytes - total + 1)

JavaRead ==
    /\ process = "entry"
    /\ got < Due.data.size
    /\ \E count \in 1..Least(ReadLimit, Due.data.size - got) :
        \/ /\ total + count > MaxBytes
           /\ Report(2, "limit")
        \/ /\ total + count <= MaxBytes
           /\ total' = total + count
           /\ got' = got + count
           /\ Harness
           /\ UNCHANGED <<process, entries>>

FaultyJavaEnd ==                            \* Faulty: a short read ends the entry
    /\ process = "entry"
    /\ got > 0 \/ Due.data.size = 0
    /\ entries' = Append(entries, [Observed(Due) EXCEPT !.size = got])
    /\ process' = "reading"
    /\ Harness
    /\ UNCHANGED <<total, got>>
JavaEnd ==
    /\ process = "entry"
    /\ got = Due.data.size
    /\ entries' = Append(entries, Observed(Due))
    /\ process' = "reading"
    /\ Harness
    /\ UNCHANGED <<total, got>>

-----------------------------------------------------------------------------
(* main: the comparison of the accepted observations, archive by archive.    *)
FaultyAccepted == {a \in DOMAIN runs : runs[a].classification # "timeout"}  \* Faulty: partial ones too
Accepted == {a \in DOMAIN runs :
                runs[a].classification \in {"success", "success-with-warning"}}

accepted_entry_sequence_disagreement == Cardinality({runs[a].entries : a \in Accepted}) > 1
MarkerDecision(a) == \E i \in DOMAIN runs[a].entries : runs[a].entries[i].marker

ControlPasses ==                            \* the first archive has one ordinary entry
    \A a \in DOMAIN runs :
        /\ runs[a].classification = "success"
        /\ runs[a].entries = <<Observed(Listing(Archive, "java-stream")[1])>>

Compare ==
    /\ process = "none"
    /\ adapter > Len(Adapters)
    /\ process' = "compared"
    /\ control' = IF fixture = 1 THEN ControlPasses ELSE control
    /\ UNCHANGED <<fixture, adapter, entries, total, got, runs, failed, status>>

NextArchive ==
    /\ process = "compared"
    /\ fixture < Len(Corpus)
    /\ fixture' = fixture + 1
    /\ adapter' = 1
    /\ process' = "none"
    /\ runs' = << >>
    /\ UNCHANGED <<entries, total, got, failed, control, status>>

Exit ==
    /\ process = "compared"
    /\ fixture = Len(Corpus)
    /\ status = Running
    /\ status' = IF failed \/ ~control THEN 1 ELSE 0
    /\ UNCHANGED <<fixture, adapter, process, entries, total, got, runs, failed, control>>

Next ==
    \/ Start \/ Timeout \/ Crash \/ Succeed \/ Refuse \/ EntryCeiling
    \/ PythonEntry \/ JavaEntry \/ JavaRead \/ JavaEnd
    \/ Compare \/ NextArchive \/ Exit

\* The harness goes on while it can; of a reader only its timeout is certain.
Spec ==
    /\ Init /\ [][Next]_vars
    /\ WF_vars(Start) /\ WF_vars(Timeout)
    /\ WF_vars(Compare) /\ WF_vars(NextArchive) /\ WF_vars(Exit)

-----------------------------------------------------------------------------
\* The bytes of the first n entries of a listing.
Sizes(items, n) ==
    LET sum[k \in 0..n] == IF k = 0 THEN 0 ELSE sum[k - 1] + items[k].data.size
    IN  sum[n]

\* A reader never holds more entries or bytes than the ceilings allow, and it
\* observes exactly what the library lists: an observation is always a prefix of
\* the listing, with whole entries, and the byte count is theirs.
ObservationIsPrefix ==
    process \in {"reading", "entry"} =>
        LET list == Listing(Archive, Reader)
        IN  /\ Len(entries) <= Least(MaxEntries, Len(list))
            /\ \A i \in DOMAIN entries : entries[i] = Observed(list[i])
            /\ total <= MaxBytes
            /\ total = Sizes(list, Len(entries)) + (IF process = "entry" THEN got ELSE 0)

\* The ceilings are exact on both sides: a run ends as limit-exceeded only on a
\* listing that passes one of them, and a run is accepted only when it does not,
\* whichever reader it is and however its reads were cut.
CeilingsExact ==
    \A a \in DOMAIN runs :
        LET list == Listing(Archive, Adapters[a])
            exceeds == Len(list) > MaxEntries \/ Sizes(list, Len(list)) > MaxBytes
        IN  /\ runs[a].classification = "limit-exceeded" => exceeds
            /\ a \in Accepted => ~exceeds

\* README.md: "A rejection is never converted into a successful empty archive or
\* a clean marker verdict".  What is compared is complete: a reader whose verdict
\* is "no marker" was shown no marker by its library, and two compared readers
\* differ only on an archive whose directory and local records differ.
ComparedIsComplete ==
    LET consistent == /\ Archive.order = [i \in DOMAIN Archive.records |-> i]
                      /\ \A i \in DOMAIN Archive.records :
                            Archive.records[i].name = Archive.records[i].central
        list(a) == Listing(Archive, Adapters[a])
    IN  /\ \A a \in Accepted :
            /\ Len(runs[a].entries) = Len(list(a))
            /\ MarkerDecision(a) <=> \E i \in DOMAIN list(a) : list(a)[i].data.marked
        /\ accepted_entry_sequence_disagreement => ~consistent

\* Exit status 0 vouches for every run of every archive: once a run has timed
\* out, broken or hit a ceiling, or the control was not read by all readers
\* without a warning, the harness never exits with 0.
ExitTrue ==
    [](\/ \E a \in DOMAIN runs : runs[a].classification
                \in {"timeout", "adapter-error", "limit-exceeded"}
       \/ fixture = 1 /\ \E a \in DOMAIN runs : runs[a].classification # "success"
       => [](status # 0))

\* The harness ends, even if every reader hangs.
HarnessEnds == <>(status # Running)
=============================================================================
