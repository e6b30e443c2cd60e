---------------------------- MODULE ExitStatusLab ----------------------------
(***************************************************************************)
(* labs/exit-status/run.py runs every published command and its corrected  *)
(* form in bash, each in a fresh directory, and records what the shell and *)
(* the directory show.  When all have run it compares each with what was   *)
(* expected, one case with another where the expectation says so.          *)
(*                                                                         *)
(* bash, tee, gpg, curl and pihole are external: Effect says what a        *)
(* command does.  A command may also hang, fail, or do what the author of  *)
(* the published form took it to do; `faults` remembers which, so that     *)
(* what really happened in a case can be told without the harness.         *)
(*                                                                         *)
(* A text is a token; outputs and the contents of files are sequences of   *)
(* them, and a digest is the sequence itself.                              *)
(***************************************************************************)
EXTENDS Integers, Sequences, SequencesExt, FiniteSets

CONSTANTS
    OutputLimit,        \* OUTPUT_LIMIT, in texts: no expectation looks further than two
    TimeoutSeconds,     \* TIMEOUT_SECONDS
    HardLimit,          \* after so long the wrapper kills the lab
    MaxFaults           \* how many cases may go another way (bound)

ASSUME ExitStatusAssumption ==
    /\ OutputLimit \in Nat \ {0, 1} /\ MaxFaults \in Nat
    /\ TimeoutSeconds \in Nat \ {0} /\ HardLimit \in Nat

-----------------------------------------------------------------------------
(* Commands, and what they do to the status, the output and the files.       *)

\* FAIL 2>&1 | tee FILE, with or without pipefail.
Tee(text, file, strict) == [op |-> "tee", text |-> text, file |-> file, strict |-> strict]
Echo(text) == [op |-> "echo", text |-> text]
\* gpg --symmetric, into `to`; the shell empties the targets of redirections.
Encrypt(to, redirected) == [op |-> "encrypt", to |-> to, redirected |-> redirected]
Decrypt(redirected) == [op |-> "decrypt", redirected |-> redirected]
\* cmp ... && echo RESTORED, with or without a last `exit $status`.
Compare(keeps) == [op |-> "compare", keeps |-> keeps]
Curl(path, fail) == [op |-> "curl", path |-> path, fail |-> fail]
Pihole(known) == [op |-> "pihole", known |-> known]

\* FixtureHandler.do_GET
Response(path) == IF path = "ok" THEN [code |-> 200, body |-> <<"services:">>]
                                 ELSE [code |-> 403, body |-> <<"AccessDenied">>]

Help == <<"Usage: pihole", "options", "commands">>

\* What a command meets, and what it leaves to the next one.
State(code, text, files) == [status |-> code, out |-> text, files |-> files]
Write(files, names, content) ==
    [f \in DOMAIN files \cup names |-> IF f \in names THEN content ELSE files[f]]

Effect(c, s, serving) ==
    LET response == Response(c.path)
        decrypted == "backup.gpg" \in DOMAIN s.files /\ s.files["backup.gpg"] = <<"cipher">>
        restored == /\ "restored.txt" \in DOMAIN s.files
                    /\ s.files["restored.txt"] = s.files["seeds.txt"]
    IN  CASE c.op = "exit" -> [s EXCEPT !.status = c.status]
          [] c.op = "tee" -> [s EXCEPT !.status = IF c.strict THEN 1 ELSE 0,
                                       !.out = @ \o c.text,
                                       !.files = Write(@, {c.file}, c.text)]
          [] c.op = "echo" -> [s EXCEPT !.status = 0, !.out = Append(@, c.text)]
          [] c.op = "encrypt" -> [s EXCEPT !.status = 0,
                                           !.files = Write(Write(@, c.redirected, << >>),
                                                           {c.to}, <<"cipher">>)]
          [] c.op = "decrypt" ->
                IF decrypted THEN [s EXCEPT !.status = 0,
                                            !.files = Write(@, {"restored.txt"}, <<"seeds">>)]
                ELSE [s EXCEPT !.status = 2,
                               !.files = Write(@, c.redirected, << >>)]
          [] c.op = "compare" -> [s EXCEPT !.status = IF c.keeps THEN @
                                                      ELSE IF restored THEN 0 ELSE 1,
                                           !.out = IF restored THEN Append(@, "RESTORED") ELSE @]
          [] c.op = "curl" ->
                IF ~serving THEN [s EXCEPT !.status = 7]
                ELSE IF response.code = 200 \/ c.fail # "fail"
                THEN [s EXCEPT !.status = IF response.code = 200 \/ c.fail = "no" THEN 0 ELSE 22,
                               !.files = Write(@, {"docker-compose.yml"}, response.body)]
                ELSE [s EXCEPT !.status = 22]
          [] c.op = "pihole" -> [s EXCEPT !.status = 0,
                                          !.out = @ \o Help \o IF c.known THEN <<"list added">>
                                                                          ELSE << >>]

\* What the author of the published form took the command to do.
Intended(c) ==
    CASE c.op = "tee" -> [c EXCEPT !.strict = TRUE]
      [] c.op = "encrypt" -> Encrypt("backup.gpg", {})
      [] c.op = "curl" -> [c EXCEPT !.fail = "fail"]
      [] c.op = "pihole" -> Pihole(TRUE)
      [] OTHER -> c

Behave(c, kind, s, serving) ==
    CASE kind = "ok" -> Effect(c, s, serving)
      [] kind = "fails" -> [s EXCEPT !.status = 1]
      [] kind = "works" -> Effect(Intended(c), s, serving)

-----------------------------------------------------------------------------
(* CASES.  A strict script stops at the first command that fails: `set -e`,  *)
(* or commands joined by &&.                                                 *)

Case(id, group, role, strict, body, expect) ==
    [id |-> id, group |-> group, role |-> role, strict |-> strict, body |-> body,
     expect |-> expect]

Fetched == <<"fetch failed: 403">>
Absent == <<"absent">>
Empty == <<"empty">>
Nonempty == <<"nonempty">>
Containing(text) == <<"contains", text>>
InCompose(want) == {<<"docker-compose.yml", want>>}

PipelineCases(name, control, text, file, word, files) == <<
    Case(name, "pipeline", "published", TRUE, <<Tee(text, file, FALSE), Echo(word)>>,
         [exit |-> 0, stdout_contains |-> word, files |-> files]),
    Case(control, "pipeline", "control", TRUE, <<Tee(text, file, TRUE), Echo(word)>>,
         [exit |-> 1, stdout_lacks |-> word, files |-> files])>>

GpgCases == <<
    Case("gpg-redirect", "gpg", "published", FALSE,
         <<Encrypt("seeds.txt.gpg", {"backup.gpg"})>>,
         [exit |-> 0, files |-> {<<"backup.gpg", Empty>>, <<"seeds.txt.gpg", Nonempty>>,
                                 <<"seeds.txt", Nonempty>>}]),
    Case("gpg-redirect-roundtrip", "gpg", "check", FALSE,
         <<Encrypt("seeds.txt.gpg", {"backup.gpg"}), Decrypt({"restored.txt"}), Compare(TRUE)>>,
         [exit_nonzero |-> TRUE, stdout_lacks |-> "RESTORED"]),
    Case("gpg-output", "gpg", "control", FALSE,
         <<Encrypt("backup.gpg", {})>>,
         [exit |-> 0, files |-> {<<"backup.gpg", Nonempty>>, <<"seeds.txt.gpg", Absent>>}]),
    Case("gpg-output-roundtrip", "gpg", "check", TRUE,
         <<Encrypt("backup.gpg", {}), Decrypt({}), Compare(FALSE)>>,
         [exit |-> 0, stdout_contains |-> "RESTORED"])>>

CurlCases == <<
    Case("curl-O-403", "curl", "published", FALSE, <<Curl("denied", "no")>>,
         [exit |-> 0, files |-> InCompose(Containing("AccessDenied"))]),
    Case("curl-fail-403", "curl", "control", FALSE, <<Curl("denied", "fail")>>,
         [exit |-> 22, files |-> InCompose(Absent)]),
    Case("curl-fail-with-body-403", "curl", "control", FALSE, <<Curl("denied", "with-body")>>,
         [exit |-> 22, files |-> InCompose(Containing("AccessDenied"))]),
    Case("curl-fail-200", "curl", "control", FALSE, <<Curl("ok", "fail")>>,
         [exit |-> 0, files |-> InCompose(Containing("services:"))])>>

PiholeCases(add, help) == <<
    Case(add, "pihole", "published", FALSE, <<Pihole(FALSE)>>,
         [exit |-> 0, stdout_contains |-> Help[1], stdout_equals_case |-> help]),
    Case(help, "pihole", "control", FALSE, <<Pihole(FALSE)>>,
         [exit |-> 0, stdout_contains |-> Help[1]])>>

CASES ==
    <<Case("harness-sees-failure", "harness", "control", FALSE,
           <<[op |-> "exit", status |-> 7]>>, [exit |-> 7])>>
    \o PipelineCases("pipe-set-e", "pipe-set-e-pipefail", << >>, "out.log", "REACHED", {})
    \o PipelineCases("pipe-set-e-failing-fetch", "pipe-pipefail-failing-fetch", Fetched,
                     "update.log", "RELOADING", {<<"update.log", Containing(Fetched[1])>>})
    \o GpgCases \o CurlCases
    \o PiholeCases("pihole-v6.0-adlist-add", "pihole-v6.0-help")
    \o PiholeCases("pihole-v6.4.3-adlist-add", "pihole-v6.4.3-help")

-----------------------------------------------------------------------------
VARIABLES
    observations,       \* what was recorded, case by case
    pc,                 \* run_case is at "prepare", "script", "hung", "timed out" or "describe"
    shell,              \* the next command of the script, its status and output so far
    disk,               \* the directories there are, and their files
    agents,             \* the cases of which a gpg-agent runs
    orphans,            \* commands that go on after their bash was killed
    faults,             \* the cases that went another way, where and how
    status              \* the exit status, or Running

vars == <<observations, pc, shell, disk, agents, orphans, faults, status>>

Running == -1
None == -2
Killed == 137

Fresh == [next |-> 1, status |-> 0, out |-> << >>]
Prepared == [f \in {"seeds.txt"} |-> <<"seeds">>]

FaultyWorkDir(i) == 0                       \* Faulty: the cases share a directory
WorkDir(i) == i

case == Len(observations) + 1
Due == CASES[case].body[shell.next]
serving == status = Running                 \* main closes the server in a finally

\* bash is through with script i, or has left it.
ScriptOver(i, at, code) ==
    at > Len(CASES[i].body) \/ (CASES[i].strict /\ code # 0)

Hung(i) == i \in DOMAIN faults /\ faults[i].kind = "hang"
\* Only waiting for the commands that hang takes time worth counting.
TimeIsUp == TimeoutSeconds * Cardinality({i \in DOMAIN faults : Hung(i)}) > HardLimit

Init ==
    /\ observations = << >>
    /\ pc = "prepare"
    /\ shell = Fresh
    /\ disk = << >>
    /\ agents = {} /\ orphans = {}
    /\ faults = << >>
    /\ status = Running

-----------------------------------------------------------------------------
(* run_case                                                                  *)

Prepare ==
    /\ pc = "prepare" /\ status = Running
    /\ case <= Len(CASES)
    /\ disk' = Write(disk, {WorkDir(case)}, Prepared)
    /\ pc' = "script"
    /\ shell' = Fresh
    /\ UNCHANGED <<observations, agents, orphans, faults, status>>

\* The directory cannot be made (the 16 MiB of /tmp are used up): the exception
\* leaves main, which closes the server.
PrepareFails ==
    /\ pc = "prepare" /\ status = Running
    /\ case <= Len(CASES)
    /\ status' = 1
    /\ UNCHANGED <<observations, pc, shell, disk, agents, orphans, faults>>

UsesAgent(c) == c.op \in {"encrypt", "decrypt"}

\* How the next command may end; what is built into bash neither fails nor hangs.
FaultPossible ==
    /\ Due.op \notin {"exit", "echo"}
    /\ Cardinality(DOMAIN faults) < MaxFaults
    /\ case \notin DOMAIN faults
Kinds == IF ~FaultPossible THEN {"ok"}
         ELSE {"ok", "fails"}
              \cup IF CASES[case].role = "published" THEN {"works"} ELSE {}
Fault(kind) ==
    faults' = [i \in DOMAIN faults \cup {case} |->
                  IF i = case THEN [at |-> shell.next, kind |-> kind] ELSE faults[i]]

RunsOn == pc = "script" /\ ~ScriptOver(case, shell.next, shell.status)

Command ==
    /\ RunsOn
    /\ \E kind \in Kinds :
        LET before == State(shell.status, shell.out, disk[WorkDir(case)])
            s == Behave(Due, kind, before, serving)
        IN  /\ shell' = [next |-> shell.next + 1, status |-> s.status, out |-> s.out]
            /\ disk' = [disk EXCEPT ![WorkDir(case)] = s.files]
            /\ IF kind = "ok" THEN UNCHANGED faults ELSE Fault(kind)
    /\ agents' = IF UsesAgent(Due) THEN agents \cup {case} ELSE agents
    /\ UNCHANGED <<observations, pc, orphans, status>>

Hang ==
    /\ RunsOn
    /\ FaultPossible
    /\ Fault("hang")
    /\ pc' = "hung"
    /\ UNCHANGED <<observations, shell, disk, agents, orphans, status>>

\* subprocess.run kills bash alone: the command that hung goes on without it,
\* unless bash had made way for it.
TimeoutExpired ==
    /\ pc = "hung" /\ status = Running
    /\ ~TimeIsUp
    /\ orphans' \in {orphans, orphans \cup {[case |-> case, command |-> Due]}}
    /\ shell' = [shell EXCEPT !.status = None]
    /\ pc' = "timed out"
    /\ UNCHANGED <<observations, disk, agents, faults, status>>

FaultyTimeout == TimeoutExpired /\ Due.op # "tee"   \* Faulty: waits for the pipes to close
Timeout == TimeoutExpired

\* timeout --signal=KILL: the container ends, and what runs in it.
Kill ==
    /\ pc = "hung" /\ status = Running
    /\ TimeIsUp
    /\ status' = Killed
    /\ orphans' = {} /\ agents' = {}
    /\ UNCHANGED <<observations, pc, shell, disk, faults>>

\* bash has ended or was killed: gpgconf --kill all, for the GNUPGHOME of the case.
BashEnded == pc = "timed out" \/ (pc = "script" /\ ~RunsOn)

FaultyKillAgents ==                         \* Faulty: only after a timeout
    /\ BashEnded
    /\ agents' = IF pc = "timed out" THEN agents \ {case} ELSE agents
    /\ pc' = "describe"
    /\ UNCHANGED <<observations, shell, disk, orphans, faults, status>>
KillAgents ==
    /\ BashEnded
    /\ agents' = agents \ {case}
    /\ pc' = "describe"
    /\ UNCHANGED <<observations, shell, disk, orphans, faults, status>>

\* The content of ciphertext is left out.
describe_files(files) ==
    [f \in DOMAIN files |->
        [size |-> Len(files[f]),
         head |-> IF f \in {"backup.gpg", "seeds.txt.gpg"} THEN << >> ELSE files[f]]]

FirstTexts(out) == SubSeq(out, 1, IF Len(out) < OutputLimit THEN Len(out) ELSE OutputLimit)

\* The case is recorded and its directory removed.
Describe ==
    /\ pc = "describe"
    /\ observations' = Append(observations,
            [exit |-> shell.status, timed_out |-> shell.status = None,
             stdout |-> FirstTexts(shell.out), stdout_sha256 |-> shell.out,
             files |-> describe_files(disk[WorkDir(case)])])
    /\ disk' = [d \in DOMAIN disk \ {WorkDir(case)} |-> disk[d]]
    /\ pc' = "prepare"
    /\ UNCHANGED <<shell, agents, orphans, faults, status>>

\* A command that was left behind ends at any time, or never; its directory may
\* be gone by then.
OrphanEnds ==
    \E o \in orphans :
        LET dir == WorkDir(o.case)
        IN  /\ orphans' = orphans \ {o}
            /\ agents' = IF UsesAgent(o.command) THEN agents \cup {o.case} ELSE agents
            /\ disk' = IF dir \notin DOMAIN disk THEN disk
                       ELSE [disk EXCEPT ![dir] =
                               Effect(o.command, State(0, << >>, @), serving).files]
            /\ UNCHANGED <<observations, pc, shell, faults, status>>

-----------------------------------------------------------------------------
(* check and main                                                            *)

FileMatches(want, got, name) ==
    CASE want[1] = "absent" -> name \notin DOMAIN got
      [] want[1] = "empty" -> name \in DOMAIN got /\ got[name].size = 0
      [] want[1] = "nonempty" -> name \in DOMAIN got /\ got[name].size > 0
      [] want[1] = "contains" -> name \in DOMAIN got /\ want[2] \in ToSet(got[name].head)

\* The observations to compare the i-th with, by their place.
FaultyById(i) == SubSeq(observations, 1, i)     \* Faulty: checked as soon as it has run
ById(i) == observations

SameOutput(o, other) == o.stdout_sha256 = other.stdout_sha256

ExitMatches(o, expect) ==
    /\ "exit" \in DOMAIN expect => o.exit = expect.exit
    /\ "exit_nonzero" \in DOMAIN expect => o.exit \notin {0, None}

check(i) ==
    LET o == observations[i]
        expect == CASES[i].expect
        has(key) == key \in DOMAIN expect
    IN  /\ ExitMatches(o, expect)
        /\ has("stdout_contains") => expect.stdout_contains \in ToSet(o.stdout)
        /\ has("stdout_lacks") => expect.stdout_lacks \notin ToSet(o.stdout)
        /\ has("stdout_equals_case") =>
              \E j \in DOMAIN ById(i) : /\ CASES[j].id = expect.stdout_equals_case
                                        /\ SameOutput(o, ById(i)[j])
        /\ has("files") =>
              \A file \in expect.files : FileMatches(file[2], o.files, file[1])

\* All cases have run: they are checked, the server closes, the document is
\* printed whole.
Report ==
    /\ pc = "prepare" /\ status = Running
    /\ case > Len(CASES)
    /\ status' = IF \A i \in DOMAIN observations : check(i) THEN 0 ELSE 3
    /\ UNCHANGED <<observations, pc, shell, disk, agents, orphans, faults>>

Harness == Prepare \/ Command \/ Timeout \/ Kill \/ KillAgents \/ Describe \/ Report

Next == Harness \/ PrepareFails \/ Hang \/ OrphanEnds

\* The harness goes on while it can; a command that was left behind need not end.
Spec == Init /\ [][Next]_vars /\ WF_vars(Harness)

-----------------------------------------------------------------------------
(* What really happened in a case, from its script and its fault alone.      *)

KindsOf(i) ==
    [k \in DOMAIN CASES[i].body |->
        IF i \in DOMAIN faults /\ faults[i].at = k THEN faults[i].kind ELSE "ok"]

\* The state after each command; nothing changes once bash has left the script.
Onward(i, kinds, k, s) ==
    IF ScriptOver(i, k, s.status) THEN s ELSE Behave(CASES[i].body[k], kinds[k], s, TRUE)

Walk(i, kinds) ==
    LET after[k \in 0..Len(CASES[i].body)] ==
            IF k = 0 THEN State(0, << >>, Prepared) ELSE Onward(i, kinds, k, after[k - 1])
    IN  after

Truth(i) == Walk(i, KindsOf(i))[Len(CASES[i].body)]

JobDone(i) ==
    LET t == Truth(i)
        holds(file, text) == file \in DOMAIN t.files /\ t.files[file] = <<text>>
    IN  CASE CASES[i].group = "pipeline" -> FALSE
          [] CASES[i].group = "gpg" -> holds("backup.gpg", "cipher")
          [] CASES[i].group = "curl" -> holds("docker-compose.yml", "services:")
          [] CASES[i].group = "pihole" -> "list added" \in ToSet(t.out)

\* It said that all is well, and the job was not done.
SilentFailure(i) == Truth(i).status = 0 /\ ~JobDone(i)

\* run.py:8-10, README.md:21-22.  Status 0 vouches for the finding of the lab:
\* every case ended by itself, every published form failed silently, and no
\* corrected form did (pihole has none).  Status 3 is given only when something
\* went another way.
StatusExplained ==
    /\ status = 0 =>
        \A i \in DOMAIN CASES :
            /\ ~Hung(i)
            /\ CASES[i].role = "published" => SilentFailure(i)
            /\ CASES[i].role # "published" /\ CASES[i].group \in {"pipeline", "gpg", "curl"} =>
                    ~SilentFailure(i)
    /\ status = 3 => faults # << >>

\* A case that ended by itself is recorded as it was, whatever the cases before
\* it left running: its status, its output, and the files of its own commands.
RecordTrue ==
    \A i \in DOMAIN observations :
        LET o == observations[i]
            t == Truth(i)
        IN  /\ o.timed_out <=> Hung(i)
            /\ ~Hung(i) => /\ o.exit = t.status
                           /\ o.stdout_sha256 = t.out
                           /\ IsPrefix(o.stdout, t.out)
                           /\ o.files = describe_files(t.files)

\* Once a case is recorded nothing of it runs on, unless it hung.
OnlyHungLeaveProcesses ==
    \A i \in 1..(case - 1) :
        i \in agents \cup {o.case : o \in orphans} => Hung(i)

\* README.md:21-22.  Unless a case hangs for which the wrapper's limit leaves no
\* time, or the harness itself fails, the lab ends with its document: a case that
\* hangs costs its own result only.
OutOfTime == IF pc = "hung" THEN TimeIsUp ELSE FALSE
DocumentPrinted == <>(status \in {0, 1, 3} \/ OutOfTime)
=============================================================================
