-------------------------- MODULE ExitStatusProofs --------------------------
(***************************************************************************)
(* What the exit-status lab leaves running, whatever the commands do to    *)
(* files and outputs; what it records, for the commands of CASES; and what *)
(* its exit status vouches for: all for any number of faults and any       *)
(* limits.                                                                 *)
(***************************************************************************)
EXTENDS ExitStatusLab, SequenceTheorems, WellFoundedInduction, TLAPS

\* A case of which something runs has hung, unless it is the current one and
\* gpgconf has not killed its agents yet.
ProcessInv ==
    /\ \E S : observations \in Seq(S)
    /\ agents \subseteq 1..case
    /\ \A i \in agents : i < case \/ pc = "describe" => Hung(i)
    /\ \A o \in orphans : o.case \in 1..case /\ Hung(o.case)
    /\ pc = "hung" => Hung(case)

-----------------------------------------------------------------------------
\* The current case has a number.
LEMMA CaseType == ASSUME ProcessInv PROVE case \in Nat \ {0}
BY LenProperties DEF ProcessInv, case

\* A fault that is noted is never forgotten, nor is its kind.
LEMMA FaultKept ==
    ASSUME NEW kind, case \notin DOMAIN faults, Fault(kind), UNCHANGED observations
    PROVE  /\ \A i : Hung(i) => Hung(i)'
           /\ kind = "hang" => Hung(case)'
<1>1. /\ DOMAIN faults' = DOMAIN faults \cup {case}
      /\ \A i \in DOMAIN faults : faults'[i] = faults[i]
      /\ faults'[case].kind = kind
  BY DEF Fault
<1>2. case' = case
  BY DEF case
<1>3. ASSUME NEW i, Hung(i) PROVE Hung(i)'
  BY <1>1, <1>3 DEF Hung
<1>4. kind = "hang" => Hung(case)'
  BY <1>1, <1>2 DEF Hung
<1> QED
  BY <1>3, <1>4

\* Steps that start no process and leave the case as it is.
LEMMA SameProcesses ==
    ASSUME ProcessInv, UNCHANGED <<observations, agents, orphans, faults>>,
           pc' \notin {"describe", "hung"} \/ pc' = pc
    PROVE  ProcessInv'
BY DEF ProcessInv, case, Hung

LEMMA InitProcesses == Init => ProcessInv
<1> SUFFICES ASSUME Init PROVE ProcessInv
  OBVIOUS
<1>1. observations \in Seq({})
  BY EmptySeq DEF Init
<1> QED
  BY <1>1 DEF Init, ProcessInv

\* A command of the script may leave an agent of its own case.
LEMMA CommandProcesses == ASSUME ProcessInv, Command PROVE ProcessInv'
<1>1. /\ UNCHANGED <<observations, pc, orphans>>
      /\ pc = "script"
      /\ agents' \subseteq agents \cup {case}
  BY DEF Command, RunsOn
<1>2. PICK kind \in Kinds : IF kind = "ok" THEN UNCHANGED faults ELSE Fault(kind)
  BY DEF Command
<1>3. \A i : Hung(i) => Hung(i)'
  <2>1. CASE kind = "ok"
    BY <1>2, <2>1 DEF Hung
  <2>2. CASE kind # "ok"
    BY <1>1, <1>2, <2>2, FaultKept DEF Kinds, FaultPossible
  <2> QED
    BY <2>1, <2>2
<1>4. case' = case /\ case \in Nat \ {0}
  BY <1>1, CaseType DEF case
<1> QED
  BY <1>1, <1>3, <1>4 DEF ProcessInv

LEMMA HangProcesses == ASSUME ProcessInv, Hang PROVE ProcessInv'
<1>1. /\ UNCHANGED <<observations, agents, orphans>>
      /\ pc' = "hung" /\ pc = "script"
      /\ \A i : Hung(i) => Hung(i)'
      /\ Hung(case)'
  BY FaultKept DEF Hang, RunsOn, FaultPossible
<1>2. case' = case
  BY <1>1 DEF case
<1> QED
  BY <1>1, <1>2 DEF ProcessInv, Hung

\* The command that goes on is one that hung.
LEMMA TimeoutProcesses == ASSUME ProcessInv, Timeout PROVE ProcessInv'
<1> DEFINE left == [case |-> case, command |-> Due]
<1>1. /\ UNCHANGED <<observations, agents, faults>>
      /\ pc = "hung" /\ pc' = "timed out"
      /\ orphans' \in {orphans, orphans \cup {left}}
  BY DEF Timeout, TimeoutExpired
<1>2. left.case = case
  OBVIOUS
<1> HIDE DEF left
<1>3. \A o \in orphans' : o \in orphans \/ o.case = case
  BY <1>1, <1>2
<1>4. case' = case /\ case \in Nat \ {0} /\ case \in 1..case
  <2>1. case' = case
    BY <1>1 DEF case
  <2>2. case \in Nat \ {0}
    BY CaseType
  <2> QED
    BY <2>1, <2>2
<1>5. \A i : Hung(i)' <=> Hung(i)
  BY <1>1 DEF Hung
<1> QED
  BY <1>1, <1>3, <1>4, <1>5 DEF ProcessInv

LEMMA KillProcesses == ASSUME ProcessInv, Kill PROVE ProcessInv'
BY DEF ProcessInv, Kill, case, Hung

\* After gpgconf, what runs is of earlier cases.
LEMMA KillAgentsProcesses == ASSUME ProcessInv, KillAgents PROVE ProcessInv'
<1>1. /\ UNCHANGED <<observations, orphans, faults>>
      /\ agents' = agents \ {case} /\ pc' = "describe"
  BY DEF KillAgents
<1>2. case' = case /\ case \in Nat \ {0}
  BY <1>1, CaseType DEF case
<1>3. \A i : Hung(i)' <=> Hung(i)
  BY <1>1 DEF Hung
<1>4. \A i \in agents' : i < case
  BY <1>1, <1>2 DEF ProcessInv
<1> QED
  BY <1>1, <1>2, <1>3, <1>4 DEF ProcessInv

\* The next case begins with processes of cases that hung only.
LEMMA DescribeProcesses == ASSUME ProcessInv, Describe PROVE ProcessInv'
<1>1. /\ UNCHANGED <<agents, orphans, faults>>
      /\ pc = "describe" /\ pc' = "prepare"
  BY DEF Describe
<1>2. PICK o : observations' = Append(observations, o)
  BY DEF Describe
<1>3. PICK S : observations \in Seq(S)
  BY DEF ProcessInv
<1>4. observations \in Seq(S \cup {o})
  BY <1>3, SeqMonotonic
<1>5. observations' \in Seq(S \cup {o}) /\ Len(observations') = Len(observations) + 1
  BY <1>2, <1>4, AppendProperties
<1>6. case \in Nat \ {0} /\ case' = case + 1
  BY <1>5, CaseType DEF case
<1>7. \A i : Hung(i)' <=> Hung(i)
  BY <1>1 DEF Hung
<1>8. 1..case \subseteq 1..case'
  BY <1>6
<1>9. \A i \in agents : Hung(i)
  BY <1>1 DEF ProcessInv
<1>10. \A p \in orphans : p.case \in 1..case /\ Hung(p.case)
  BY DEF ProcessInv
<1>11. agents \subseteq 1..case
  BY DEF ProcessInv
<1> QED
  BY <1>1, <1>5, <1>7, <1>8, <1>9, <1>10, <1>11 DEF ProcessInv

\* An agent that is left behind has been started by a command that was.
LEMMA OrphanProcesses == ASSUME ProcessInv, OrphanEnds PROVE ProcessInv'
<1>1. PICK o \in orphans :
        /\ orphans' = orphans \ {o}
        /\ agents' \subseteq agents \cup {o.case}
        /\ UNCHANGED <<observations, pc, faults>>
  BY DEF OrphanEnds
<1>2. case' = case
  BY <1>1 DEF case
<1>3. \A i : Hung(i)' <=> Hung(i)
  BY <1>1 DEF Hung
<1> QED
  BY <1>1, <1>2, <1>3 DEF ProcessInv

LEMMA NextProcesses == ProcessInv /\ [Next]_vars => ProcessInv'
<1> SUFFICES ASSUME ProcessInv, [Next]_vars PROVE ProcessInv'
  OBVIOUS
<1>1. CASE Prepare
  BY <1>1, SameProcesses DEF Prepare
<1>2. CASE PrepareFails
  BY <1>2, SameProcesses DEF PrepareFails
<1>3. CASE Report
  BY <1>3, SameProcesses DEF Report
<1>4. CASE UNCHANGED vars
  BY <1>4, SameProcesses DEF vars
<1> QED
  BY <1>1, <1>2, <1>3, <1>4, CommandProcesses, HangProcesses, TimeoutProcesses, KillProcesses,
     KillAgentsProcesses, DescribeProcesses, OrphanProcesses
  DEF Next, Harness

\* The agents and the commands that outlive the record of their case are those
\* of cases that hung, however many cases hang or fail.
THEOREM OnlyHung == Spec => []OnlyHungLeaveProcesses
<1>1. ProcessInv => OnlyHungLeaveProcesses
  <2> SUFFICES ASSUME ProcessInv,
                      NEW i \in 1..(case - 1), i \in agents \cup {o.case : o \in orphans}
               PROVE  Hung(i)
    BY DEF OnlyHungLeaveProcesses
  <2>1. i < case
    BY CaseType
  <2> QED
    BY <2>1 DEF ProcessInv
<1> QED
  BY <1>1, InitProcesses, NextProcesses, PTL DEF Spec

-----------------------------------------------------------------------------
(* The scripts.  Each command of CASES is one that Effect knows.             *)

Texts == {"fetch failed: 403", "Usage: pihole", "options", "commands", "REACHED", "RELOADING",
          "RESTORED", "list added"}

CommandOK(c) ==
    \/ \E n \in Nat : c = [op |-> "exit", status |-> n]
    \/ \E text \in Seq(Texts) : \E file, strict : c = Tee(text, file, strict)
    \/ \E text \in Texts : c = Echo(text)
    \/ \E to, redirected : c = Encrypt(to, redirected)
    \/ \E redirected : c = Decrypt(redirected)
    \/ \E keeps : c = Compare(keeps)
    \/ \E path, fail : c = Curl(path, fail)
    \/ \E known : c = Pihole(known)

ScriptOK(body) ==
    /\ \E S : body \in Seq(S)
    /\ \A k \in DOMAIN body : CommandOK(body[k])

CasesOK(cases) ==
    /\ \E S : cases \in Seq(S)
    /\ \A i \in DOMAIN cases : ScriptOK(cases[i].body)

\* Scripts have one, two or three commands.
LEMMA ScriptsOK ==
    ASSUME NEW a, NEW b, NEW c, CommandOK(a), CommandOK(b), CommandOK(c)
    PROVE  ScriptOK(<<a>>) /\ ScriptOK(<<a, b>>) /\ ScriptOK(<<a, b, c>>)
<1>1. ScriptOK(<<a>>)
  <2>1. <<a>> \in Seq({a}) /\ DOMAIN <<a>> = {1} /\ <<a>>[1] = a
    OBVIOUS
  <2> QED
    BY <2>1 DEF ScriptOK
<1>2. ScriptOK(<<a, b>>)
  <2>1. PICK s : s = <<a, b>>
    OBVIOUS
  <2>2. s \in Seq({a, b}) /\ DOMAIN s = {1, 2} /\ s[1] = a /\ s[2] = b
    BY <2>1
  <2> QED
    BY <2>1, <2>2 DEF ScriptOK
<1>3. ScriptOK(<<a, b, c>>)
  <2>1. PICK s : s = <<a, b, c>>
    OBVIOUS
  <2>2. s \in Seq({a, b, c}) /\ DOMAIN s = {1, 2, 3} /\ s[1] = a /\ s[2] = b /\ s[3] = c
    BY <2>1
  <2> QED
    BY <2>1, <2>2 DEF ScriptOK
<1> QED
  BY <1>1, <1>2, <1>3

\* The parts of CASES.
LEMMA CasesOneTwoFour ==
    ASSUME NEW a, NEW b, NEW c, NEW d, ScriptOK(a.body), ScriptOK(b.body),
           ScriptOK(c.body), ScriptOK(d.body)
    PROVE  CasesOK(<<a>>) /\ CasesOK(<<a, b>>) /\ CasesOK(<<a, b, c, d>>)
<1>1. CasesOK(<<a>>)
  <2>1. <<a>> \in Seq({a}) /\ DOMAIN <<a>> = {1} /\ <<a>>[1] = a
    OBVIOUS
  <2> QED
    BY <2>1 DEF CasesOK
<1>2. CasesOK(<<a, b>>)
  <2>1. PICK s : s = <<a, b>>
    OBVIOUS
  <2>2. s \in Seq({a, b}) /\ DOMAIN s = {1, 2} /\ s[1] = a /\ s[2] = b
    BY <2>1
  <2> QED
    BY <2>1, <2>2 DEF CasesOK
<1>3. CasesOK(<<a, b, c, d>>)
  <2>1. PICK s : s = <<a, b, c, d>>
    OBVIOUS
  <2>2. /\ s \in Seq({a, b, c, d}) /\ DOMAIN s = {1, 2, 3, 4}
        /\ s[1] = a /\ s[2] = b /\ s[3] = c /\ s[4] = d
    BY <2>1
  <2> QED
    BY <2>1, <2>2 DEF CasesOK
<1> QED
  BY <1>1, <1>2, <1>3

LEMMA CasesConcat ==
    ASSUME NEW s, NEW t, CasesOK(s), CasesOK(t) PROVE CasesOK(s \o t)
<1>1. PICK S : s \in Seq(S)
  BY DEF CasesOK
<1>2. PICK T : t \in Seq(T)
  BY DEF CasesOK
<1>3. PICK U : U = S \cup T
  OBVIOUS
<1>4. s \in Seq(U) /\ t \in Seq(U)
  <2>1. S \subseteq U /\ T \subseteq U
    BY <1>3
  <2> QED
    BY <1>1, <1>2, <2>1, SeqMonotonic
<1>5. /\ s \o t \in Seq(U) /\ Len(s \o t) = Len(s) + Len(t)
      /\ \A i \in 1..(Len(s) + Len(t)) :
            (s \o t)[i] = IF i <= Len(s) THEN s[i] ELSE t[i - Len(s)]
  BY <1>4, ConcatProperties
<1>6. /\ Len(s) \in Nat /\ DOMAIN s = 1..Len(s) /\ Len(t) \in Nat /\ DOMAIN t = 1..Len(t)
      /\ DOMAIN (s \o t) = 1..(Len(s) + Len(t))
  BY <1>4, <1>5, LenProperties
<1>7. ASSUME NEW i \in DOMAIN (s \o t) PROVE ScriptOK((s \o t)[i].body)
  <2>1. CASE i <= Len(s)
    <3>1. i \in DOMAIN s /\ (s \o t)[i] = s[i]
      BY <1>5, <1>6, <2>1
    <3> QED
      BY <3>1 DEF CasesOK
  <2>2. CASE ~(i <= Len(s))
    <3>1. i - Len(s) \in DOMAIN t /\ (s \o t)[i] = t[i - Len(s)]
      BY <1>5, <1>6, <2>2
    <3> QED
      BY <3>1 DEF CasesOK
  <2> QED
    BY <2>1, <2>2
<1> QED
  BY <1>5, <1>7 DEF CasesOK

\* The texts that are not written as such.
LEMMA TextsFacts == << >> \in Seq(Texts) /\ Fetched \in Seq(Texts) /\ Help \in Seq(Texts)
<1>1. ASSUME NEW a \in Texts, NEW b \in Texts, NEW c \in Texts
      PROVE  <<a>> \in Seq(Texts) /\ <<a, b, c>> \in Seq(Texts)
  <2>1. PICK s : s = <<a>>
    OBVIOUS
  <2>2. PICK t : t = <<a, b, c>>
    OBVIOUS
  <2>3. s \in Seq({a}) /\ t \in Seq({a, b, c})
    BY <2>1, <2>2
  <2>4. {a} \subseteq Texts /\ {a, b, c} \subseteq Texts
    OBVIOUS
  <2> QED
    BY <2>1, <2>2, <2>3, <2>4, SeqMonotonic
<1>2. PICK a, b, c, d : /\ a = "fetch failed: 403"
                        /\ b = "Usage: pihole" /\ c = "options" /\ d = "commands"
  OBVIOUS
<1>3. a \in Texts /\ b \in Texts /\ c \in Texts /\ d \in Texts
  BY <1>2 DEF Texts
<1>4. Fetched = <<a>> /\ Help = <<b, c, d>>
  BY <1>2, Zenon DEF Fetched, Help
<1> QED
  BY <1>1, <1>3, <1>4, EmptySeq

\* Every command of CASES is one that Effect knows: part by part, and all.
LEMMA PipelineOK ==
    ASSUME NEW name, NEW control, NEW text \in Seq(Texts), NEW file, NEW word \in Texts, NEW files
    PROVE  CasesOK(PipelineCases(name, control, text, file, word, files))
<1> DEFINE published == Case(name, "pipeline", "published", TRUE,
                             <<Tee(text, file, FALSE), Echo(word)>>,
                             [exit |-> 0, stdout_contains |-> word, files |-> files])
           corrected == Case(control, "pipeline", "control", TRUE,
                             <<Tee(text, file, TRUE), Echo(word)>>,
                             [exit |-> 1, stdout_lacks |-> word, files |-> files])
<1>1. CommandOK(Tee(text, file, FALSE)) /\ CommandOK(Tee(text, file, TRUE)) /\ CommandOK(Echo(word))
  BY DEF CommandOK
<1>2. /\ published.body = <<Tee(text, file, FALSE), Echo(word)>>
      /\ corrected.body = <<Tee(text, file, TRUE), Echo(word)>>
  BY DEF Case
<1>3. ScriptOK(published.body) /\ ScriptOK(corrected.body)
  BY <1>1, <1>2, ScriptsOK
<1>4. PipelineCases(name, control, text, file, word, files) = <<published, corrected>>
  BY DEF PipelineCases
<1> HIDE DEF published, corrected
<1> QED
  BY <1>3, <1>4, CasesOneTwoFour

LEMMA PiholeOK == ASSUME NEW add, NEW help PROVE CasesOK(PiholeCases(add, help))
<1> DEFINE published == Case(add, "pihole", "published", FALSE, <<Pihole(FALSE)>>,
                [exit |-> 0, stdout_contains |-> Help[1], stdout_equals_case |-> help])
           control == Case(help, "pihole", "control", FALSE, <<Pihole(FALSE)>>,
                [exit |-> 0, stdout_contains |-> Help[1]])
<1>1. CommandOK(Pihole(FALSE))
  BY DEF CommandOK
<1>2. published.body = <<Pihole(FALSE)>> /\ control.body = <<Pihole(FALSE)>>
  BY DEF Case
<1>3. ScriptOK(published.body) /\ ScriptOK(control.body)
  BY <1>1, <1>2, ScriptsOK
<1>4. PiholeCases(add, help) = <<published, control>>
  BY DEF PiholeCases
<1> HIDE DEF published, control
<1> QED
  BY <1>3, <1>4, CasesOneTwoFour

LEMMA GpgOK == CasesOK(GpgCases)
<1>1. PICK a : a = GpgCases[1]
  OBVIOUS
<1>2. PICK b : b = GpgCases[2]
  OBVIOUS
<1>3. PICK c : c = GpgCases[3]
  OBVIOUS
<1>4. PICK d : d = GpgCases[4]
  OBVIOUS
<1>5. /\ a.body = <<Encrypt("seeds.txt.gpg", {"backup.gpg"})>>
      /\ b.body = <<Encrypt("seeds.txt.gpg", {"backup.gpg"}), Decrypt({"restored.txt"}),
                   Compare(TRUE)>>
      /\ c.body = <<Encrypt("backup.gpg", {})>>
      /\ d.body = <<Encrypt("backup.gpg", {}), Decrypt({}), Compare(FALSE)>>
  BY <1>1, <1>2, <1>3, <1>4 DEF GpgCases, Case
<1>6. \A x, y : CommandOK(Encrypt(x, y)) /\ CommandOK(Decrypt(y)) /\ CommandOK(Compare(y))
  BY DEF CommandOK
<1>7. ScriptOK(a.body) /\ ScriptOK(c.body)
  BY <1>5, <1>6, ScriptsOK
<1>8. ScriptOK(b.body) /\ ScriptOK(d.body)
  BY <1>5, <1>6, ScriptsOK
<1>9. GpgCases = <<a, b, c, d>>
  BY <1>1, <1>2, <1>3, <1>4 DEF GpgCases
<1> QED
  BY <1>7, <1>8, <1>9, CasesOneTwoFour

LEMMA CurlOK == CasesOK(CurlCases)
<1>1. PICK a : a = CurlCases[1]
  OBVIOUS
<1>2. PICK b : b = CurlCases[2]
  OBVIOUS
<1>3. PICK c : c = CurlCases[3]
  OBVIOUS
<1>4. PICK d : d = CurlCases[4]
  OBVIOUS
<1>5. /\ a.body = <<Curl("denied", "no")>> /\ b.body = <<Curl("denied", "fail")>>
      /\ c.body = <<Curl("denied", "with-body")>> /\ d.body = <<Curl("ok", "fail")>>
  BY <1>1, <1>2, <1>3, <1>4 DEF CurlCases, Case
<1>6. \A x, y : CommandOK(Curl(x, y))
  BY DEF CommandOK
<1>7. ScriptOK(a.body) /\ ScriptOK(b.body) /\ ScriptOK(c.body) /\ ScriptOK(d.body)
  BY <1>5, <1>6, ScriptsOK
<1>8. CurlCases = <<a, b, c, d>>
  BY <1>1, <1>2, <1>3, <1>4 DEF CurlCases
<1> QED
  BY <1>7, <1>8, CasesOneTwoFour

LEMMA CasesFacts == CasesOK(CASES)
<1> DEFINE first == Case("harness-sees-failure", "harness", "control", FALSE,
                         <<[op |-> "exit", status |-> 7]>>, [exit |-> 7])
<1>1. CasesOK(<<first>>)
  <2>1. PICK exit : exit = [op |-> "exit", status |-> 7]
    OBVIOUS
  <2>2. CommandOK(exit) /\ first.body = <<exit>>
    BY <2>1 DEF CommandOK, Case
  <2>3. ScriptOK(first.body)
    BY <2>2, ScriptsOK
  <2> HIDE DEF first
  <2> QED
    BY <2>3, CasesOneTwoFour
<1>2. CasesOK(PipelineCases("pipe-set-e", "pipe-set-e-pipefail", << >>, "out.log", "REACHED", {}))
  <2>1. << >> \in Seq(Texts) /\ "REACHED" \in Texts
    BY TextsFacts DEF Texts
  <2> QED
    BY <2>1, PipelineOK
<1>3. CasesOK(PipelineCases("pipe-set-e-failing-fetch", "pipe-pipefail-failing-fetch", Fetched,
                            "update.log", "RELOADING",
                            {<<"update.log", Containing(Fetched[1])>>}))
  <2>1. Fetched \in Seq(Texts) /\ "RELOADING" \in Texts
    BY TextsFacts DEF Texts
  <2> QED
    BY <2>1, PipelineOK
<1>4. /\ CasesOK(PiholeCases("pihole-v6.0-adlist-add", "pihole-v6.0-help"))
      /\ CasesOK(PiholeCases("pihole-v6.4.3-adlist-add", "pihole-v6.4.3-help"))
  BY PiholeOK
<1> HIDE DEF first
<1>5. CASES = <<first>>
        \o PipelineCases("pipe-set-e", "pipe-set-e-pipefail", << >>, "out.log", "REACHED", {})
        \o PipelineCases("pipe-set-e-failing-fetch", "pipe-pipefail-failing-fetch", Fetched,
                         "update.log", "RELOADING", {<<"update.log", Containing(Fetched[1])>>})
        \o GpgCases \o CurlCases
        \o PiholeCases("pihole-v6.0-adlist-add", "pihole-v6.0-help")
        \o PiholeCases("pihole-v6.4.3-adlist-add", "pihole-v6.4.3-help")
  BY Zenon DEF CASES, first
<1> QED
  BY <1>1, <1>2, <1>3, <1>4, <1>5, GpgOK, CurlOK, CasesConcat

-----------------------------------------------------------------------------
(* Commands take states to states.                                           *)

IsState(s) ==
    /\ s = State(s.status, s.out, s.files)
    /\ s.status \in Nat /\ s.out \in Seq(Texts)

\* The parts of a state, and what makes one.
LEMMA StateFields ==
    ASSUME NEW code, NEW text, NEW files
    PROVE  /\ State(code, text, files).status = code
           /\ State(code, text, files).out = text
           /\ State(code, text, files).files = files
BY DEF State

LEMMA StateIs ==
    ASSUME NEW code \in Nat, NEW text \in Seq(Texts), NEW files
    PROVE  IsState(State(code, text, files))
BY StateFields DEF IsState

LEMMA MoreText ==
    ASSUME NEW out \in Seq(Texts)
    PROVE  /\ \A text \in Texts : Append(out, text) \in Seq(Texts)
           /\ \A more \in Seq(Texts) : out \o more \in Seq(Texts)
BY AppendProperties, ConcatProperties

\* e is s with another status, and perhaps more text or other files.
Changed(e, s, code, text, files) ==
    \/ e = [s EXCEPT !.status = code]
    \/ e = [s EXCEPT !.status = code, !.out = text]
    \/ e = [s EXCEPT !.status = code, !.files = files]
    \/ e = [s EXCEPT !.status = code, !.out = text, !.files = files]

\* A state that was changed is a state.
LEMMA StateChanged ==
    ASSUME NEW s, IsState(s), NEW e, NEW code \in Nat, NEW text \in Seq(Texts), NEW files,
           Changed(e, s, code, text, files)
    PROVE  IsState(e)
<1>1. PICK n \in Nat, o \in Seq(Texts) : \E f : s = [status |-> n, out |-> o, files |-> f]
  BY DEF IsState, State
<1>2. PICK f : s = [status |-> n, out |-> o, files |-> f]
  BY <1>1
<1>3. CASE e = [s EXCEPT !.status = code]
  <2>1. e = [status |-> code, out |-> o, files |-> f]
    BY <1>2, <1>3
  <2> QED
    BY <2>1, StateIs DEF State
<1>4. CASE e = [s EXCEPT !.status = code, !.out = text]
  <2>1. e = [status |-> code, out |-> text, files |-> f]
    BY <1>2, <1>4
  <2> QED
    BY <2>1, StateIs DEF State
<1>5. CASE e = [s EXCEPT !.status = code, !.files = files]
  <2>1. e = [status |-> code, out |-> o, files |-> files]
    BY <1>2, <1>5
  <2> QED
    BY <2>1, StateIs DEF State
<1>6. CASE e = [s EXCEPT !.status = code, !.out = text, !.files = files]
  <2>1. e = [status |-> code, out |-> text, files |-> files]
    BY <1>2, <1>6
  <2> QED
    BY <2>1, StateIs DEF State
<1> QED
  BY <1>3, <1>4, <1>5, <1>6 DEF Changed

\* No command leaves anything but a state.
LEMMA EffectState ==
    ASSUME NEW c, CommandOK(c), NEW s, IsState(s), NEW on
    PROVE  IsState(Effect(c, s, on))
<1> DEFINE Keeps(e) == \E code \in Nat, text \in Seq(Texts) : \E files :
                            Changed(e, s, code, text, files)
<1>0. s.status \in Nat /\ s.out \in Seq(Texts)
  BY DEF IsState
<1>e. PICK e : e = Effect(c, s, on)
  OBVIOUS
<1>1. ASSUME \E n \in Nat : c = [op |-> "exit", status |-> n] PROVE Keeps(e)
  <2>1. c.op = "exit" /\ c.status \in Nat
    BY <1>1
  <2>2. e = [s EXCEPT !.status = c.status]
    BY <1>e, <2>1 DEF Effect
  <2>3. Changed(e, s, c.status, s.out, s.files)
    BY <2>2 DEF Changed
  <2> QED
    BY <1>0, <2>1, <2>3
<1>2. ASSUME \E text \in Seq(Texts) : \E file, strict : c = Tee(text, file, strict) PROVE Keeps(e)
  <2>1. c.op = "tee" /\ c.text \in Seq(Texts)
    BY <1>2 DEF Tee
  <2>2. PICK code \in Nat : code = IF c.strict THEN 1 ELSE 0
    OBVIOUS
  <2>3. e = [s EXCEPT !.status = code, !.out = s.out \o c.text,
                      !.files = Write(s.files, {c.file}, c.text)]
    BY <1>e, <2>1, <2>2 DEF Effect
  <2>4. Changed(e, s, code, s.out \o c.text, Write(s.files, {c.file}, c.text))
    BY <2>3 DEF Changed
  <2>5. s.out \o c.text \in Seq(Texts)
    BY <1>0, <2>1, MoreText
  <2> QED
    BY <2>4, <2>5
<1>3. ASSUME \E text \in Texts : c = Echo(text) PROVE Keeps(e)
  <2>1. c.op = "echo" /\ c.text \in Texts
    BY <1>3 DEF Echo
  <2>2. e = [s EXCEPT !.status = 0, !.out = Append(s.out, c.text)]
    BY <1>e, <2>1 DEF Effect
  <2>3. Changed(e, s, 0, Append(s.out, c.text), s.files)
    BY <2>2 DEF Changed
  <2>4. Append(s.out, c.text) \in Seq(Texts)
    BY <1>0, <2>1, MoreText
  <2> QED
    BY <2>3, <2>4
<1>4. ASSUME \E to, redirected : c = Encrypt(to, redirected) PROVE Keeps(e)
  <2>1. c.op = "encrypt"
    BY <1>4 DEF Encrypt
  <2>2. PICK files : e = [s EXCEPT !.status = 0, !.files = files]
    BY <1>e, <2>1 DEF Effect
  <2>3. Changed(e, s, 0, s.out, files)
    BY <2>2 DEF Changed
  <2> QED
    BY <1>0, <2>3
<1>5. ASSUME \E redirected : c = Decrypt(redirected) PROVE Keeps(e)
  <2>1. c.op = "decrypt"
    BY <1>5 DEF Decrypt
  <2>2. PICK code \in {0, 2} : \E files : e = [s EXCEPT !.status = code, !.files = files]
    BY <1>e, <2>1 DEF Effect
  <2>3. PICK files : e = [s EXCEPT !.status = code, !.files = files]
    BY <2>2
  <2>4. Changed(e, s, code, s.out, files)
    BY <2>3 DEF Changed
  <2> QED
    BY <1>0, <2>4
<1>6. ASSUME \E keeps : c = Compare(keeps) PROVE Keeps(e)
  <2>1. c.op = "compare"
    BY <1>6 DEF Compare
  <2>2. PICK code \in Nat, text \in Seq(Texts) : e = [s EXCEPT !.status = code, !.out = text]
    <3>1. PICK restored \in BOOLEAN :
            e = [s EXCEPT !.status = IF c.keeps THEN s.status ELSE IF restored THEN 0 ELSE 1,
                          !.out = IF restored THEN Append(s.out, "RESTORED") ELSE s.out]
      BY <1>e, <2>1 DEF Effect
    <3>2. "RESTORED" \in Texts
      BY DEF Texts
    <3>3. Append(s.out, "RESTORED") \in Seq(Texts)
      BY <1>0, <3>2, MoreText
    <3> QED
      BY <1>0, <3>1, <3>3
  <2>3. Changed(e, s, code, text, s.files)
    BY <2>2 DEF Changed
  <2> QED
    BY <2>3
<1>7. ASSUME \E path, fail : c = Curl(path, fail) PROVE Keeps(e)
  <2>1. c.op = "curl"
    BY <1>7 DEF Curl
  <2>2. PICK code \in {0, 7, 22} : \/ e = [s EXCEPT !.status = code]
                                   \/ \E files : e = [s EXCEPT !.status = code, !.files = files]
    BY <1>e, <2>1 DEF Effect
  <2>3. \E files : Changed(e, s, code, s.out, files)
    BY <2>2 DEF Changed
  <2> QED
    BY <1>0, <2>3
<1>8. ASSUME \E known : c = Pihole(known) PROVE Keeps(e)
  <2>1. c.op = "pihole"
    BY <1>8 DEF Pihole
  <2>2. PICK more \in Seq(Texts) : more = IF c.known THEN <<"list added">> ELSE << >>
    <3>1. PICK x \in Texts : x = "list added"
      BY DEF Texts
    <3>2. PICK t : t = <<x>>
      OBVIOUS
    <3>3. t \in Seq({x}) /\ {x} \subseteq Texts
      BY <3>2
    <3>4. t \in Seq(Texts)
      BY <3>3, SeqMonotonic
    <3> QED
      BY <3>1, <3>2, <3>4, EmptySeq
  <2>3. e = [s EXCEPT !.status = 0, !.out = s.out \o Help \o more]
    BY <1>e, <2>1, <2>2 DEF Effect
  <2>4. s.out \o Help \o more \in Seq(Texts)
    BY <1>0, TextsFacts, MoreText
  <2>5. Changed(e, s, 0, s.out \o Help \o more, s.files)
    BY <2>3 DEF Changed
  <2> QED
    BY <2>4, <2>5
<1>9. Keeps(e)
  BY <1>1, <1>2, <1>3, <1>4, <1>5, <1>6, <1>7, <1>8 DEF CommandOK
<1> QED
  BY <1>e, <1>9, StateChanged

\* Nor does one that fails or does what was intended.
LEMMA BehaveState ==
    ASSUME NEW c, CommandOK(c), NEW kind \in {"ok", "fails", "works"}, NEW s, IsState(s), NEW on
    PROVE  IsState(Behave(c, kind, s, on))
<1>1. CommandOK(Intended(c))
  <2>1. CASE \E text \in Seq(Texts) : \E file, strict : c = Tee(text, file, strict)
    <3>1. PICK text \in Seq(Texts) : \E file, strict : c = Tee(text, file, strict)
      BY <2>1
    <3>2. PICK file, strict : c = Tee(text, file, strict)
      BY <3>1
    <3>3. Intended(c) = Tee(text, file, TRUE)
      BY <3>2 DEF Tee, Intended
    <3> QED
      BY <3>3 DEF CommandOK
  <2>2. CASE \E path, fail : c = Curl(path, fail)
    <3>1. PICK path, fail : c = Curl(path, fail)
      BY <2>2
    <3>2. Intended(c) = Curl(path, "fail")
      BY <3>1 DEF Curl, Intended
    <3> QED
      BY <3>2 DEF CommandOK
  <2>3. CASE \E to, redirected : c = Encrypt(to, redirected)
    <3>1. Intended(c) = Encrypt("backup.gpg", {})
      BY <2>3 DEF Encrypt, Intended
    <3> QED
      BY <3>1 DEF CommandOK
  <2>4. CASE \E known : c = Pihole(known)
    <3>1. Intended(c) = Pihole(TRUE)
      BY <2>4 DEF Pihole, Intended
    <3> QED
      BY <3>1 DEF CommandOK
  <2>5. CASE c.op \notin {"tee", "encrypt", "curl", "pihole"}
    BY <2>5 DEF Intended
  <2> QED
    BY <2>1, <2>2, <2>3, <2>4, <2>5 DEF CommandOK, Echo, Decrypt, Compare
<1>2. CASE kind = "ok"
  BY <1>2, EffectState DEF Behave
<1>3. CASE kind = "fails"
  <2>1. PICK e : e = [s EXCEPT !.status = 1]
    OBVIOUS
  <2>2. Changed(e, s, 1, s.out, s.files) /\ Behave(c, kind, s, on) = e
    BY <1>3, <2>1 DEF Changed, Behave
  <2> QED
    BY <2>2, StateChanged DEF IsState
<1>4. CASE kind = "works"
  BY <1>1, <1>4, EffectState DEF Behave
<1> QED
  BY <1>2, <1>3, <1>4

-----------------------------------------------------------------------------
(* A script from state to state, with the fault of each of its commands.     *)

\* Induction over the naturals, for a set.
LEMMA NatSets ==
    ASSUME NEW S, 0 \in S, \A n \in Nat : n \in S => n + 1 \in S
    PROVE  Nat \subseteq S
<1> DEFINE T == Nat \ S
<1>1. SUFFICES ASSUME T # {} PROVE FALSE
  OBVIOUS
<1>2. PICK x \in T : \A y \in T : <<y, x>> \notin OpToRel(<, Nat)
  <2>1. T \subseteq Nat
    OBVIOUS
  <2> HIDE DEF T
  <2> QED
    BY <1>1, <2>1, NatLessThanWellFounded, WFMin
<1>3. x \in Nat /\ x \notin S
  OBVIOUS
<1>4. x # 0
  BY <1>3
<1>5. x - 1 \in Nat /\ (x - 1) + 1 = x
  BY <1>3, <1>4
<1>6. x - 1 \in T
  BY <1>3, <1>5
<1>7. <<x - 1, x>> \in OpToRel(<, Nat)
  BY <1>3, <1>5 DEF OpToRel
<1> QED
  BY <1>2, <1>6, <1>7

Begun == State(0, << >>, Prepared)

\* g holds the states after the first n commands.
WalkUp(g, i, kinds, n) ==
    g = [k \in 0..n |-> IF k = 0 THEN Begun ELSE Onward(i, kinds, k, g[k - 1])]

\* It is determined, step by step, and it exists: so Walk is what it says.
LEMMA WalkUpValues ==
    ASSUME NEW i, NEW kinds, NEW n \in Nat, NEW g, WalkUp(g, i, kinds, n)
    PROVE  /\ g[0] = Begun
           /\ \A k \in 0..(n - 1) : g[k + 1] = Onward(i, kinds, k + 1, g[k])
<1>1. g[0] = Begun
  BY DEF WalkUp
<1>2. ASSUME NEW k \in 0..(n - 1) PROVE g[k + 1] = Onward(i, kinds, k + 1, g[k])
  <2>1. (k + 1) - 1 = k /\ k + 1 \in 0..n /\ k + 1 # 0
    OBVIOUS
  <2> QED
    BY <2>1 DEF WalkUp
<1> QED
  BY <1>1, <1>2

LEMMA WalkUpExists ==
    ASSUME NEW i, NEW kinds, NEW n \in Nat PROVE \E g : WalkUp(g, i, kinds, n)
<1> DEFINE S == {m \in Nat : \E g : WalkUp(g, i, kinds, m)}
<1>1. 0 \in S
  <2>1. WalkUp([k \in 0..0 |-> Begun], i, kinds, 0)
    BY DEF WalkUp
  <2> QED
    BY <2>1
<1>2. ASSUME NEW m \in Nat, m \in S PROVE m + 1 \in S
  <2>1. PICK g : WalkUp(g, i, kinds, m)
    BY <1>2
  <2>2. PICK h : h = [k \in 0..(m + 1) |-> IF k = 0 THEN Begun ELSE Onward(i, kinds, k, g[k - 1])]
    OBVIOUS
  <2>3. ASSUME NEW k \in 1..(m + 1) PROVE h[k - 1] = g[k - 1]
    <3>1. k - 1 \in 0..m /\ k - 1 \in 0..(m + 1)
      OBVIOUS
    <3>2. h[k - 1] = IF k - 1 = 0 THEN Begun ELSE Onward(i, kinds, k - 1, g[(k - 1) - 1])
      BY <2>2, <3>1
    <3>3. g[k - 1] = IF k - 1 = 0 THEN Begun ELSE Onward(i, kinds, k - 1, g[(k - 1) - 1])
      BY <2>1, <3>1 DEF WalkUp
    <3> QED
      BY <3>2, <3>3
  <2>4. ASSUME NEW k \in 0..(m + 1)
        PROVE  (IF k = 0 THEN Begun ELSE Onward(i, kinds, k, g[k - 1]))
                = (IF k = 0 THEN Begun ELSE Onward(i, kinds, k, h[k - 1]))
    <3>1. k # 0 => k \in 1..(m + 1)
      OBVIOUS
    <3> QED
      BY <2>3, <3>1
  <2>5. h = [k \in 0..(m + 1) |-> IF k = 0 THEN Begun ELSE Onward(i, kinds, k, h[k - 1])]
    BY <2>2, <2>4
  <2>6. WalkUp(h, i, kinds, m + 1)
    BY <2>5 DEF WalkUp
  <2> QED
    BY <2>6
<1> HIDE DEF S
<1>3. Nat \subseteq S
  BY <1>1, <1>2, NatSets
<1> QED
  BY <1>3 DEF S

LEMMA WalkFacts ==
    ASSUME NEW i \in DOMAIN CASES, NEW kinds
    PROVE  /\ Len(CASES[i].body) \in Nat
           /\ DOMAIN CASES[i].body = 1..Len(CASES[i].body)
           /\ Walk(i, kinds)[0] = Begun
           /\ \A k \in 0..(Len(CASES[i].body) - 1) :
                Walk(i, kinds)[k + 1] = Onward(i, kinds, k + 1, Walk(i, kinds)[k])
<1>1. /\ Len(CASES[i].body) \in Nat
      /\ DOMAIN CASES[i].body = 1..Len(CASES[i].body)
  BY CasesFacts, LenProperties DEF CasesOK, ScriptOK
<1> DEFINE n == Len(CASES[i].body)
           after == CHOOSE g :
                g = [k \in 0..n |-> IF k = 0 THEN Begun ELSE Onward(i, kinds, k, g[k - 1])]
<1>2. WalkUp(after, i, kinds, n)
  <2>1. n \in Nat
    BY <1>1
  <2> HIDE DEF n
  <2>2. \E g : WalkUp(g, i, kinds, n)
    BY <2>1, WalkUpExists
  <2> QED
    BY <2>2 DEF WalkUp
<1>3. Walk(i, kinds) = after
  BY DEF Walk, Begun
<1> HIDE DEF n, after
<1>4. n \in Nat
  BY <1>1 DEF n
<1>5. /\ after[0] = Begun
      /\ \A k \in 0..(n - 1) : after[k + 1] = Onward(i, kinds, k + 1, after[k])
  BY <1>2, <1>4, WalkUpValues
<1> QED
  BY <1>1, <1>3, <1>5 DEF n

\* What the commands did up to the n-th depends on what befell them up to there.
LEMMA WalkAgrees ==
    ASSUME NEW i \in DOMAIN CASES, NEW kinds, NEW others, NEW n \in 0..Len(CASES[i].body),
           \A k \in 1..n : kinds[k] = others[k]
    PROVE  \A k \in 0..n : Walk(i, kinds)[k] = Walk(i, others)[k]
<1> DEFINE S == {k \in Nat : k <= n => Walk(i, kinds)[k] = Walk(i, others)[k]}
<1>1. Len(CASES[i].body) \in Nat
  BY WalkFacts
<1>2. 0 \in S
  BY WalkFacts
<1>3. ASSUME NEW k \in Nat, k \in S PROVE k + 1 \in S
  <2>1. SUFFICES ASSUME k + 1 <= n PROVE Walk(i, kinds)[k + 1] = Walk(i, others)[k + 1]
    OBVIOUS
  <2>2. /\ k \in 0..(Len(CASES[i].body) - 1) /\ k + 1 \in 1..n
        /\ Walk(i, kinds)[k] = Walk(i, others)[k]
    BY <1>1, <1>3, <2>1
  <2>3. /\ Walk(i, kinds)[k + 1] = Onward(i, kinds, k + 1, Walk(i, kinds)[k])
        /\ Walk(i, others)[k + 1] = Onward(i, others, k + 1, Walk(i, others)[k])
    BY <2>2, WalkFacts
  <2>4. kinds[k + 1] = others[k + 1]
    BY <2>2
  <2> QED
    BY <2>2, <2>3, <2>4 DEF Onward
<1> HIDE DEF S
<1>4. Nat \subseteq S
  BY <1>2, <1>3, NatSets
<1>5. \A k \in 0..n : k \in Nat /\ k <= n
  BY <1>1
<1> QED
  BY <1>4, <1>5 DEF S

Ran == {"ok", "fails", "works"}

\* Each is a state, unless the script hangs.
LEMMA WalkStates ==
    ASSUME NEW i \in DOMAIN CASES, NEW kinds, \A k \in DOMAIN CASES[i].body : kinds[k] \in Ran
    PROVE  \A k \in 0..Len(CASES[i].body) : IsState(Walk(i, kinds)[k])
<1> DEFINE S == {k \in Nat : k <= Len(CASES[i].body) => IsState(Walk(i, kinds)[k])}
<1>1. Len(CASES[i].body) \in Nat /\ DOMAIN CASES[i].body = 1..Len(CASES[i].body)
  BY WalkFacts
<1>2. 0 \in S
  <2>1. IsState(Begun)
    BY StateIs, EmptySeq DEF Begun
  <2> QED
    BY <2>1, WalkFacts
<1>3. ASSUME NEW k \in Nat, k \in S PROVE k + 1 \in S
  <2>1. SUFFICES ASSUME k + 1 <= Len(CASES[i].body) PROVE IsState(Walk(i, kinds)[k + 1])
    OBVIOUS
  <2>2. /\ k \in 0..(Len(CASES[i].body) - 1) /\ k + 1 \in DOMAIN CASES[i].body
        /\ IsState(Walk(i, kinds)[k])
    BY <1>1, <1>3, <2>1
  <2>3. Walk(i, kinds)[k + 1] = Onward(i, kinds, k + 1, Walk(i, kinds)[k])
    BY <2>2, WalkFacts
  <2>4. CommandOK(CASES[i].body[k + 1])
    BY <2>2, CasesFacts DEF CasesOK, ScriptOK
  <2>5. kinds[k + 1] \in Ran
    BY <2>2
  <2>6. IsState(Behave(CASES[i].body[k + 1], kinds[k + 1], Walk(i, kinds)[k], TRUE))
    BY <2>2, <2>4, <2>5, BehaveState DEF Ran
  <2> QED
    BY <2>2, <2>3, <2>6 DEF Onward
<1> HIDE DEF S
<1>4. Nat \subseteq S
  BY <1>2, <1>3, NatSets
<1>5. \A k \in 0..Len(CASES[i].body) : k \in Nat /\ k <= Len(CASES[i].body)
  BY <1>1
<1> QED
  BY <1>4, <1>5 DEF S

\* A script that is over stays as it is.
LEMMA WalkStays ==
    ASSUME NEW i \in DOMAIN CASES, NEW kinds, NEW n \in 0..Len(CASES[i].body),
           ScriptOver(i, n + 1, Walk(i, kinds)[n].status)
    PROVE  Walk(i, kinds)[Len(CASES[i].body)] = Walk(i, kinds)[n]
<1>1. Len(CASES[i].body) \in Nat /\ n \in Nat /\ n <= Len(CASES[i].body)
  BY WalkFacts
<1>2. CASE n = Len(CASES[i].body)
  BY <1>2
<1>3. CASE n # Len(CASES[i].body)
  <2> DEFINE S == {k \in Nat : n + k <= Len(CASES[i].body) =>
                                    Walk(i, kinds)[n + k] = Walk(i, kinds)[n]}
  <2>1. CASES[i].strict /\ Walk(i, kinds)[n].status # 0
    <3>1. ~(n + 1 > Len(CASES[i].body))
      BY <1>1, <1>3
    <3> QED
      BY <3>1 DEF ScriptOver
  <2>2. 0 \in S
    BY <1>1
  <2>3. ASSUME NEW k \in Nat, k \in S PROVE k + 1 \in S
    <3>1. SUFFICES ASSUME n + (k + 1) <= Len(CASES[i].body)
                   PROVE  Walk(i, kinds)[n + (k + 1)] = Walk(i, kinds)[n]
      OBVIOUS
    <3>2. PICK m : m = n + k
      OBVIOUS
    <3>3. /\ m \in 0..(Len(CASES[i].body) - 1) /\ n + (k + 1) = m + 1
          /\ Walk(i, kinds)[m] = Walk(i, kinds)[n]
      BY <1>1, <2>3, <3>1, <3>2
    <3>4. Walk(i, kinds)[m + 1] = Onward(i, kinds, m + 1, Walk(i, kinds)[m])
      BY <3>3, WalkFacts
    <3>5. ScriptOver(i, m + 1, Walk(i, kinds)[m].status)
      BY <2>1, <3>3 DEF ScriptOver
    <3> QED
      BY <3>3, <3>4, <3>5 DEF Onward
  <2> HIDE DEF S
  <2>4. Nat \subseteq S
    BY <2>2, <2>3, NatSets
  <2>5. PICK k \in Nat : n + k = Len(CASES[i].body)
    <3>1. Len(CASES[i].body) - n \in Nat /\ n + (Len(CASES[i].body) - n) = Len(CASES[i].body)
      BY <1>1
    <3> QED
      BY <3>1
  <2>6. k \in S
    BY <2>4
  <2>7. n + k <= Len(CASES[i].body)
    BY <1>1, <2>5
  <2> QED
    BY <2>5, <2>6, <2>7 DEF S
<1> QED
  BY <1>2, <1>3

-----------------------------------------------------------------------------
(* The record.  A case that does not hang is where its script and its fault  *)
(* have brought it, whatever ends beside it.                                 *)

\* Where the faults are: none ahead, and none where nothing hangs.
FaultInv ==
    /\ DOMAIN faults \subseteq 1..case
    /\ \A i \in DOMAIN faults : faults[i].at \in Nat /\ faults[i].kind \in Ran \cup {"hang"}
    /\ pc = "prepare" => case \notin DOMAIN faults
    /\ pc = "script" => ~Hung(case)
    /\ pc = "timed out" => Hung(case)

\* There is a case to run, with a directory.
PlaceInv ==
    /\ pc \in {"prepare", "script", "hung", "timed out", "describe"}
    /\ pc # "prepare" => case \in DOMAIN CASES /\ case \in DOMAIN disk
    /\ pc \in {"script", "timed out", "describe"} => status = Running

\* The shell and the directory are where the commands so far have brought them.
Reached ==
    /\ shell.next \in 1..(Len(CASES[case].body) + 1)
    /\ State(shell.status, shell.out, disk[case]) = Walk(case, KindsOf(case))[shell.next - 1]
    /\ case \in DOMAIN faults => faults[case].at < shell.next
    /\ pc = "describe" => ScriptOver(case, shell.next, shell.status)

ShellInv ==
    /\ "status" \in DOMAIN shell
    /\ pc \in {"timed out", "describe"} /\ Hung(case) => shell.status = None
    /\ pc \in {"script", "describe"} /\ ~Hung(case) => Reached

RecordInv == ProcessInv /\ FaultInv /\ PlaceInv /\ ShellInv /\ RecordTrue

-----------------------------------------------------------------------------
\* What befalls the current case changes nothing of the others.
LEMMA OthersKept ==
    ASSUME UNCHANGED observations,
           \/ UNCHANGED faults
           \/ \E kind : case \notin DOMAIN faults /\ Fault(kind)
    PROVE  \A i : i # case => KindsOf(i)' = KindsOf(i) /\ (Hung(i)' <=> Hung(i))
<1>1. ASSUME NEW i, i # case
      PROVE  /\ i \in DOMAIN faults' <=> i \in DOMAIN faults
             /\ i \in DOMAIN faults => faults'[i] = faults[i]
  <2>1. CASE UNCHANGED faults
    BY <2>1
  <2>2. CASE \E kind : case \notin DOMAIN faults /\ Fault(kind)
    BY <1>1, <2>2 DEF Fault
  <2> QED
    BY <2>1, <2>2
<1> QED
  BY <1>1 DEF KindsOf, Hung

LEMMA SameTruth == ASSUME NEW i, KindsOf(i)' = KindsOf(i) PROVE Truth(i)' = Truth(i)
BY DEF Truth

LEMMA RecordKept ==
    ASSUME ProcessInv, RecordTrue, UNCHANGED observations,
           \/ UNCHANGED faults
           \/ \E kind : case \notin DOMAIN faults /\ Fault(kind)
    PROVE  RecordTrue'
<1>1. ASSUME NEW i \in DOMAIN observations
      PROVE  (Hung(i)' <=> Hung(i)) /\ Truth(i)' = Truth(i)
  <2>1. i # case
    BY LenProperties DEF ProcessInv, case
  <2> QED
    BY <2>1, OthersKept, SameTruth
<1> QED
  BY <1>1 DEF RecordTrue

\* The kinds of a case that did not hang.
LEMMA KindsRan ==
    ASSUME FaultInv, NEW i, ~Hung(i)
    PROVE  \A k \in DOMAIN CASES[i].body : KindsOf(i)[k] \in Ran
BY DEF FaultInv, Hung, KindsOf, Ran

\* What is kept of the output is its beginning.
LEMMA FirstTextsPrefix ==
    ASSUME NEW S, NEW out \in Seq(S) PROVE IsPrefix(FirstTexts(out), out)
<1> DEFINE n == IF Len(out) < OutputLimit THEN Len(out) ELSE OutputLimit
<1>1. n \in Nat /\ n <= Len(out)
  BY LenProperties, ExitStatusAssumption
<1>2. FirstTexts(out) = SubSeq(out, 1, n)
  BY DEF FirstTexts
<1> HIDE DEF n
<1>3. /\ Len(SubSeq(out, 1, n)) = n
      /\ SubSeq(SubSeq(out, 1, n), 1, n) = SubSeq(out, 1, n)
  <2>1. PICK t : t = SubSeq(out, 1, n)
    OBVIOUS
  <2>2. t \in Seq(S) /\ Len(t) = n
    BY <1>1, <2>1, SubSeqProperties
  <2>3. SubSeq(t, 1, Len(t)) = t
    BY <2>2
  <2> QED
    BY <2>1, <2>2, <2>3
<1> QED
  BY <1>1, <1>2, <1>3 DEF IsPrefix

LEMMA InitRecord == Init => RecordInv
<1> SUFFICES ASSUME Init PROVE RecordInv
  OBVIOUS
<1>1. ProcessInv
  BY InitProcesses
<1>2. DOMAIN observations = {} /\ DOMAIN faults = {} /\ pc = "prepare"
  BY DEF Init
<1>3. FaultInv /\ PlaceInv /\ ShellInv /\ RecordTrue
  BY <1>2 DEF FaultInv, PlaceInv, ShellInv, RecordTrue, Init, Fresh
<1> QED
  BY <1>1, <1>3 DEF RecordInv

\* Steps that stop the lab where it stands.
LEMMA StopRecord ==
    ASSUME RecordInv, UNCHANGED <<observations, shell, disk, faults>>,
           UNCHANGED pc, pc \in {"prepare", "hung"} \/ UNCHANGED status
    PROVE  FaultInv' /\ PlaceInv' /\ ShellInv' /\ RecordTrue'
<1>1. /\ case' = case
      /\ \A i : (Hung(i)' <=> Hung(i)) /\ KindsOf(i)' = KindsOf(i)
  BY DEF case, Hung, KindsOf
<1>2. RecordTrue'
  BY RecordKept DEF RecordInv
<1>3. FaultInv'
  BY <1>1 DEF FaultInv, RecordInv
<1>4. PlaceInv'
  BY <1>1 DEF PlaceInv, RecordInv
<1>5. ShellInv'
  <2>1. Reached' <=> Reached
    BY <1>1 DEF Reached
  <2> QED
    BY <1>1, <2>1 DEF ShellInv, RecordInv
<1> QED
  BY <1>2, <1>3, <1>4, <1>5

\* Each case begins with a directory of its own.
LEMMA PrepareRecord ==
    ASSUME RecordInv, Prepare PROVE FaultInv' /\ PlaceInv' /\ ShellInv' /\ RecordTrue'
<1>1. /\ UNCHANGED <<observations, faults, status>>
      /\ pc = "prepare" /\ pc' = "script" /\ status = Running
      /\ case <= Len(CASES)
      /\ disk' = Write(disk, {case}, Prepared) /\ shell' = Fresh
  BY DEF Prepare, WorkDir
<1>2. /\ case' = case /\ case \in DOMAIN CASES
      /\ \A i : (Hung(i)' <=> Hung(i)) /\ KindsOf(i)' = KindsOf(i)
  <2>1. case \in Nat \ {0}
    BY CaseType DEF RecordInv
  <2>2. DOMAIN CASES = 1..Len(CASES)
    BY CasesFacts, LenProperties DEF CasesOK
  <2> QED
    BY <1>1, <2>1, <2>2 DEF case, Hung, KindsOf
<1>3. case \notin DOMAIN faults /\ ~Hung(case)
  BY <1>1 DEF RecordInv, FaultInv, Hung
<1>4. RecordTrue'
  BY <1>1, RecordKept DEF RecordInv
<1>5. FaultInv'
  BY <1>1, <1>2, <1>3 DEF FaultInv, RecordInv
<1>6. case \in DOMAIN disk' /\ disk'[case] = Prepared
  BY <1>1 DEF Write
<1>7. PlaceInv'
  BY <1>1, <1>2, <1>6 DEF PlaceInv
<1>8. Reached'
  <2>1. shell'.next = 1 /\ shell'.status = 0 /\ shell'.out = << >>
    BY <1>1 DEF Fresh
  <2>2. /\ Len(CASES[case].body) \in Nat
        /\ Walk(case, KindsOf(case))[0] = State(0, << >>, Prepared)
    BY <1>2, WalkFacts DEF Begun
  <2> QED
    BY <1>1, <1>2, <1>3, <1>6, <2>1, <2>2 DEF Reached
<1>9. ShellInv'
  BY <1>1, <1>2, <1>3, <1>8 DEF ShellInv, Fresh
<1> QED
  BY <1>4, <1>5, <1>7, <1>9

\* The command that is due takes the case one state further.
LEMMA CommandRecord ==
    ASSUME RecordInv, Command PROVE FaultInv' /\ PlaceInv' /\ ShellInv' /\ RecordTrue'
<1>1. /\ UNCHANGED <<observations, pc, status>>
      /\ pc = "script" /\ ~ScriptOver(case, shell.next, shell.status)
  BY DEF Command, RunsOn
<1> DEFINE before == State(shell.status, shell.out, disk[case])
           at == shell.next
           body == CASES[case].body
<1>2. PICK kind \in Kinds :
        LET s == Behave(Due, kind, before, serving)
        IN  /\ shell' = [next |-> shell.next + 1, status |-> s.status, out |-> s.out]
            /\ disk' = [disk EXCEPT ![case] = s.files]
            /\ IF kind = "ok" THEN UNCHANGED faults ELSE Fault(kind)
  BY DEF Command, WorkDir
<1>3. PICK s : s = Behave(Due, kind, before, serving)
  OBVIOUS
<1>4. /\ shell'.next = at + 1 /\ shell'.status = s.status /\ shell'.out = s.out
      /\ "status" \in DOMAIN shell'
      /\ disk' = [disk EXCEPT ![case] = s.files]
  BY <1>2, <1>3
<1>5. /\ case' = case /\ case \in DOMAIN CASES /\ case \in DOMAIN disk
      /\ status = Running /\ ~Hung(case) /\ case \in Nat \ {0}
  BY <1>1, CaseType DEF RecordInv, PlaceInv, FaultInv, case
<1>6. /\ at \in 1..(Len(body) + 1)
      /\ before = Walk(case, KindsOf(case))[at - 1]
      /\ case \in DOMAIN faults => faults[case].at < at
  BY <1>1, <1>5 DEF RecordInv, ShellInv, Reached
<1>7. kind \in Ran
  BY DEF Kinds, Ran
<1>8. \/ kind = "ok" /\ UNCHANGED faults
      \/ kind # "ok" /\ case \notin DOMAIN faults /\ Fault(kind)
  BY <1>2 DEF Kinds, FaultPossible
<1>9. /\ Len(body) \in Nat /\ DOMAIN body = 1..Len(body) /\ at \in 1..Len(body)
      /\ CommandOK(body[at])
  <2>1. Len(body) \in Nat /\ DOMAIN body = 1..Len(body)
    BY <1>5, WalkFacts
  <2>2. at \in 1..Len(body)
    BY <1>1, <1>6, <2>1 DEF ScriptOver
  <2> QED
    BY <1>5, <2>1, <2>2, CasesFacts DEF CasesOK, ScriptOK
<1>10. /\ \A k \in 1..(at - 1) : KindsOf(case)[k] = KindsOf(case)'[k]
       /\ KindsOf(case)'[at] = kind
  <2>1. CASE kind = "ok" /\ UNCHANGED faults
    <3>1. KindsOf(case)' = KindsOf(case)
      BY <1>5, <2>1 DEF KindsOf
    <3>2. KindsOf(case)[at] = "ok"
      BY <1>6, <1>9 DEF KindsOf
    <3> QED
      BY <2>1, <3>1, <3>2
  <2>2. CASE kind # "ok" /\ case \notin DOMAIN faults /\ Fault(kind)
    <3>1. case \in DOMAIN faults' /\ faults'[case] = [at |-> at, kind |-> kind]
      BY <2>2 DEF Fault
    <3>2. faults'[case].at = at /\ faults'[case].kind = kind
      BY <3>1
    <3>3. ASSUME NEW k \in 1..(at - 1)
          PROVE  k \in DOMAIN body /\ k # at
      BY <1>9
    <3>4. KindsOf(case)' = [k \in DOMAIN body |-> IF faults'[case].at = k THEN faults'[case].kind
                                                                         ELSE "ok"]
      BY <1>5, <3>1 DEF KindsOf
    <3>5. KindsOf(case) = [k \in DOMAIN body |-> "ok"]
      BY <2>2 DEF KindsOf
    <3> QED
      BY <1>9, <3>2, <3>3, <3>4, <3>5
  <2> QED
    BY <1>8, <2>1, <2>2
<1>11. Hung(case)' <=> FALSE
  <2>1. CASE kind = "ok" /\ UNCHANGED faults
    BY <1>5, <2>1 DEF Hung
  <2>2. CASE kind # "ok" /\ case \notin DOMAIN faults /\ Fault(kind)
    <3>1. faults'[case].kind = kind
      BY <2>2 DEF Fault
    <3> QED
      BY <1>5, <1>7, <3>1 DEF Hung, Ran
  <2> QED
    BY <1>8, <2>1, <2>2
<1>12. IsState(before) /\ IsState(s)
  <2>1. \A k \in DOMAIN body : KindsOf(case)[k] \in Ran
    BY <1>5, KindsRan DEF RecordInv
  <2>2. IsState(before)
    BY <1>5, <1>6, <1>9, <2>1, WalkStates
  <2> HIDE DEF before
  <2>3. Due = body[at]
    BY DEF Due
  <2> QED
    BY <1>3, <1>7, <1>9, <2>2, <2>3, BehaveState DEF Ran
<1>13. s = Walk(case, KindsOf(case)')[at]
  <2>1. PICK kinds : kinds = KindsOf(case)'
    OBVIOUS
  <2>2. PICK n : n = at - 1
    OBVIOUS
  <2>3. /\ n \in 0..Len(body) /\ n \in 0..(Len(body) - 1) /\ n + 1 = at
        /\ \A k \in 1..n : KindsOf(case)[k] = kinds[k]
    BY <1>9, <1>10, <2>1, <2>2
  <2>4. Walk(case, kinds)[n] = before
    <3> HIDE DEF before
    <3> QED
      BY <1>5, <1>6, <1>9, <2>2, <2>3, WalkAgrees
  <2>5. Walk(case, kinds)[n + 1] = Onward(case, kinds, n + 1, before)
    <3> HIDE DEF before
    <3> QED
      BY <1>5, <2>3, <2>4, WalkFacts
  <2>6. Onward(case, kinds, at, before) = Behave(body[at], kind, before, TRUE)
    <3>1. before.status = shell.status
      BY StateFields
    <3> HIDE DEF before
    <3> QED
      BY <1>1, <1>10, <2>1, <3>1 DEF Onward
  <2>7. Behave(body[at], kind, before, TRUE) = s
    BY <1>3, <1>5 DEF Due, serving
  <2> QED
    BY <2>1, <2>3, <2>5, <2>6, <2>7
<1>14. Reached'
  <2>1. State(s.status, s.out, s.files) = s
    BY <1>12 DEF IsState
  <2>2. disk'[case] = s.files
    BY <1>4, <1>5
  <2>3. (at + 1) - 1 = at /\ at + 1 \in 1..(Len(body) + 1)
    BY <1>9
  <2>4. State(shell'.status, shell'.out, disk'[case]) = Walk(case, KindsOf(case)')[shell'.next - 1]
    BY <1>4, <1>13, <2>1, <2>2, <2>3
  <2>5. case \in DOMAIN faults' => faults'[case].at < at + 1
    <3>1. CASE kind = "ok" /\ UNCHANGED faults
      <4>1. case \in DOMAIN faults => faults[case].at \in Nat
        BY DEF RecordInv, FaultInv
      <4> QED
        BY <1>6, <1>9, <3>1, <4>1
    <3>2. CASE kind # "ok" /\ case \notin DOMAIN faults /\ Fault(kind)
      <4>1. faults'[case].at = at
        BY <3>2 DEF Fault
      <4> QED
        BY <1>9, <4>1
    <3> QED
      BY <1>8, <3>1, <3>2
  <2> QED
    BY <1>1, <1>4, <1>5, <2>3, <2>4, <2>5 DEF Reached
<1>15. RecordTrue'
  BY <1>1, <1>8, RecordKept DEF RecordInv
<1>16. FaultInv'
  <2>1. /\ DOMAIN faults' \subseteq 1..case
        /\ \A i \in DOMAIN faults' :
              faults'[i].at \in Nat /\ faults'[i].kind \in Ran \cup {"hang"}
    <3>1. DOMAIN faults \subseteq 1..case /\ case \in 1..case
      <4>1. DOMAIN faults \subseteq 1..case
        BY DEF RecordInv, FaultInv
      <4>2. case \in 1..case
        BY <1>5
      <4> QED
        BY <4>1, <4>2
    <3>2. \A i \in DOMAIN faults :
            faults[i].at \in Nat /\ faults[i].kind \in Ran \cup {"hang"}
      BY DEF RecordInv, FaultInv
    <3>3. CASE kind = "ok" /\ UNCHANGED faults
      BY <3>1, <3>2, <3>3
    <3>4. CASE kind # "ok" /\ case \notin DOMAIN faults /\ Fault(kind)
      <4>1. /\ DOMAIN faults' = DOMAIN faults \cup {case}
            /\ faults'[case].at = at /\ faults'[case].kind = kind
            /\ \A i \in DOMAIN faults : faults'[i] = faults[i]
        BY <3>4 DEF Fault
      <4> QED
        BY <1>7, <1>9, <3>1, <3>2, <4>1
    <3> QED
      BY <1>8, <3>3, <3>4
  <2> QED
    BY <1>1, <1>5, <1>11, <2>1 DEF FaultInv
<1>17. PlaceInv'
  BY <1>1, <1>4, <1>5 DEF PlaceInv
<1>18. ShellInv'
  BY <1>1, <1>4, <1>5, <1>11, <1>14 DEF ShellInv
<1> QED
  BY <1>15, <1>16, <1>17, <1>18

LEMMA HangRecord ==
    ASSUME RecordInv, Hang PROVE FaultInv' /\ PlaceInv' /\ ShellInv' /\ RecordTrue'
<1>1. /\ UNCHANGED <<observations, disk>>
      /\ pc = "script" /\ pc' = "hung"
      /\ case \notin DOMAIN faults /\ Fault("hang")
  BY DEF Hang, RunsOn, FaultPossible
<1>2. /\ DOMAIN faults' = DOMAIN faults \cup {case}
      /\ faults'[case].at = shell.next /\ faults'[case].kind = "hang"
      /\ \A i \in DOMAIN faults : faults'[i] = faults[i]
  BY <1>1 DEF Fault
<1>3. case' = case /\ case \in Nat \ {0} /\ case \in DOMAIN CASES /\ case \in DOMAIN disk
  BY <1>1, CaseType DEF RecordInv, PlaceInv, case
<1>4. shell.next \in Nat
  <2>1. Reached
    BY <1>1 DEF RecordInv, FaultInv, ShellInv
  <2> QED
    BY <2>1 DEF Reached
<1>5. RecordTrue'
  BY <1>1, RecordKept DEF RecordInv
<1>6. FaultInv'
  <2>1. /\ DOMAIN faults \subseteq 1..case
        /\ \A i \in DOMAIN faults :
              faults[i].at \in Nat /\ faults[i].kind \in Ran \cup {"hang"}
    BY DEF RecordInv, FaultInv
  <2>2. case \in 1..case
    BY <1>3
  <2>3. /\ DOMAIN faults' \subseteq 1..case
        /\ \A i \in DOMAIN faults' :
              faults'[i].at \in Nat /\ faults'[i].kind \in Ran \cup {"hang"}
    BY <1>2, <1>4, <2>1, <2>2
  <2> QED
    BY <1>1, <1>3, <2>3 DEF FaultInv
<1>7. PlaceInv'
  BY <1>1, <1>3 DEF PlaceInv
<1>8. ShellInv'
  BY <1>1 DEF ShellInv, RecordInv, Hang
<1> QED
  BY <1>5, <1>6, <1>7, <1>8

LEMMA TimeoutRecord ==
    ASSUME RecordInv, Timeout PROVE FaultInv' /\ PlaceInv' /\ ShellInv' /\ RecordTrue'
<1>1. /\ UNCHANGED <<observations, disk, faults, status>>
      /\ pc = "hung" /\ pc' = "timed out" /\ status = Running
      /\ shell' = [shell EXCEPT !.status = None]
  BY DEF Timeout, TimeoutExpired
<1>2. /\ case' = case /\ case \in DOMAIN CASES /\ case \in DOMAIN disk /\ Hung(case)
      /\ \A i : Hung(i)' <=> Hung(i)
  BY <1>1 DEF RecordInv, PlaceInv, ProcessInv, Hung, case
<1>3. RecordTrue'
  BY <1>1, RecordKept DEF RecordInv
<1>4. FaultInv'
  BY <1>1, <1>2 DEF FaultInv, RecordInv
<1>5. PlaceInv'
  BY <1>1, <1>2 DEF PlaceInv
<1>6. ShellInv'
  <2>1. "status" \in DOMAIN shell
    BY DEF RecordInv, ShellInv
  <2> QED
    BY <1>1, <1>2, <2>1 DEF ShellInv
<1> QED
  BY <1>3, <1>4, <1>5, <1>6

\* The script was over before gpgconf, or bash was killed.
LEMMA KillAgentsRecord ==
    ASSUME RecordInv, KillAgents PROVE FaultInv' /\ PlaceInv' /\ ShellInv' /\ RecordTrue'
<1>1. /\ UNCHANGED <<observations, shell, disk, faults, status>>
      /\ pc \in {"script", "timed out"} /\ pc' = "describe"
      /\ pc = "script" => ScriptOver(case, shell.next, shell.status)
  BY DEF KillAgents, BashEnded, RunsOn
<1>2. /\ case' = case /\ case \in DOMAIN CASES /\ case \in DOMAIN disk /\ status = Running
      /\ \A i : (Hung(i)' <=> Hung(i)) /\ KindsOf(i)' = KindsOf(i)
      /\ pc = "script" <=> ~Hung(case)
  BY <1>1 DEF RecordInv, PlaceInv, FaultInv, Hung, KindsOf, case
<1>3. RecordTrue'
  BY <1>1, RecordKept DEF RecordInv
<1>4. FaultInv'
  BY <1>1, <1>2 DEF FaultInv, RecordInv
<1>5. PlaceInv'
  BY <1>1, <1>2 DEF PlaceInv
<1>6. ASSUME ~Hung(case) PROVE Reached'
  <2>1. Reached
    BY <1>1, <1>2, <1>6 DEF RecordInv, ShellInv
  <2> QED
    BY <1>1, <1>2, <1>6, <2>1 DEF Reached
<1>7. Hung(case) => shell.status = None
  BY <1>1, <1>2 DEF RecordInv, ShellInv
<1>8. ShellInv'
  BY <1>1, <1>2, <1>6, <1>7 DEF ShellInv, RecordInv
<1> QED
  BY <1>3, <1>4, <1>5, <1>8

\* The case that is recorded is where its script ended.
LEMMA DescribeRecord ==
    ASSUME RecordInv, Describe PROVE FaultInv' /\ PlaceInv' /\ ShellInv' /\ RecordTrue'
<1> DEFINE seen == [exit |-> shell.status, timed_out |-> shell.status = None,
                    stdout |-> FirstTexts(shell.out), stdout_sha256 |-> shell.out,
                    files |-> describe_files(disk[case])]
           n == shell.next - 1
<1>1. PICK o : o = seen
  OBVIOUS
<1>2. /\ observations' = Append(observations, o)
      /\ UNCHANGED faults /\ pc = "describe" /\ pc' = "prepare"
  BY <1>1 DEF Describe, WorkDir
<1>3. /\ o.exit = shell.status /\ (o.timed_out <=> shell.status = None)
      /\ o.stdout = FirstTexts(shell.out) /\ o.stdout_sha256 = shell.out
      /\ o.files = describe_files(disk[case])
  BY <1>1
<1> HIDE DEF seen
<1>4. /\ case \in Nat \ {0} /\ case' = case + 1
      /\ DOMAIN observations = 1..(case - 1) /\ DOMAIN observations' = 1..case
      /\ observations'[case] = o
      /\ \A i \in DOMAIN observations : observations'[i] = observations[i]
  <2>1. PICK S : observations \in Seq(S)
    BY DEF RecordInv, ProcessInv
  <2>2. observations \in Seq(S \cup {o})
    BY <2>1, SeqMonotonic
  <2>3. /\ Append(observations, o) \in Seq(S \cup {o})
        /\ Len(Append(observations, o)) = Len(observations) + 1
        /\ \A i \in 1..Len(observations) : Append(observations, o)[i] = observations[i]
        /\ Append(observations, o)[Len(observations) + 1] = o
    BY <2>2, AppendProperties
  <2>4. Len(observations) \in Nat /\ DOMAIN observations = 1..Len(observations)
    BY <2>1, LenProperties
  <2>5. DOMAIN observations' = 1..Len(observations')
    BY <1>2, <2>3, LenProperties
  <2> QED
    BY <1>2, <2>3, <2>4, <2>5 DEF case
<1>5. case \in DOMAIN CASES
  BY <1>2 DEF RecordInv, PlaceInv
<1>6. \A i : (Hung(i)' <=> Hung(i)) /\ Truth(i)' = Truth(i)
  BY <1>2 DEF Hung, KindsOf, Truth
<1>7. ASSUME ~Hung(case)
      PROVE  /\ o.exit = Truth(case).status /\ o.exit \in Nat
             /\ o.stdout_sha256 = Truth(case).out
             /\ IsPrefix(o.stdout, Truth(case).out)
             /\ o.files = describe_files(Truth(case).files)
  <2>1. Reached
    BY <1>2, <1>7 DEF RecordInv, ShellInv
  <2>2. /\ n \in 0..Len(CASES[case].body) /\ n + 1 = shell.next
        /\ ScriptOver(case, shell.next, shell.status)
        /\ State(shell.status, shell.out, disk[case]) = Walk(case, KindsOf(case))[n]
    <3>1. Len(CASES[case].body) \in Nat
      BY <1>5, WalkFacts
    <3> QED
      BY <1>2, <2>1, <3>1 DEF Reached
  <2> HIDE DEF n
  <2>3. PICK t : t = Walk(case, KindsOf(case))[n]
    OBVIOUS
  <2>4. t.status = shell.status /\ t.out = shell.out /\ t.files = disk[case]
    BY <2>2, <2>3, StateFields
  <2>5. t = Truth(case)
    BY <1>5, <2>2, <2>3, <2>4, WalkStays DEF Truth
  <2>6. IsState(t)
    <3>1. \A k \in DOMAIN CASES[case].body : KindsOf(case)[k] \in Ran
      BY <1>7, KindsRan DEF RecordInv
    <3> QED
      BY <1>5, <2>2, <2>3, <3>1, WalkStates
  <2>7. shell.status \in Nat /\ shell.out \in Seq(Texts)
    BY <2>4, <2>6 DEF IsState
  <2>8. IsPrefix(FirstTexts(shell.out), shell.out)
    BY <2>7, FirstTextsPrefix
  <2> QED
    BY <1>3, <2>4, <2>5, <2>7, <2>8
<1>8. o.timed_out <=> Hung(case)
  <2>1. CASE Hung(case)
    BY <1>2, <1>3, <2>1 DEF RecordInv, ShellInv
  <2>2. CASE ~Hung(case)
    BY <1>3, <1>7, <2>2 DEF None
  <2> QED
    BY <2>1, <2>2
<1>9. RecordTrue'
  <2> SUFFICES ASSUME NEW i \in DOMAIN observations'
               PROVE  /\ observations'[i].timed_out <=> Hung(i)
                      /\ ~Hung(i) =>
                            /\ observations'[i].exit = Truth(i).status
                            /\ observations'[i].stdout_sha256 = Truth(i).out
                            /\ IsPrefix(observations'[i].stdout, Truth(i).out)
                            /\ observations'[i].files = describe_files(Truth(i).files)
    BY <1>6 DEF RecordTrue
  <2>1. CASE i = case
    BY <1>4, <1>7, <1>8, <2>1
  <2>2. CASE i # case
    <3>1. i \in DOMAIN observations /\ observations'[i] = observations[i]
      BY <1>4, <2>2
    <3> QED
      BY <3>1 DEF RecordInv, RecordTrue
  <2> QED
    BY <2>1, <2>2
<1>10. FaultInv'
  <2>1. /\ DOMAIN faults \subseteq 1..case
        /\ \A i \in DOMAIN faults :
              faults[i].at \in Nat /\ faults[i].kind \in Ran \cup {"hang"}
    BY DEF RecordInv, FaultInv
  <2>2. DOMAIN faults \subseteq 1..case' /\ case' \notin DOMAIN faults
    BY <1>4, <2>1
  <2> QED
    BY <1>2, <2>1, <2>2 DEF FaultInv
<1>11. PlaceInv'
  BY <1>2 DEF PlaceInv
<1>12. ShellInv'
  BY <1>2 DEF ShellInv, RecordInv, Describe
<1> QED
  BY <1>9, <1>10, <1>11, <1>12

\* What is left of a case that hung finds its own directory, or none.
LEMMA OrphanRecord ==
    ASSUME RecordInv, OrphanEnds PROVE FaultInv' /\ PlaceInv' /\ ShellInv' /\ RecordTrue'
<1>1. /\ UNCHANGED <<observations, pc, shell, faults, status>>
      /\ DOMAIN disk' = DOMAIN disk
      /\ \A d \in DOMAIN disk : ~Hung(d) => disk'[d] = disk[d]
  <2>1. PICK o \in orphans :
            /\ UNCHANGED <<observations, pc, shell, faults, status>>
            /\ disk' = IF o.case \notin DOMAIN disk THEN disk
                       ELSE [disk EXCEPT ![o.case] =
                               Effect(o.command, State(0, << >>, @), serving).files]
    BY DEF OrphanEnds, WorkDir
  <2>2. Hung(o.case)
    BY DEF RecordInv, ProcessInv
  <2> QED
    BY <2>1, <2>2
<1>2. /\ case' = case
      /\ \A i : (Hung(i)' <=> Hung(i)) /\ KindsOf(i)' = KindsOf(i)
  BY <1>1 DEF Hung, KindsOf, case
<1>3. RecordTrue'
  BY <1>1, RecordKept DEF RecordInv
<1>4. FaultInv'
  BY <1>1, <1>2 DEF FaultInv, RecordInv
<1>5. PlaceInv'
  BY <1>1, <1>2 DEF PlaceInv, RecordInv
<1>6. ASSUME pc \in {"script", "describe"}, ~Hung(case) PROVE Reached'
  <2>1. Reached /\ case \in DOMAIN disk
    BY <1>6 DEF RecordInv, ShellInv, PlaceInv
  <2>2. disk'[case] = disk[case]
    BY <1>1, <1>6, <2>1
  <2> QED
    BY <1>1, <1>2, <2>1, <2>2 DEF Reached
<1>7. ShellInv'
  BY <1>1, <1>2, <1>6 DEF ShellInv, RecordInv
<1> QED
  BY <1>3, <1>4, <1>5, <1>7

LEMMA NextRecord == RecordInv /\ [Next]_vars => RecordInv'
<1> SUFFICES ASSUME RecordInv, [Next]_vars PROVE RecordInv'
  OBVIOUS
<1>1. ProcessInv'
  BY NextProcesses DEF RecordInv
<1> DEFINE Done == FaultInv' /\ PlaceInv' /\ ShellInv' /\ RecordTrue'
<1>2. Prepare => Done
  BY PrepareRecord
<1>3. Command => Done
  BY CommandRecord
<1>4. Hang => Done
  BY HangRecord
<1>5. Timeout => Done
  BY TimeoutRecord
<1>6. KillAgents => Done
  BY KillAgentsRecord
<1>7. Describe => Done
  BY DescribeRecord
<1>8. OrphanEnds => Done
  BY OrphanRecord
<1>9. PrepareFails \/ Kill \/ Report \/ UNCHANGED vars => Done
  BY StopRecord DEF PrepareFails, Kill, Report, vars
<1> HIDE DEF Done
<1>10. Done
  BY <1>2, <1>3, <1>4, <1>5, <1>6, <1>7, <1>8, <1>9 DEF Next, Harness
<1> QED
  BY <1>1, <1>10 DEF Done, RecordInv

\* A case that ended by itself is recorded as its script and its fault say,
\* however many cases hang before it and whatever they leave running.
THEOREM RecordsAreTrue == Spec => []RecordTrue
<1>1. RecordInv => RecordTrue
  BY DEF RecordInv
<1> QED
  BY <1>1, InitRecord, NextRecord, PTL DEF Spec

-----------------------------------------------------------------------------
(* The verdict.  When it is given all cases have been recorded, and nothing  *)
(* that it rests on changes any more.                                        *)

Verdict == \A i \in DOMAIN observations : check(i)

VerdictInv ==
    /\ case <= Len(CASES) + 1
    /\ \A i \in DOMAIN faults : faults[i].kind = "works" => CASES[i].role = "published"
    /\ \A i \in DOMAIN observations :
            /\ observations[i].timed_out <=> observations[i].exit = None
            /\ observations[i].stdout = FirstTexts(observations[i].stdout_sha256)
    /\ status \in {0, 3} => /\ pc = "prepare" /\ case > Len(CASES)
                            /\ status = 0 <=> Verdict

LEMMA InitVerdict == Init => VerdictInv
<1> SUFFICES ASSUME Init PROVE VerdictInv
  OBVIOUS
<1>1. DOMAIN observations = {} /\ DOMAIN faults = {} /\ Len(observations) = 0 /\ status = -1
  BY DEF Init, Running
<1>2. Len(CASES) \in Nat
  BY CasesFacts, LenProperties DEF CasesOK
<1> QED
  BY <1>1, <1>2 DEF VerdictInv, case

\* Steps on the way to the verdict, that record nothing.
LEMMA BeforeVerdict ==
    ASSUME VerdictInv, UNCHANGED observations, status' \notin {0, 3},
           \A i \in DOMAIN faults' :
                \/ i \in DOMAIN faults /\ faults'[i] = faults[i]
                \/ faults'[i].kind = "works" => CASES[i].role = "published"
    PROVE  VerdictInv'
BY DEF VerdictInv, case

\* Steps that change nothing of what was recorded.
LEMMA AfterVerdict ==
    ASSUME VerdictInv, UNCHANGED <<observations, pc, faults, status>>
    PROVE  VerdictInv'
<1>1. case' = case /\ (Verdict' <=> Verdict)
  BY DEF case, Verdict, check, ById
<1> QED
  BY <1>1 DEF VerdictInv

LEMMA CommandVerdict == ASSUME RecordInv, VerdictInv, Command PROVE VerdictInv'
<1>1. UNCHANGED <<observations, status>> /\ pc = "script"
  BY DEF Command, RunsOn
<1>2. status' \notin {0, 3}
  BY <1>1 DEF VerdictInv
<1>3. PICK kind \in Kinds : IF kind = "ok" THEN UNCHANGED faults ELSE Fault(kind)
  BY DEF Command
<1>4. kind = "works" => CASES[case].role = "published"
  BY DEF Kinds
<1>5. ASSUME NEW i \in DOMAIN faults'
      PROVE  \/ i \in DOMAIN faults /\ faults'[i] = faults[i]
             \/ faults'[i].kind = "works" => CASES[i].role = "published"
  BY <1>3, <1>4 DEF Fault
<1> QED
  BY <1>1, <1>2, <1>5, BeforeVerdict

LEMMA HangVerdict == ASSUME RecordInv, VerdictInv, Hang PROVE VerdictInv'
<1>1. UNCHANGED <<observations, status>> /\ pc = "script" /\ Fault("hang")
  BY DEF Hang, RunsOn
<1>2. status' \notin {0, 3}
  BY <1>1 DEF VerdictInv
<1>3. ASSUME NEW i \in DOMAIN faults'
      PROVE  \/ i \in DOMAIN faults /\ faults'[i] = faults[i]
             \/ faults'[i].kind = "works" => CASES[i].role = "published"
  BY <1>1 DEF Fault
<1> QED
  BY <1>1, <1>2, <1>3, BeforeVerdict

LEMMA DescribeVerdict == ASSUME RecordInv, VerdictInv, Describe PROVE VerdictInv'
<1>1. UNCHANGED <<faults, status>> /\ pc = "describe"
  BY DEF Describe
<1>2. PICK o : /\ observations' = Append(observations, o)
               /\ o.timed_out <=> o.exit = None
               /\ o.stdout = FirstTexts(o.stdout_sha256)
  <2>1. PICK o : o = [exit |-> shell.status, timed_out |-> shell.status = None,
                      stdout |-> FirstTexts(shell.out), stdout_sha256 |-> shell.out,
                      files |-> describe_files(disk[WorkDir(case)])]
    OBVIOUS
  <2>2. /\ o.exit = shell.status /\ (o.timed_out <=> shell.status = None)
        /\ o.stdout = FirstTexts(shell.out) /\ o.stdout_sha256 = shell.out
    BY <2>1
  <2> QED
    BY <2>1, <2>2 DEF Describe
<1>3. PICK S : observations \in Seq(S)
  BY DEF RecordInv, ProcessInv
<1>4. observations \in Seq(S \cup {o})
  BY <1>3, SeqMonotonic
<1>5. /\ observations' \in Seq(S \cup {o}) /\ Len(observations') = Len(observations) + 1
      /\ \A i \in 1..Len(observations) : observations'[i] = observations[i]
      /\ observations'[Len(observations) + 1] = o
  BY <1>2, <1>4, AppendProperties
<1>6. /\ Len(observations) \in Nat /\ DOMAIN observations = 1..Len(observations)
      /\ DOMAIN observations' = 1..Len(observations')
  BY <1>3, <1>5, LenProperties
<1>7. \A i \in DOMAIN observations' :
            /\ observations'[i].timed_out <=> observations'[i].exit = None
            /\ observations'[i].stdout = FirstTexts(observations'[i].stdout_sha256)
  BY <1>2, <1>5, <1>6 DEF VerdictInv
<1>8. case' <= Len(CASES) + 1
  <2>1. case \in DOMAIN CASES /\ DOMAIN CASES = 1..Len(CASES) /\ Len(CASES) \in Nat
    BY <1>1, CasesFacts, LenProperties DEF RecordInv, PlaceInv, CasesOK
  <2> QED
    BY <1>5, <1>6, <2>1 DEF case
<1>9. status' \notin {0, 3}
  BY <1>1 DEF VerdictInv
<1> QED
  BY <1>1, <1>7, <1>8, <1>9 DEF VerdictInv

LEMMA ReportVerdict == ASSUME RecordInv, VerdictInv, Report PROVE VerdictInv'
<1>1. /\ UNCHANGED <<observations, pc, faults>>
      /\ pc = "prepare" /\ case > Len(CASES)
      /\ status' = IF Verdict THEN 0 ELSE 3
  BY DEF Report, Verdict
<1>2. case' = case /\ (Verdict' <=> Verdict)
  BY <1>1 DEF case, Verdict, check, ById
<1> QED
  BY <1>1, <1>2 DEF VerdictInv

LEMMA NextVerdict == RecordInv /\ VerdictInv /\ [Next]_vars => VerdictInv'
<1> SUFFICES ASSUME RecordInv, VerdictInv, [Next]_vars PROVE VerdictInv'
  OBVIOUS
<1>1. ASSUME UNCHANGED <<observations, faults>>, status' \in {Running, 1, Killed}
      PROVE  VerdictInv'
  BY <1>1, BeforeVerdict DEF Running, Killed
<1>2. CASE Prepare
  BY <1>1, <1>2 DEF Prepare
<1>3. CASE PrepareFails
  BY <1>1, <1>3 DEF PrepareFails
<1>4. CASE Timeout
  BY <1>1, <1>4 DEF Timeout, TimeoutExpired
<1>5. CASE Kill
  BY <1>1, <1>5 DEF Kill
<1>6. CASE KillAgents
  BY <1>1, <1>6 DEF KillAgents, BashEnded, RecordInv, PlaceInv
<1>7. CASE OrphanEnds
  BY <1>7, AfterVerdict DEF OrphanEnds
<1>8. CASE UNCHANGED vars
  BY <1>8, AfterVerdict DEF vars
<1> QED
  BY <1>2, <1>3, <1>4, <1>5, <1>6, <1>7, <1>8, CommandVerdict, HangVerdict, DescribeVerdict,
     ReportVerdict
  DEF Next, Harness

-----------------------------------------------------------------------------
(* What the commands do, seen from a state with its parts.                   *)

Put(fs, f, x) == Write(fs, {f}, x)

Cipher == <<"cipher">>
Seeds == <<"seeds">>
Denied == <<"AccessDenied">>
Services == <<"services:">>

\* While the fixture is served.
Served(c, s) == Effect(c, s, TRUE)
Behaved(c, kind, s) == Behave(c, kind, s, TRUE)

Piped(text, file) == Tee(text, file, FALSE)
Strict(text, file) == Tee(text, file, TRUE)
Keeping == Compare(TRUE)
Judging == Compare(FALSE)
Unknown == Pihole(FALSE)

\* File f holds x, or there is none.
Holds(fs, f, x) == f \in DOMAIN fs /\ fs[f] = x

LEMMA WriteFacts ==
    ASSUME NEW fs, NEW names, NEW x, NEW f
    PROVE  /\ f \in names => Holds(Write(fs, names, x), f, x)
           /\ \A y : f \notin names /\ Holds(fs, f, y) => Holds(Write(fs, names, x), f, y)
           /\ f \notin names /\ f \notin DOMAIN fs => f \notin DOMAIN Write(fs, names, x)
BY DEF Write, Holds

LEMMA PutFacts ==
    ASSUME NEW fs, NEW x, NEW f
    PROVE  /\ Holds(Put(fs, f, x), f, x)
           /\ \A g, y : g # f /\ Holds(fs, g, y) => Holds(Put(fs, f, x), g, y)
           /\ \A g : g # f /\ g \notin DOMAIN fs => g \notin DOMAIN Put(fs, f, x)
BY WriteFacts DEF Put

LEMMA TeeEffect ==
    ASSUME NEW text, NEW file, NEW n, NEW o, NEW fs
    PROVE  /\ Served(Piped(text, file), State(n, o, fs)) = State(0, o \o text, Put(fs, file, text))
           /\ Served(Strict(text, file), State(n, o, fs)) = State(1, o \o text, Put(fs, file, text))
BY DEF Served, Effect, Piped, Strict, Tee, State, Put

LEMMA EchoEffect ==
    ASSUME NEW text, NEW n, NEW o, NEW fs
    PROVE  Served(Echo(text), State(n, o, fs)) = State(0, Append(o, text), fs)
BY DEF Served, Effect, Echo, State

LEMMA EncryptEffect ==
    ASSUME NEW to, NEW redirected, NEW n, NEW o, NEW fs
    PROVE  Served(Encrypt(to, redirected), State(n, o, fs))
            = State(0, o, Put(Write(fs, redirected, << >>), to, Cipher))
BY DEF Served, Effect, Encrypt, State, Put, Cipher

Encrypted(fs) == Holds(fs, "backup.gpg", Cipher)
Restored(fs) == Holds(fs, "restored.txt", fs["seeds.txt"])

LEMMA DecryptEffect ==
    ASSUME NEW redirected, NEW n, NEW o, NEW fs
    PROVE  /\ Encrypted(fs) => Served(Decrypt(redirected), State(n, o, fs))
                                = State(0, o, Put(fs, "restored.txt", Seeds))
           /\ ~Encrypted(fs) => Served(Decrypt(redirected), State(n, o, fs))
                                = State(2, o, Write(fs, redirected, << >>))
BY DEF Served, Effect, Decrypt, State, Encrypted, Put, Cipher, Seeds, Holds

LEMMA CompareEffect ==
    ASSUME NEW n, NEW o, NEW fs
    PROVE  /\ Restored(fs) => Served(Judging, State(n, o, fs)) = State(0, Append(o, "RESTORED"), fs)
           /\ ~Restored(fs) => Served(Judging, State(n, o, fs)) = State(1, o, fs)
           /\ ~Restored(fs) => Served(Keeping, State(n, o, fs)) = State(n, o, fs)
BY DEF Served, Effect, Judging, Keeping, Compare, State, Restored, Holds

Saved(fs, path) == Put(fs, "docker-compose.yml", Response(path).body)

\* Curl saves the body that it gets, or nothing, and its status says which.
LEMMA CurlWrites ==
    ASSUME NEW path, NEW fail, NEW n, NEW o, NEW fs
    PROVE  /\ Response(path).code = 200 \/ fail = "no"
                => Served(Curl(path, fail), State(n, o, fs)) = State(0, o, Saved(fs, path))
           /\ Response(path).code # 200 /\ fail = "with-body"
                => Served(Curl(path, fail), State(n, o, fs)) = State(22, o, Saved(fs, path))
           /\ Response(path).code # 200 /\ fail = "fail"
                => Served(Curl(path, fail), State(n, o, fs)) = State(22, o, fs)
<1>1. PICK c : c = Curl(path, fail)
  OBVIOUS
<1>2. c.op = "curl" /\ c.path = path /\ c.fail = fail
  BY <1>1 DEF Curl
<1>3. PICK s : s = State(n, o, fs)
  OBVIOUS
<1>4. s = [status |-> n, out |-> o, files |-> fs] /\ s.files = fs
  BY <1>3 DEF State
<1>5. PICK e : e = Served(c, s)
  OBVIOUS
<1>6. ASSUME NEW code,
             e = [s EXCEPT !.status = code,
                           !.files = Write(s.files, {"docker-compose.yml"}, Response(c.path).body)]
      PROVE  e = State(code, o, Saved(fs, path))
  <2>1. e = [s EXCEPT !.status = code, !.files = Saved(fs, path)]
    BY <1>2, <1>4, <1>6 DEF Put, Saved
  <2>2. PICK files : files = Saved(fs, path)
    OBVIOUS
  <2>3. e = [status |-> code, out |-> o, files |-> files]
    BY <1>4, <2>1, <2>2
  <2> QED
    BY <2>2, <2>3 DEF State
<1>7. ASSUME Response(path).code = 200 \/ fail = "no" PROVE e = State(0, o, Saved(fs, path))
  <2>1. e = [s EXCEPT !.status = 0,
                      !.files = Write(s.files, {"docker-compose.yml"}, Response(c.path).body)]
    BY <1>2, <1>5, <1>7 DEF Served, Effect
  <2> QED
    BY <1>6, <2>1
<1>8. ASSUME Response(path).code # 200, fail = "with-body" PROVE e = State(22, o, Saved(fs, path))
  <2>1. e = [s EXCEPT !.status = 22,
                      !.files = Write(s.files, {"docker-compose.yml"}, Response(c.path).body)]
    BY <1>2, <1>5, <1>8 DEF Served, Effect
  <2> QED
    BY <1>6, <2>1
<1>9. ASSUME Response(path).code # 200, fail = "fail" PROVE e = State(22, o, fs)
  <2>1. e = [s EXCEPT !.status = 22]
    BY <1>2, <1>5, <1>9 DEF Served, Effect
  <2>2. e = [status |-> 22, out |-> o, files |-> fs]
    BY <1>4, <2>1
  <2> QED
    BY <2>2 DEF State
<1> QED
  BY <1>1, <1>3, <1>5, <1>7, <1>8, <1>9

LEMMA CurlEffect ==
    ASSUME NEW n, NEW o, NEW fs
    PROVE  /\ Served(Curl("denied", "no"), State(n, o, fs))
                = State(0, o, Put(fs, "docker-compose.yml", Denied))
           /\ Served(Curl("denied", "fail"), State(n, o, fs)) = State(22, o, fs)
           /\ Served(Curl("denied", "with-body"), State(n, o, fs))
                = State(22, o, Put(fs, "docker-compose.yml", Denied))
           /\ Served(Curl("ok", "fail"), State(n, o, fs))
                = State(0, o, Put(fs, "docker-compose.yml", Services))
<1>1. /\ Response("denied").code = 403 /\ Response("denied").body = Denied
      /\ Response("ok").code = 200 /\ Response("ok").body = Services
  BY DEF Response, Denied, Services
<1>2. /\ Saved(fs, "denied") = Put(fs, "docker-compose.yml", Denied)
      /\ Saved(fs, "ok") = Put(fs, "docker-compose.yml", Services)
  BY <1>1 DEF Saved
<1>3. Response("denied").code # 200
  BY <1>1
<1> QED
  BY <1>1, <1>2, <1>3, CurlWrites

LEMMA PiholeEffect ==
    ASSUME NEW n, NEW fs
    PROVE  Served(Unknown, State(n, << >>, fs)) = State(0, Help, fs)
<1>1. << >> \o Help \o << >> = Help
  BY TextsFacts, EmptySeq, ConcatEmptySeq
<1>2. Served(Unknown, State(n, << >>, fs)) = State(0, << >> \o Help \o << >>, fs)
  BY DEF Served, Effect, Unknown, Pihole, State
<1> QED
  BY <1>1, <1>2

LEMMA BehaveCases ==
    ASSUME NEW c, NEW n, NEW o, NEW fs
    PROVE  /\ Behaved(c, "ok", State(n, o, fs)) = Served(c, State(n, o, fs))
           /\ Behaved(c, "fails", State(n, o, fs)) = State(1, o, fs)
           /\ Behaved(c, "works", State(n, o, fs)) = Served(Intended(c), State(n, o, fs))
BY DEF Behaved, Behave, Served, State

LEMMA IntendedFacts ==
    /\ Intended(Encrypt("backup.gpg", {})) = Encrypt("backup.gpg", {})
    /\ \A r : Intended(Decrypt(r)) = Decrypt(r)
    /\ Intended(Judging) = Judging
    /\ Intended(Curl("ok", "fail")) = Curl("ok", "fail")
BY DEF Intended, Encrypt, Decrypt, Judging, Compare, Curl

\* Command c of a script, unless a strict script has stopped.
After(i, c, kind, s) == IF CASES[i].strict /\ s.status # 0 THEN s ELSE Behaved(c, kind, s)

\* Scripts of one, two and three commands, run to their end.
LEMMA ScriptRuns ==
    ASSUME NEW i \in DOMAIN CASES, NEW b, NEW c, NEW d, NEW kinds, NEW end,
           end = Walk(i, kinds)[Len(CASES[i].body)]
    PROVE  /\ CASES[i].body = <<b>> => end = Behaved(b, kinds[1], Begun)
           /\ CASES[i].body = <<b, c>> =>
                    end = After(i, c, kinds[2], Behaved(b, kinds[1], Begun))
           /\ CASES[i].body = <<b, c, d>> =>
                    end = After(i, d, kinds[3], After(i, c, kinds[2], Behaved(b, kinds[1], Begun)))
<1>1. PICK body : body = CASES[i].body
  OBVIOUS
<1>2. /\ Len(body) \in Nat /\ Walk(i, kinds)[0] = Begun /\ Begun.status = 0
      /\ \A k \in 0..(Len(body) - 1) :
            Walk(i, kinds)[k + 1] = Onward(i, kinds, k + 1, Walk(i, kinds)[k])
  BY <1>1, WalkFacts, StateFields DEF Begun
<1>3. ASSUME NEW k \in 1..Len(body), NEW s
      PROVE  Onward(i, kinds, k, s) = After(i, body[k], kinds[k], s)
  <2>1. ScriptOver(i, k, s.status) <=> CASES[i].strict /\ s.status # 0
    BY <1>1, <1>2 DEF ScriptOver
  <2> QED
    BY <1>1, <2>1 DEF Onward, After, Behaved
<1>4. ASSUME 1 <= Len(body) PROVE Walk(i, kinds)[1] = Behaved(body[1], kinds[1], Begun)
  <2>1. Walk(i, kinds)[0 + 1] = Onward(i, kinds, 0 + 1, Walk(i, kinds)[0])
    BY <1>2, <1>4
  <2>2. Walk(i, kinds)[1] = Onward(i, kinds, 1, Begun)
    BY <1>2, <2>1
  <2>3. Onward(i, kinds, 1, Begun) = After(i, body[1], kinds[1], Begun)
    BY <1>2, <1>3, <1>4
  <2> QED
    BY <1>2, <2>2, <2>3 DEF After
<1>5. ASSUME 2 <= Len(body) PROVE Walk(i, kinds)[2] = After(i, body[2], kinds[2], Walk(i, kinds)[1])
  <2>1. Walk(i, kinds)[1 + 1] = Onward(i, kinds, 1 + 1, Walk(i, kinds)[1])
    BY <1>2, <1>5
  <2> QED
    BY <1>2, <1>3, <1>5, <2>1
<1>6. ASSUME 3 <= Len(body) PROVE Walk(i, kinds)[3] = After(i, body[3], kinds[3], Walk(i, kinds)[2])
  <2>1. Walk(i, kinds)[2 + 1] = Onward(i, kinds, 2 + 1, Walk(i, kinds)[2])
    BY <1>2, <1>6
  <2> QED
    BY <1>2, <1>3, <1>6, <2>1
<1>7. ASSUME body = <<b>> PROVE end = Behaved(b, kinds[1], Begun)
  <2>1. Len(body) = 1 /\ body[1] = b
    BY <1>7
  <2> QED
    BY <1>1, <1>4, <2>1
<1>8. ASSUME body = <<b, c>> PROVE end = After(i, c, kinds[2], Behaved(b, kinds[1], Begun))
  <2>1. Len(body) = 2 /\ body[1] = b /\ body[2] = c
    BY <1>8
  <2> QED
    BY <1>1, <1>4, <1>5, <2>1
<1>9. ASSUME body = <<b, c, d>>
      PROVE  end = After(i, d, kinds[3], After(i, c, kinds[2], Behaved(b, kinds[1], Begun)))
  <2>1. Len(body) = 3 /\ body[1] = b /\ body[2] = c /\ body[3] = d
    BY <1>9
  <2> QED
    BY <1>1, <1>4, <1>5, <1>6, <2>1
<1> QED
  BY <1>1, <1>7, <1>8, <1>9

-----------------------------------------------------------------------------
(* The list of the cases, one by one.                                        *)

HarnessCase ==
    Case("harness-sees-failure", "harness", "control", FALSE,
         <<[op |-> "exit", status |-> 7]>>, [exit |-> 7])
Pipe == PipelineCases("pipe-set-e", "pipe-set-e-pipefail", << >>, "out.log", "REACHED", {})
FetchPipe ==
    PipelineCases("pipe-set-e-failing-fetch", "pipe-pipefail-failing-fetch", Fetched,
                  "update.log", "RELOADING", {<<"update.log", Containing(Fetched[1])>>})
Pihole60 == PiholeCases("pihole-v6.0-adlist-add", "pihole-v6.0-help")
Pihole643 == PiholeCases("pihole-v6.4.3-adlist-add", "pihole-v6.4.3-help")

Known == {HarnessCase} \cup {Pipe[1], Pipe[2]} \cup {FetchPipe[1], FetchPipe[2]}
         \cup {GpgCases[1], GpgCases[2], GpgCases[3], GpgCases[4]}
         \cup {CurlCases[1], CurlCases[2], CurlCases[3], CurlCases[4]}
         \cup {Pihole60[1], Pihole60[2]} \cup {Pihole643[1], Pihole643[2]}

LEMMA ListOf ==
    ASSUME NEW S, NEW a \in S, NEW b \in S, NEW c \in S, NEW d \in S
    PROVE  <<a>> \in Seq(S) /\ <<a, b>> \in Seq(S) /\ <<a, b, c, d>> \in Seq(S)
OBVIOUS

LEMMA PartsKnown ==
    /\ <<HarnessCase>> \in Seq(Known) /\ Pipe \in Seq(Known) /\ FetchPipe \in Seq(Known)
    /\ GpgCases \in Seq(Known) /\ CurlCases \in Seq(Known)
    /\ Pihole60 \in Seq(Known) /\ Len(Pihole60) = 2
    /\ Pihole643 \in Seq(Known) /\ Len(Pihole643) = 2
<1>1. ASSUME NEW s, NEW a, NEW b, s = <<a, b>>, s[1] \in Known, s[2] \in Known
      PROVE  s \in Seq(Known) /\ Len(s) = 2
  <2>1. s[1] = a /\ s[2] = b /\ Len(s) = 2
    BY <1>1
  <2> QED
    BY <1>1, <2>1, ListOf
<1>2. ASSUME NEW s, NEW a, NEW b, NEW c, NEW d, s = <<a, b, c, d>>,
             s[1] \in Known, s[2] \in Known, s[3] \in Known, s[4] \in Known
      PROVE  s \in Seq(Known)
  <2>1. s[1] = a /\ s[2] = b /\ s[3] = c /\ s[4] = d
    BY <1>2
  <2> QED
    BY <1>2, <2>1, ListOf
<1>3. \A name, control, text, file, word, files :
        \E a, b : PipelineCases(name, control, text, file, word, files) = <<a, b>>
  BY DEF PipelineCases
<1>4. \A add, help : \E a, b : PiholeCases(add, help) = <<a, b>>
  BY DEF PiholeCases
<1>5. \E a, b, c, d : GpgCases = <<a, b, c, d>>
  BY DEF GpgCases
<1>6. \E a, b, c, d : CurlCases = <<a, b, c, d>>
  BY DEF CurlCases
<1>7. <<HarnessCase>> \in Seq(Known)
  <2>1. HarnessCase \in Known
    BY DEF Known
  <2> HIDE DEF Known
  <2> QED
    BY <2>1, ListOf
<1>8. /\ Pipe[1] \in Known /\ Pipe[2] \in Known
      /\ FetchPipe[1] \in Known /\ FetchPipe[2] \in Known
      /\ Pihole60[1] \in Known /\ Pihole60[2] \in Known
      /\ Pihole643[1] \in Known /\ Pihole643[2] \in Known
  BY DEF Known
<1>9. /\ GpgCases[1] \in Known /\ GpgCases[2] \in Known
      /\ GpgCases[3] \in Known /\ GpgCases[4] \in Known
      /\ CurlCases[1] \in Known /\ CurlCases[2] \in Known
      /\ CurlCases[3] \in Known /\ CurlCases[4] \in Known
  BY DEF Known
<1>10. Pipe \in Seq(Known) /\ FetchPipe \in Seq(Known)
  BY <1>1, <1>3, <1>8 DEF Pipe, FetchPipe
<1>11. /\ Pihole60 \in Seq(Known) /\ Len(Pihole60) = 2
       /\ Pihole643 \in Seq(Known) /\ Len(Pihole643) = 2
  BY <1>1, <1>4, <1>8 DEF Pihole60, Pihole643
<1> QED
  BY <1>2, <1>5, <1>6, <1>7, <1>9, <1>10, <1>11

\* The elements of two lists stand in the list of both.
LEMMA Joined ==
    ASSUME NEW S, NEW s \in Seq(S), NEW t \in Seq(S), NEW u, u = s \o t
    PROVE  /\ u \in Seq(S)
           /\ \A k \in 1..Len(s) : k \in DOMAIN u /\ u[k] = s[k]
           /\ \A k \in 1..Len(t) : Len(s) + k \in DOMAIN u /\ u[Len(s) + k] = t[k]
<1>1. /\ Len(s) \in Nat /\ Len(t) \in Nat
      /\ u \in Seq(S) /\ Len(u) = Len(s) + Len(t)
      /\ \A k \in 1..(Len(s) + Len(t)) : u[k] = IF k <= Len(s) THEN s[k] ELSE t[k - Len(s)]
  BY ConcatProperties, LenProperties
<1>2. DOMAIN u = 1..(Len(s) + Len(t))
  BY <1>1, LenProperties
<1>3. ASSUME NEW k \in 1..Len(s) PROVE k \in DOMAIN u /\ u[k] = s[k]
  BY <1>1, <1>2
<1>4. ASSUME NEW k \in 1..Len(t) PROVE Len(s) + k \in DOMAIN u /\ u[Len(s) + k] = t[k]
  <2>1. PICK m : m = Len(s) + k
    OBVIOUS
  <2>2. m \in 1..(Len(s) + Len(t)) /\ ~(m <= Len(s)) /\ m - Len(s) = k
    BY <1>1, <2>1
  <2> QED
    BY <1>1, <1>2, <2>1, <2>2
<1> QED
  BY <1>1, <1>3, <1>4

\* All cases are in the list, and so are both that a published form of pihole is
\* compared with.
LEMMA CasesKnown ==
    /\ CASES \in Seq(Known)
    /\ \E j \in DOMAIN CASES : CASES[j] = Pihole60[2]
    /\ \E j \in DOMAIN CASES : CASES[j] = Pihole643[2]
<1>1. PICK start : start = <<HarnessCase>> \o Pipe \o FetchPipe \o GpgCases \o CurlCases
  OBVIOUS
<1>2. start \in Seq(Known)
  <2>1. PICK a : a = <<HarnessCase>>
    OBVIOUS
  <2>2. PICK b : b = a \o Pipe
    OBVIOUS
  <2>3. PICK c : c = b \o FetchPipe
    OBVIOUS
  <2>4. PICK d : d = c \o GpgCases
    OBVIOUS
  <2>5. a \in Seq(Known)
    BY <2>1, PartsKnown
  <2>6. b \in Seq(Known)
    BY <2>2, <2>5, PartsKnown, Joined
  <2>7. c \in Seq(Known)
    BY <2>3, <2>6, PartsKnown, Joined
  <2>8. d \in Seq(Known)
    BY <2>4, <2>7, PartsKnown, Joined
  <2>9. start = d \o CurlCases
    BY <1>1, <2>1, <2>2, <2>3, <2>4, Zenon
  <2> QED
    BY <2>8, <2>9, PartsKnown, Joined
<1>3. PICK s : s = start \o Pihole60
  OBVIOUS
<1>4. PICK all : all = s \o Pihole643
  OBVIOUS
<1>5. CASES = all
  BY <1>1, <1>3, <1>4, Zenon DEF CASES, HarnessCase, Pipe, FetchPipe, Pihole60, Pihole643
<1>6. /\ s \in Seq(Known)
      /\ \A k \in 1..Len(Pihole60) : Len(start) + k \in DOMAIN s /\ s[Len(start) + k] = Pihole60[k]
  <2>1. PICK p : p = Pihole60
    OBVIOUS
  <2>2. p \in Seq(Known) /\ s = start \o p
    BY <1>3, <2>1, PartsKnown
  <2>3. /\ s \in Seq(Known)
        /\ \A k \in 1..Len(p) : Len(start) + k \in DOMAIN s /\ s[Len(start) + k] = p[k]
    BY <1>2, <2>2, Joined
  <2> QED
    BY <2>1, <2>3
<1>7. /\ all \in Seq(Known)
      /\ \A k \in 1..Len(s) : k \in DOMAIN all /\ all[k] = s[k]
      /\ \A k \in 1..Len(Pihole643) : Len(s) + k \in DOMAIN all /\ all[Len(s) + k] = Pihole643[k]
  <2>1. PICK p : p = Pihole643
    OBVIOUS
  <2>2. p \in Seq(Known) /\ all = s \o p /\ s \in Seq(Known)
    BY <1>4, <1>6, <2>1, PartsKnown
  <2>3. /\ all \in Seq(Known)
        /\ \A k \in 1..Len(s) : k \in DOMAIN all /\ all[k] = s[k]
        /\ \A k \in 1..Len(p) : Len(s) + k \in DOMAIN all /\ all[Len(s) + k] = p[k]
    BY <2>2, Joined
  <2> QED
    BY <2>1, <2>3
<1>8. 2 \in 1..Len(Pihole60) /\ 2 \in 1..Len(Pihole643)
  BY PartsKnown
<1>9. \E j \in DOMAIN all : all[j] = Pihole60[2]
  <2>1. PICK k : k = Len(start) + 2
    OBVIOUS
  <2>2. k \in DOMAIN s /\ s[k] = Pihole60[2]
    BY <1>6, <1>8, <2>1
  <2>3. k \in 1..Len(s)
    BY <1>6, <2>2, LenProperties
  <2> QED
    BY <1>7, <2>2, <2>3
<1>10. \E j \in DOMAIN all : all[j] = Pihole643[2]
  BY <1>7, <1>8
<1> QED
  BY <1>5, <1>7, <1>9, <1>10

-----------------------------------------------------------------------------
(* What check asks of a case that ended by itself, by the form of what it    *)
(* expects.                                                                  *)

ExitOnly(e, n) == e = [exit |-> n]
ExitFiles(e, n, files) == e = [exit |-> n, files |-> files]
ExitContains(e, n, word) == e = [exit |-> n, stdout_contains |-> word]
ContainsFiles(e, n, word, files) == e = [exit |-> n, stdout_contains |-> word, files |-> files]
LacksFiles(e, n, word, files) == e = [exit |-> n, stdout_lacks |-> word, files |-> files]
NonzeroLacks(e, word) == e = [exit_nonzero |-> TRUE, stdout_lacks |-> word]
ContainsSame(e, n, word, id) ==
    e = [exit |-> n, stdout_contains |-> word, stdout_equals_case |-> id]

FilesAre(files, fs) == \A file \in files : FileMatches(file[2], describe_files(fs), file[1])
SameAs(id, out) == \E j \in DOMAIN observations : /\ CASES[j].id = id
                                                  /\ out = observations[j].stdout_sha256
Shown(word, out) == word \in ToSet(FirstTexts(out))

LEMMA Recorded ==
    ASSUME RecordInv, VerdictInv, NEW i \in DOMAIN observations, ~Hung(i), NEW t, t = Truth(i),
           i \in DOMAIN CASES
    PROVE  /\ observations[i].exit = t.status /\ t.status \in Nat
           /\ observations[i].stdout_sha256 = t.out /\ t.out \in Seq(Texts)
           /\ observations[i].stdout = FirstTexts(t.out)
           /\ observations[i].files = describe_files(t.files)
<1>1. /\ observations[i].exit = t.status /\ observations[i].stdout_sha256 = t.out
      /\ observations[i].files = describe_files(t.files)
  BY DEF RecordInv, RecordTrue
<1>2. observations[i].stdout = FirstTexts(t.out)
  BY <1>1 DEF VerdictInv
<1>3. IsState(t)
  <2>1. \A k \in DOMAIN CASES[i].body : KindsOf(i)[k] \in Ran
    BY KindsRan DEF RecordInv
  <2>2. Len(CASES[i].body) \in 0..Len(CASES[i].body)
    BY WalkFacts
  <2> QED
    BY <2>1, <2>2, WalkStates DEF Truth
<1> QED
  BY <1>1, <1>2, <1>3 DEF IsState

LEMMA Checked ==
    ASSUME RecordInv, VerdictInv, NEW i \in DOMAIN observations, ~Hung(i), NEW t, t = Truth(i),
           i \in DOMAIN CASES, NEW e, e = CASES[i].expect
    PROVE  /\ \A n : ExitOnly(e, n) => (check(i) <=> t.status = n)
           /\ \A n, files : ExitFiles(e, n, files) =>
                    (check(i) <=> t.status = n /\ FilesAre(files, t.files))
           /\ \A n, word : ExitContains(e, n, word) =>
                    (check(i) <=> t.status = n /\ Shown(word, t.out))
           /\ \A n, word, files : ContainsFiles(e, n, word, files) =>
                    (check(i) <=> t.status = n /\ Shown(word, t.out) /\ FilesAre(files, t.files))
           /\ \A n, word, files : LacksFiles(e, n, word, files) =>
                    (check(i) <=> t.status = n /\ ~Shown(word, t.out) /\ FilesAre(files, t.files))
           /\ \A word : NonzeroLacks(e, word) =>
                    (check(i) <=> t.status # 0 /\ ~Shown(word, t.out))
           /\ \A n, word, id : ContainsSame(e, n, word, id) =>
                    (check(i) <=> t.status = n /\ Shown(word, t.out) /\ SameAs(id, t.out))
<1>1. PICK o : o = observations[i]
  OBVIOUS
<1>2. /\ o.exit = t.status /\ t.status \in Nat /\ o.stdout_sha256 = t.out
      /\ o.stdout = FirstTexts(t.out) /\ o.files = describe_files(t.files)
  BY <1>1, Recorded
<1>3. ASSUME NEW n, ExitOnly(e, n) PROVE check(i) <=> t.status = n
  <2>1. DOMAIN e = {"exit"} /\ e.exit = n
    BY <1>3 DEF ExitOnly
  <2> QED
    BY <1>1, <1>2, <2>1 DEF check, ExitMatches
<1>4. ASSUME NEW n, NEW files, ExitFiles(e, n, files)
      PROVE  check(i) <=> t.status = n /\ FilesAre(files, t.files)
  <2>1. DOMAIN e = {"exit", "files"} /\ e.exit = n /\ e.files = files
    BY <1>4 DEF ExitFiles
  <2> QED
    BY <1>1, <1>2, <2>1 DEF check, ExitMatches, FilesAre
<1>5. ASSUME NEW n, NEW word, ExitContains(e, n, word)
      PROVE  check(i) <=> t.status = n /\ Shown(word, t.out)
  <2>1. DOMAIN e = {"exit", "stdout_contains"} /\ e.exit = n /\ e.stdout_contains = word
    BY <1>5 DEF ExitContains
  <2> QED
    BY <1>1, <1>2, <2>1 DEF check, ExitMatches, Shown
<1>6. ASSUME NEW n, NEW word, NEW files, ContainsFiles(e, n, word, files)
      PROVE  check(i) <=> t.status = n /\ Shown(word, t.out) /\ FilesAre(files, t.files)
  <2>1. /\ DOMAIN e = {"exit", "stdout_contains", "files"} /\ e.exit = n
        /\ e.stdout_contains = word /\ e.files = files
    BY <1>6 DEF ContainsFiles
  <2> QED
    BY <1>1, <1>2, <2>1 DEF check, ExitMatches, FilesAre, Shown
<1>7. ASSUME NEW n, NEW word, NEW files, LacksFiles(e, n, word, files)
      PROVE  check(i) <=> t.status = n /\ ~Shown(word, t.out) /\ FilesAre(files, t.files)
  <2>1. /\ DOMAIN e = {"exit", "stdout_lacks", "files"} /\ e.exit = n
        /\ e.stdout_lacks = word /\ e.files = files
    BY <1>7 DEF LacksFiles
  <2> QED
    BY <1>1, <1>2, <2>1 DEF check, ExitMatches, FilesAre, Shown
<1>8. ASSUME NEW word, NonzeroLacks(e, word)
      PROVE  check(i) <=> t.status # 0 /\ ~Shown(word, t.out)
  <2>1. DOMAIN e = {"exit_nonzero", "stdout_lacks"} /\ e.stdout_lacks = word
    BY <1>8 DEF NonzeroLacks
  <2> QED
    BY <1>1, <1>2, <2>1 DEF check, ExitMatches, Shown, None
<1>9. ASSUME NEW n, NEW word, NEW id, ContainsSame(e, n, word, id)
      PROVE  check(i) <=> t.status = n /\ Shown(word, t.out) /\ SameAs(id, t.out)
  <2>1. /\ DOMAIN e = {"exit", "stdout_contains", "stdout_equals_case"} /\ e.exit = n
        /\ e.stdout_contains = word /\ e.stdout_equals_case = id
    BY <1>9 DEF ContainsSame
  <2> QED
    BY <1>1, <1>2, <2>1 DEF check, ExitMatches, SameOutput, ById, SameAs, Shown
<1> QED
  BY <1>3, <1>4, <1>5, <1>6, <1>7, <1>8, <1>9

\* A case that hung passes none of them.
LEMMA HungFails ==
    ASSUME RecordInv, VerdictInv, NEW i \in DOMAIN observations, Hung(i),
           NEW e, e = CASES[i].expect,
           ("exit" \in DOMAIN e /\ e.exit \in Nat) \/ "exit_nonzero" \in DOMAIN e
    PROVE  ~check(i)
<1>1. observations[i].exit = None
  BY DEF RecordInv, RecordTrue, VerdictInv
<1> QED
  BY <1>1 DEF check, ExitMatches, None

-----------------------------------------------------------------------------
LEMMA Matches ==
    ASSUME NEW fs, NEW f
    PROVE  /\ FileMatches(Absent, describe_files(fs), f) <=> f \notin DOMAIN fs
           /\ FileMatches(Empty, describe_files(fs), f) <=> f \in DOMAIN fs /\ Len(fs[f]) = 0
           /\ FileMatches(Nonempty, describe_files(fs), f) <=> f \in DOMAIN fs /\ Len(fs[f]) > 0
           /\ \A x : f \notin {"backup.gpg", "seeds.txt.gpg"} =>
                (FileMatches(Containing(x), describe_files(fs), f)
                    <=> f \in DOMAIN fs /\ x \in ToSet(fs[f]))
<1>1. PICK d : d = describe_files(fs)
  OBVIOUS
<1>2. f \in DOMAIN d <=> f \in DOMAIN fs
  BY <1>1 DEF describe_files
<1>3. f \in DOMAIN fs => d[f].size = Len(fs[f])
  BY <1>1 DEF describe_files
<1>4. f \in DOMAIN fs /\ f \notin {"backup.gpg", "seeds.txt.gpg"} => d[f].head = fs[f]
  BY <1>1 DEF describe_files
<1>5. Absent[1] = "absent" /\ Empty[1] = "empty" /\ Nonempty[1] = "nonempty"
  BY DEF Absent, Empty, Nonempty
<1>6. \A x : Containing(x)[1] = "contains" /\ Containing(x)[2] = x
  BY DEF Containing
<1>7. FileMatches(Absent, d, f) <=> f \notin DOMAIN fs
  BY <1>2, <1>5 DEF FileMatches
<1>8. FileMatches(Empty, d, f) <=> f \in DOMAIN fs /\ Len(fs[f]) = 0
  BY <1>2, <1>3, <1>5 DEF FileMatches
<1>9. FileMatches(Nonempty, d, f) <=> f \in DOMAIN fs /\ Len(fs[f]) > 0
  BY <1>2, <1>3, <1>5 DEF FileMatches
<1>10. \A x : f \notin {"backup.gpg", "seeds.txt.gpg"} =>
                (FileMatches(Containing(x), d, f) <=> f \in DOMAIN fs /\ x \in ToSet(fs[f]))
  BY <1>2, <1>4, <1>6 DEF FileMatches
<1> QED
  BY <1>1, <1>7, <1>8, <1>9, <1>10

\* One file that is looked at, and three.
OneFile(f, want) == {<<f, want>>}
ThreeFiles(f, wantf, g, wantg, h, wanth) == {<<f, wantf>>, <<g, wantg>>, <<h, wanth>>}
TwoFiles(f, wantf, g, wantg) == {<<f, wantf>>, <<g, wantg>>}
Want(f, want, fs) == FileMatches(want, describe_files(fs), f)

LEMMA FilesLooked ==
    ASSUME NEW fs, NEW f, NEW wantf, NEW g, NEW wantg, NEW h, NEW wanth
    PROVE  /\ FilesAre({}, fs)
           /\ FilesAre(OneFile(f, wantf), fs) <=> Want(f, wantf, fs)
           /\ FilesAre(TwoFiles(f, wantf, g, wantg), fs)
                    <=> Want(f, wantf, fs) /\ Want(g, wantg, fs)
           /\ FilesAre(ThreeFiles(f, wantf, g, wantg, h, wanth), fs)
                    <=> Want(f, wantf, fs) /\ Want(g, wantg, fs) /\ Want(h, wanth, fs)
<1>1. ASSUME NEW x, NEW w PROVE <<x, w>>[1] = x /\ <<x, w>>[2] = w
  OBVIOUS
<1>2. \A x, w : LET file == <<x, w>>
                IN  FileMatches(file[2], describe_files(fs), file[1]) <=> Want(x, w, fs)
  BY <1>1 DEF Want
<1> QED
  BY <1>2 DEF FilesAre, OneFile, TwoFiles, ThreeFiles

-----------------------------------------------------------------------------
(* What each case runs, and what it expects.                                 *)

HelpIds == {"pihole-v6.0-help", "pihole-v6.4.3-help"}
Runs1(c, x) == c.body = <<x>>
Runs2(c, x, y) == c.body = <<x, y>>
Runs3(c, x, y, z) == c.body = <<x, y, z>>
OfGroup(c, group, role) == c.group = group /\ c.role = role /\ c.id \notin HelpIds

Exits7(c) ==
    /\ OfGroup(c, "harness", "control") /\ Runs1(c, [op |-> "exit", status |-> 7])
    /\ ExitOnly(c.expect, 7)
PipePublished(c, text, file, word, files) ==
    /\ OfGroup(c, "pipeline", "published") /\ c.strict
    /\ Runs2(c, Piped(text, file), Echo(word)) /\ ContainsFiles(c.expect, 0, word, files)
PipeCorrected(c, text, file, word, files) ==
    /\ OfGroup(c, "pipeline", "control") /\ c.strict
    /\ Runs2(c, Strict(text, file), Echo(word)) /\ LacksFiles(c.expect, 1, word, files)
GpgPublished(c) ==
    /\ OfGroup(c, "gpg", "published") /\ Runs1(c, Encrypt("seeds.txt.gpg", {"backup.gpg"}))
    /\ ExitFiles(c.expect, 0, ThreeFiles("backup.gpg", Empty, "seeds.txt.gpg", Nonempty,
                                         "seeds.txt", Nonempty))
GpgPublishedTrip(c) ==
    /\ OfGroup(c, "gpg", "check") /\ ~c.strict
    /\ Runs3(c, Encrypt("seeds.txt.gpg", {"backup.gpg"}), Decrypt({"restored.txt"}), Keeping)
    /\ NonzeroLacks(c.expect, "RESTORED")
GpgCorrected(c) ==
    /\ OfGroup(c, "gpg", "control") /\ Runs1(c, Encrypt("backup.gpg", {}))
    /\ ExitFiles(c.expect, 0, TwoFiles("backup.gpg", Nonempty, "seeds.txt.gpg", Absent))
GpgCorrectedTrip(c) ==
    /\ OfGroup(c, "gpg", "check") /\ c.strict
    /\ Runs3(c, Encrypt("backup.gpg", {}), Decrypt({}), Judging)
    /\ ExitContains(c.expect, 0, "RESTORED")
CurlPublished(c) ==
    /\ OfGroup(c, "curl", "published") /\ Runs1(c, Curl("denied", "no"))
    /\ ExitFiles(c.expect, 0, OneFile("docker-compose.yml", Containing("AccessDenied")))
CurlCorrected(c) ==
    /\ OfGroup(c, "curl", "control") /\ Runs1(c, Curl("denied", "fail"))
    /\ ExitFiles(c.expect, 22, OneFile("docker-compose.yml", Absent))
CurlWithBody(c) ==
    /\ OfGroup(c, "curl", "control") /\ Runs1(c, Curl("denied", "with-body"))
    /\ ExitFiles(c.expect, 22, OneFile("docker-compose.yml", Containing("AccessDenied")))
CurlAllowed(c) ==
    /\ OfGroup(c, "curl", "control") /\ Runs1(c, Curl("ok", "fail"))
    /\ ExitFiles(c.expect, 0, OneFile("docker-compose.yml", Containing("services:")))
PiholePublished(c, help) ==
    /\ OfGroup(c, "pihole", "published") /\ Runs1(c, Unknown)
    /\ help \in HelpIds /\ ContainsSame(c.expect, 0, "Usage: pihole", help)
PiholeHelp(c, help) ==
    /\ c.group = "pihole" /\ c.role = "control" /\ c.id = help /\ Runs1(c, Unknown)
    /\ help \in HelpIds /\ ExitContains(c.expect, 0, "Usage: pihole")

PipeOf(c, text, file, word, files) ==
    PipePublished(c, text, file, word, files) \/ PipeCorrected(c, text, file, word, files)
FetchFiles == OneFile("update.log", Containing("fetch failed: 403"))
Listed(c) ==
    \/ Exits7(c)
    \/ PipeOf(c, << >>, "out.log", "REACHED", {})
    \/ PipeOf(c, Fetched, "update.log", "RELOADING", FetchFiles)
    \/ GpgPublished(c) \/ GpgPublishedTrip(c) \/ GpgCorrected(c) \/ GpgCorrectedTrip(c)
    \/ CurlPublished(c) \/ CurlCorrected(c) \/ CurlWithBody(c) \/ CurlAllowed(c)
    \/ \E help \in HelpIds : PiholePublished(c, help) \/ PiholeHelp(c, help)

LEMMA PipeListed ==
    /\ \A c \in {Pipe[1], Pipe[2]} : PipeOf(c, << >>, "out.log", "REACHED", {})
    /\ \A c \in {FetchPipe[1], FetchPipe[2]} :
            PipeOf(c, Fetched, "update.log", "RELOADING", FetchFiles)
<1>1. ASSUME NEW name, NEW control, NEW text, NEW file, NEW word, NEW files, NEW p,
             name \notin HelpIds, control \notin HelpIds,
             p = PipelineCases(name, control, text, file, word, files)
      PROVE  /\ PipePublished(p[1], text, file, word, files)
             /\ PipeCorrected(p[2], text, file, word, files)
  <2>1. p[1] = Case(name, "pipeline", "published", TRUE, <<Tee(text, file, FALSE), Echo(word)>>,
                    [exit |-> 0, stdout_contains |-> word, files |-> files])
    BY <1>1 DEF PipelineCases
  <2>2. p[2] = Case(control, "pipeline", "control", TRUE, <<Tee(text, file, TRUE), Echo(word)>>,
                    [exit |-> 1, stdout_lacks |-> word, files |-> files])
    BY <1>1 DEF PipelineCases
  <2>3. PipePublished(p[1], text, file, word, files)
    <3>1. PICK c : c = p[1]
      OBVIOUS
    <3>2. /\ c.id = name /\ c.group = "pipeline" /\ c.role = "published" /\ c.strict
          /\ c.body = <<Tee(text, file, FALSE), Echo(word)>>
          /\ c.expect = [exit |-> 0, stdout_contains |-> word, files |-> files]
      <4>1. PICK body, e : /\ body = <<Tee(text, file, FALSE), Echo(word)>>
                           /\ e = [exit |-> 0, stdout_contains |-> word, files |-> files]
        OBVIOUS
      <4>2. c = [id |-> name, group |-> "pipeline", role |-> "published", strict |-> TRUE,
                 body |-> body, expect |-> e]
        BY <2>1, <3>1, <4>1 DEF Case
      <4> QED
        BY <4>1, <4>2
    <3>3. OfGroup(c, "pipeline", "published")
      BY <1>1, <3>2 DEF OfGroup
    <3>4. Runs2(c, Piped(text, file), Echo(word))
      BY <3>2 DEF Runs2, Piped
    <3>5. ContainsFiles(c.expect, 0, word, files)
      BY <3>2 DEF ContainsFiles
    <3> QED
      BY <3>1, <3>2, <3>3, <3>4, <3>5 DEF PipePublished
  <2>4. PipeCorrected(p[2], text, file, word, files)
    <3>1. PICK c : c = p[2]
      OBVIOUS
    <3>2. /\ c.id = control /\ c.group = "pipeline" /\ c.role = "control" /\ c.strict
          /\ c.body = <<Tee(text, file, TRUE), Echo(word)>>
          /\ c.expect = [exit |-> 1, stdout_lacks |-> word, files |-> files]
      <4>1. PICK body, e : /\ body = <<Tee(text, file, TRUE), Echo(word)>>
                           /\ e = [exit |-> 1, stdout_lacks |-> word, files |-> files]
        OBVIOUS
      <4>2. c = [id |-> control, group |-> "pipeline", role |-> "control", strict |-> TRUE,
                 body |-> body, expect |-> e]
        BY <2>2, <3>1, <4>1 DEF Case
      <4> QED
        BY <4>1, <4>2
    <3>3. OfGroup(c, "pipeline", "control")
      BY <1>1, <3>2 DEF OfGroup
    <3>4. Runs2(c, Strict(text, file), Echo(word))
      BY <3>2 DEF Runs2, Strict
    <3>5. LacksFiles(c.expect, 1, word, files)
      BY <3>2 DEF LacksFiles
    <3> QED
      BY <3>1, <3>2, <3>3, <3>4, <3>5 DEF PipeCorrected
  <2> QED
    BY <2>3, <2>4
<1>2. /\ PipePublished(Pipe[1], << >>, "out.log", "REACHED", {})
      /\ PipeCorrected(Pipe[2], << >>, "out.log", "REACHED", {})
  BY <1>1 DEF Pipe, HelpIds
<1>3. Fetched[1] = "fetch failed: 403"
  BY DEF Fetched
<1>4. FetchFiles = {<<"update.log", Containing(Fetched[1])>>}
  BY <1>3 DEF FetchFiles, OneFile
<1>5. /\ PipePublished(FetchPipe[1], Fetched, "update.log", "RELOADING", FetchFiles)
      /\ PipeCorrected(FetchPipe[2], Fetched, "update.log", "RELOADING", FetchFiles)
  BY <1>1, <1>4 DEF FetchPipe, HelpIds
<1> QED
  BY <1>2, <1>5 DEF PipeOf

LEMMA GpgListed ==
    /\ GpgPublished(GpgCases[1]) /\ GpgPublishedTrip(GpgCases[2])
    /\ GpgCorrected(GpgCases[3]) /\ GpgCorrectedTrip(GpgCases[4])
<1>1. PICK c : c = GpgCases[1]
  OBVIOUS
<1>2. c = Case("gpg-redirect", "gpg", "published", FALSE,
               <<Encrypt("seeds.txt.gpg", {"backup.gpg"})>>,
               [exit |-> 0, files |-> {<<"backup.gpg", Empty>>, <<"seeds.txt.gpg", Nonempty>>,
                                       <<"seeds.txt", Nonempty>>}])
  BY <1>1 DEF GpgCases
<1>3. GpgPublished(c)
  BY <1>2 DEF Case, GpgPublished, OfGroup, HelpIds, Runs1, ExitFiles, ThreeFiles
<1>4. PICK d : d = GpgCases[2]
  OBVIOUS
<1>5. d = Case("gpg-redirect-roundtrip", "gpg", "check", FALSE,
               <<Encrypt("seeds.txt.gpg", {"backup.gpg"}), Decrypt({"restored.txt"}),
                 Compare(TRUE)>>,
               [exit_nonzero |-> TRUE, stdout_lacks |-> "RESTORED"])
  BY <1>4 DEF GpgCases
<1>6. GpgPublishedTrip(d)
  BY <1>5 DEF Case, GpgPublishedTrip, OfGroup, HelpIds, Runs3, NonzeroLacks, Keeping
<1>7. PICK e : e = GpgCases[3]
  OBVIOUS
<1>8. e = Case("gpg-output", "gpg", "control", FALSE, <<Encrypt("backup.gpg", {})>>,
               [exit |-> 0, files |-> {<<"backup.gpg", Nonempty>>, <<"seeds.txt.gpg", Absent>>}])
  BY <1>7 DEF GpgCases
<1>9. GpgCorrected(e)
  BY <1>8 DEF Case, GpgCorrected, OfGroup, HelpIds, Runs1, ExitFiles, TwoFiles
<1>10. PICK f : f = GpgCases[4]
  OBVIOUS
<1>11. f = Case("gpg-output-roundtrip", "gpg", "check", TRUE,
                <<Encrypt("backup.gpg", {}), Decrypt({}), Compare(FALSE)>>,
                [exit |-> 0, stdout_contains |-> "RESTORED"])
  BY <1>10 DEF GpgCases
<1>12. GpgCorrectedTrip(f)
  BY <1>11 DEF Case, GpgCorrectedTrip, OfGroup, HelpIds, Runs3, ExitContains, Judging
<1> QED
  BY <1>1, <1>3, <1>4, <1>6, <1>7, <1>9, <1>10, <1>12

LEMMA CurlListed ==
    /\ CurlPublished(CurlCases[1]) /\ CurlCorrected(CurlCases[2])
    /\ CurlWithBody(CurlCases[3]) /\ CurlAllowed(CurlCases[4])
<1>1. PICK c : c = CurlCases[1]
  OBVIOUS
<1>2. c = Case("curl-O-403", "curl", "published", FALSE, <<Curl("denied", "no")>>,
               [exit |-> 0, files |-> InCompose(Containing("AccessDenied"))])
  BY <1>1 DEF CurlCases
<1>3. CurlPublished(c)
  BY <1>2 DEF Case, CurlPublished, OfGroup, HelpIds, Runs1, ExitFiles, OneFile, InCompose
<1>4. PICK d : d = CurlCases[2]
  OBVIOUS
<1>5. d = Case("curl-fail-403", "curl", "control", FALSE, <<Curl("denied", "fail")>>,
               [exit |-> 22, files |-> InCompose(Absent)])
  BY <1>4 DEF CurlCases
<1>6. CurlCorrected(d)
  BY <1>5 DEF Case, CurlCorrected, OfGroup, HelpIds, Runs1, ExitFiles, OneFile, InCompose
<1>7. PICK e : e = CurlCases[3]
  OBVIOUS
<1>8. e = Case("curl-fail-with-body-403", "curl", "control", FALSE, <<Curl("denied", "with-body")>>,
               [exit |-> 22, files |-> InCompose(Containing("AccessDenied"))])
  BY <1>7 DEF CurlCases
<1>9. CurlWithBody(e)
  BY <1>8 DEF Case, CurlWithBody, OfGroup, HelpIds, Runs1, ExitFiles, OneFile, InCompose
<1>10. PICK f : f = CurlCases[4]
  OBVIOUS
<1>11. f = Case("curl-fail-200", "curl", "control", FALSE, <<Curl("ok", "fail")>>,
                [exit |-> 0, files |-> InCompose(Containing("services:"))])
  BY <1>10 DEF CurlCases
<1>12. CurlAllowed(f)
  BY <1>11 DEF Case, CurlAllowed, OfGroup, HelpIds, Runs1, ExitFiles, OneFile, InCompose
<1> QED
  BY <1>1, <1>3, <1>4, <1>6, <1>7, <1>9, <1>10, <1>12

LEMMA PiholeListed ==
    /\ PiholePublished(Pihole60[1], "pihole-v6.0-help")
    /\ PiholeHelp(Pihole60[2], "pihole-v6.0-help")
    /\ PiholePublished(Pihole643[1], "pihole-v6.4.3-help")
    /\ PiholeHelp(Pihole643[2], "pihole-v6.4.3-help")
<1>1. Help[1] = "Usage: pihole"
  BY DEF Help
<1>2. ASSUME NEW add, NEW help, NEW p, p = PiholeCases(add, help),
             add \notin HelpIds, help \in HelpIds
      PROVE  PiholePublished(p[1], help) /\ PiholeHelp(p[2], help)
  <2>1. p[1] = Case(add, "pihole", "published", FALSE, <<Pihole(FALSE)>>,
                    [exit |-> 0, stdout_contains |-> Help[1], stdout_equals_case |-> help])
    BY <1>2 DEF PiholeCases
  <2>2. p[2] = Case(help, "pihole", "control", FALSE, <<Pihole(FALSE)>>,
                    [exit |-> 0, stdout_contains |-> Help[1]])
    BY <1>2 DEF PiholeCases
  <2>3. PiholePublished(p[1], help)
    <3>1. PICK c : c = p[1]
      OBVIOUS
    <3>2. PICK usage : usage = Help[1]
      OBVIOUS
    <3>3. /\ c.id = add /\ c.group = "pihole" /\ c.role = "published"
          /\ c.body = <<Pihole(FALSE)>>
          /\ c.expect = [exit |-> 0, stdout_contains |-> usage, stdout_equals_case |-> help]
      <4>1. PICK body, e : /\ body = <<Pihole(FALSE)>>
                           /\ e = [exit |-> 0, stdout_contains |-> usage, stdout_equals_case |-> help]
        OBVIOUS
      <4>2. c = [id |-> add, group |-> "pihole", role |-> "published", strict |-> FALSE,
                 body |-> body, expect |-> e]
        BY <2>1, <3>1, <3>2, <4>1 DEF Case
      <4> QED
        BY <4>1, <4>2
    <3>4. OfGroup(c, "pihole", "published")
      BY <1>2, <3>3 DEF OfGroup
    <3>5. Runs1(c, Unknown)
      BY <3>3 DEF Runs1, Unknown
    <3>6. ContainsSame(c.expect, 0, usage, help)
      BY <3>3 DEF ContainsSame
    <3> QED
      BY <1>1, <1>2, <3>1, <3>2, <3>4, <3>5, <3>6 DEF PiholePublished
  <2>4. PiholeHelp(p[2], help)
    <3>1. PICK c : c = p[2]
      OBVIOUS
    <3>2. PICK usage : usage = Help[1]
      OBVIOUS
    <3>3. /\ c.id = help /\ c.group = "pihole" /\ c.role = "control"
          /\ c.body = <<Pihole(FALSE)>>
          /\ c.expect = [exit |-> 0, stdout_contains |-> usage]
      <4>1. PICK body, e : /\ body = <<Pihole(FALSE)>>
                           /\ e = [exit |-> 0, stdout_contains |-> usage]
        OBVIOUS
      <4>2. c = [id |-> help, group |-> "pihole", role |-> "control", strict |-> FALSE,
                 body |-> body, expect |-> e]
        BY <2>2, <3>1, <3>2, <4>1 DEF Case
      <4> QED
        BY <4>1, <4>2
    <3>4. Runs1(c, Unknown)
      BY <3>3 DEF Runs1, Unknown
    <3>5. ExitContains(c.expect, 0, usage)
      BY <3>3 DEF ExitContains
    <3> QED
      BY <1>1, <1>2, <3>1, <3>2, <3>3, <3>4, <3>5 DEF PiholeHelp
  <2> QED
    BY <2>3, <2>4
<1> QED
  BY <1>2 DEF Pihole60, Pihole643, HelpIds

LEMMA CasesListed == \A i \in DOMAIN CASES : Listed(CASES[i])
<1>1. Exits7(HarnessCase)
  BY DEF HarnessCase, Case, Exits7, OfGroup, HelpIds, Runs1, ExitOnly
<1>2. "pihole-v6.0-help" \in HelpIds /\ "pihole-v6.4.3-help" \in HelpIds
  BY DEF HelpIds
<1>3. \A c \in Known : Listed(c)
  BY <1>1, <1>2, PipeListed, GpgListed, CurlListed, PiholeListed DEF Known, Listed
<1>4. \A i \in DOMAIN CASES : CASES[i] \in Known
  BY CasesKnown, ElementOfSeq, LenProperties
<1> QED
  BY <1>3, <1>4

-----------------------------------------------------------------------------
(* A case that passes its check did what the lab finds of it.                *)

Vouched(i) ==
    /\ ~Hung(i)
    /\ CASES[i].role = "published" => SilentFailure(i)
    /\ CASES[i].role # "published" /\ CASES[i].group \in {"pipeline", "gpg", "curl"} =>
            ~SilentFailure(i)

LEMMA Jobs ==
    ASSUME NEW i, NEW c, c = CASES[i], NEW t, t = Truth(i)
    PROVE  /\ c.group = "pipeline" => ~JobDone(i)
           /\ c.group = "gpg" => (JobDone(i) <=> Holds(t.files, "backup.gpg", Cipher))
           /\ c.group = "curl" => (JobDone(i) <=> Holds(t.files, "docker-compose.yml", Services))
           /\ c.group = "pihole" => (JobDone(i) <=> "list added" \in ToSet(t.out))
BY DEF JobDone, Holds, Cipher, Services

\* The kinds of what happened to each command.
LEMMA Happened ==
    ASSUME RecordInv, VerdictInv, NEW i \in DOMAIN CASES, ~Hung(i), NEW kinds, kinds = KindsOf(i)
    PROVE  /\ \A k \in 1..Len(CASES[i].body) : kinds[k] \in Ran
           /\ CASES[i].role # "published" =>
                    \A k \in 1..Len(CASES[i].body) : kinds[k] # "works"
<1>1. DOMAIN CASES[i].body = 1..Len(CASES[i].body)
  BY WalkFacts
<1>2. \A k \in 1..Len(CASES[i].body) : kinds[k] \in Ran
  BY <1>1, KindsRan DEF RecordInv
<1>3. ASSUME CASES[i].role # "published", NEW k \in 1..Len(CASES[i].body) PROVE kinds[k] # "works"
  BY <1>1, <1>3 DEF KindsOf, VerdictInv
<1> QED
  BY <1>2, <1>3

\* The end of a script, with what happened to its commands.
LEMMA EndsOne ==
    ASSUME NEW i \in DOMAIN CASES, NEW x, Runs1(CASES[i], x)
    PROVE  Truth(i) = Behaved(x, KindsOf(i)[1], Begun) /\ Len(CASES[i].body) = 1
BY ScriptRuns DEF Truth, Runs1

LEMMA Ends ==
    ASSUME NEW i \in DOMAIN CASES, NEW x, NEW y, NEW z, NEW c, c = CASES[i],
           NEW kinds, kinds = KindsOf(i), NEW t, t = Truth(i)
    PROVE  /\ Runs2(c, x, y) =>
                    /\ t = After(i, y, kinds[2], Behaved(x, kinds[1], Begun))
                    /\ Len(c.body) = 2
           /\ Runs3(c, x, y, z) =>
                    /\ t = After(i, z, kinds[3], After(i, y, kinds[2], Behaved(x, kinds[1], Begun)))
                    /\ Len(c.body) = 3
BY ScriptRuns DEF Truth, Runs2, Runs3

LEMMA Start ==
    /\ Begun = State(0, << >>, Prepared)
    /\ Holds(Prepared, "seeds.txt", Seeds)
    /\ \A f : f # "seeds.txt" => f \notin DOMAIN Prepared
BY DEF Begun, Prepared, Holds, Seeds

LEMMA HasExit ==
    ASSUME NEW c, Listed(c), NEW e, e = c.expect
    PROVE  ("exit" \in DOMAIN e /\ e.exit \in Nat) \/ "exit_nonzero" \in DOMAIN e
<1>1. \A n \in Nat : ExitOnly(e, n) => "exit" \in DOMAIN e /\ e.exit \in Nat
  BY DEF ExitOnly
<1>2. \A n \in Nat : \A files : ExitFiles(e, n, files) => "exit" \in DOMAIN e /\ e.exit \in Nat
  BY DEF ExitFiles
<1>3. \A n \in Nat : \A word : ExitContains(e, n, word) => "exit" \in DOMAIN e /\ e.exit \in Nat
  BY DEF ExitContains
<1>4. \A n \in Nat : \A word, files : ContainsFiles(e, n, word, files) =>
            "exit" \in DOMAIN e /\ e.exit \in Nat
  BY DEF ContainsFiles
<1>5. \A n \in Nat : \A word, files : LacksFiles(e, n, word, files) =>
            "exit" \in DOMAIN e /\ e.exit \in Nat
  BY DEF LacksFiles
<1>6. \A n \in Nat : \A word, id : ContainsSame(e, n, word, id) =>
            "exit" \in DOMAIN e /\ e.exit \in Nat
  BY DEF ContainsSame
<1>7. \A word : NonzeroLacks(e, word) => "exit_nonzero" \in DOMAIN e
  BY DEF NonzeroLacks
<1>8. Exits7(c) \/ GpgPublished(c) \/ GpgPublishedTrip(c) \/ GpgCorrected(c) \/ GpgCorrectedTrip(c)
        => ("exit" \in DOMAIN e /\ e.exit \in Nat) \/ "exit_nonzero" \in DOMAIN e
  BY <1>1, <1>2, <1>3, <1>7
  DEF Exits7, GpgPublished, GpgPublishedTrip, GpgCorrected, GpgCorrectedTrip
<1>9. CurlPublished(c) \/ CurlCorrected(c) \/ CurlWithBody(c) \/ CurlAllowed(c)
        => "exit" \in DOMAIN e /\ e.exit \in Nat
  BY <1>2 DEF CurlPublished, CurlCorrected, CurlWithBody, CurlAllowed
<1>10. \A text, file, word, files : PipeOf(c, text, file, word, files)
        => "exit" \in DOMAIN e /\ e.exit \in Nat
  BY <1>4, <1>5 DEF PipeOf, PipePublished, PipeCorrected
<1>11. \A help : PiholePublished(c, help) \/ PiholeHelp(c, help)
        => "exit" \in DOMAIN e /\ e.exit \in Nat
  BY <1>3, <1>6 DEF PiholePublished, PiholeHelp
<1> QED
  BY <1>8, <1>9, <1>10, <1>11 DEF Listed

LEMMA PassedEnded ==
    ASSUME RecordInv, VerdictInv, NEW i \in DOMAIN observations, i \in DOMAIN CASES, check(i)
    PROVE  ~Hung(i)
BY HungFails, HasExit, CasesListed

\* The command of a case that has one: it ran as written, or it failed.
FailedAtOnce == State(1, << >>, Prepared)

LEMMA OneCommand ==
    ASSUME RecordInv, VerdictInv, NEW i \in DOMAIN CASES, ~Hung(i),
           NEW c, c = CASES[i], c.role # "published", NEW x, Runs1(c, x), NEW t, t = Truth(i)
    PROVE  t = Served(x, Begun) \/ (t = FailedAtOnce /\ t.status = 1)
<1>1. PICK kinds : kinds = KindsOf(i)
  OBVIOUS
<1>2. t = Behaved(x, kinds[1], Begun) /\ Len(c.body) = 1
  <2>1. Runs1(CASES[i], x)
    OBVIOUS
  <2>2. Truth(i) = Behaved(x, KindsOf(i)[1], Begun) /\ Len(CASES[i].body) = 1
    BY <2>1, EndsOne
  <2> QED
    BY <1>1, <2>2
<1>3. kinds[1] \in Ran /\ kinds[1] # "works"
  <2>1. /\ \A k \in 1..Len(c.body) : kinds[k] \in Ran
        /\ \A k \in 1..Len(c.body) : kinds[k] # "works"
    BY <1>1, Happened
  <2>2. 1 \in 1..Len(c.body)
    BY <1>2
  <2> QED
    BY <2>1, <2>2
<1>4. kinds[1] \in {"ok", "fails"}
  BY <1>3 DEF Ran
<1>5. Behaved(x, "ok", Begun) = Served(x, Begun) /\ Behaved(x, "fails", Begun) = FailedAtOnce
  BY BehaveCases DEF Begun, FailedAtOnce
<1>6. FailedAtOnce.status = 1
  BY StateFields DEF FailedAtOnce
<1> QED
  BY <1>2, <1>4, <1>5, <1>6

-----------------------------------------------------------------------------
\* Cases that end with a status other than 0.
LEMMA FailedVouched ==
    ASSUME NEW i, ~Hung(i), CASES[i].role # "published", Truth(i).status # 0
    PROVE  Vouched(i)
BY DEF Vouched, SilentFailure

\* Cases that did their job.
LEMMA DoneVouched ==
    ASSUME NEW i, ~Hung(i), CASES[i].role # "published", JobDone(i)
    PROVE  Vouched(i)
BY DEF Vouched, SilentFailure

\* Published forms that failed in silence.
LEMMA SilentVouched ==
    ASSUME NEW i, ~Hung(i), CASES[i].role = "published", Truth(i).status = 0, ~JobDone(i)
    PROVE  Vouched(i)
BY DEF Vouched, SilentFailure

LEMMA PipeVouched ==
    ASSUME RecordInv, VerdictInv, NEW i \in DOMAIN observations, i \in DOMAIN CASES, check(i),
           NEW text, NEW file, NEW word, NEW files, PipeOf(CASES[i], text, file, word, files)
    PROVE  Vouched(i)
<1>1. PICK c : c = CASES[i]
  OBVIOUS
<1>2. PICK t : t = Truth(i)
  OBVIOUS
<1>3. ~Hung(i)
  BY PassedEnded
<1>4. c.group = "pipeline"
  BY <1>1 DEF PipeOf, PipePublished, PipeCorrected, OfGroup
<1>5. ~JobDone(i)
  BY <1>1, <1>2, <1>4, Jobs
<1>6. CASE PipePublished(c, text, file, word, files)
  <2>1. c.role = "published" /\ ContainsFiles(c.expect, 0, word, files)
    BY <1>6 DEF PipePublished, OfGroup
  <2>2. t.status = 0
    BY <1>1, <1>2, <1>3, <2>1, Checked
  <2> QED
    BY <1>1, <1>2, <1>3, <1>5, <2>1, <2>2, SilentVouched
<1>7. CASE PipeCorrected(c, text, file, word, files)
  <2>1. c.role = "control" /\ LacksFiles(c.expect, 1, word, files)
    BY <1>7 DEF PipeCorrected, OfGroup
  <2>2. t.status = 1
    BY <1>1, <1>2, <1>3, <2>1, Checked
  <2> QED
    BY <1>1, <1>2, <1>3, <2>1, <2>2, FailedVouched
<1> QED
  BY <1>1, <1>6, <1>7 DEF PipeOf

LEMMA GpgPublishedVouched ==
    ASSUME RecordInv, VerdictInv, NEW i \in DOMAIN observations, i \in DOMAIN CASES, check(i),
           GpgPublished(CASES[i])
    PROVE  Vouched(i)
<1>1. PICK c : c = CASES[i]
  OBVIOUS
<1>2. PICK t : t = Truth(i)
  OBVIOUS
<1>3. ~Hung(i)
  BY PassedEnded
<1>4. /\ c.group = "gpg" /\ c.role = "published"
      /\ ExitFiles(c.expect, 0, ThreeFiles("backup.gpg", Empty, "seeds.txt.gpg", Nonempty,
                                           "seeds.txt", Nonempty))
  BY <1>1 DEF GpgPublished, OfGroup
<1>5. /\ t.status = 0
      /\ FilesAre(ThreeFiles("backup.gpg", Empty, "seeds.txt.gpg", Nonempty,
                             "seeds.txt", Nonempty), t.files)
  <2>1. PICK files : files = ThreeFiles("backup.gpg", Empty, "seeds.txt.gpg", Nonempty,
                                        "seeds.txt", Nonempty)
    OBVIOUS
  <2>2. ExitFiles(c.expect, 0, files)
    BY <1>4, <2>1
  <2>3. t.status = 0 /\ FilesAre(files, t.files)
    BY <1>1, <1>2, <1>3, <2>2, Checked
  <2> QED
    BY <2>1, <2>3
<1>6. Len(t.files["backup.gpg"]) = 0
  BY <1>5, FilesLooked, Matches DEF Want
<1>7. ~Holds(t.files, "backup.gpg", Cipher)
  <2>1. Len(Cipher) = 1
    BY DEF Cipher
  <2>2. Holds(t.files, "backup.gpg", Cipher) => t.files["backup.gpg"] = Cipher
    BY DEF Holds
  <2>3. PICK n : n = Len(t.files["backup.gpg"])
    OBVIOUS
  <2>4. Holds(t.files, "backup.gpg", Cipher) => n = 1
    BY <2>1, <2>2, <2>3
  <2> QED
    BY <1>6, <2>3, <2>4
<1>8. ~JobDone(i)
  BY <1>1, <1>2, <1>4, <1>7, Jobs
<1> QED
  BY <1>1, <1>2, <1>3, <1>4, <1>5, <1>8, SilentVouched

LEMMA GpgCorrectedVouched ==
    ASSUME RecordInv, VerdictInv, NEW i \in DOMAIN observations, i \in DOMAIN CASES, check(i),
           GpgCorrected(CASES[i])
    PROVE  Vouched(i)
<1>1. PICK c : c = CASES[i]
  OBVIOUS
<1>2. PICK t : t = Truth(i)
  OBVIOUS
<1>3. ~Hung(i)
  BY PassedEnded
<1>4. /\ c.group = "gpg" /\ c.role = "control" /\ Runs1(c, Encrypt("backup.gpg", {}))
      /\ ExitFiles(c.expect, 0, TwoFiles("backup.gpg", Nonempty, "seeds.txt.gpg", Absent))
  BY <1>1 DEF GpgCorrected, OfGroup
<1>5. t.status = 0
  <2>1. PICK files : ExitFiles(c.expect, 0, files)
    BY <1>4
  <2> QED
    BY <1>1, <1>2, <1>3, <2>1, Checked
<1>6. c.role # "published"
  BY <1>4
<1>7. t = Served(Encrypt("backup.gpg", {}), Begun)
  BY <1>1, <1>2, <1>3, <1>4, <1>5, <1>6, OneCommand
<1>8. PICK fs : fs = Write(Prepared, {}, << >>)
  OBVIOUS
<1>9. t = State(0, << >>, Put(fs, "backup.gpg", Cipher))
  BY <1>7, <1>8, EncryptEffect DEF Begun
<1>10. t.files = Put(fs, "backup.gpg", Cipher)
  BY <1>9, StateFields
<1>11. JobDone(i)
  BY <1>1, <1>2, <1>4, <1>10, Jobs, PutFacts
<1> QED
  BY <1>1, <1>3, <1>6, <1>11, DoneVouched

LEMMA CurlPublishedVouched ==
    ASSUME RecordInv, VerdictInv, NEW i \in DOMAIN observations, i \in DOMAIN CASES, check(i),
           CurlPublished(CASES[i])
    PROVE  Vouched(i)
<1>1. PICK c : c = CASES[i]
  OBVIOUS
<1>2. PICK t : t = Truth(i)
  OBVIOUS
<1>3. ~Hung(i)
  BY PassedEnded
<1>4. /\ c.group = "curl" /\ c.role = "published"
      /\ ExitFiles(c.expect, 0, OneFile("docker-compose.yml", Containing("AccessDenied")))
  BY <1>1 DEF CurlPublished, OfGroup
<1>5. /\ t.status = 0
      /\ FilesAre(OneFile("docker-compose.yml", Containing("AccessDenied")), t.files)
  <2>1. PICK files : files = OneFile("docker-compose.yml", Containing("AccessDenied"))
    OBVIOUS
  <2>2. ExitFiles(c.expect, 0, files)
    BY <1>4, <2>1
  <2>3. t.status = 0 /\ FilesAre(files, t.files)
    BY <1>1, <1>2, <1>3, <2>2, Checked
  <2> QED
    BY <2>1, <2>3
<1>6. "AccessDenied" \in ToSet(t.files["docker-compose.yml"])
  <2>1. Want("docker-compose.yml", Containing("AccessDenied"), t.files)
    BY <1>5, FilesLooked
  <2>2. FileMatches(Containing("AccessDenied"), describe_files(t.files), "docker-compose.yml")
    BY <2>1 DEF Want
  <2> QED
    BY <2>2, Matches
<1>7. "AccessDenied" \notin ToSet(Services)
  <2>1. Len(Services) = 1 /\ Services[1] = "services:" /\ DOMAIN Services = {1}
    BY DEF Services
  <2> QED
    BY <2>1 DEF ToSet
<1>8. ~Holds(t.files, "docker-compose.yml", Services)
  BY <1>6, <1>7 DEF Holds
<1>9. ~JobDone(i)
  BY <1>1, <1>2, <1>4, <1>8, Jobs
<1> QED
  BY <1>1, <1>2, <1>3, <1>4, <1>5, <1>9, SilentVouched

LEMMA CurlAllowedVouched ==
    ASSUME RecordInv, VerdictInv, NEW i \in DOMAIN observations, i \in DOMAIN CASES, check(i),
           CurlAllowed(CASES[i])
    PROVE  Vouched(i)
<1>1. PICK c : c = CASES[i]
  OBVIOUS
<1>2. PICK t : t = Truth(i)
  OBVIOUS
<1>3. ~Hung(i)
  BY PassedEnded
<1>4. /\ c.group = "curl" /\ c.role = "control" /\ Runs1(c, Curl("ok", "fail"))
      /\ ExitFiles(c.expect, 0, OneFile("docker-compose.yml", Containing("services:")))
  BY <1>1 DEF CurlAllowed, OfGroup
<1>5. t.status = 0
  <2>1. PICK files : ExitFiles(c.expect, 0, files)
    BY <1>4
  <2> QED
    BY <1>1, <1>2, <1>3, <2>1, Checked
<1>6. c.role # "published"
  BY <1>4
<1>7. t = Served(Curl("ok", "fail"), Begun)
  BY <1>1, <1>2, <1>3, <1>4, <1>5, <1>6, OneCommand
<1>8. t = State(0, << >>, Put(Prepared, "docker-compose.yml", Services))
  BY <1>7, CurlEffect DEF Begun
<1>9. t.files = Put(Prepared, "docker-compose.yml", Services)
  BY <1>8, StateFields
<1>10. JobDone(i)
  BY <1>1, <1>2, <1>4, <1>9, Jobs, PutFacts
<1> QED
  BY <1>1, <1>3, <1>6, <1>10, DoneVouched

\* The corrected forms that end with curl's 22.
LEMMA CurlFailedVouched ==
    ASSUME RecordInv, VerdictInv, NEW i \in DOMAIN observations, i \in DOMAIN CASES, check(i),
           CurlCorrected(CASES[i]) \/ CurlWithBody(CASES[i])
    PROVE  Vouched(i)
<1>1. PICK c : c = CASES[i]
  OBVIOUS
<1>2. PICK t : t = Truth(i)
  OBVIOUS
<1>3. ~Hung(i)
  BY PassedEnded
<1>4. c.role = "control" /\ \E files : ExitFiles(c.expect, 22, files)
  BY <1>1 DEF CurlCorrected, CurlWithBody, OfGroup
<1>5. t.status = 22
  BY <1>1, <1>2, <1>3, <1>4, Checked
<1> QED
  BY <1>1, <1>2, <1>3, <1>4, <1>5, FailedVouched

LEMMA GpgPublishedTripVouched ==
    ASSUME RecordInv, VerdictInv, NEW i \in DOMAIN observations, i \in DOMAIN CASES, check(i),
           GpgPublishedTrip(CASES[i])
    PROVE  Vouched(i)
<1>1. PICK c : c = CASES[i]
  OBVIOUS
<1>2. PICK t : t = Truth(i)
  OBVIOUS
<1>3. ~Hung(i)
  BY PassedEnded
<1>4. c.role = "check" /\ NonzeroLacks(c.expect, "RESTORED")
  BY <1>1 DEF GpgPublishedTrip, OfGroup
<1>5. t.status # 0
  BY <1>1, <1>2, <1>3, <1>4, Checked
<1> QED
  BY <1>1, <1>2, <1>3, <1>4, <1>5, FailedVouched

\* A command of a strict script, behind one that went well or did not.
LEMMA AfterCases ==
    ASSUME NEW i, NEW x, NEW n, NEW o, NEW fs
    PROVE  /\ n # 0 /\ CASES[i].strict =>
                \A kind : After(i, x, kind, State(n, o, fs)) = State(n, o, fs)
           /\ n = 0 \/ ~CASES[i].strict =>
                /\ After(i, x, "ok", State(n, o, fs)) = Served(x, State(n, o, fs))
                /\ After(i, x, "fails", State(n, o, fs)) = State(1, o, fs)
<1>1. State(n, o, fs).status = n
  BY StateFields
<1> QED
  BY <1>1, BehaveCases DEF After

\* What gpg encrypted into backup.gpg stays there.
LEMMA TripKeeps ==
    ASSUME NEW i, CASES[i].strict, NEW k1 \in {"ok", "fails"}, NEW k2 \in {"ok", "fails"},
           NEW k3 \in {"ok", "fails"}, NEW a, NEW b, NEW t,
           a = Behaved(Encrypt("backup.gpg", {}), k1, Begun),
           b = After(i, Decrypt({}), k2, a), t = After(i, Judging, k3, b), t.status = 0
    PROVE  Holds(t.files, "backup.gpg", Cipher)
<1>1. PICK fs : fs = Put(Write(Prepared, {}, << >>), "backup.gpg", Cipher)
  OBVIOUS
<1>2. Holds(fs, "backup.gpg", Cipher)
  <2>1. PICK before : before = Write(Prepared, {}, << >>)
    OBVIOUS
  <2> QED
    BY <1>1, <2>1, PutFacts
<1>3. k1 = "ok" /\ a = State(0, << >>, fs)
  <2>1. Behaved(Encrypt("backup.gpg", {}), "ok", Begun) = State(0, << >>, fs)
    BY <1>1, BehaveCases, EncryptEffect DEF Begun
  <2>2. ASSUME k1 = "fails" PROVE FALSE
    <3>1. a = FailedAtOnce
      BY <2>2, BehaveCases DEF Begun, FailedAtOnce
    <3>2. b = FailedAtOnce
      BY <3>1, AfterCases DEF FailedAtOnce
    <3>3. t = FailedAtOnce
      BY <3>2, AfterCases DEF FailedAtOnce
    <3> QED
      BY <3>3, StateFields DEF FailedAtOnce
  <2> QED
    BY <2>1, <2>2
<1>4. PICK gs : gs = Put(fs, "restored.txt", Seeds)
  OBVIOUS
<1>5. Holds(gs, "backup.gpg", Cipher)
  BY <1>2, <1>4, PutFacts
<1>6. k2 = "ok" /\ b = State(0, << >>, gs)
  <2>1. Served(Decrypt({}), a) = State(0, << >>, gs)
    BY <1>2, <1>3, <1>4, DecryptEffect DEF Encrypted
  <2>2. ASSUME k2 = "fails" PROVE FALSE
    <3>1. b = State(1, << >>, fs)
      BY <1>3, <2>2, AfterCases
    <3>2. t = State(1, << >>, fs)
      BY <3>1, AfterCases
    <3> QED
      BY <3>2, StateFields
  <2> QED
    BY <1>3, <2>1, <2>2, AfterCases
<1>7. t.files = gs
  <2>1. \A n, o : State(n, o, gs).files = gs
    BY StateFields
  <2>2. \E n, o : Served(Judging, b) = State(n, o, gs)
    BY <1>6, CompareEffect
  <2>3. CASE k3 = "ok"
    BY <1>6, <2>1, <2>2, <2>3, AfterCases
  <2>4. CASE k3 = "fails"
    <3>1. t = State(1, << >>, gs)
      BY <1>6, <2>4, AfterCases
    <3> QED
      BY <3>1, StateFields
  <2> QED
    BY <2>3, <2>4
<1> QED
  BY <1>5, <1>7

LEMMA GpgCorrectedTripVouched ==
    ASSUME RecordInv, VerdictInv, NEW i \in DOMAIN observations, i \in DOMAIN CASES, check(i),
           GpgCorrectedTrip(CASES[i])
    PROVE  Vouched(i)
<1>1. PICK c : c = CASES[i]
  OBVIOUS
<1>2. PICK t : t = Truth(i)
  OBVIOUS
<1>3. ~Hung(i)
  BY PassedEnded
<1>4. /\ c.group = "gpg" /\ c.role = "check" /\ c.strict
      /\ Runs3(c, Encrypt("backup.gpg", {}), Decrypt({}), Judging)
      /\ ExitContains(c.expect, 0, "RESTORED")
  BY <1>1 DEF GpgCorrectedTrip, OfGroup
<1>5. t.status = 0
  BY <1>1, <1>2, <1>3, <1>4, Checked
<1>6. c.role # "published"
  BY <1>4
<1>7. PICK kinds : kinds = KindsOf(i)
  OBVIOUS
<1>8. PICK x, y : x = Encrypt("backup.gpg", {}) /\ y = Decrypt({})
  OBVIOUS
<1>9. /\ t = After(i, Judging, kinds[3], After(i, y, kinds[2], Behaved(x, kinds[1], Begun)))
      /\ Len(c.body) = 3
  <2>1. Runs3(c, x, y, Judging)
    BY <1>4, <1>8
  <2> QED
    BY <1>1, <1>2, <1>7, <2>1, Ends
<1>10. \A k \in 1..3 : kinds[k] \in Ran /\ kinds[k] # "works"
  BY <1>1, <1>3, <1>6, <1>7, <1>9, Happened
<1>11. \A k \in 1..3 : kinds[k] \in {"ok", "fails"}
  BY <1>10 DEF Ran
<1>12. PICK k1, k2, k3 : k1 = kinds[1] /\ k2 = kinds[2] /\ k3 = kinds[3]
  OBVIOUS
<1>13. k1 \in {"ok", "fails"} /\ k2 \in {"ok", "fails"} /\ k3 \in {"ok", "fails"}
  BY <1>11, <1>12
<1>14. PICK a : a = Behaved(x, k1, Begun)
  OBVIOUS
<1>15. PICK b : b = After(i, y, k2, a)
  OBVIOUS
<1>16. t = After(i, Judging, k3, b)
  BY <1>9, <1>12, <1>14, <1>15
<1>17. Holds(t.files, "backup.gpg", Cipher)
  BY <1>1, <1>4, <1>5, <1>8, <1>13, <1>14, <1>15, <1>16, TripKeeps
<1>18. JobDone(i)
  BY <1>1, <1>2, <1>4, <1>17, Jobs
<1> QED
  BY <1>1, <1>3, <1>6, <1>18, DoneVouched

LEMMA ExitsVouched ==
    ASSUME RecordInv, VerdictInv, NEW i \in DOMAIN observations, i \in DOMAIN CASES, check(i),
           Exits7(CASES[i])
    PROVE  Vouched(i)
<1>1. ~Hung(i)
  BY PassedEnded
<1>2. CASES[i].role = "control" /\ CASES[i].group = "harness"
  BY DEF Exits7, OfGroup
<1> QED
  BY <1>1, <1>2 DEF Vouched

\* The help of pihole, where the case passed its check.
LEMMA HelpSaid ==
    ASSUME RecordInv, VerdictInv, NEW j \in DOMAIN observations, j \in DOMAIN CASES, check(j),
           NEW help, PiholeHelp(CASES[j], help)
    PROVE  Truth(j).out = Help /\ ~Hung(j)
<1>1. PICK c : c = CASES[j]
  OBVIOUS
<1>2. PICK t : t = Truth(j)
  OBVIOUS
<1>3. ~Hung(j)
  BY PassedEnded
<1>4. c.role # "published" /\ Runs1(c, Unknown) /\ ExitContains(c.expect, 0, "Usage: pihole")
  BY <1>1 DEF PiholeHelp
<1>5. t.status = 0
  BY <1>1, <1>2, <1>3, <1>4, Checked
<1>6. t = Served(Unknown, Begun)
  <2>1. PICK x : x = Unknown
    OBVIOUS
  <2>2. c.role # "published" /\ Runs1(c, x)
    BY <1>4, <2>1
  <2>3. t = Served(x, Begun) \/ t.status = 1
    BY <1>1, <1>2, <1>3, <2>2, OneCommand
  <2> QED
    BY <1>5, <2>1, <2>3
<1>7. t = State(0, Help, Prepared)
  BY <1>6, PiholeEffect DEF Begun
<1> QED
  BY <1>2, <1>3, <1>7, StateFields

LEMMA PiholeHelpVouched ==
    ASSUME RecordInv, VerdictInv, NEW i \in DOMAIN observations, i \in DOMAIN CASES, check(i),
           NEW help, PiholeHelp(CASES[i], help)
    PROVE  Vouched(i)
<1>1. ~Hung(i)
  BY PassedEnded
<1>2. CASES[i].role = "control" /\ CASES[i].group = "pihole"
  BY DEF PiholeHelp
<1> QED
  BY <1>1, <1>2 DEF Vouched

\* No other case has the name of one that another is compared with.
LEMMA HelpNamed ==
    ASSUME NEW j \in DOMAIN CASES, CASES[j].id \in HelpIds
    PROVE  PiholeHelp(CASES[j], CASES[j].id)
<1>1. PICK c : c = CASES[j]
  OBVIOUS
<1>2. Listed(c) /\ c.id \in HelpIds
  BY <1>1, CasesListed
<1>3. /\ ~Exits7(c) /\ ~GpgPublished(c) /\ ~GpgPublishedTrip(c)
      /\ ~GpgCorrected(c) /\ ~GpgCorrectedTrip(c)
  BY <1>2 DEF Exits7, GpgPublished, GpgPublishedTrip, GpgCorrected, GpgCorrectedTrip, OfGroup
<1>4. ~CurlPublished(c) /\ ~CurlCorrected(c) /\ ~CurlWithBody(c) /\ ~CurlAllowed(c)
  BY <1>2 DEF CurlPublished, CurlCorrected, CurlWithBody, CurlAllowed, OfGroup
<1>5. \A text, file, word, files : ~PipeOf(c, text, file, word, files)
  BY <1>2 DEF PipeOf, PipePublished, PipeCorrected, OfGroup
<1>6. \A help : ~PiholePublished(c, help)
  BY <1>2 DEF PiholePublished, OfGroup
<1>7. PICK help \in HelpIds : PiholeHelp(c, help)
  BY <1>2, <1>3, <1>4, <1>5, <1>6 DEF Listed
<1>8. c.id = help
  BY <1>7 DEF PiholeHelp
<1> QED
  BY <1>1, <1>7, <1>8

LEMMA PiholePublishedVouched ==
    ASSUME RecordInv, VerdictInv, NEW i \in DOMAIN observations, i \in DOMAIN CASES,
           \A j \in DOMAIN observations : j \in DOMAIN CASES /\ check(j),
           NEW help, PiholePublished(CASES[i], help)
    PROVE  Vouched(i)
<1>1. PICK c : c = CASES[i]
  OBVIOUS
<1>2. PICK t : t = Truth(i)
  OBVIOUS
<1>3. check(i) /\ ~Hung(i)
  BY PassedEnded
<1>4. /\ c.group = "pihole" /\ c.role = "published" /\ help \in HelpIds
      /\ ContainsSame(c.expect, 0, "Usage: pihole", help)
  BY <1>1 DEF PiholePublished, OfGroup
<1>5. t.status = 0 /\ SameAs(help, t.out)
  BY <1>1, <1>2, <1>3, <1>4, Checked
<1>6. PICK j \in DOMAIN observations : /\ CASES[j].id = help
                                       /\ t.out = observations[j].stdout_sha256
  BY <1>5 DEF SameAs
<1>7. j \in DOMAIN CASES /\ check(j) /\ PiholeHelp(CASES[j], help)
  BY <1>4, <1>6, HelpNamed
<1>8. Truth(j).out = Help /\ ~Hung(j)
  BY <1>7, HelpSaid
<1>9. t.out = Help
  BY <1>6, <1>7, <1>8, Recorded
<1>10. "list added" \notin ToSet(Help)
  <2>1. PICK a, b, d : a = "Usage: pihole" /\ b = "options" /\ d = "commands"
    OBVIOUS
  <2>2. Help = <<a, b, d>>
    BY <2>1 DEF Help
  <2>3. \A k \in DOMAIN Help : Help[k] \in {a, b, d}
    BY <2>2
  <2>4. "list added" \notin {a, b, d}
    BY <2>1
  <2> QED
    BY <2>3, <2>4 DEF ToSet
<1>11. ~JobDone(i)
  BY <1>1, <1>2, <1>4, <1>9, <1>10, Jobs
<1> QED
  BY <1>1, <1>2, <1>3, <1>4, <1>5, <1>11, SilentVouched

\* When all pass their checks the lab has found what it says.
LEMMA AllVouched ==
    ASSUME RecordInv, VerdictInv, Verdict, DOMAIN observations = DOMAIN CASES
    PROVE  \A i \in DOMAIN CASES : Vouched(i)
<1> SUFFICES ASSUME NEW i \in DOMAIN CASES PROVE Vouched(i)
  OBVIOUS
<1>1. i \in DOMAIN observations /\ check(i)
  BY DEF Verdict
<1>2. \A j \in DOMAIN observations : j \in DOMAIN CASES /\ check(j)
  BY DEF Verdict
<1>3. PICK c : c = CASES[i]
  OBVIOUS
<1>4. Listed(c)
  BY <1>3, CasesListed
<1>5. CASE Exits7(c)
  BY <1>1, <1>3, <1>5, ExitsVouched
<1>6. CASE \E text, file, word, files : PipeOf(c, text, file, word, files)
  BY <1>1, <1>3, <1>6, PipeVouched
<1>7. CASE GpgPublished(c) \/ GpgPublishedTrip(c) \/ GpgCorrected(c) \/ GpgCorrectedTrip(c)
  BY <1>1, <1>3, <1>7, GpgPublishedVouched, GpgPublishedTripVouched, GpgCorrectedVouched,
     GpgCorrectedTripVouched
<1>8. CASE CurlPublished(c) \/ CurlCorrected(c) \/ CurlWithBody(c) \/ CurlAllowed(c)
  BY <1>1, <1>3, <1>8, CurlPublishedVouched, CurlFailedVouched, CurlAllowedVouched
<1>9. CASE \E help : PiholePublished(c, help) \/ PiholeHelp(c, help)
  BY <1>1, <1>2, <1>3, <1>9, PiholePublishedVouched, PiholeHelpVouched
<1> QED
  BY <1>4, <1>5, <1>6, <1>7, <1>8, <1>9 DEF Listed

-----------------------------------------------------------------------------
(* Unless a case went another way, each passes its check.                    *)

NoFaults == faults = << >>

LEMMA AsWritten ==
    ASSUME NoFaults, NEW i \in DOMAIN CASES, NEW c, c = CASES[i], NEW t, t = Truth(i),
           NEW x, NEW y, NEW z
    PROVE  /\ ~Hung(i)
           /\ Runs1(c, x) => t = Served(x, Begun)
           /\ Runs2(c, x, y) => t = After(i, y, "ok", Served(x, Begun))
           /\ Runs3(c, x, y, z) => t = After(i, z, "ok", After(i, y, "ok", Served(x, Begun)))
<1>1. DOMAIN faults = {}
  BY DEF NoFaults
<1>2. PICK kinds : kinds = KindsOf(i)
  OBVIOUS
<1>3. DOMAIN c.body = 1..Len(c.body) /\ \A k \in DOMAIN c.body : kinds[k] = "ok"
  BY <1>1, <1>2, WalkFacts DEF KindsOf
<1>4. Behaved(x, "ok", Begun) = Served(x, Begun)
  BY BehaveCases DEF Begun
<1>5. ASSUME Runs1(c, x) PROVE t = Served(x, Begun)
  <2>1. t = Behaved(x, kinds[1], Begun) /\ Len(c.body) = 1
    BY <1>2, <1>5, EndsOne
  <2>2. kinds[1] = "ok"
    BY <1>3, <2>1
  <2> QED
    BY <1>4, <2>1, <2>2
<1>6. ASSUME Runs2(c, x, y) PROVE t = After(i, y, "ok", Served(x, Begun))
  <2>1. t = After(i, y, kinds[2], Behaved(x, kinds[1], Begun)) /\ Len(c.body) = 2
    BY <1>2, <1>6, Ends
  <2>2. kinds[1] = "ok" /\ kinds[2] = "ok"
    BY <1>3, <2>1
  <2> QED
    BY <1>4, <2>1, <2>2
<1>7. ASSUME Runs3(c, x, y, z)
      PROVE  t = After(i, z, "ok", After(i, y, "ok", Served(x, Begun)))
  <2>1. /\ t = After(i, z, kinds[3], After(i, y, kinds[2], Behaved(x, kinds[1], Begun)))
        /\ Len(c.body) = 3
    BY <1>2, <1>7, Ends
  <2>2. kinds[1] = "ok" /\ kinds[2] = "ok" /\ kinds[3] = "ok"
    BY <1>3, <2>1
  <2> QED
    BY <1>4, <2>1, <2>2
<1> QED
  BY <1>1, <1>5, <1>6, <1>7 DEF Hung

\* The first two texts of an output are always kept, and nothing else is shown.
LEMMA ShownFacts ==
    ASSUME NEW out \in Seq(Texts), NEW word
    PROVE  /\ Len(out) >= 1 /\ out[1] = word => Shown(word, out)
           /\ Len(out) >= 2 /\ out[2] = word => Shown(word, out)
           /\ word \notin ToSet(out) => ~Shown(word, out)
<1>1. PICK n : n = IF Len(out) < OutputLimit THEN Len(out) ELSE OutputLimit
  OBVIOUS
<1>2. OutputLimit \in Nat /\ OutputLimit >= 2
  BY ExitStatusAssumption
<1>3. Len(out) \in Nat /\ DOMAIN out = 1..Len(out)
  BY LenProperties
<1>4. n \in Nat /\ n <= Len(out) /\ (Len(out) >= 1 => n >= 1) /\ (Len(out) >= 2 => n >= 2)
  BY <1>1, <1>2, <1>3
<1>5. PICK s : s = FirstTexts(out)
  OBVIOUS
<1>6. s = SubSeq(out, 1, n)
  BY <1>1, <1>5 DEF FirstTexts
<1>7. s \in Seq(Texts) /\ Len(s) = n /\ \A k \in 1..n : s[k] = out[k]
  BY <1>3, <1>4, <1>6, SubSeqProperties
<1>8. DOMAIN s = 1..n
  BY <1>7, LenProperties
<1>9. \A k \in 1..n : k \in DOMAIN out
  BY <1>3, <1>4
<1> QED
  BY <1>3, <1>4, <1>5, <1>7, <1>8, <1>9 DEF Shown, ToSet

LEMMA TextsAre ==
    /\ "REACHED" \in Texts /\ "RELOADING" \in Texts /\ "RESTORED" \in Texts
    /\ Len(Fetched) <= 1 /\ "RELOADING" \notin ToSet(Fetched)
    /\ "fetch failed: 403" \in ToSet(Fetched)
    /\ Len(Help) >= 1 /\ Help[1] = "Usage: pihole"
<1>1. "REACHED" \in Texts /\ "RELOADING" \in Texts /\ "RESTORED" \in Texts
  BY DEF Texts
<1>2. Len(Fetched) <= 1
  BY DEF Fetched
<1>3. Len(Help) >= 1 /\ Help[1] = "Usage: pihole"
  BY DEF Help
<1>4. DOMAIN Fetched = {1} /\ Fetched[1] = "fetch failed: 403"
  BY DEF Fetched
<1>5. "RELOADING" \notin ToSet(Fetched) /\ "fetch failed: 403" \in ToSet(Fetched)
  BY <1>4 DEF ToSet
<1> QED
  BY <1>1, <1>2, <1>3, <1>5

LEMMA NoneOrOne == \A n \in Nat : n <= 1 => n = 0 \/ n = 1
OBVIOUS

\* What a pipeline puts out, and the message behind it.
LEMMA PipeOut ==
    ASSUME NEW text \in Seq(Texts), Len(text) <= 1, NEW word \in Texts, word \notin ToSet(text)
    PROVE  Shown(word, Append(text, word)) /\ ~Shown(word, text)
<1>2. PICK out : out = Append(text, word)
  OBVIOUS
<1>3. /\ out \in Seq(Texts) /\ Len(out) = Len(text) + 1
      /\ out[Len(text) + 1] = word /\ Len(text) \in Nat
  BY <1>2, AppendProperties, LenProperties
<1>4. Len(text) = 0 \/ Len(text) = 1
  BY <1>3, NoneOrOne, Zenon
<1>5. Shown(word, out)
  <2>1. CASE Len(text) = 0
    <3>1. Len(out) = 1 /\ out[1] = word
      BY <1>3, <2>1
    <3> QED
      BY <1>3, <3>1, ShownFacts
  <2>2. CASE Len(text) = 1
    <3>1. Len(out) = 2 /\ out[2] = word
      BY <1>3, <2>2
    <3> QED
      BY <1>3, <3>1, ShownFacts
  <2> QED
    BY <1>4, <2>1, <2>2
<1> QED
  BY <1>2, <1>5, ShownFacts

LEMMA PipePasses ==
    ASSUME RecordInv, VerdictInv, NoFaults, NEW i \in DOMAIN observations, i \in DOMAIN CASES,
           NEW text \in Seq(Texts), Len(text) <= 1, NEW word \in Texts, word \notin ToSet(text),
           NEW file, NEW files, FilesAre(files, Put(Prepared, file, text)),
           PipeOf(CASES[i], text, file, word, files)
    PROVE  check(i)
<1>1. PICK c : c = CASES[i]
  OBVIOUS
<1>2. PICK t : t = Truth(i)
  OBVIOUS
<1>3. ~Hung(i)
  BY AsWritten
<1>4. PICK fs : fs = Put(Prepared, file, text)
  OBVIOUS
<1>5. CASE PipePublished(c, text, file, word, files)
  <2>1. /\ Runs2(c, Piped(text, file), Echo(word))
        /\ ContainsFiles(c.expect, 0, word, files)
    BY <1>5 DEF PipePublished
  <2>2. Served(Piped(text, file), Begun) = State(0, text, fs)
    <3>1. PICK o : o = << >>
      OBVIOUS
    <3>2. o \o text = text
      BY <3>1, ConcatEmptySeq
    <3>3. Begun = State(0, o, Prepared)
      BY <3>1 DEF Begun
    <3>4. Served(Piped(text, file), Begun) = State(0, o \o text, fs)
      BY <1>4, <3>3, TeeEffect
    <3> QED
      BY <3>2, <3>4
  <2>3. t = After(i, Echo(word), "ok", State(0, text, fs))
    BY <1>1, <1>2, <2>1, <2>2, AsWritten
  <2>4. PICK out : out = Append(text, word)
    OBVIOUS
  <2>5. t = State(0, out, fs)
    <3>1. t = Served(Echo(word), State(0, text, fs))
      BY <2>3, AfterCases
    <3> QED
      BY <2>4, <3>1, EchoEffect
  <2>6. t.status = 0 /\ t.out = out /\ t.files = fs
    BY <2>5, StateFields
  <2>7. Shown(word, t.out) /\ FilesAre(files, t.files)
    BY <1>4, <2>4, <2>6, PipeOut
  <2> QED
    BY <1>1, <1>2, <1>3, <2>1, <2>6, <2>7, Checked
<1>6. CASE PipeCorrected(c, text, file, word, files)
  <2>1. /\ Runs2(c, Strict(text, file), Echo(word)) /\ c.strict
        /\ LacksFiles(c.expect, 1, word, files)
    BY <1>6 DEF PipeCorrected
  <2>2. Served(Strict(text, file), Begun) = State(1, text, fs)
    <3>1. PICK o : o = << >>
      OBVIOUS
    <3>2. o \o text = text
      BY <3>1, ConcatEmptySeq
    <3>3. Begun = State(0, o, Prepared)
      BY <3>1 DEF Begun
    <3>4. Served(Strict(text, file), Begun) = State(1, o \o text, fs)
      BY <1>4, <3>3, TeeEffect
    <3> QED
      BY <3>2, <3>4
  <2>3. t = After(i, Echo(word), "ok", State(1, text, fs))
    BY <1>1, <1>2, <2>1, <2>2, AsWritten
  <2>4. t = State(1, text, fs)
    BY <1>1, <2>1, <2>3, AfterCases
  <2>5. t.status = 1 /\ t.out = text /\ t.files = fs
    BY <2>4, StateFields
  <2>6. ~Shown(word, t.out) /\ FilesAre(files, t.files)
    BY <1>4, <2>5, PipeOut
  <2> QED
    BY <1>1, <1>2, <1>3, <2>1, <2>5, <2>6, Checked
<1> QED
  BY <1>1, <1>5, <1>6 DEF PipeOf

LEMMA FetchFilesKept == FilesAre(FetchFiles, Put(Prepared, "update.log", Fetched))
<1>1. PICK fs : fs = Put(Prepared, "update.log", Fetched)
  OBVIOUS
<1>2. Holds(fs, "update.log", Fetched)
  BY <1>1, PutFacts
<1>3. "fetch failed: 403" \in ToSet(Fetched)
  BY TextsAre
<1>4. FileMatches(Containing("fetch failed: 403"), describe_files(fs), "update.log")
  BY <1>2, <1>3, Matches DEF Holds
<1>5. Want("update.log", Containing("fetch failed: 403"), fs)
  BY <1>4 DEF Want
<1> QED
  BY <1>1, <1>5, FilesLooked DEF FetchFiles

LEMMA ExitsPass ==
    ASSUME RecordInv, VerdictInv, NoFaults, NEW i \in DOMAIN observations, i \in DOMAIN CASES,
           Exits7(CASES[i])
    PROVE  check(i)
<1>1. PICK c : c = CASES[i]
  OBVIOUS
<1>2. PICK t : t = Truth(i)
  OBVIOUS
<1>3. ~Hung(i)
  BY AsWritten
<1>4. PICK x : x = [op |-> "exit", status |-> 7]
  OBVIOUS
<1>5. Runs1(c, x) /\ ExitOnly(c.expect, 7)
  BY <1>1, <1>4 DEF Exits7
<1>6. t = Served(x, Begun)
  BY <1>1, <1>2, <1>5, AsWritten
<1>7. t.status = 7
  BY <1>4, <1>6 DEF Served, Effect, Begun, State
<1> QED
  BY <1>1, <1>2, <1>3, <1>5, <1>7, Checked

\* The forms with gpg.
RedirectFiles == Put(Write(Prepared, {"backup.gpg"}, << >>), "seeds.txt.gpg", Cipher)
OutputFiles == Put(Write(Prepared, {}, << >>), "backup.gpg", Cipher)
RestoredFiles == Put(OutputFiles, "restored.txt", Seeds)

LEMMA GpgFiles ==
    /\ Holds(RedirectFiles, "backup.gpg", << >>) /\ Holds(RedirectFiles, "seeds.txt.gpg", Cipher)
    /\ Holds(RedirectFiles, "seeds.txt", Seeds)
    /\ Holds(OutputFiles, "backup.gpg", Cipher) /\ "seeds.txt.gpg" \notin DOMAIN OutputFiles
    /\ Holds(OutputFiles, "seeds.txt", Seeds)
    /\ Holds(RestoredFiles, "restored.txt", Seeds) /\ Holds(RestoredFiles, "seeds.txt", Seeds)
    /\ Len(<< >>) = 0 /\ Len(Cipher) = 1 /\ Len(Seeds) = 1 /\ Cipher # << >> /\ Seeds # << >>
<1>1. PICK ws : ws = Write(Prepared, {"backup.gpg"}, << >>)
  OBVIOUS
<1>2. Holds(ws, "backup.gpg", << >>) /\ Holds(ws, "seeds.txt", Seeds)
  BY <1>1, Start, WriteFacts
<1>3. RedirectFiles = Put(ws, "seeds.txt.gpg", Cipher)
  BY <1>1 DEF RedirectFiles
<1>4. /\ Holds(RedirectFiles, "backup.gpg", << >>) /\ Holds(RedirectFiles, "seeds.txt.gpg", Cipher)
      /\ Holds(RedirectFiles, "seeds.txt", Seeds)
  BY <1>2, <1>3, PutFacts
<1>5. PICK us : us = Write(Prepared, {}, << >>)
  OBVIOUS
<1>6. Holds(us, "seeds.txt", Seeds) /\ "seeds.txt.gpg" \notin DOMAIN us
  BY <1>5, Start, WriteFacts
<1>7. OutputFiles = Put(us, "backup.gpg", Cipher)
  BY <1>5 DEF OutputFiles
<1>8. /\ Holds(OutputFiles, "backup.gpg", Cipher) /\ "seeds.txt.gpg" \notin DOMAIN OutputFiles
      /\ Holds(OutputFiles, "seeds.txt", Seeds)
  BY <1>6, <1>7, PutFacts
<1>9. Holds(RestoredFiles, "restored.txt", Seeds) /\ Holds(RestoredFiles, "seeds.txt", Seeds)
  BY <1>8, PutFacts DEF RestoredFiles
<1>10. Len(<< >>) = 0 /\ Len(Cipher) = 1 /\ Len(Seeds) = 1 /\ Cipher # << >> /\ Seeds # << >>
  BY DEF Cipher, Seeds
<1> QED
  BY <1>4, <1>8, <1>9, <1>10

LEMMA GpgPublishedPasses ==
    ASSUME RecordInv, VerdictInv, NoFaults, NEW i \in DOMAIN observations, i \in DOMAIN CASES,
           GpgPublished(CASES[i])
    PROVE  check(i)
<1>1. PICK c : c = CASES[i]
  OBVIOUS
<1>2. PICK t : t = Truth(i)
  OBVIOUS
<1>3. ~Hung(i)
  BY AsWritten
<1>4. PICK x : x = Encrypt("seeds.txt.gpg", {"backup.gpg"})
  OBVIOUS
<1>5. PICK files : files = ThreeFiles("backup.gpg", Empty, "seeds.txt.gpg", Nonempty,
                                      "seeds.txt", Nonempty)
  OBVIOUS
<1>6. Runs1(c, x) /\ ExitFiles(c.expect, 0, files)
  BY <1>1, <1>4, <1>5 DEF GpgPublished
<1>7. t = Served(x, Begun)
  BY <1>1, <1>2, <1>6, AsWritten
<1>8. t = State(0, << >>, RedirectFiles)
  BY <1>4, <1>7, EncryptEffect DEF Begun, RedirectFiles
<1>9. t.status = 0 /\ t.files = RedirectFiles
  BY <1>8, StateFields
<1>10. PICK fs : fs = RedirectFiles
  OBVIOUS
<1>11. Want("backup.gpg", Empty, fs)
  BY <1>10, GpgFiles, Matches DEF Want, Holds
<1>12. Want("seeds.txt.gpg", Nonempty, fs)
  BY <1>10, GpgFiles, Matches DEF Want, Holds
<1>13. Want("seeds.txt", Nonempty, fs)
  BY <1>10, GpgFiles, Matches DEF Want, Holds
<1>14. FilesAre(files, t.files)
  BY <1>5, <1>9, <1>10, <1>11, <1>12, <1>13, FilesLooked
<1> QED
  BY <1>1, <1>2, <1>3, <1>6, <1>9, <1>14, Checked

LEMMA GpgCorrectedPasses ==
    ASSUME RecordInv, VerdictInv, NoFaults, NEW i \in DOMAIN observations, i \in DOMAIN CASES,
           GpgCorrected(CASES[i])
    PROVE  check(i)
<1>1. PICK c : c = CASES[i]
  OBVIOUS
<1>2. PICK t : t = Truth(i)
  OBVIOUS
<1>3. ~Hung(i)
  BY AsWritten
<1>4. PICK x : x = Encrypt("backup.gpg", {})
  OBVIOUS
<1>5. PICK files : files = TwoFiles("backup.gpg", Nonempty, "seeds.txt.gpg", Absent)
  OBVIOUS
<1>6. Runs1(c, x) /\ ExitFiles(c.expect, 0, files)
  BY <1>1, <1>4, <1>5 DEF GpgCorrected
<1>7. t = Served(x, Begun)
  BY <1>1, <1>2, <1>6, AsWritten
<1>8. t = State(0, << >>, OutputFiles)
  BY <1>4, <1>7, EncryptEffect DEF Begun, OutputFiles
<1>9. t.status = 0 /\ t.files = OutputFiles
  BY <1>8, StateFields
<1>10. PICK fs : fs = OutputFiles
  OBVIOUS
<1>11. Want("backup.gpg", Nonempty, fs)
  BY <1>10, GpgFiles, Matches DEF Want, Holds
<1>12. Want("seeds.txt.gpg", Absent, fs)
  BY <1>10, GpgFiles, Matches DEF Want, Holds
<1>13. FilesAre(files, t.files)
  BY <1>5, <1>9, <1>10, <1>11, <1>12, FilesLooked
<1> QED
  BY <1>1, <1>2, <1>3, <1>6, <1>9, <1>13, Checked

LEMMA GpgPublishedTripPasses ==
    ASSUME RecordInv, VerdictInv, NoFaults, NEW i \in DOMAIN observations, i \in DOMAIN CASES,
           GpgPublishedTrip(CASES[i])
    PROVE  check(i)
<1>1. PICK c : c = CASES[i]
  OBVIOUS
<1>2. PICK t : t = Truth(i)
  OBVIOUS
<1>3. ~Hung(i)
  BY AsWritten
<1>4. PICK x, y : x = Encrypt("seeds.txt.gpg", {"backup.gpg"}) /\ y = Decrypt({"restored.txt"})
  OBVIOUS
<1>5. Runs3(c, x, y, Keeping) /\ ~c.strict /\ NonzeroLacks(c.expect, "RESTORED")
  BY <1>1, <1>4 DEF GpgPublishedTrip
<1>6. PICK fs : fs = RedirectFiles
  OBVIOUS
<1>7. PICK none : none = << >>
  OBVIOUS
<1>8. Served(x, Begun) = State(0, none, fs)
  BY <1>4, <1>6, <1>7, EncryptEffect DEF Begun, RedirectFiles
<1>9. PICK gs : gs = Write(fs, {"restored.txt"}, << >>)
  OBVIOUS
<1>10. ~Encrypted(fs) /\ ~Restored(gs)
  <2>1. Holds(gs, "restored.txt", << >>) /\ Holds(gs, "seeds.txt", Seeds)
    BY <1>6, <1>9, GpgFiles, WriteFacts
  <2> QED
    BY <1>6, <2>1, GpgFiles DEF Encrypted, Restored, Holds
<1>11. After(i, y, "ok", State(0, none, fs)) = State(2, none, gs)
  <2>1. After(i, y, "ok", State(0, none, fs)) = Served(y, State(0, none, fs))
    BY AfterCases
  <2> QED
    BY <1>4, <1>9, <1>10, <2>1, DecryptEffect
<1>12. After(i, Keeping, "ok", State(2, none, gs)) = State(2, none, gs)
  <2>1. After(i, Keeping, "ok", State(2, none, gs)) = Served(Keeping, State(2, none, gs))
    BY <1>1, <1>5, AfterCases
  <2> QED
    BY <1>10, <2>1, CompareEffect
<1>13. t = State(2, none, gs)
  BY <1>1, <1>2, <1>5, <1>8, <1>11, <1>12, AsWritten
<1>14. t.status = 2 /\ t.out = none
  BY <1>13, StateFields
<1>15. ~Shown("RESTORED", t.out)
  <2>1. none \in Seq(Texts) /\ "RESTORED" \notin ToSet(none)
    BY <1>7, TextsFacts DEF ToSet
  <2> QED
    BY <1>14, <2>1, ShownFacts
<1> QED
  BY <1>1, <1>2, <1>3, <1>5, <1>14, <1>15, Checked

LEMMA GpgCorrectedTripPasses ==
    ASSUME RecordInv, VerdictInv, NoFaults, NEW i \in DOMAIN observations, i \in DOMAIN CASES,
           GpgCorrectedTrip(CASES[i])
    PROVE  check(i)
<1>1. PICK c : c = CASES[i]
  OBVIOUS
<1>2. PICK t : t = Truth(i)
  OBVIOUS
<1>3. ~Hung(i)
  BY AsWritten
<1>4. PICK x, y : x = Encrypt("backup.gpg", {}) /\ y = Decrypt({})
  OBVIOUS
<1>5. Runs3(c, x, y, Judging) /\ ExitContains(c.expect, 0, "RESTORED")
  BY <1>1, <1>4 DEF GpgCorrectedTrip
<1>6. PICK fs, gs : fs = OutputFiles /\ gs = RestoredFiles
  OBVIOUS
<1>7. PICK none : none = << >>
  OBVIOUS
<1>8. Served(x, Begun) = State(0, none, fs)
  BY <1>4, <1>6, <1>7, EncryptEffect DEF Begun, OutputFiles
<1>9. Encrypted(fs) /\ Restored(gs)
  BY <1>6, GpgFiles DEF Encrypted, Restored, Holds
<1>10. After(i, y, "ok", State(0, none, fs)) = State(0, none, gs)
  <2>1. After(i, y, "ok", State(0, none, fs)) = Served(y, State(0, none, fs))
    BY AfterCases
  <2> QED
    BY <1>4, <1>6, <1>9, <2>1, DecryptEffect DEF RestoredFiles
<1>11. PICK out : out = Append(none, "RESTORED")
  OBVIOUS
<1>12. After(i, Judging, "ok", State(0, none, gs)) = State(0, out, gs)
  <2>1. After(i, Judging, "ok", State(0, none, gs)) = Served(Judging, State(0, none, gs))
    BY AfterCases
  <2> QED
    BY <1>9, <1>11, <2>1, CompareEffect
<1>13. t = State(0, out, gs)
  BY <1>1, <1>2, <1>5, <1>8, <1>10, <1>12, AsWritten
<1>14. t.status = 0 /\ t.out = out
  BY <1>13, StateFields
<1>15. Shown("RESTORED", out)
  <2>1. none \in Seq(Texts) /\ Len(none) <= 1 /\ "RESTORED" \notin ToSet(none)
    BY <1>7, TextsFacts DEF ToSet
  <2> QED
    BY <1>11, <2>1, TextsAre, PipeOut
<1> QED
  BY <1>1, <1>2, <1>3, <1>5, <1>14, <1>15, Checked

\* curl, by what it leaves in the file.
LEMMA ComposeWants ==
    ASSUME NEW text, NEW x, x = <<text>>, NEW fs, fs = Put(Prepared, "docker-compose.yml", x)
    PROVE  FilesAre(OneFile("docker-compose.yml", Containing(text)), fs)
<1>1. Holds(fs, "docker-compose.yml", x) /\ text \in ToSet(x)
  <2>1. DOMAIN x = {1} /\ x[1] = text
    OBVIOUS
  <2> QED
    BY <2>1, PutFacts DEF ToSet
<1>2. FileMatches(Containing(text), describe_files(fs), "docker-compose.yml")
  BY <1>1, Matches DEF Holds
<1>3. Want("docker-compose.yml", Containing(text), fs)
  BY <1>2 DEF Want
<1> QED
  BY <1>3, FilesLooked

\* A case with one command and an exit and files to expect.
LEMMA OnePasses ==
    ASSUME RecordInv, VerdictInv, NoFaults, NEW i \in DOMAIN observations, i \in DOMAIN CASES,
           NEW x, Runs1(CASES[i], x), NEW n, NEW files, ExitFiles(CASES[i].expect, n, files),
           NEW out, NEW fs, Served(x, Begun) = State(n, out, fs), FilesAre(files, fs)
    PROVE  check(i)
<1>1. PICK c : c = CASES[i]
  OBVIOUS
<1>2. PICK t : t = Truth(i)
  OBVIOUS
<1>3. ~Hung(i)
  BY AsWritten
<1>4. t = State(n, out, fs)
  BY <1>1, <1>2, AsWritten
<1>5. t.status = n /\ t.files = fs
  BY <1>4, StateFields
<1> QED
  BY <1>1, <1>2, <1>3, <1>5, Checked

LEMMA CurlPasses ==
    ASSUME RecordInv, VerdictInv, NoFaults, NEW i \in DOMAIN observations, i \in DOMAIN CASES,
           NEW c, c = CASES[i],
           CurlPublished(c) \/ CurlCorrected(c) \/ CurlWithBody(c) \/ CurlAllowed(c)
    PROVE  check(i)
<1>1. PICK none : none = << >>
  OBVIOUS
<1>2. Begun = State(0, none, Prepared)
  BY <1>1 DEF Begun
<1>3. PICK fs, gs : /\ fs = Put(Prepared, "docker-compose.yml", Denied)
                    /\ gs = Put(Prepared, "docker-compose.yml", Services)
  OBVIOUS
<1>4. PICK denied, allowed : /\ denied = OneFile("docker-compose.yml", Containing("AccessDenied"))
                             /\ allowed = OneFile("docker-compose.yml", Containing("services:"))
  OBVIOUS
<1>5. FilesAre(denied, fs) /\ FilesAre(allowed, gs)
  BY <1>3, <1>4, ComposeWants DEF Denied, Services
<1>6. ASSUME CurlPublished(c) PROVE check(i)
  <2>1. PICK x : x = Curl("denied", "no")
    OBVIOUS
  <2>2. Runs1(c, x) /\ ExitFiles(c.expect, 0, denied)
    BY <1>4, <1>6, <2>1 DEF CurlPublished
  <2>3. Served(x, Begun) = State(0, none, fs)
    BY <1>2, <1>3, <2>1, CurlEffect
  <2> QED
    BY <1>5, <2>2, <2>3, OnePasses
<1>7. ASSUME CurlWithBody(c) PROVE check(i)
  <2>1. PICK x : x = Curl("denied", "with-body")
    OBVIOUS
  <2>2. Runs1(c, x) /\ ExitFiles(c.expect, 22, denied)
    BY <1>4, <1>7, <2>1 DEF CurlWithBody
  <2>3. Served(x, Begun) = State(22, none, fs)
    BY <1>2, <1>3, <2>1, CurlEffect
  <2> QED
    BY <1>5, <2>2, <2>3, OnePasses
<1>8. ASSUME CurlAllowed(c) PROVE check(i)
  <2>1. PICK x : x = Curl("ok", "fail")
    OBVIOUS
  <2>2. Runs1(c, x) /\ ExitFiles(c.expect, 0, allowed)
    BY <1>4, <1>8, <2>1 DEF CurlAllowed
  <2>3. Served(x, Begun) = State(0, none, gs)
    BY <1>2, <1>3, <2>1, CurlEffect
  <2> QED
    BY <1>5, <2>2, <2>3, OnePasses
<1>9. ASSUME CurlCorrected(c) PROVE check(i)
  <2>1. PICK x : x = Curl("denied", "fail")
    OBVIOUS
  <2>2. PICK files : files = OneFile("docker-compose.yml", Absent)
    OBVIOUS
  <2>3. Runs1(c, x) /\ ExitFiles(c.expect, 22, files)
    BY <1>9, <2>1, <2>2 DEF CurlCorrected
  <2>4. PICK ps : ps = Prepared
    OBVIOUS
  <2>5. Served(x, Begun) = State(22, none, ps)
    BY <1>2, <2>1, <2>4, CurlEffect
  <2>6. FilesAre(files, ps)
    <3>1. FileMatches(Absent, describe_files(ps), "docker-compose.yml")
      BY <2>4, Start, Matches
    <3>2. Want("docker-compose.yml", Absent, ps)
      BY <3>1 DEF Want
    <3> QED
      BY <2>2, <3>2, FilesLooked
  <2> QED
    BY <2>3, <2>5, <2>6, OnePasses
<1> QED
  BY <1>6, <1>7, <1>8, <1>9

\* pihole says the same every time.
LEMMA HelpGiven ==
    ASSUME RecordInv, VerdictInv, NoFaults, NEW j \in DOMAIN observations, j \in DOMAIN CASES,
           Runs1(CASES[j], Unknown)
    PROVE  /\ Truth(j).status = 0 /\ Truth(j).out = Help /\ ~Hung(j)
           /\ observations[j].stdout_sha256 = Help /\ Shown("Usage: pihole", Help)
<1>1. PICK t : t = Truth(j)
  OBVIOUS
<1>2. ~Hung(j)
  BY AsWritten
<1>3. PICK x : x = Unknown
  OBVIOUS
<1>4. t = Served(x, Begun)
  BY <1>1, <1>3, AsWritten
<1>5. t = State(0, Help, Prepared)
  BY <1>3, <1>4, PiholeEffect DEF Begun
<1>6. t.status = 0 /\ t.out = Help
  BY <1>5, StateFields
<1>7. observations[j].stdout_sha256 = Help
  BY <1>1, <1>2, <1>6, Recorded
<1>8. Shown("Usage: pihole", Help)
  <2>1. Help \in Seq(Texts) /\ Len(Help) >= 1 /\ Help[1] = "Usage: pihole"
    BY TextsFacts, TextsAre
  <2> QED
    BY <2>1, ShownFacts
<1> QED
  BY <1>1, <1>2, <1>6, <1>7, <1>8

LEMMA HelpListed ==
    ASSUME NEW help \in HelpIds
    PROVE  \E j \in DOMAIN CASES : PiholeHelp(CASES[j], help)
BY CasesKnown, PiholeListed DEF HelpIds

LEMMA PiholePasses ==
    ASSUME RecordInv, VerdictInv, NoFaults, DOMAIN observations = DOMAIN CASES,
           NEW i \in DOMAIN CASES, NEW c, c = CASES[i], NEW help,
           PiholePublished(c, help) \/ PiholeHelp(c, help)
    PROVE  check(i)
<1>1. PICK t : t = Truth(i)
  OBVIOUS
<1>2. Runs1(c, Unknown) /\ help \in HelpIds
  BY DEF PiholePublished, PiholeHelp
<1>3. t.status = 0 /\ t.out = Help /\ ~Hung(i) /\ Shown("Usage: pihole", Help)
  BY <1>1, <1>2, HelpGiven
<1>4. CASE PiholeHelp(c, help)
  <2>1. ExitContains(c.expect, 0, "Usage: pihole")
    BY <1>4 DEF PiholeHelp
  <2> QED
    BY <1>1, <1>3, <2>1, Checked
<1>5. CASE PiholePublished(c, help)
  <2>1. ContainsSame(c.expect, 0, "Usage: pihole", help)
    BY <1>5 DEF PiholePublished
  <2>2. PICK j \in DOMAIN CASES : PiholeHelp(CASES[j], help)
    BY <1>2, HelpListed
  <2>3. CASES[j].id = help /\ Runs1(CASES[j], Unknown)
    BY <2>2 DEF PiholeHelp
  <2>4. observations[j].stdout_sha256 = Help
    BY <2>2, <2>3, HelpGiven
  <2>5. SameAs(help, Help)
    BY <2>2, <2>3, <2>4 DEF SameAs
  <2> QED
    BY <1>1, <1>3, <2>1, <2>5, Checked
<1> QED
  BY <1>4, <1>5

LEMMA PipesPass ==
    ASSUME RecordInv, VerdictInv, NoFaults, NEW i \in DOMAIN observations, i \in DOMAIN CASES,
           NEW c, c = CASES[i],
           \/ PipeOf(c, << >>, "out.log", "REACHED", {})
           \/ PipeOf(c, Fetched, "update.log", "RELOADING", FetchFiles)
    PROVE  check(i)
<1>1. CASE PipeOf(c, << >>, "out.log", "REACHED", {})
  <2>1. PICK none, files : none = << >> /\ files = {}
    OBVIOUS
  <2>2. none \in Seq(Texts) /\ Len(none) <= 1 /\ "REACHED" \notin ToSet(none)
    BY <2>1, TextsFacts DEF ToSet
  <2>3. FilesAre(files, Put(Prepared, "out.log", none))
    BY <2>1, FilesLooked
  <2>4. PipeOf(c, none, "out.log", "REACHED", files)
    BY <1>1, <2>1
  <2> QED
    BY <2>2, <2>3, <2>4, TextsAre, PipePasses
<1>2. CASE PipeOf(c, Fetched, "update.log", "RELOADING", FetchFiles)
  <2>1. PICK text, files : text = Fetched /\ files = FetchFiles
    OBVIOUS
  <2>2. "RELOADING" \notin ToSet(text)
    BY <2>1, TextsAre
  <2>3. text \in Seq(Texts) /\ Len(text) <= 1
    BY <2>1, TextsFacts, TextsAre
  <2>4. FilesAre(files, Put(Prepared, "update.log", text))
    BY <2>1, FetchFilesKept
  <2>5. PipeOf(c, text, "update.log", "RELOADING", files)
    BY <1>2, <2>1
  <2> QED
    BY <2>2, <2>3, <2>4, <2>5, TextsAre, PipePasses
<1> QED
  BY <1>1, <1>2

LEMMA AllPass ==
    ASSUME RecordInv, VerdictInv, NoFaults, DOMAIN observations = DOMAIN CASES
    PROVE  Verdict
<1> SUFFICES ASSUME NEW i \in DOMAIN CASES PROVE check(i)
  BY DEF Verdict
<1>1. PICK c : c = CASES[i]
  OBVIOUS
<1>2. Listed(c)
  BY <1>1, CasesListed
<1>3. CASE Exits7(c)
  BY <1>1, <1>3, ExitsPass
<1>4. CASE \/ PipeOf(c, << >>, "out.log", "REACHED", {})
           \/ PipeOf(c, Fetched, "update.log", "RELOADING", FetchFiles)
  BY <1>1, <1>4, PipesPass
<1>5. CASE GpgPublished(c) \/ GpgPublishedTrip(c) \/ GpgCorrected(c) \/ GpgCorrectedTrip(c)
  BY <1>1, <1>5, GpgPublishedPasses, GpgPublishedTripPasses, GpgCorrectedPasses,
     GpgCorrectedTripPasses
<1>6. CASE CurlPublished(c) \/ CurlCorrected(c) \/ CurlWithBody(c) \/ CurlAllowed(c)
  BY <1>1, <1>6, CurlPasses
<1>7. CASE \E help : PiholePublished(c, help) \/ PiholeHelp(c, help)
  BY <1>1, <1>7, PiholePasses
<1> QED
  BY <1>2, <1>3, <1>4, <1>5, <1>6, <1>7 DEF Listed

-----------------------------------------------------------------------------
LEMMA Between == \A m, n \in Nat : m + 1 > n /\ m + 1 <= n + 1 => m = n
OBVIOUS

LEMMA Explained == RecordInv /\ VerdictInv => StatusExplained
<1> SUFFICES ASSUME RecordInv, VerdictInv PROVE StatusExplained
  OBVIOUS
<1>1. ASSUME status \in {0, 3} PROVE DOMAIN observations = DOMAIN CASES
  <2>1. PICK S : observations \in Seq(S)
    BY DEF RecordInv, ProcessInv
  <2>2. Len(CASES) \in Nat /\ DOMAIN CASES = 1..Len(CASES)
    BY CasesFacts, LenProperties DEF CasesOK
  <2>3. Len(observations) \in Nat /\ DOMAIN observations = 1..Len(observations)
    BY <2>1, LenProperties
  <2>4. case > Len(CASES) /\ case <= Len(CASES) + 1 /\ case = Len(observations) + 1
    BY <1>1 DEF VerdictInv, case
  <2>5. PICK m, n : m = Len(observations) /\ n = Len(CASES)
    OBVIOUS
  <2>6. m \in Nat /\ n \in Nat /\ m + 1 > n /\ m + 1 <= n + 1
    BY <2>2, <2>3, <2>4, <2>5
  <2>7. m = n
    BY <2>6, Between
  <2> QED
    BY <2>2, <2>3, <2>5, <2>7
<1>2. ASSUME status = 0, NEW i \in DOMAIN CASES PROVE Vouched(i)
  BY <1>1, <1>2, AllVouched DEF VerdictInv
<1>3. ASSUME status = 3 PROVE faults # << >>
  BY <1>1, <1>3, AllPass DEF VerdictInv, NoFaults
<1> QED
  BY <1>2, <1>3 DEF StatusExplained, Vouched

\* Status 0 vouches for the finding of the lab, and status 3 is given only when
\* a case went another way: the check of run.py agrees with what the commands did.
THEOREM StatusIsExplained == Spec => []StatusExplained
<1>1. Init => RecordInv /\ VerdictInv
  BY InitRecord, InitVerdict
<1>2. RecordInv /\ VerdictInv /\ [Next]_vars => (RecordInv /\ VerdictInv)'
  BY NextRecord, NextVerdict
<1> QED
  BY <1>1, <1>2, Explained, PTL DEF Spec
=============================================================================
