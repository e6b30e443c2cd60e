----------------------------- MODULE ApprovalArms -----------------------------
(***************************************************************************)
(* labs/approval-scope/run.mjs: what the arms of the experiment show.      *)
(* Each arm runs one install command under strace in a fresh workspace,    *)
(* reads the trace and the markers that lifecycle scripts left, then runs  *)
(* git commit.  The controls come first, and a control that fails ends the *)
(* experiment.                                                             *)
(*                                                                         *)
(* npm, pnpm, strace and the sandbox are external.  An install may be      *)
(* refused, start nothing and say that all is well, run scripts that it    *)
(* was told to leave out, fail, or last until its timeout: then strace is  *)
(* killed and what it had started goes on without it.  A trace is the list *)
(* of the programs in it; ApprovalTrace is about how they get there.       *)
(***************************************************************************)
EXTENDS Integers, Sequences, SequencesExt, FiniteSets

CONSTANT MaxFaults                          \* how much may go another way (bound)

ASSUME ApprovalArmsAssumption == MaxFaults \in Nat

Arm(name, tool, control, allowDepBuild) ==
    [name |-> name, tool |-> tool, control |-> control, allowDepBuild |-> allowDepBuild]

ARMS == <<
    Arm("npm-install-ignore-scripts", "npm", TRUE, FALSE),
    Arm("npm-ci-ignore-scripts", "npm", TRUE, FALSE),
    Arm("pnpm-install-ignore-scripts", "pnpm", TRUE, FALSE),
    Arm("npm-install", "npm", FALSE, FALSE),
    Arm("npm-ci", "npm", FALSE, FALSE),
    Arm("npm-install-foreground-scripts", "npm", FALSE, FALSE),
    Arm("pnpm-install", "pnpm", FALSE, FALSE),
    Arm("pnpm-install-dep-allowed", "pnpm", FALSE, TRUE)>>

SANDBOX_ARMS == {"npm-install-ignore-scripts", "npm-install", "pnpm-install"}

\* The lifecycle scripts of the fixture: two leave markers, one installs a hook.
Canaries == {"dep:postinstall", "app:postinstall"}
AllScripts == <<"dep:postinstall", "app:postinstall", "prepare">>

Scripts(arm) ==
    IF arm.control THEN << >>
    ELSE IF arm.tool = "pnpm" /\ ~arm.allowDepBuild THEN Tail(AllScripts)
    ELSE AllScripts

\* The elements of s that are in S, in their order.
Only(s, S) ==
    LET kept[i \in 0..Len(s)] ==
            IF i = 0 THEN << >>
            ELSE IF s[i] \in S THEN Append(kept[i - 1], s[i]) ELSE kept[i - 1]
    IN  kept[Len(s)]

VARIABLES
    sandbox,            \* the mode of the experiment
    denied,             \* what the sandbox denies: "outside", "hook"
    observations,       \* the arms so far, in order
    pc,                 \* observe is at "install", "running", "trace", "markers" or "commit"
    plan,               \* the scripts that the install has still to run
    script,             \* the one that runs, or ""
    ran,                \* those that ran in this arm
    traced,             \* the programs in the trace file
    exit,               \* how the install ended, or Running
    disk,               \* the markers in the workspace and outside it, and the hook
    noted,              \* what was read of the install so far
    faults,             \* what went another way, and in which arm
    status              \* the exit status, or Running

armsVars == <<sandbox, denied, observations, pc, plan, script, ran, traced, exit, disk, noted,
              faults, status>>
install == <<plan, script, ran, disk>>
fixed == <<sandbox, denied, observations, status>>

Running == -1
Null == -2                                  \* the exit code of a process that was killed

Controls == {a \in ToSet(ARMS) : a.control}
InSandbox == {a \in ToSet(ARMS) : a.name \in SANDBOX_ARMS}

\* The controls first.
Ordered(arms) == Only(arms, Controls) \o Only(arms, ToSet(ARMS) \ Controls)

Names == Ordered(IF sandbox THEN Only(ARMS, InSandbox) ELSE ARMS)
Current == Names[Len(observations) + 1]

Clean == [inside |-> {}, outside |-> {}, hook |-> FALSE]
Unread == [exit |-> Running, traceCaptured |-> FALSE, processesStarted |-> 0,
           lifecycleScripts |-> << >>, markersInside |-> {}, markersOutside |-> {},
           preCommitHookPresent |-> FALSE]

ArmsInit ==
    /\ sandbox \in BOOLEAN
    /\ denied \in IF sandbox THEN SUBSET {"outside", "hook"} ELSE {{}}
    /\ observations = << >>
    /\ pc = "install"
    /\ plan = << >> /\ script = "" /\ ran = << >>
    /\ traced = << >> /\ exit = Running
    /\ disk = Clean /\ noted = Unread
    /\ faults = {}
    /\ status = Running

-----------------------------------------------------------------------------
(* The install command.                                                      *)

Fault(kind) ==
    /\ Cardinality(faults) < MaxFaults
    /\ faults' = faults \cup {[arm |-> Current.name, kind |-> kind]}

Start ==
    /\ pc = "install" /\ status = Running
    /\ \/ UNCHANGED faults /\ plan' = Scripts(Current)
       \/ Fault("scripts") /\ plan' = AllScripts
    /\ traced' = <<Current.tool>>
    /\ pc' = "running"
    /\ UNCHANGED <<sandbox, denied, observations, script, ran, exit, disk, noted, status>>

\* Nothing is started: the sandbox cannot be built, or says that all is well.
StartsNothing ==
    /\ pc = "install" /\ status = Running
    /\ Fault("nothing")
    /\ exit' \in {0, 1}
    /\ pc' = "trace"
    /\ UNCHANGED <<fixed, install, traced, noted>>

\* A script is started as sh -c, traced as long as strace runs.
ScriptStarts ==
    /\ plan # << >> /\ script = "" /\ status = Running
    /\ script' = Head(plan) /\ plan' = Tail(plan)
    /\ ran' = Append(ran, Head(plan))
    /\ traced' = IF exit = Running THEN Append(Append(traced, "sh"), Head(plan)) ELSE traced
    /\ UNCHANGED <<fixed, pc, exit, disk, noted, faults>>

\* canary.js and install-hook.js: a denied write is no failure.
ScriptEnds ==
    /\ script # "" /\ status = Running
    /\ disk' = [inside |-> disk.inside \cup ({script} \cap Canaries),
                outside |-> disk.outside
                            \cup IF "outside" \in denied THEN {} ELSE {script} \cap Canaries,
                hook |-> disk.hook \/ (script = "prepare" /\ "hook" \notin denied)]
    /\ script' = ""
    /\ UNCHANGED <<fixed, pc, plan, ran, traced, exit, noted, faults>>

InstallEnds ==
    /\ pc = "running"
    /\ plan = << >> /\ script = ""
    /\ exit' = 0
    /\ pc' = "trace"
    /\ UNCHANGED <<fixed, install, traced, noted, faults>>

InstallFails ==
    /\ pc = "running"
    /\ script = ""
    /\ Fault("fails")
    /\ exit' = 1
    /\ plan' = << >>
    /\ pc' = "trace"
    /\ UNCHANGED <<fixed, script, ran, traced, disk, noted>>

\* spawnSync kills strace, or the sandbox around it; what was started may go on,
\* untraced.
Timeout ==
    /\ pc = "running"
    /\ Fault("timeout")
    /\ exit' = Null
    /\ pc' = "trace"
    /\ UNCHANGED <<fixed, install, traced, noted>>

-----------------------------------------------------------------------------
(* The record of an arm.                                                     *)

\* What a package manager hands to sh -c.
scriptCommands(programs) == Only(programs, ToSet(AllScripts))

ReadTrace ==
    /\ pc = "trace"
    /\ noted' = [noted EXCEPT !.exit = exit, !.traceCaptured = traced # << >>,
                               !.processesStarted = Len(traced),
                               !.lifecycleScripts = scriptCommands(traced)]
    /\ pc' = "markers"
    /\ UNCHANGED <<fixed, install, traced, exit, faults>>

ReadMarkers ==
    /\ pc = "markers"
    /\ noted' = [noted EXCEPT !.markersInside = disk.inside, !.markersOutside = disk.outside,
                               !.preCommitHookPresent = disk.hook]
    /\ pc' = "commit"
    /\ UNCHANGED <<fixed, install, traced, exit, faults>>

FaultyControlFailed(o) ==                   \* Faulty: trusts the trace of any control
    \/ ~o.install.traceCaptured \/ o.install.processesStarted = 0
    \/ o.install.lifecycleScripts # << >>
    \/ o.install.markersInside # {} \/ o.install.markersOutside # {}
ControlFailed(o) ==
    \/ o.install.exit # 0 \/ ~o.install.traceCaptured \/ o.install.processesStarted = 0
    \/ o.install.lifecycleScripts # << >>
    \/ o.install.markersInside # {} \/ o.install.markersOutside # {}

FaultyRemoved == disk                       \* Faulty: the arms share a workspace
Removed == Clean

\* git commit runs the hook if there is one by now; the workspace is removed and
\* main looks at the arm.  `ran` is kept to tell what happened.
Commit ==
    /\ pc = "commit" /\ status = Running
    /\ LET o == [arm |-> Current, control |-> Current.control, install |-> noted,
                 hookRan |-> disk.hook, ran |-> ran]
       IN  /\ observations' = Append(observations, o)
           /\ status' = IF o.control /\ ControlFailed(o) THEN 3
                        ELSE IF Len(observations) + 1 = Len(Names) THEN 0 ELSE Running
    /\ disk' = Removed
    /\ plan' = << >> /\ script' = "" /\ ran' = << >>
    /\ traced' = << >> /\ exit' = Running /\ noted' = Unread
    /\ pc' = "install"
    /\ UNCHANGED <<sandbox, denied, faults>>

\* rmSync throws when a script that was left behind writes meanwhile.
RemoveFails ==
    /\ pc = "commit" /\ status = Running
    /\ script # ""
    /\ status' = 1
    /\ UNCHANGED <<sandbox, denied, observations, pc, install, traced, exit, noted, faults>>

ArmsNext ==
    \/ Start \/ StartsNothing \/ ScriptStarts \/ ScriptEnds
    \/ InstallEnds \/ InstallFails \/ Timeout
    \/ ReadTrace \/ ReadMarkers \/ Commit \/ RemoveFails

ArmsSpec == ArmsInit /\ [][ArmsNext]_armsVars

-----------------------------------------------------------------------------
\* README.md (approval-scope) "Controls run first ...", run.mjs:239-240: a whole
\* record means that every control was really installed and that, traced or not,
\* no script ran in it, also after the lab had looked; and no other arm ran
\* before that was known.  An experiment is stopped only by a control in which
\* something went another way.
ControlsVouch ==
    /\ \A i \in DOMAIN observations :
        ~observations[i].control =>
            \A a \in ToSet(Names) : a.control =>
                \E j \in 1..(i - 1) : /\ observations[j].arm = a
                                      /\ observations[j].install.exit = 0
                                      /\ observations[j].install.processesStarted > 0
                                      /\ observations[j].ran = << >>
    /\ status = 3 => \E f \in faults : f.arm = Last(observations).arm.name

\* The record of an arm whose install ended by itself is complete: the scripts
\* that ran, in order, the markers they could leave, and a hook that then runs
\* exactly if it was seen.  If the install was killed, the trace is still no
\* more than a beginning, and nothing is seen that no script had done.
TrueOf(o) ==
    LET left == ToSet(o.ran) \cap Canaries
        hooked == "prepare" \in ToSet(o.ran) /\ "hook" \notin denied
    IN  IF o.install.exit # Null
        THEN /\ o.install.lifecycleScripts = o.ran
             /\ o.install.markersInside = left
             /\ o.install.markersOutside = IF "outside" \in denied THEN {} ELSE left
             /\ o.install.preCommitHookPresent = hooked /\ o.hookRan = hooked
        ELSE /\ IsPrefix(o.install.lifecycleScripts, o.ran)
             /\ o.install.markersInside \subseteq left
             /\ o.install.markersOutside \subseteq left
             /\ o.install.preCommitHookPresent => o.hookRan
             /\ o.hookRan => hooked

\* Every record is true: of whatever was installed, and whatever went wrong.
ArmTrue == \A i \in DOMAIN observations : TrueOf(observations[i])
=============================================================================
