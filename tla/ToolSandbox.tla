---------------------------- MODULE ToolSandbox ----------------------------
(***************************************************************************)
(* How the agent's tools are confined and how a run attests it:            *)
(* runtime/hermes_tool_sandbox/sitecustomize.py in the Hermes process,     *)
(* runtime/sandbox/sandbox-run and landlock-run.c around every tool call,  *)
(* the trace they all append to, and its two readers, verify_sandbox_trace *)
(* of the runner and verify_cognitive_trace of the aggregator.             *)
(*                                                                         *)
(* The system call filter itself is module Seccomp.  Python processes that *)
(* Hermes starts on the host load the hook too (helpers).  An exception in *)
(* the hook is printed by Python's site module, and the process goes on    *)
(* with as much of the hook as is in place.  The kernel is external: what  *)
(* it demands of the launcher's steps is KernelAllows, and a PID namespace *)
(* whose first process ends is emptied before that process can be reaped   *)
(* (BackgroundDies, NamespaceEnds).                                        *)
(***************************************************************************)
EXTENDS Naturals, Sequences, FiniteSets

CONSTANTS Helpers,     \* the Python processes Hermes may start
          Calls,       \* the tool calls it may make, some at once
          MaxAgents,   \* bound on agents constructed in one launch (subagents)
          MaxLaunches  \* bound on launches of Hermes over one trace (a resumed run)

ASSUME ToolSandboxOK == MaxAgents \in Nat /\ MaxLaunches \in Nat

VARIABLES
    hermes,      \* the Hermes process
    hook,        \* how much of the hook it has: nothing, agent, tools, record
    launches, agents,
    helpers,     \* for each helper, whether it was started and left a record
    trace,       \* tool-sandbox.jsonl, one kind per line
    at,          \* where each call is: idle, a stage, running, bare (unconfined), over
    passed,      \* the stages each call has passed
    refusal,     \* why a call was refused, "" if it was not
    shell,       \* the call's launcher: none, live, over for Hermes, or killed alone
    wrapper,     \* its unshare process: none, live, returned or killed
    init,        \* its first process in the PID namespace: none, live, ending or dead
    background,  \* whether a process it put in the background lives
    bare,        \* the calls that were made without the launcher (history)
    linked       \* whether the workspace holds a symbolic link
host == <<hermes, hook, launches, agents, helpers>>
processes == <<shell, wrapper, init, background>>
calls == <<at, passed, refusal, processes, bare>>
vars == <<host, trace, calls, linked>>

\* Of sandbox-run's shell, of unshare ("namespaces"), and then of landlock-run, which is
\* the first process in the namespaces.
Stages ==
    <<"helper", "marker", "entries", "command", "limits", "stdin", "namespaces",
      "ruleset", "privileges", "restrict", "descriptors", "seccomp">>
Position(stage) == CHOOSE i \in 1..Len(Stages) : Stages[i] = stage
StageSet == {Stages[i] : i \in 1..Len(Stages)}
ShellStages == {"helper", "marker", "entries", "command", "limits", "stdin"}

Init ==
    /\ hermes = "none" /\ hook = "nothing" /\ launches = 0 /\ agents = 0
    /\ helpers = [h \in Helpers |-> "none"]
    /\ trace = <<>>
    /\ at = [c \in Calls |-> "idle"] /\ passed = [c \in Calls |-> {}]
    /\ refusal = [c \in Calls |-> ""]
    /\ shell = [c \in Calls |-> "none"] /\ wrapper = [c \in Calls |-> "none"]
    /\ init = [c \in Calls |-> "none"] /\ background = [c \in Calls |-> FALSE]
    /\ bare = {} /\ linked = FALSE

-----------------------------------------------------------------------------
(* The Hermes process.                                                     *)

Launch ==
    /\ hermes \in {"none", "killed"} /\ launches < MaxLaunches
    /\ hermes' = "starting" /\ hook' = "nothing" /\ launches' = launches + 1 /\ agents' = 0
    /\ UNCHANGED <<helpers, trace, calls, linked>>

\* Mutant: the record of the hook is written by the first tool call instead.
InstallSilently ==
    /\ hermes = "starting"
    /\ \/ hermes' = "running" /\ hook' \in {"nothing", "agent", "tools", "record"}
       \/ hermes' = "failed" /\ UNCHANGED hook
    /\ UNCHANGED <<launches, agents, helpers, trace, calls, linked>>

\* Mutant: the record is written before the tool backend is replaced.
InstallRecordsEarly ==
    /\ hermes = "starting"
    /\ \/ hermes' = "running" /\ hook' \in {"agent", "tools", "record"} /\ trace' = Append(trace, "hook")
       \/ hermes' = "running" /\ hook' = "nothing" /\ UNCHANGED trace
       \/ hermes' = "failed" /\ UNCHANGED <<hook, trace>>
    /\ UNCHANGED <<launches, agents, helpers, calls, linked>>

\* _install: the agent's constructor and the tool backend are replaced, then the record
\* is written.  Wrong paths or credentials end the process with 126; any later exception
\* leaves it running with what was replaced by then.
Install ==
    /\ hermes = "starting"
    /\ \/ hermes' = "running" /\ hook' = "record" /\ trace' = Append(trace, "hook")
       \/ hermes' = "running" /\ hook' \in {"nothing", "agent", "tools"} /\ UNCHANGED trace
       \/ hermes' = "failed" /\ UNCHANGED <<hook, trace>>
    /\ UNCHANGED <<launches, agents, helpers, calls, linked>>

\* isolated_agent_init, where it is in place; a second agent in the same process writes a
\* second record.
Construct ==
    /\ hermes = "running" /\ agents < MaxAgents /\ agents' = agents + 1
    /\ trace' = IF hook = "nothing" THEN trace ELSE Append(trace, "cognitive")
    /\ UNCHANGED <<hermes, hook, launches, helpers, calls, linked>>

\* A helper installs the hook too; it may end or go on without its record.
StartHelper(h) ==
    /\ hermes = "running" /\ helpers[h] = "none"
    /\ \/ helpers' = [helpers EXCEPT ![h] = "recorded"] /\ trace' = Append(trace, "hook")
       \/ helpers' = [helpers EXCEPT ![h] = "silent"] /\ UNCHANGED trace
    /\ UNCHANGED <<hermes, hook, launches, agents, calls, linked>>

\* sandboxed_run_bash: Popen of sandbox-run in a session of its own.  Where it is not in
\* place Hermes' own _run_bash executes the command as it is.
RunBash(c) ==
    /\ hermes = "running" /\ agents > 0 /\ at[c] = "idle"
    /\ shell' = [shell EXCEPT ![c] = "live"]
    /\ \/ hook \in {"tools", "record"} /\ at' = [at EXCEPT ![c] = "helper"] /\ UNCHANGED bare
       \/ hook \in {"nothing", "agent"} /\ at' = [at EXCEPT ![c] = "bare"] /\ bare' = bare \cup {c}
    /\ UNCHANGED <<host, trace, passed, refusal, wrapper, init, background, linked>>

\* Hermes returns 0 only with an agent, and when its calls have come back; or it is
\* killed, and its calls go on.
HermesEnds ==
    /\ hermes = "running"
    /\ \/ hermes' = "zero" /\ agents > 0 /\ \A c \in Calls : shell[c] # "live"
       \/ hermes' = "killed"
    /\ UNCHANGED <<hook, launches, agents, helpers, trace, calls, linked>>

-----------------------------------------------------------------------------
(* sandbox-run and landlock-run.                                           *)

\* die(), 125: the process of the stage exits.
Refused(c, stage, why) ==
    /\ at' = [at EXCEPT ![c] = "over"] /\ refusal' = [refusal EXCEPT ![c] = why]
    /\ shell' = [shell EXCEPT ![c] = IF stage \in ShellStages THEN "over" ELSE @]
    /\ wrapper' = [wrapper EXCEPT ![c] = IF stage = "namespaces" THEN "returned" ELSE @]
    /\ init' = [init EXCEPT ![c] = IF @ = "live" THEN "ending" ELSE @]
    /\ UNCHANGED <<host, trace, passed, background, bare, linked>>

\* What the kernel demands: restricting needs the rule set's descriptor and no new
\* privileges; a filter needs no new privileges.
KernelAllows(c, stage) ==
    CASE stage = "restrict" -> {"ruleset", "privileges"} \subseteq passed[c] /\ "descriptors" \notin passed[c]
      [] stage = "seccomp" -> "privileges" \in passed[c]
      [] OTHER -> TRUE

\* Mutant: the command is executed without a filter.
ReachesUnfiltered(c, stage) ==
    IF stage = "descriptors" THEN "running" ELSE Stages[Position(stage) + 1]

\* Mutant: the inherited descriptors are closed before Landlock restricts.
ReachesSwapped(c, stage) ==
    CASE stage = "privileges" -> "descriptors"
      [] stage = "descriptors" -> "restrict"
      [] stage = "restrict" -> "seccomp"
      [] stage = "seccomp" -> "running"
      [] OTHER -> Stages[Position(stage) + 1]

\* The stage after a stage; the last one executes the command.
Reaches(c, stage) == IF stage = "seccomp" THEN "running" ELSE Stages[Position(stage) + 1]

\* A stage passes: its check holds, its layer is in force.  The marker is appended, the
\* shell starts unshare, and unshare forks the first process of the namespaces.
Pass(c, stage) ==
    /\ at[c] = stage
    /\ stage = "entries" => ~linked
    /\ KernelAllows(c, stage)
    /\ at' = [at EXCEPT ![c] = Reaches(c, stage)]
    /\ passed' = [passed EXCEPT ![c] = @ \cup {stage}]
    /\ trace' = IF stage = "marker" THEN Append(trace, "activated") ELSE trace
    /\ wrapper' = [wrapper EXCEPT ![c] = IF stage = "stdin" THEN "live" ELSE @]
    /\ init' = [init EXCEPT ![c] = IF stage = "namespaces" THEN "live" ELSE @]
    /\ UNCHANGED <<host, refusal, shell, background, bare, linked>>

\* A link in the workspace, a demand of the kernel's, or a failure of the stage for
\* reasons outside the model (a helper with another digest, a low ABI, ...).
Die(c, stage) ==
    /\ at[c] = stage
    /\ \/ stage = "entries" /\ linked /\ Refused(c, stage, "link")
       \/ ~KernelAllows(c, stage) /\ Refused(c, stage, "kernel")
       \/ Refused(c, stage, "environment")

\* The command, confined or bare.
MakeLink(c) ==
    /\ at[c] \in {"running", "bare"} /\ ~linked /\ linked' = TRUE
    /\ UNCHANGED <<host, trace, calls>>
RemoveLink(c) ==
    /\ at[c] \in {"running", "bare"} /\ linked /\ linked' = FALSE
    /\ UNCHANGED <<host, trace, calls>>
PutInBackground(c) ==
    /\ at[c] = "running" /\ ~background[c]
    /\ background' = [background EXCEPT ![c] = TRUE]
    /\ UNCHANGED <<host, trace, at, passed, refusal, shell, wrapper, init, bare, linked>>

\* The confined command exits: the kernel ends what else is in the PID namespace, and the
\* process can be reaped when that is gone.
InitEnds(c) ==
    /\ at[c] = "running" /\ at' = [at EXCEPT ![c] = "over"]
    /\ init' = [init EXCEPT ![c] = "ending"]
    /\ UNCHANGED <<host, trace, passed, refusal, shell, wrapper, background, bare, linked>>
BackgroundDies(c) ==
    /\ init[c] = "ending" /\ background[c] /\ background' = [background EXCEPT ![c] = FALSE]
    /\ UNCHANGED <<host, trace, at, passed, refusal, shell, wrapper, init, bare, linked>>
NamespaceEnds(c) ==
    /\ init[c] = "ending" /\ ~background[c] /\ init' = [init EXCEPT ![c] = "dead"]
    /\ UNCHANGED <<host, trace, at, passed, refusal, shell, wrapper, background, bare, linked>>

\* unshare waits for the process it forked, and the shell for unshare.
UnshareReturns(c) ==
    /\ wrapper[c] = "live" /\ init[c] = "dead" /\ wrapper' = [wrapper EXCEPT ![c] = "returned"]
    /\ UNCHANGED <<host, trace, at, passed, refusal, shell, init, background, bare, linked>>
ShellReturns(c) ==
    /\ shell[c] = "live" /\ wrapper[c] \in {"returned", "killed"}
    /\ shell' = [shell EXCEPT ![c] = "over"]
    /\ UNCHANGED <<host, trace, at, passed, refusal, wrapper, init, background, bare, linked>>
BareReturns(c) ==
    /\ at[c] = "bare" /\ at' = [at EXCEPT ![c] = "over"] /\ shell' = [shell EXCEPT ![c] = "over"]
    /\ UNCHANGED <<host, trace, passed, refusal, wrapper, init, background, bare, linked>>

\* The shell is killed by itself: unshare and what it started go on.
ShellKilled(c) ==
    /\ shell[c] = "live" /\ at[c] # "bare" /\ shell' = [shell EXCEPT ![c] = "killed"]
    /\ at' = [at EXCEPT ![c] = IF @ \in ShellStages THEN "over" ELSE @]
    /\ UNCHANGED <<host, trace, passed, refusal, wrapper, init, background, bare, linked>>

\* Mutant: unshare without --kill-child.
UnshareKilledAlone(c) ==
    /\ wrapper[c] = "live" /\ wrapper' = [wrapper EXCEPT ![c] = "killed"]
    /\ at' = [at EXCEPT ![c] = IF @ = "namespaces" THEN "over" ELSE @]
    /\ UNCHANGED <<host, trace, passed, refusal, shell, init, background, bare, linked>>

\* unshare is killed, and with it the process it forked (--kill-child=KILL).
UnshareKilled(c) ==
    /\ wrapper[c] = "live" /\ wrapper' = [wrapper EXCEPT ![c] = "killed"]
    /\ init' = [init EXCEPT ![c] = IF @ = "live" THEN "ending" ELSE @]
    /\ at' = [at EXCEPT ![c] = "over"]
    /\ UNCHANGED <<host, trace, passed, refusal, shell, background, bare, linked>>

\* Hermes' time-out of a tool: SIGKILL to the launcher's group.
GroupKilled(c) ==
    /\ shell[c] = "live" /\ at[c] # "bare"
    /\ shell' = [shell EXCEPT ![c] = "over"] /\ at' = [at EXCEPT ![c] = "over"]
    /\ wrapper' = [wrapper EXCEPT ![c] = IF @ = "live" THEN "killed" ELSE @]
    /\ init' = [init EXCEPT ![c] = IF @ = "live" THEN "ending" ELSE @]
    /\ UNCHANGED <<host, trace, passed, refusal, background, bare, linked>>

Processes(c) ==
    \/ InitEnds(c) \/ BackgroundDies(c) \/ NamespaceEnds(c) \/ UnshareReturns(c)
    \/ ShellReturns(c) \/ BareReturns(c) \/ ShellKilled(c) \/ UnshareKilled(c) \/ GroupKilled(c)
Call(c) ==
    \/ RunBash(c) \/ \E stage \in StageSet : Pass(c, stage) \/ Die(c, stage)
    \/ MakeLink(c) \/ RemoveLink(c) \/ PutInBackground(c) \/ Processes(c)

Next ==
    \/ Launch \/ Install \/ Construct \/ HermesEnds
    \/ \E h \in Helpers : StartHelper(h)
    \/ \E c \in Calls : Call(c)

Spec == Init /\ [][Next]_vars

-----------------------------------------------------------------------------
(* The readers of the trace.                                               *)

Kinds == {"hook", "cognitive", "activated"}
Lines(kind, from) == {i \in from..Len(trace) : trace[i] = kind}

\* verify_sandbox_trace.
RunnerVerifies ==
    /\ trace # <<>> /\ trace[1] = "hook"
    /\ \E i \in 2..Len(trace) : Lines("cognitive", 2) = {i}
    /\ \A i \in 2..Len(trace) : trace[i] \in {"cognitive", "activated", "hook"}

\* verify_cognitive_trace.
AggregatorVerifies ==
    /\ trace # <<>> /\ trace[1] = "hook"
    /\ \E i \in 1..Len(trace) : Lines("cognitive", 1) = {i}
    /\ \A i \in 2..Len(trace) : trace[i] \in {"cognitive", "activated", "hook"}

-----------------------------------------------------------------------------
(* Properties.                                                             *)

TypeOK ==
    /\ hermes \in {"none", "starting", "running", "failed", "zero", "killed"}
    /\ hook \in {"nothing", "agent", "tools", "record"}
    /\ launches \in 0..MaxLaunches /\ agents \in 0..MaxAgents
    /\ helpers \in [Helpers -> {"none", "silent", "recorded"}] /\ linked \in BOOLEAN
    /\ \A i \in 1..Len(trace) : trace[i] \in Kinds
    /\ at \in [Calls -> StageSet \cup {"idle", "running", "bare", "over"}]
    /\ passed \in [Calls -> SUBSET StageSet]
    /\ refusal \in [Calls -> {"", "link", "kernel", "environment"}]
    /\ shell \in [Calls -> {"none", "live", "over", "killed"}]
    /\ wrapper \in [Calls -> {"none", "live", "returned", "killed"}]
    /\ init \in [Calls -> {"none", "live", "ending", "dead"}] /\ background \in [Calls -> BOOLEAN]
    /\ bare \subseteq Calls
    /\ \A c \in Calls : at[c] = "running" => passed[c] = StageSet

\* A run whose one launch returned 0 with one agent, and whose hook got as far as its
\* record, has a trace that both readers accept, however its helpers and its concurrent
\* tool calls wrote to it, and refused ones among them.
GoodRunVerifies ==
    hermes = "zero" /\ hook = "record" /\ launches = 1 /\ agents = 1
        => RunnerVerifies /\ AggregatorVerifies

\* A trace that verifies, of one launch none of whose helpers left a record, is of a run
\* that made no tool call around the launcher, although Hermes goes on with half a hook.  (A
\* helper's record, or an earlier launch's, would stand in for the one that is missing.)
VerifiedIsConfined ==
    RunnerVerifies /\ launches = 1 /\ (\A h \in Helpers : helpers[h] # "recorded") => bare = {}

\* The two readers, written twice, agree on every trace a run can leave, so that what
\* the runner counts as completed the aggregator does not reject.
ReadersAgree == RunnerVerifies <=> AggregatorVerifies

\* The stages do not get in each other's way: no call is refused by the kernel for the
\* order in which the launcher asks.
NoSelfRefusal == \A c \in Calls : refusal[c] # "kernel"

\* A call that came back to Hermes, returned, refused or killed with its group, has no
\* process that the kernel has not been told to end, and none at all if unshare returned;
\* also when unshare was killed under it.  A launcher's shell that was killed by itself
\* is not claimed: its command runs on.
NothingOutlives ==
    \A c \in Calls : shell[c] = "over" =>
        /\ init[c] # "live" /\ (background[c] => init[c] = "ending")
        /\ wrapper[c] = "returned" => init[c] \in {"none", "dead"}
=============================================================================
