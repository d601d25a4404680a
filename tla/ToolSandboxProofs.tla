-------------------------- MODULE ToolSandboxProofs --------------------------
(***************************************************************************)
(* Theorems about ToolSandbox, for any number of tool calls, of helper     *)
(* processes, of agents and of launches, and about Seccomp, the filter its *)
(* last stage installs, for any system calls and clone flags beside those  *)
(* the file names.  The two modules share no state.                        *)
(***************************************************************************)
EXTENDS ToolSandbox, Seccomp, TLAPS

USE ToolSandboxOK DEF ToolSandboxOK

-----------------------------------------------------------------------------
(* The order of the stages.                                                *)

\* The stages before the i-th.
Before(i) == {Stages[j] : j \in 1..(i - 1)}

LEMMA StagesAre ==
    /\ Len(Stages) = 12
    /\ Stages[1] = "helper" /\ Stages[2] = "marker" /\ Stages[3] = "entries"
    /\ Stages[4] = "command" /\ Stages[5] = "limits" /\ Stages[6] = "stdin"
    /\ Stages[7] = "namespaces" /\ Stages[8] = "ruleset" /\ Stages[9] = "privileges"
    /\ Stages[10] = "restrict" /\ Stages[11] = "descriptors" /\ Stages[12] = "seccomp"
  BY DEF Stages

\* No stage comes twice.
LEMMA StagesDiffer == \A i, j \in 1..12 : Stages[i] = Stages[j] => i = j
  BY StagesAre

LEMMA PositionOf == \A i \in 1..12 : Position(Stages[i]) = i
  <1>1. SUFFICES ASSUME NEW i \in 1..12 PROVE Position(Stages[i]) = i
    OBVIOUS
  <1>2. \E j \in 1..Len(Stages) : Stages[j] = Stages[i]
    BY StagesAre
  <1>3. /\ Position(Stages[i]) \in 1..12
        /\ Stages[Position(Stages[i])] = Stages[i]
    BY <1>2, StagesAre DEF Position
  <1>4. QED
    BY <1>3, StagesDiffer

\* Where a call is after the i-th stage.
LEMMA ReachesNext ==
    ASSUME NEW c \in Calls, NEW i \in 1..12
    PROVE  Reaches(c, Stages[i]) = IF i = 12 THEN "running" ELSE Stages[i + 1]
  <1>1. Stages[i] = "seccomp" <=> i = 12
    BY StagesAre, StagesDiffer
  <1>2. QED
    BY <1>1, PositionOf DEF Reaches

LEMMA BeforeNext ==
    /\ Before(1) = {} /\ StageSet = Before(12) \cup {Stages[12]}
    /\ \A i \in 1..11 : Before(i + 1) = Before(i) \cup {Stages[i]}
  <1>1. Before(1) = {}
    BY DEF Before
  <1>2. StageSet = Before(12) \cup {Stages[12]}
    BY StagesAre DEF Before, StageSet
  <1>3. ASSUME NEW i \in 1..11
        PROVE  Before(i + 1) = Before(i) \cup {Stages[i]}
    <2>1. 1..((i + 1) - 1) = 1..(i - 1) \cup {i}
      OBVIOUS
    <2>2. QED
      BY <2>1 DEF Before
  <1>4. QED
    BY <1>1, <1>2, <1>3

\* At its stage, the launcher has done what the kernel demands of it.
LEMMA KernelSatisfied ==
    ASSUME NEW c \in Calls, NEW i \in 1..12, passed[c] = Before(i)
    PROVE  KernelAllows(c, Stages[i])
  <1>1. ASSUME NEW j \in 1..12 PROVE Stages[j] \in Before(i) <=> j < i
    BY StagesAre, StagesDiffer DEF Before
  <1>2. CASE i = 10
    <2>1. {"ruleset", "privileges"} \subseteq Before(i) /\ "descriptors" \notin Before(i)
      BY <1>1, <1>2, StagesAre
    <2>2. QED
      BY <1>2, <2>1, StagesAre DEF KernelAllows
  <1>3. CASE i = 12
    <2>1. "privileges" \in Before(i)
      BY <1>1, <1>3, StagesAre
    <2>2. QED
      BY <1>3, <2>1, StagesAre DEF KernelAllows
  <1>4. CASE i \notin {10, 12}
    <2>1. Stages[i] # "restrict" /\ Stages[i] # "seccomp"
      BY <1>4, StagesAre, StagesDiffer
    <2>2. QED
      BY <2>1 DEF KernelAllows
  <1>5. QED
    BY <1>2, <1>3, <1>4

-----------------------------------------------------------------------------
(* One call: the stages it has passed are those before the one it is at,   *)
(* and of its processes each lives no longer than the one that waits for   *)
(* it, or is ended with it.                                                *)

Places == StageSet \cup {"idle", "running", "bare", "over"}
Refusals == {"", "link", "environment"}

CallsOK ==
    /\ at \in [Calls -> Places]
    /\ passed \in [Calls -> SUBSET StageSet]
    /\ refusal \in [Calls -> Refusals]
    /\ shell \in [Calls -> {"none", "live", "over", "killed"}]
    /\ wrapper \in [Calls -> {"none", "live", "returned", "killed"}]
    /\ init \in [Calls -> {"none", "live", "ending", "dead"}] /\ background \in [Calls -> BOOLEAN]
    /\ bare \subseteq Calls

\* The stages of landlock-run.
InitStages == {"ruleset", "privileges", "restrict", "descriptors", "seccomp"}

StagesInv(c) ==
    /\ at[c] = "idle" => passed[c] = {}
    /\ \A i \in 1..12 : at[c] = Stages[i] => passed[c] = Before(i)
    /\ at[c] = "running" => passed[c] = StageSet

ProcessInv(c) ==
    /\ at[c] = "idle" => shell[c] = "none"
    /\ at[c] \in ShellStages \cup {"idle", "bare"} => wrapper[c] = "none" /\ init[c] = "none"
    /\ at[c] = "namespaces" => wrapper[c] = "live" /\ init[c] = "none"
    /\ at[c] \in InitStages \cup {"running"} => wrapper[c] = "live" /\ init[c] = "live"
    /\ at[c] = "over" => init[c] # "live"
    /\ wrapper[c] = "live" => at[c] \in {"namespaces"} \/ init[c] # "none"
    /\ wrapper[c] = "returned" => init[c] \in {"none", "dead"}
    /\ shell[c] = "over" => at[c] = "over" /\ wrapper[c] # "live"
    /\ background[c] => init[c] \in {"live", "ending"}

CallsInv == CallsOK /\ \A c \in Calls : StagesInv(c) /\ ProcessInv(c)

LEMMA PlacesDiffer ==
    \A i \in 1..12 : /\ Stages[i] \in StageSet
                     /\ Stages[i] \notin {"idle", "running", "bare", "over"}
  BY StagesAre DEF StageSet

LEMMA StageIs == \A stage \in StageSet : \E i \in 1..12 : stage = Stages[i]
  BY StagesAre DEF StageSet

LEMMA StageSets == StageSet = ShellStages \cup {"namespaces"} \cup InitStages
  <1>1. StageSet = {Stages[1], Stages[2], Stages[3], Stages[4], Stages[5], Stages[6], Stages[7],
                    Stages[8], Stages[9], Stages[10], Stages[11], Stages[12]}
    BY StagesAre DEF StageSet
  <1>2. QED
    BY <1>1, StagesAre DEF ShellStages, InitStages

\* Whose stage it is that follows a stage.
LEMMA NextPlace ==
    ASSUME NEW c \in Calls, NEW stage \in StageSet
    PROVE  /\ stage \in ShellStages \ {"stdin"} => Reaches(c, stage) \in ShellStages
           /\ stage = "stdin" => Reaches(c, stage) = "namespaces"
           /\ stage = "namespaces" => Reaches(c, stage) \in InitStages
           /\ stage \in InitStages => Reaches(c, stage) \in InitStages \cup {"running"}
  <1>1. PICK i \in 1..12 : stage = Stages[i]
    BY StageIs
  <1>2. QED
    BY <1>1, ReachesNext, StagesAre DEF ShellStages, InitStages

\* A step of call c leaves the other calls alone.
LEMMA OtherCalls ==
    ASSUME CallsInv, NEW c \in Calls, CallsOK', StagesInv(c)', ProcessInv(c)',
           \A d \in Calls \ {c} : /\ at'[d] = at[d] /\ passed'[d] = passed[d]
                                  /\ shell'[d] = shell[d] /\ wrapper'[d] = wrapper[d]
                                  /\ init'[d] = init[d] /\ background'[d] = background[d]
    PROVE  CallsInv'
  <1>1. ASSUME NEW d \in Calls \ {c} PROVE StagesInv(d)' /\ ProcessInv(d)'
    <2>1. StagesInv(d) /\ ProcessInv(d)
      BY DEF CallsInv
    <2>2. StagesInv(d)'
      BY <2>1 DEF StagesInv
    <2>3. ProcessInv(d)'
      BY <2>1 DEF ProcessInv
    <2>4. QED
      BY <2>2, <2>3
  <1>2. QED
    BY <1>1 DEF CallsInv

LEMMA PassKeeps ==
    ASSUME CallsInv, NEW c \in Calls, NEW stage \in StageSet, Pass(c, stage)
    PROVE  CallsInv'
  <1>1. PICK i \in 1..12 : stage = Stages[i]
    BY StageIs
  <1>2. at[c] = Stages[i] /\ passed[c] = Before(i) /\ at' = [at EXCEPT ![c] = Reaches(c, stage)]
        /\ passed' = [passed EXCEPT ![c] = @ \cup {stage}]
        /\ wrapper' = [wrapper EXCEPT ![c] = IF stage = "stdin" THEN "live" ELSE @]
        /\ init' = [init EXCEPT ![c] = IF stage = "namespaces" THEN "live" ELSE @]
        /\ UNCHANGED <<refusal, shell, background, bare>>
    BY <1>1 DEF Pass, CallsInv, StagesInv
  <1>3. at'[c] = IF i = 12 THEN "running" ELSE Stages[i + 1]
    BY <1>1, <1>2, ReachesNext DEF CallsInv, CallsOK
  <1>4. passed'[c] = IF i = 12 THEN StageSet ELSE Before(i + 1)
    BY <1>1, <1>2, BeforeNext DEF CallsInv, CallsOK
  <1>5. CallsOK'
    <2>1. at'[c] \in Places
      BY <1>3, PlacesDiffer DEF Places
    <2>2. Reaches(c, stage) \in Places
      BY <1>2, <2>1 DEF CallsInv, CallsOK
    <2>3. QED
      BY <1>2, <2>2 DEF CallsInv, CallsOK
  <1>6. StagesInv(c)'
    <2>1. CASE i = 12
      BY <1>3, <1>4, <2>1, PlacesDiffer DEF StagesInv
    <2>2. CASE i # 12
      <3>1. i + 1 \in 1..12 /\ at'[c] = Stages[i + 1] /\ passed'[c] = Before(i + 1)
        BY <1>3, <1>4, <2>2
      <3>2. \A j \in 1..12 : at'[c] = Stages[j] => j = i + 1
        BY <3>1, StagesDiffer
      <3>3. QED
        BY <3>1, <3>2, PlacesDiffer DEF StagesInv
    <2>3. QED
      BY <2>1, <2>2
  <1>7. ProcessInv(c)'
    <2>1. /\ at'[c] = Reaches(c, stage) /\ at[c] = stage
          /\ shell'[c] = shell[c] /\ background'[c] = background[c]
          /\ wrapper'[c] = IF stage = "stdin" THEN "live" ELSE wrapper[c]
          /\ init'[c] = IF stage = "namespaces" THEN "live" ELSE init[c]
          /\ ProcessInv(c)
      BY <1>1, <1>2 DEF CallsInv, CallsOK
    <2>2. CASE stage \in ShellStages \ {"stdin"}
      BY <2>1, <2>2, NextPlace DEF ProcessInv, ShellStages, InitStages
    <2>3. CASE stage = "stdin"
      BY <2>1, <2>3, NextPlace DEF ProcessInv, ShellStages, InitStages
    <2>4. CASE stage = "namespaces"
      BY <2>1, <2>4, NextPlace DEF ProcessInv, ShellStages, InitStages
    <2>5. CASE stage \in InitStages
      BY <2>1, <2>5, NextPlace DEF ProcessInv, ShellStages, InitStages
    <2>6. QED
      BY <2>2, <2>3, <2>4, <2>5, StageSets
  <1>8. QED
    BY <1>2, <1>5, <1>6, <1>7, OtherCalls DEF CallsInv, CallsOK

LEMMA DieKeeps ==
    ASSUME CallsInv, NEW c \in Calls, NEW stage \in StageSet, Die(c, stage)
    PROVE  CallsInv'
  <1>1. PICK i \in 1..12 : stage = Stages[i]
    BY StageIs
  <1>2. at[c] = stage /\ passed[c] = Before(i)
    BY <1>1 DEF Die, CallsInv, StagesInv
  <1>3. KernelAllows(c, stage)
    BY <1>1, <1>2, KernelSatisfied
  <1>4. PICK why \in {"link", "environment"} : Refused(c, stage, why)
    BY <1>3 DEF Die
  <1>5. CallsOK'
    BY <1>4 DEF CallsInv, CallsOK, Refused, Places, Refusals
  <1>6. at'[c] = "over"
    BY <1>4 DEF CallsInv, CallsOK, Refused
  <1>7. StagesInv(c)'
    BY <1>6, PlacesDiffer DEF StagesInv
  <1>8. ProcessInv(c)'
    <2>1. /\ shell'[c] = IF stage \in ShellStages THEN "over" ELSE shell[c]
          /\ wrapper'[c] = IF stage = "namespaces" THEN "returned" ELSE wrapper[c]
          /\ init'[c] = IF init[c] = "live" THEN "ending" ELSE init[c]
          /\ background'[c] = background[c] /\ ProcessInv(c)
      BY <1>4 DEF CallsInv, CallsOK, Refused
    <2>2. CASE stage \in ShellStages
      BY <1>2, <1>6, <2>1, <2>2 DEF ProcessInv, ShellStages, InitStages
    <2>3. CASE stage = "namespaces"
      BY <1>2, <1>6, <2>1, <2>3 DEF ProcessInv, ShellStages, InitStages
    <2>4. CASE stage \in InitStages
      BY <1>2, <1>6, <2>1, <2>4 DEF ProcessInv, ShellStages, InitStages
    <2>5. QED
      BY <2>2, <2>3, <2>4, StageSets
  <1>9. QED
    BY <1>4, <1>5, <1>7, <1>8, OtherCalls DEF CallsInv, CallsOK, Refused

\* The tool call starts.
LEMMA RunBashKeeps ==
    ASSUME CallsInv, NEW c \in Calls, RunBash(c)
    PROVE  CallsInv'
  <1>1. /\ at[c] = "idle" /\ at' = [at EXCEPT ![c] = at'[c]] /\ at'[c] \in {Stages[1], "bare"}
        /\ shell' = [shell EXCEPT ![c] = "live"] /\ bare' \subseteq Calls
        /\ UNCHANGED <<passed, refusal, wrapper, init, background>>
    BY StagesAre DEF RunBash, CallsInv, CallsOK
  <1>2. CallsOK'
    BY <1>1, PlacesDiffer DEF CallsInv, CallsOK, Places
  <1>3. passed'[c] = Before(1)
    BY <1>1, BeforeNext DEF CallsInv, StagesInv
  <1>4. StagesInv(c)'
    <2>1. CASE at'[c] = Stages[1]
      <3>1. ASSUME NEW j \in 1..12, at'[c] = Stages[j] PROVE j = 1
        <4>1. Stages[1] = Stages[j] /\ 1 \in 1..12
          BY <2>1, <3>1
        <4>2. QED
          BY <4>1, StagesDiffer
      <3>2. QED
        BY <1>3, <2>1, <3>1, PlacesDiffer DEF StagesInv
    <2>2. CASE at'[c] = "bare"
      BY <2>2, PlacesDiffer DEF StagesInv
    <2>3. QED
      BY <1>1, <2>1, <2>2
  <1>5. ProcessInv(c)'
    <2>1. at'[c] \in {"helper", "bare"} /\ shell'[c] = "live" /\ ProcessInv(c)
      BY <1>1, StagesAre DEF CallsInv, CallsOK
    <2>2. QED
      BY <1>1, <2>1 DEF ProcessInv, ShellStages, InitStages
  <1>6. QED
    BY <1>1, <1>2, <1>4, <1>5, OtherCalls DEF CallsInv, CallsOK

\* The command works.
LEMMA CommandKeeps ==
    ASSUME CallsInv, NEW c \in Calls, MakeLink(c) \/ RemoveLink(c) \/ PutInBackground(c)
    PROVE  CallsInv'
  <1>1. CASE MakeLink(c) \/ RemoveLink(c)
    BY <1>1 DEF CallsInv, CallsOK, StagesInv, ProcessInv, MakeLink, RemoveLink, calls, processes
  <1>2. CASE PutInBackground(c)
    <2>1. CallsOK'
      BY <1>2 DEF CallsInv, CallsOK, PutInBackground
    <2>2. StagesInv(c)'
      BY <1>2 DEF CallsInv, StagesInv, PutInBackground
    <2>3. ProcessInv(c)'
      BY <1>2 DEF CallsInv, CallsOK, ProcessInv, PutInBackground
    <2>4. QED
      BY <1>2, <2>1, <2>2, <2>3, OtherCalls DEF CallsInv, CallsOK, PutInBackground
  <1>3. QED
    BY <1>1, <1>2

\* Nothing happens to a call before Hermes makes it.
LEMMA CallsStarted ==
    ASSUME CallsInv, NEW c \in Calls, Call(c), at[c] = "idle"
    PROVE  hermes = "running"
  <1>1. shell[c] = "none" /\ wrapper[c] = "none" /\ init[c] = "none" /\ "idle" \notin StageSet
    BY StageSets DEF CallsInv, ProcessInv, ShellStages, InitStages
  <1>2. QED
    BY <1>1 DEF Call, RunBash, Pass, Die, MakeLink, RemoveLink, PutInBackground, Processes,
           InitEnds, BackgroundDies, NamespaceEnds, UnshareReturns, ShellReturns, BareReturns,
           ShellKilled, UnshareKilled, GroupKilled

\* Its processes end, are returned from, or are killed.
LEMMA ProcessesKeep ==
    ASSUME CallsInv, NEW c \in Calls, Processes(c)
    PROVE  CallsInv'
  <1>1. CallsOK'
    BY DEF CallsInv, CallsOK, Places, Processes, InitEnds, BackgroundDies, NamespaceEnds,
           UnshareReturns, ShellReturns, BareReturns, ShellKilled, UnshareKilled, GroupKilled
  <1>2. at'[c] \in {at[c], "over"} /\ UNCHANGED passed
    BY DEF CallsInv, CallsOK, Processes, InitEnds, BackgroundDies, NamespaceEnds,
           UnshareReturns, ShellReturns, BareReturns, ShellKilled, UnshareKilled, GroupKilled
  <1>3. StagesInv(c)'
    BY <1>2, PlacesDiffer DEF CallsInv, StagesInv
  <1>4. ProcessInv(c)'
    <2>1. ProcessInv(c)
      BY DEF CallsInv
    <2>2. CASE InitEnds(c) \/ BackgroundDies(c) \/ NamespaceEnds(c)
      BY <2>1, <2>2 DEF ProcessInv, CallsInv, CallsOK, InitEnds, BackgroundDies, NamespaceEnds,
                        ShellStages, InitStages
    <2>3. CASE UnshareReturns(c) \/ ShellReturns(c) \/ BareReturns(c)
      <3>1. at[c] \in Places
        BY DEF CallsInv, CallsOK
      <3>2. QED
        BY <2>1, <2>3, <3>1, StageSets DEF ProcessInv, CallsInv, CallsOK, Places, UnshareReturns, ShellReturns,
                          BareReturns, ShellStages, InitStages
    <2>4. CASE ShellKilled(c)
      BY <2>1, <2>4 DEF ProcessInv, CallsInv, CallsOK, ShellKilled, ShellStages, InitStages
    <2>5. CASE UnshareKilled(c) \/ GroupKilled(c)
      BY <2>1, <2>5 DEF ProcessInv, CallsInv, CallsOK, UnshareKilled, GroupKilled, ShellStages,
                        InitStages
    <2>6. QED
      BY <2>2, <2>3, <2>4, <2>5 DEF Processes
  <1>5. QED
    BY <1>1, <1>3, <1>4, OtherCalls
       DEF CallsInv, CallsOK, Processes, InitEnds, BackgroundDies, NamespaceEnds,
           UnshareReturns, ShellReturns, BareReturns, ShellKilled, UnshareKilled, GroupKilled

LEMMA NextCallsInv == CallsInv /\ [Next]_vars => CallsInv'
  <1>1. ASSUME CallsInv, NEW c \in Calls, Call(c)
        PROVE  CallsInv'
    BY <1>1, PassKeeps, DieKeeps, RunBashKeeps, CommandKeeps, ProcessesKeep DEF Call
  <1>2. ASSUME CallsInv,
               \/ Launch \/ Install \/ Construct \/ HermesEnds
               \/ \E h \in Helpers : StartHelper(h)
               \/ UNCHANGED vars
        PROVE  CallsInv'
    <2>1. UNCHANGED <<at, passed, refusal, shell, wrapper, init, background, bare>>
      BY <1>2 DEF Launch, Install, Construct, HermesEnds, StartHelper, vars, calls, processes
    <2>2. QED
      BY <1>2, <2>1 DEF CallsInv, CallsOK, StagesInv, ProcessInv
  <1>3. QED
    BY <1>1, <1>2 DEF Next

LEMMA InitCallsInv == Init => CallsInv
  <1>1. ASSUME Init PROVE CallsOK
    <2>1. "idle" \in Places /\ "" \in Refusals
      BY DEF Places, Refusals
    <2>2. QED
      BY <1>1, <2>1 DEF Init, CallsOK
  <1>2. ASSUME Init, NEW c \in Calls PROVE StagesInv(c) /\ ProcessInv(c)
    BY <1>2, PlacesDiffer DEF Init, StagesInv, ProcessInv, ShellStages, InitStages
  <1>3. QED
    BY <1>1, <1>2 DEF CallsInv

\* Each call has passed exactly the stages before the one it is at, and each of its
\* processes is there exactly as long as the others allow.
THEOREM CallsCorrect == Spec => []CallsInv
  BY InitCallsInv, NextCallsInv, PTL DEF Spec

\* The stages do not get in each other's way: whatever the calls do at once, none is
\* refused for the order in which its launcher asks the kernel.
THEOREM StagesAgree == Spec => []NoSelfRefusal
  <1>1. CallsInv => NoSelfRefusal
    BY DEF CallsInv, CallsOK, Refusals, NoSelfRefusal
  <1>2. QED
    BY <1>1, CallsCorrect, PTL

\* A call that came back, refused, returned or killed with its group, leaves no process
\* that the kernel is not ending: the shell comes back after unshare, and unshare takes
\* the namespaces' first process along or has waited for it.
THEOREM CallsLeaveNothing == Spec => []NothingOutlives
  <1>1. CallsInv => NothingOutlives
    <2>1. ASSUME CallsInv, NEW c \in Calls, shell[c] = "over"
          PROVE  /\ init[c] # "live" /\ (background[c] => init[c] = "ending")
                 /\ wrapper[c] = "returned" => init[c] \in {"none", "dead"}
      BY <2>1 DEF CallsInv, ProcessInv
    <2>2. QED
      BY <2>1 DEF NothingOutlives
  <1>2. QED
    BY <1>1, CallsCorrect, PTL

-----------------------------------------------------------------------------
(* Types.                                                                  *)

TraceOK == trace \in Seq(Kinds)

HostOK ==
    /\ hermes \in {"none", "starting", "running", "failed", "zero", "killed"}
    /\ hook \in {"nothing", "agent", "tools", "record"}
    /\ launches \in 0..MaxLaunches /\ agents \in 0..MaxAgents
    /\ helpers \in [Helpers -> {"none", "silent", "recorded"}] /\ linked \in BOOLEAN

\* What is appended to the trace.
LEMMA Writers ==
    ASSUME [Next]_vars
    PROVE  trace' = trace \/ \E kind \in Kinds : trace' = Append(trace, kind)
  <1>1. CASE Launch \/ Install \/ Construct \/ HermesEnds
    BY <1>1 DEF Launch, Install, Construct, HermesEnds, Kinds
  <1>2. CASE \E h \in Helpers : StartHelper(h)
    BY <1>2 DEF StartHelper, Kinds
  <1>3. ASSUME NEW c \in Calls, NEW stage \in StageSet, Pass(c, stage) \/ Die(c, stage)
        PROVE  trace' = trace \/ \E kind \in Kinds : trace' = Append(trace, kind)
    BY <1>3 DEF Pass, Die, Refused, Kinds
  <1>4. ASSUME NEW c \in Calls,
               RunBash(c) \/ MakeLink(c) \/ RemoveLink(c) \/ PutInBackground(c) \/ Processes(c)
        PROVE  trace' = trace
    BY <1>4 DEF RunBash, MakeLink, RemoveLink, PutInBackground, Processes,
                InitEnds, BackgroundDies, NamespaceEnds, UnshareReturns, ShellReturns,
                BareReturns, ShellKilled, UnshareKilled, GroupKilled
  <1>5. CASE UNCHANGED vars
    BY <1>5 DEF vars
  <1>6. QED
    BY <1>1, <1>2, <1>3, <1>4, <1>5 DEF Next, Call

LEMMA InitHostOK == Init => HostOK /\ TraceOK
  <1>1. ASSUME Init PROVE TraceOK
    <2>1. trace = <<>>
      BY <1>1, Zenon DEF Init
    <2>2. <<>> \in Seq(Kinds)
      OBVIOUS
    <2>3. QED
      BY <2>1, <2>2, Zenon DEF TraceOK
  <1>2. ASSUME Init PROVE HostOK
    <2>1. launches \in 0..MaxLaunches /\ agents \in 0..MaxAgents
      <3>1. launches = 0 /\ agents = 0
        BY <1>2, Zenon DEF Init
      <3>2. QED
        BY <3>1
    <2>2. hermes = "none" /\ hook = "nothing" /\ helpers \in [Helpers -> {"none", "silent", "recorded"}]
          /\ linked \in BOOLEAN
      BY <1>2 DEF Init
    <2>3. QED
      BY <2>1, <2>2 DEF HostOK
  <1>3. QED
    BY <1>1, <1>2

LEMMA NextHostOK == HostOK /\ TraceOK /\ [Next]_vars => HostOK' /\ TraceOK'
  <1>1. ASSUME HostOK, Launch \/ Install \/ Construct \/ HermesEnds
        PROVE  HostOK'
    BY <1>1 DEF HostOK, Launch, Install, Construct, HermesEnds
  <1>2. ASSUME HostOK, NEW h \in Helpers, StartHelper(h)
        PROVE  HostOK'
    BY <1>2 DEF HostOK, StartHelper
  <1>3. ASSUME HostOK, NEW c \in Calls, Call(c)
        PROVE  HostOK'
    BY <1>3 DEF HostOK, Call, RunBash, Pass, Die, Refused, MakeLink, RemoveLink,
                PutInBackground, Processes, InitEnds, BackgroundDies, NamespaceEnds,
                UnshareReturns, ShellReturns, BareReturns, ShellKilled, UnshareKilled,
                GroupKilled, host
  <1>4. ASSUME HostOK, UNCHANGED vars
        PROVE  HostOK'
    BY <1>4 DEF HostOK, vars, host
  <1>5. TraceOK /\ [Next]_vars => TraceOK'
    BY Writers DEF TraceOK
  <1>6. QED
    BY <1>1, <1>2, <1>3, <1>4, <1>5 DEF Next

\* Every variable keeps its type, and a command runs only behind every stage.
THEOREM TypeCorrect == Spec => []TypeOK
  <1>1. ASSUME HostOK, TraceOK, CallsInv
        PROVE  TypeOK
    <2>1. \A i \in 1..Len(trace) : trace[i] \in Kinds
      BY <1>1 DEF TraceOK
    <2>2. refusal \in [Calls -> {"", "link", "kernel", "environment"}]
      BY <1>1 DEF CallsInv, CallsOK, Refusals
    <2>3. QED
      BY <1>1, <2>1, <2>2 DEF HostOK, CallsInv, CallsOK, StagesInv, Places, TypeOK
  <1>2. QED
    BY <1>1, InitHostOK, NextHostOK, CallsCorrect, PTL DEF Spec

-----------------------------------------------------------------------------
(* The trace of one launch.  If the hook got as far as its record, that    *)
(* comes first, because nothing else appends before Hermes runs, and there *)
(* are as many records of an agent as agents were built.  If it did not,   *)
(* only a helper can have left a hook's record.                            *)

Records ==
    /\ trace # <<>> /\ trace[1] = "hook"
    /\ agents = 0 => Lines("cognitive", 1) = {}
    /\ agents = 1 => \E i \in 2..Len(trace) : Lines("cognitive", 1) = {i}
Silent == \A h \in Helpers : helpers[h] # "recorded"

TraceInv ==
    /\ TraceOK
    /\ launches = 0 <=> hermes = "none"
    /\ launches = 0 \/ (launches = 1 /\ hermes \in {"starting", "failed"})
           => hook = "nothing" /\ agents = 0 /\ trace = <<>> /\ bare = {} /\ \A c \in Calls : at[c] = "idle"
    /\ launches = 1 /\ hook = "record" => Records
    /\ launches = 1 /\ hook # "record" /\ Silent => Lines("hook", 1) = {}
    /\ launches = 1 /\ hook \in {"tools", "record"} => bare = {}

\* A line of another kind changes neither the first line nor the lines of a kind.
LEMMA AppendOther ==
    ASSUME TraceOK, NEW kind \in Kinds, NEW of \in Kinds \ {kind}, trace' = Append(trace, kind)
    PROVE  /\ Lines(of, 1)' = Lines(of, 1)
           /\ trace' # <<>> /\ trace'[1] = IF trace = <<>> THEN kind ELSE trace[1]
           /\ Len(trace') = Len(trace) + 1
  BY DEF TraceOK, Lines, Kinds

LEMMA AppendCognitive ==
    ASSUME TraceOK, trace # <<>>, trace' = Append(trace, "cognitive")
    PROVE  /\ Lines("cognitive", 1)' = Lines("cognitive", 1) \cup {Len(trace) + 1}
           /\ trace' # <<>> /\ trace'[1] = trace[1]
           /\ Len(trace') = Len(trace) + 1 /\ Len(trace) >= 1
  BY DEF TraceOK, Lines, Kinds

\* Lines that are not of agents leave the records as they are.
LEMMA RecordsStay ==
    ASSUME TraceOK, Records, NEW kind \in Kinds \ {"cognitive"}, UNCHANGED agents,
           trace' = Append(trace, kind) \/ trace' = trace
    PROVE  Records'
  <1>1. CASE trace' = Append(trace, kind)
    <2>1. /\ Lines("cognitive", 1)' = Lines("cognitive", 1)
          /\ trace' # <<>> /\ trace'[1] = "hook" /\ Len(trace') = Len(trace) + 1
      BY <1>1, AppendOther DEF Records, Kinds
    <2>2. 2..Len(trace) \subseteq 2..Len(trace')
      BY <2>1 DEF TraceOK
    <2>3. QED
      BY <2>1, <2>2 DEF Records
  <1>2. CASE trace' = trace
    BY <1>2 DEF Records, Lines
  <1>3. QED
    BY <1>1, <1>2

LEMMA NoLines == trace = <<>> => \A kind \in Kinds : Lines(kind, 1) = {}
  <1>1. trace = <<>> => 1..Len(trace) = {}
    OBVIOUS
  <1>2. QED
    BY <1>1 DEF Lines

LEMMA TraceHermes ==
    ASSUME TraceInv, HostOK, TraceOK',
           \/ Launch \/ Install \/ Construct \/ HermesEnds
           \/ \E h \in Helpers : StartHelper(h)
    PROVE  TraceInv'
  <1>1. CASE Launch
    <2>1. launches' = launches + 1 /\ hermes' = "starting" /\ hook' = "nothing" /\ agents' = 0
          /\ UNCHANGED <<helpers, trace, bare, at>>
      BY <1>1 DEF Launch, calls
    <2>2. launches' # 0 /\ (launches' = 1 => launches = 0)
      BY <2>1 DEF HostOK
    <2>3. launches' = 1 => trace' = <<>> /\ bare' = {} /\ \A c \in Calls : at'[c] = "idle"
      BY <2>1, <2>2 DEF TraceInv
    <2>4. launches' = 1 => Lines("hook", 1)' = {}
      <3>1. trace' = trace /\ Lines("hook", 1)' = Lines("hook", 1)
        BY <2>1 DEF Lines
      <3>2. QED
        BY <2>3, <3>1, NoLines DEF Kinds
    <2>5. QED
      BY <2>1, <2>2, <2>3, <2>4 DEF TraceInv
  <1>2. CASE Install
    <2>1. hermes = "starting" /\ hermes' \in {"running", "failed"}
          /\ UNCHANGED <<launches, agents, helpers, bare, at>>
      BY <1>2 DEF Install, calls
    <2>2. launches # 0
      BY <2>1 DEF TraceInv
    <2>3. CASE launches # 1
      BY <2>1, <2>2, <2>3 DEF TraceInv
    <2>4. CASE launches = 1
      <3>1. hook = "nothing" /\ agents = 0 /\ trace = <<>> /\ bare = {} /\ \A c \in Calls : at[c] = "idle"
        BY <2>1, <2>4 DEF TraceInv
      <3>2. Lines("hook", 1) = {} /\ Lines("cognitive", 1) = {}
        BY <3>1, NoLines DEF Kinds
      <3>3. CASE hermes' = "running" /\ hook' = "record" /\ trace' = Append(trace, "hook")
        <4>1. Lines("cognitive", 1)' = {} /\ trace' # <<>> /\ trace'[1] = "hook"
          BY <3>1, <3>2, <3>3, AppendOther DEF TraceInv, Kinds
        <4>2. Records'
          BY <2>1, <3>1, <4>1 DEF Records
        <4>3. QED
          BY <2>1, <2>2, <3>1, <3>3, <4>2 DEF TraceInv
      <3>4. CASE hook' # "record" /\ UNCHANGED trace /\ (hermes' = "failed" => UNCHANGED hook)
        <4>1. Lines("hook", 1)' = {}
          BY <3>2, <3>4 DEF Lines
        <4>2. QED
          BY <2>1, <2>2, <3>1, <3>4, <4>1 DEF TraceInv
      <3>5. QED
        BY <1>2, <3>1, <3>3, <3>4 DEF Install
    <2>5. QED
      BY <2>3, <2>4
  <1>3. CASE Construct
    <2>1. hermes = "running" /\ agents' = agents + 1 /\ UNCHANGED <<hermes, hook, launches, helpers, bare, at>>
          /\ trace' = IF hook = "nothing" THEN trace ELSE Append(trace, "cognitive")
      BY <1>3 DEF Construct, calls
    <2>2. agents' # 0 /\ (agents' = 1 => agents = 0)
      BY <2>1 DEF HostOK
    <2>3. launches = 1 /\ hook = "record" => Records'
      <3>1. SUFFICES ASSUME launches = 1, hook = "record" PROVE Records'
        OBVIOUS
      <3>2. Records /\ trace' = Append(trace, "cognitive")
        BY <2>1, <3>1 DEF TraceInv
      <3>3. /\ Lines("cognitive", 1)' = Lines("cognitive", 1) \cup {Len(trace) + 1}
            /\ trace' # <<>> /\ trace'[1] = trace[1]
            /\ Len(trace') = Len(trace) + 1 /\ Len(trace) >= 1
        BY <3>2, AppendCognitive DEF Records, TraceInv
      <3>4. Len(trace) + 1 \in 2..Len(trace')
        BY <3>3 DEF TraceInv, TraceOK
      <3>5. QED
        BY <2>2, <3>2, <3>3, <3>4 DEF Records
    <2>4. Lines("hook", 1)' = Lines("hook", 1)
      <3>1. CASE trace' = trace
        BY <3>1 DEF Lines
      <3>2. CASE trace' = Append(trace, "cognitive")
        BY <3>2, AppendOther DEF TraceInv, Kinds
      <3>3. QED
        BY <2>1, <3>1, <3>2
    <2>5. Silent' = Silent
      BY <2>1 DEF Silent
    <2>6. QED
      BY <2>1, <2>3, <2>4, <2>5 DEF TraceInv
  <1>4. CASE HermesEnds
    <2>1. hermes = "running" /\ hermes' \in {"zero", "killed"}
          /\ UNCHANGED <<hook, launches, agents, helpers, trace, bare, at>>
      BY <1>4 DEF HermesEnds, calls
    <2>2. QED
      BY <2>1 DEF TraceInv, Records, Silent, Lines
  <1>5. ASSUME NEW h \in Helpers, StartHelper(h) PROVE TraceInv'
    <2>1. hermes = "running" /\ UNCHANGED <<hermes, hook, launches, agents, bare, at>>
          /\ (trace' = Append(trace, "hook") \/ trace' = trace)
      BY <1>5 DEF StartHelper, calls
    <2>2. launches = 1 /\ hook = "record" => Records'
      BY <2>1, RecordsStay DEF TraceInv, Kinds
    <2>3. Silent' => Silent /\ trace' = trace
      BY <1>5 DEF StartHelper, Silent, HostOK
    <2>4. Silent' => Lines("hook", 1)' = Lines("hook", 1)
      BY <2>3 DEF Lines
    <2>5. QED
      BY <2>1, <2>2, <2>3, <2>4 DEF TraceInv
  <1>6. QED
    BY <1>1, <1>2, <1>3, <1>4, <1>5

LEMMA TraceCalls ==
    ASSUME TraceInv, TraceOK', CallsInv, NEW c \in Calls, Call(c)
    PROVE  TraceInv'
  <1>1. UNCHANGED <<hermes, hook, launches, agents, helpers>>
    BY DEF Call, RunBash, Pass, Die, Refused, MakeLink, RemoveLink, PutInBackground, Processes,
           InitEnds, BackgroundDies, NamespaceEnds, UnshareReturns, ShellReturns, BareReturns,
           ShellKilled, UnshareKilled, GroupKilled, host
  <1>2. trace' = trace \/ trace' = Append(trace, "activated")
    BY DEF Call, RunBash, Pass, Die, Refused, MakeLink, RemoveLink, PutInBackground, Processes,
           InitEnds, BackgroundDies, NamespaceEnds, UnshareReturns, ShellReturns, BareReturns,
           ShellKilled, UnshareKilled, GroupKilled
  <1>3. CASE launches = 0 \/ (launches = 1 /\ hermes \in {"starting", "failed"})
    <2>1. hermes # "running" /\ \A d \in Calls : at[d] = "idle"
      BY <1>3 DEF TraceInv
    <2>2. FALSE
      <3>1. at[c] = "idle"
        BY <2>1
      <3>2. QED
        BY <2>1, <3>1, CallsStarted
    <2>3. QED
      BY <2>2
  <1>4. CASE ~(launches = 0 \/ (launches = 1 /\ hermes \in {"starting", "failed"}))
    <2>1. launches = 1 /\ hook = "record" => Records'
      BY <1>1, <1>2, RecordsStay DEF TraceInv, Kinds
    <2>2. Lines("hook", 1)' = Lines("hook", 1)
      <3>1. CASE trace' = trace
        BY <3>1 DEF Lines
      <3>2. CASE trace' = Append(trace, "activated")
        BY <3>2, AppendOther DEF TraceInv, Kinds
      <3>3. QED
        BY <1>2, <3>1, <3>2
    <2>3. Silent' = Silent
      BY <1>1 DEF Silent
    <2>4. hook \in {"tools", "record"} => bare' = bare
      BY DEF Call, RunBash, Pass, Die, Refused, MakeLink, RemoveLink, PutInBackground, Processes,
             InitEnds, BackgroundDies, NamespaceEnds, UnshareReturns, ShellReturns, BareReturns,
             ShellKilled, UnshareKilled, GroupKilled, calls
    <2>5. QED
      BY <1>1, <1>4, <2>1, <2>2, <2>3, <2>4 DEF TraceInv
  <1>5. QED
    BY <1>3, <1>4

\* What is known of the trace of a single launch.
THEOREM TraceCorrect == Spec => []TraceInv
  <1>1. ASSUME Init PROVE TraceInv
    <2>1. trace = <<>>
      BY <1>1, Zenon DEF Init
    <2>2. /\ hermes = "none" /\ launches = 0 /\ hook = "nothing" /\ agents = 0 /\ bare = {}
          /\ \A c \in Calls : at[c] = "idle"
      BY <1>1 DEF Init
    <2>3. TraceOK
      BY <1>1, InitHostOK
    <2>4. QED
      BY <2>1, <2>2, <2>3 DEF TraceInv
  <1>2. TraceInv /\ HostOK /\ TraceOK' /\ CallsInv /\ [Next]_vars => TraceInv'
    <2>1. TraceInv /\ UNCHANGED vars => TraceInv'
      BY DEF TraceInv, TraceOK, Records, Silent, Lines, vars, host, calls
    <2>2. QED
      BY <2>1, TraceHermes, TraceCalls DEF Next
  <1>3. QED
    BY <1>1, <1>2, InitHostOK, NextHostOK, CallsCorrect, PTL DEF Spec

\* The records of agents of a trace that begins with the hook come after its first line.
LEMMA FirstIsHook ==
    ASSUME TraceOK, trace # <<>>, trace[1] = "hook"
    PROVE  /\ Lines("cognitive", 2) = Lines("cognitive", 1)
           /\ \A i \in 1..Len(trace) : Lines("cognitive", 1) = {i} => i \in 2..Len(trace)
           /\ \A i \in 2..Len(trace) : trace[i] \in {"cognitive", "activated", "hook"}
  BY DEF TraceOK, Lines, Kinds

\* A launch that returned 0 with the one agent it built, and whose hook left its record,
\* leaves a trace that the runner and the aggregator accept, whatever its helpers and its
\* calls appended.
THEOREM GoodRunsVerify == Spec => []GoodRunVerifies
  <1>1. TraceInv => GoodRunVerifies
    BY FirstIsHook
       DEF TraceInv, Records, GoodRunVerifies, RunnerVerifies, AggregatorVerifies
  <1>2. QED
    BY <1>1, TraceCorrect, PTL

\* A single launch whose trace verifies, without a helper's record in it, made no call
\* around the launcher: the first line can only be its own hook's, which is written when
\* the tools are confined.
THEOREM VerifiedConfined == Spec => []VerifiedIsConfined
  <1>1. TraceInv => VerifiedIsConfined
    <2>1. SUFFICES ASSUME TraceInv, RunnerVerifies, launches = 1, Silent PROVE bare = {}
      BY DEF VerifiedIsConfined, Silent
    <2>2. 1 \in Lines("hook", 1)
      BY <2>1 DEF RunnerVerifies, Lines, TraceInv, TraceOK
    <2>3. hook = "record"
      BY <2>1, <2>2 DEF TraceInv
    <2>4. QED
      BY <2>1, <2>3 DEF TraceInv
  <1>2. QED
    BY <1>1, TraceCorrect, PTL

\* The runner and the aggregator accept the same traces.
THEOREM ReadersCorrect == Spec => []ReadersAgree
  <1>1. TraceInv => ReadersAgree
    BY FirstIsHook DEF TraceInv, ReadersAgree, RunnerVerifies, AggregatorVerifies
  <1>2. QED
    BY <1>1, TraceCorrect, PTL

-----------------------------------------------------------------------------
(* The system call filter.  The invariant says what the machine knows at   *)
(* each instruction, so the program is laid out first: the ten instructions *)
(* at its head, then a test and a return for each name of five lists.      *)

\* The constants the instructions hold.
Keys == NamedCalls \cup {"", "arch", "x86_64", "nr", "flags", "KILL", "ENOSYS", "EPERM", "ALLOW"}
Instructions ==
    [op : {"load", "jeq", "and", "jzero", "ret"}, k : Keys, jt : 0..4, jf : 0..4]

\* Concatenation, instruction by instruction.
LEMMA Joined ==
    ASSUME NEW S, NEW s \in Seq(S), NEW t \in Seq(S)
    PROVE  /\ s \o t \in Seq(S) /\ Len(s \o t) = Len(s) + Len(t)
           /\ \A i \in 1..Len(s) : (s \o t)[i] = s[i]
           /\ \A i \in 1..Len(t) : (s \o t)[Len(s) + i] = t[i]
  OBVIOUS

LEMMA Zero == 0 \in 0..4
  OBVIOUS

LEMMA InstructionTypes ==
    ASSUME NEW k \in Keys, NEW i \in 0..4, NEW j \in 0..4
    PROVE  /\ Load(k) \in Instructions /\ Jeq(k, i, j) \in Instructions /\ Mask \in Instructions
           /\ JZero(i, j) \in Instructions /\ Ret(k) \in Instructions
  <1>1. "" \in Keys
    BY Zenon DEF Keys
  <1>2. Load(k) \in Instructions
    BY <1>1, Zero DEF Load, Instructions
  <1>3. Jeq(k, i, j) \in Instructions
    BY <1>1, Zero DEF Jeq, Instructions
  <1>4. Mask \in Instructions
    BY <1>1, Zero DEF Mask, Instructions
  <1>5. JZero(i, j) \in Instructions
    BY <1>1, Zero DEF JZero, Instructions
  <1>6. Ret(k) \in Instructions
    BY <1>1, Zero DEF Ret, Instructions
  <1>7. QED
    BY <1>2, <1>3, <1>4, <1>5, <1>6

LEMMA AnswersAre ==
    ASSUME NEW names \in Seq(NamedCalls), NEW k \in Keys
    PROVE  /\ Answers(names, k) \in Seq(Instructions)
           /\ Len(Answers(names, k)) = 2 * Len(names)
           /\ \A i \in 1..Len(names) : /\ Answers(names, k)[2 * i - 1] = Jeq(names[i], 0, 1)
                                       /\ Answers(names, k)[2 * i] = Ret(k)
  <1>1. \A i \in 1..2 * Len(names) : i % 2 = 1 => (i + 1) \div 2 \in 1..Len(names)
    OBVIOUS
  <1>2. \A j \in 1..Len(names) : names[j] \in Keys
    <2>1. \A j \in 1..Len(names) : names[j] \in NamedCalls
      OBVIOUS
    <2>2. QED
      BY <2>1 DEF Keys
  <1>3. ASSUME NEW i \in 1..2 * Len(names)
        PROVE  (IF i % 2 = 1 THEN Jeq(names[(i + 1) \div 2], 0, 1) ELSE Ret(k)) \in Instructions
    <2>1. CASE i % 2 = 1
      <3>1. names[(i + 1) \div 2] \in Keys
        BY <1>1, <1>2, <2>1
      <3>2. QED
        BY <2>1, <3>1, InstructionTypes
    <2>2. CASE i % 2 # 1
      BY <2>2, InstructionTypes
    <2>3. QED
      BY <2>1, <2>2
  <1>4. Answers(names, k) \in [1..2 * Len(names) -> Instructions]
    BY <1>3 DEF Answers
  <1>5. Len(names) \in Nat /\ 2 * Len(names) \in Nat
    OBVIOUS
  <1>6. Answers(names, k) \in Seq(Instructions) /\ Len(Answers(names, k)) = 2 * Len(names)
    BY <1>4, <1>5
  <1>7. ASSUME NEW i \in 1..Len(names)
        PROVE  /\ Answers(names, k)[2 * i - 1] = Jeq(names[i], 0, 1)
               /\ Answers(names, k)[2 * i] = Ret(k)
    <2>1. /\ 2 * i - 1 \in 1..2 * Len(names) /\ 2 * i \in 1..2 * Len(names)
      OBVIOUS
    <2>2. /\ (2 * i - 1) % 2 = 1 /\ (2 * i) % 2 = 0 /\ ((2 * i - 1) + 1) \div 2 = i
      OBVIOUS
    <2>3. QED
      BY <2>1, <2>2 DEF Answers
  <1>8. QED
    BY <1>6, <1>7

\* The lists the file names.
LEMMA NameLists ==
    /\ Len(Sockets) = 12 /\ Len(Mounting) = 11 /\ Len(Attributes) = 20 /\ Len(Kernel) = 12
    /\ <<"clone3">> \in Seq(NamedCalls) /\ Sockets \in Seq(NamedCalls)
    /\ Mounting \in Seq(NamedCalls) /\ Attributes \in Seq(NamedCalls)
    /\ Kernel \in Seq(NamedCalls)
  <1>1. Len(Sockets) = 12 /\ Len(Mounting) = 11 /\ Len(Attributes) = 20 /\ Len(Kernel) = 12
    BY DEF Sockets, Mounting, Attributes, Kernel
  <1>2. \A S, T : S \subseteq T => Seq(S) \subseteq Seq(T)
    OBVIOUS
  <1>3. Sockets \in Seq(Names(Sockets))
    BY DEF Sockets, Names
  <1>4. Mounting \in Seq(Names(Mounting))
    BY DEF Mounting, Names
  <1>5. Attributes \in Seq(Names(Attributes))
    BY DEF Attributes, Names
  <1>6. Kernel \in Seq(Names(Kernel))
    BY DEF Kernel, Names
  <1>7. <<"clone3">> \in Seq(NamedCalls)
    BY DEF NamedCalls
  <1>8. /\ Names(Sockets) \subseteq NamedCalls /\ Names(Mounting) \subseteq NamedCalls
        /\ Names(Attributes) \subseteq NamedCalls /\ Names(Kernel) \subseteq NamedCalls
    BY DEF NamedCalls
  <1>9. QED
    BY <1>1, <1>3, <1>4, <1>5, <1>6, <1>7, <1>8

LEMMA Heads ==
    /\ Architecture \in Seq(Instructions) /\ Len(Architecture) = 4
    /\ Clone \in Seq(Instructions) /\ Len(Clone) = 6
    /\ <<Ret("ALLOW")>> \in Seq(Instructions) /\ Len(<<Ret("ALLOW")>>) = 1
  <1>1. {"arch", "nr", "flags", "x86_64", "clone", "KILL", "EPERM", "ALLOW"} \subseteq Keys
    BY DEF Keys, NamedCalls
  <1>2. /\ Load("arch") \in Instructions /\ Jeq("x86_64", 1, 0) \in Instructions
        /\ Ret("KILL") \in Instructions /\ Load("nr") \in Instructions
        /\ Jeq("clone", 0, 4) \in Instructions /\ Load("flags") \in Instructions
        /\ Mask \in Instructions /\ JZero(1, 0) \in Instructions /\ Ret("EPERM") \in Instructions
        /\ Ret("ALLOW") \in Instructions
    BY <1>1, InstructionTypes
  <1>3. QED
    BY <1>2 DEF Architecture, Clone

\* No name has two answers.
LEMMA Disjoint ==
    /\ Names(Sockets) \cap (Names(Mounting) \cup Names(Attributes) \cup Names(Kernel)) = {}
    /\ {"clone", "clone3"} \cap (Names(Sockets) \cup Names(Mounting) \cup Names(Attributes)
                                   \cup Names(Kernel)) = {}
  BY DEF Names, Sockets, Mounting, Attributes, Kernel

\* A program of n instructions, and one program after another.
Program(s, n) == s \in Seq(Instructions) /\ Len(s) = n
Then(s, t) == s \o t

LEMMA Glued ==
    ASSUME NEW m \in Nat, NEW n \in Nat, NEW s, NEW t, Program(s, m), Program(t, n)
    PROVE  /\ Program(Then(s, t), m + n)
           /\ \A i \in 1..m : Then(s, t)[i] = s[i]
           /\ \A i \in 1..n : Then(s, t)[m + i] = t[i]
  <1>1. s \in Seq(Instructions) /\ t \in Seq(Instructions) /\ Len(s) = m /\ Len(t) = n
    BY DEF Program
  <1>2. QED
    BY <1>1 DEF Program, Then

\* From the instruction after the from-th, a test and a return for each of the names.
Segment(s, from, names, k) ==
    \A i \in 1..Len(names) : /\ s[from + 2 * i - 1] = Jeq(names[i], 0, 1)
                             /\ s[from + 2 * i] = Ret(k)

LEMMA SegmentAdded ==
    ASSUME NEW s, NEW n \in Nat, Program(s, n), NEW names \in Seq(NamedCalls), NEW k \in Keys
    PROVE  /\ Program(Answers(names, k), 2 * Len(names))
           /\ Program(Then(s, Answers(names, k)), n + 2 * Len(names))
           /\ Segment(Then(s, Answers(names, k)), n, names, k)
  <1> DEFINE a == Answers(names, k)
  <1>1. /\ Program(a, 2 * Len(names))
        /\ \A i \in 1..Len(names) : a[2 * i - 1] = Jeq(names[i], 0, 1) /\ a[2 * i] = Ret(k)
    BY AnswersAre DEF Program
  <1>2. Len(names) \in Nat /\ 2 * Len(names) \in Nat
    OBVIOUS
  <1> HIDE DEF a
  <1>3. /\ Program(Then(s, a), n + 2 * Len(names))
        /\ \A i \in 1..2 * Len(names) : Then(s, a)[n + i] = a[i]
    BY <1>1, <1>2, Glued
  <1>4. ASSUME NEW i \in 1..Len(names)
        PROVE  /\ Then(s, a)[n + 2 * i - 1] = Jeq(names[i], 0, 1)
               /\ Then(s, a)[n + 2 * i] = Ret(k)
    <2>1. 2 * i - 1 \in 1..2 * Len(names) /\ 2 * i \in 1..2 * Len(names)
      BY <1>2
    <2>2. n + 2 * i - 1 = n + (2 * i - 1)
      BY <1>2
    <2>3. QED
      BY <1>1, <1>3, <2>1, <2>2
  <1>5. Segment(Then(s, a), n, names, k)
    BY <1>4 DEF Segment
  <1>6. QED
    BY <1>1, <1>3, <1>5 DEF a

LEMMA SegmentKept ==
    ASSUME NEW m \in Nat, NEW n \in Nat, NEW s, NEW t, Program(s, m), Program(t, n),
           NEW names \in Seq(NamedCalls), NEW k, NEW from \in Nat,
           Segment(s, from, names, k), from + 2 * Len(names) <= m
    PROVE  Segment(Then(s, t), from, names, k)
  <1>1. \A i \in 1..m : Then(s, t)[i] = s[i]
    BY Glued
  <1>2. SUFFICES ASSUME NEW i \in 1..Len(names)
                 PROVE  /\ Then(s, t)[from + 2 * i - 1] = Jeq(names[i], 0, 1)
                        /\ Then(s, t)[from + 2 * i] = Ret(k)
    BY DEF Segment
  <1>3. from + 2 * i - 1 \in 1..m /\ from + 2 * i \in 1..m
    OBVIOUS
  <1>4. s[from + 2 * i - 1] = Jeq(names[i], 0, 1) /\ s[from + 2 * i] = Ret(k)
    BY DEF Segment
  <1>5. QED
    BY <1>1, <1>3, <1>4

\* The same for lists of known length, with the sums worked out.
Named(names, l) == names \in Seq(NamedCalls) /\ Len(names) = l

LEMMA AddedTo ==
    ASSUME NEW n \in Nat, NEW m \in Nat, NEW l \in Nat, NEW s, NEW names, NEW k \in Keys,
           Program(s, n), Named(names, l), m = n + 2 * l
    PROVE  /\ Program(Then(s, Answers(names, k)), m)
           /\ Segment(Then(s, Answers(names, k)), n, names, k)
  <1>1. names \in Seq(NamedCalls) /\ Len(names) = l
    BY DEF Named
  <1>2. /\ Program(Answers(names, k), 2 * Len(names))
        /\ Program(Then(s, Answers(names, k)), n + 2 * Len(names))
        /\ Segment(Then(s, Answers(names, k)), n, names, k)
    BY <1>1, SegmentAdded
  <1>3. 2 * Len(names) \in Nat /\ n + 2 * Len(names) = m
    BY <1>1
  <1>4. QED
    BY <1>2, <1>3

LEMMA AnswersProgram ==
    ASSUME NEW names, NEW l \in Nat, NEW k \in Keys, Named(names, l)
    PROVE  \E j \in Nat : Program(Answers(names, k), j)
  <1>1. names \in Seq(NamedCalls) /\ Len(names) = l
    BY DEF Named
  <1>2. 2 * Len(names) \in Nat
    BY <1>1
  <1>3. QED
    BY <1>1, <1>2, AnswersAre DEF Program

LEMMA KeptIn ==
    ASSUME NEW m \in Nat, NEW l \in Nat, NEW from \in Nat, NEW s, NEW t, NEW names, NEW k,
           Program(s, m), \E j \in Nat : Program(t, j), Named(names, l),
           Segment(s, from, names, k), from + 2 * l <= m
    PROVE  Segment(Then(s, t), from, names, k)
  <1>1. names \in Seq(NamedCalls) /\ Len(names) = l
    BY DEF Named
  <1>2. PICK j \in Nat : Program(t, j)
    OBVIOUS
  <1>3. from + 2 * Len(names) <= m
    BY <1>1
  <1>4. QED
    BY <1>1, <1>2, <1>3, SegmentKept

LEMMA Lists ==
    /\ Named(<<"clone3">>, 1) /\ Named(Sockets, 12) /\ Named(Mounting, 11)
    /\ Named(Attributes, 20) /\ Named(Kernel, 12)
  BY NameLists DEF Named

LEMMA Sums ==
    /\ 1 \in Nat /\ 10 \in Nat /\ 11 \in Nat /\ 12 \in Nat /\ 20 \in Nat /\ 36 \in Nat
    /\ 58 \in Nat /\ 98 \in Nat /\ 122 \in Nat
    /\ 12 = 10 + 2 * 1 /\ 36 = 12 + 2 * 12 /\ 58 = 36 + 2 * 11 /\ 98 = 58 + 2 * 20
    /\ 122 = 98 + 2 * 12
    /\ 10 + 2 * 1 <= 12 /\ 10 + 2 * 1 <= 36 /\ 10 + 2 * 1 <= 58 /\ 10 + 2 * 1 <= 98
    /\ 10 + 2 * 1 <= 122
    /\ 12 + 2 * 12 <= 36 /\ 12 + 2 * 12 <= 58 /\ 12 + 2 * 12 <= 98 /\ 12 + 2 * 12 <= 122
    /\ 36 + 2 * 11 <= 58 /\ 36 + 2 * 11 <= 98 /\ 36 + 2 * 11 <= 122
    /\ 58 + 2 * 20 <= 98 /\ 58 + 2 * 20 <= 122 /\ 98 + 2 * 12 <= 122
  OBVIOUS

\* What is returned for a socket call.
SocketAnswer(allowed) == IF allowed THEN "ALLOW" ELSE "EPERM"

LEMMA HeadPrograms ==
    Program(Architecture, 4) /\ Program(Clone, 6) /\ Program(<<Ret("ALLOW")>>, 1)
  BY Heads DEF Program

\* The whole program, instruction by instruction.
LEMMA Layout ==
    ASSUME NEW b \in BOOLEAN
    PROVE  /\ Filters[b][1] = Load("arch") /\ Filters[b][2] = Jeq("x86_64", 1, 0)
           /\ Filters[b][3] = Ret("KILL") /\ Filters[b][4] = Load("nr")
           /\ Filters[b][5] = Jeq("clone", 0, 4) /\ Filters[b][6] = Load("flags")
           /\ Filters[b][7] = Mask /\ Filters[b][8] = JZero(1, 0)
           /\ Filters[b][9] = Ret("EPERM") /\ Filters[b][10] = Load("nr")
           /\ Segment(Filters[b], 10, <<"clone3">>, "ENOSYS")
           /\ Segment(Filters[b], 12, Sockets, SocketAnswer(b))
           /\ Segment(Filters[b], 36, Mounting, "EPERM")
           /\ Segment(Filters[b], 58, Attributes, "EPERM")
           /\ Segment(Filters[b], 98, Kernel, "EPERM")
           /\ Filters[b][123] = Ret("ALLOW") /\ Len(Filters[b]) = 123
  <1> DEFINE s0 == Then(Architecture, Clone)
             c3 == <<"clone3">>
             a1 == Answers(c3, "ENOSYS")
             a2 == Answers(Sockets, SocketAnswer(b))
             a3 == Answers(Mounting, "EPERM")
             a4 == Answers(Attributes, "EPERM")
             a5 == Answers(Kernel, "EPERM")
             last == <<Ret("ALLOW")>>
             s1 == Then(s0, a1)
             s2 == Then(s1, a2)
             s3 == Then(s2, a3)
             s4 == Then(s3, a4)
             s5 == Then(s4, a5)
             s6 == Then(s5, last)
  <1>1. Filters[b] = s6
    BY DEF Filters, Filter, SocketAnswer, Then
  <1>2. "ENOSYS" \in Keys /\ "EPERM" \in Keys /\ "ALLOW" \in Keys /\ SocketAnswer(b) \in Keys
    BY DEF Keys, SocketAnswer
  <1>3. Named(c3, 1)
    BY Lists
  <1> HIDE DEF s0, c3, a1, a2, a3, a4, a5, last, s1, s2, s3, s4, s5, s6
  <1>4. Program(s0, 10)
    BY HeadPrograms, Glued DEF s0
  <1>a. /\ \E j \in Nat : Program(a1, j)
        /\ \E j \in Nat : Program(a2, j)
        /\ \E j \in Nat : Program(a3, j)
        /\ \E j \in Nat : Program(a4, j)
        /\ \E j \in Nat : Program(a5, j)
    BY <1>2, <1>3, Lists, Sums, AnswersProgram DEF a1, a2, a3, a4, a5
  <1>5. Program(s1, 12) /\ Segment(s1, 10, c3, "ENOSYS")
    <2>1. 12 = 10 + 2 * 1 /\ 10 \in Nat /\ 12 \in Nat /\ 1 \in Nat
      OBVIOUS
    <2>2. Program(s0, 10) /\ Named(c3, 1) /\ "ENOSYS" \in Keys
      BY <1>2, <1>3, <1>4, Lists
    <2>3. QED
      BY <2>1, <2>2, AddedTo DEF s1, a1
  <1>6. Program(s2, 36) /\ Segment(s2, 12, Sockets, SocketAnswer(b))
    <2>1. 36 = 12 + 2 * 12 /\ 12 \in Nat /\ 36 \in Nat /\ 12 \in Nat
      OBVIOUS
    <2>2. Program(s1, 12) /\ Named(Sockets, 12) /\ SocketAnswer(b) \in Keys
      BY <1>2, <1>3, <1>5, Lists
    <2>3. QED
      BY <2>1, <2>2, AddedTo DEF s2, a2
  <1>7. Program(s3, 58) /\ Segment(s3, 36, Mounting, "EPERM")
    <2>1. 58 = 36 + 2 * 11 /\ 36 \in Nat /\ 58 \in Nat /\ 11 \in Nat
      OBVIOUS
    <2>2. Program(s2, 36) /\ Named(Mounting, 11) /\ "EPERM" \in Keys
      BY <1>2, <1>3, <1>6, Lists
    <2>3. QED
      BY <2>1, <2>2, AddedTo DEF s3, a3
  <1>8. Program(s4, 98) /\ Segment(s4, 58, Attributes, "EPERM")
    <2>1. 98 = 58 + 2 * 20 /\ 58 \in Nat /\ 98 \in Nat /\ 20 \in Nat
      OBVIOUS
    <2>2. Program(s3, 58) /\ Named(Attributes, 20) /\ "EPERM" \in Keys
      BY <1>2, <1>3, <1>7, Lists
    <2>3. QED
      BY <2>1, <2>2, AddedTo DEF s4, a4
  <1>9. Program(s5, 122) /\ Segment(s5, 98, Kernel, "EPERM")
    <2>1. 122 = 98 + 2 * 12 /\ 98 \in Nat /\ 122 \in Nat /\ 12 \in Nat
      OBVIOUS
    <2>2. Program(s4, 98) /\ Named(Kernel, 12) /\ "EPERM" \in Keys
      BY <1>2, <1>3, <1>8, Lists
    <2>3. QED
      BY <2>1, <2>2, AddedTo DEF s5, a5
  <1>10. Program(last, 1) /\ \E j \in Nat : Program(last, j)
    BY HeadPrograms DEF last
  <1>11. \A i \in 1..10 : s6[i] = s0[i]
    <2>1. \A i \in 1..10 : s1[i] = s0[i]
      <3>1. Program(s0, 10) /\ 10 \in Nat /\ (\E j \in Nat : Program(a1, j))
        BY <1>4, <1>a, <1>10
      <3>2. QED
        BY <3>1, Glued DEF s1
    <2>2. \A i \in 1..12 : s2[i] = s1[i]
      <3>1. Program(s1, 12) /\ 12 \in Nat /\ (\E j \in Nat : Program(a2, j))
        BY <1>5, <1>a, <1>10
      <3>2. QED
        BY <3>1, Glued DEF s2
    <2>3. \A i \in 1..36 : s3[i] = s2[i]
      <3>1. Program(s2, 36) /\ 36 \in Nat /\ (\E j \in Nat : Program(a3, j))
        BY <1>6, <1>a, <1>10
      <3>2. QED
        BY <3>1, Glued DEF s3
    <2>4. \A i \in 1..58 : s4[i] = s3[i]
      <3>1. Program(s3, 58) /\ 58 \in Nat /\ (\E j \in Nat : Program(a4, j))
        BY <1>7, <1>a, <1>10
      <3>2. QED
        BY <3>1, Glued DEF s4
    <2>5. \A i \in 1..98 : s5[i] = s4[i]
      <3>1. Program(s4, 98) /\ 98 \in Nat /\ (\E j \in Nat : Program(a5, j))
        BY <1>8, <1>a, <1>10
      <3>2. QED
        BY <3>1, Glued DEF s5
    <2>6. \A i \in 1..122 : s6[i] = s5[i]
      <3>1. Program(s5, 122) /\ 122 \in Nat /\ (\E j \in Nat : Program(last, j))
        BY <1>9, <1>a, <1>10
      <3>2. QED
        BY <3>1, Glued DEF s6
    <2>7. QED
      BY <2>1, <2>2, <2>3, <2>4, <2>5, <2>6
  <1>13. /\ s0[1] = Load("arch") /\ s0[2] = Jeq("x86_64", 1, 0) /\ s0[3] = Ret("KILL")
         /\ s0[4] = Load("nr") /\ s0[5] = Jeq("clone", 0, 4) /\ s0[6] = Load("flags")
         /\ s0[7] = Mask /\ s0[8] = JZero(1, 0) /\ s0[9] = Ret("EPERM") /\ s0[10] = Load("nr")
    <2>1. /\ \A i \in 1..4 : s0[i] = Architecture[i]
          /\ \A i \in 1..6 : s0[4 + i] = Clone[i]
      BY HeadPrograms, Glued DEF s0
    <2>2. /\ s0[1] = Architecture[1] /\ s0[2] = Architecture[2] /\ s0[3] = Architecture[3]
          /\ s0[4] = Architecture[4] /\ s0[5] = Clone[1] /\ s0[6] = Clone[2]
          /\ s0[7] = Clone[3] /\ s0[8] = Clone[4] /\ s0[9] = Clone[5] /\ s0[10] = Clone[6]
      <3>1. /\ 4 + 1 = 5 /\ 4 + 2 = 6 /\ 4 + 3 = 7 /\ 4 + 4 = 8 /\ 4 + 5 = 9 /\ 4 + 6 = 10
            /\ 1 \in 1..4 /\ 2 \in 1..4 /\ 3 \in 1..4 /\ 4 \in 1..4
            /\ 1 \in 1..6 /\ 2 \in 1..6 /\ 3 \in 1..6 /\ 4 \in 1..6 /\ 5 \in 1..6 /\ 6 \in 1..6
        OBVIOUS
      <3>2. QED
        BY <2>1, <3>1
    <2>3. QED
      BY <2>2 DEF Architecture, Clone
  <1>14. Segment(s6, 10, c3, "ENOSYS")
    <2>1. Named(c3, 1)
      BY <1>3, Lists
    <2>2. Segment(s2, 10, c3, "ENOSYS")
      <3>1. 10 + 2 * 1 <= 12 /\ 10 \in Nat /\ 1 \in Nat /\ 12 \in Nat
        OBVIOUS
      <3>2. Program(s1, 12) /\ (\E j \in Nat : Program(a2, j))
        BY <1>5, <1>a, <1>10
      <3>3. QED
        BY <2>1, <3>1, <3>2, <1>5, KeptIn DEF s2
    <2>3. Segment(s3, 10, c3, "ENOSYS")
      <3>1. 10 + 2 * 1 <= 36 /\ 10 \in Nat /\ 1 \in Nat /\ 36 \in Nat
        OBVIOUS
      <3>2. Program(s2, 36) /\ (\E j \in Nat : Program(a3, j))
        BY <1>6, <1>a, <1>10
      <3>3. QED
        BY <2>1, <3>1, <3>2, <2>2, KeptIn DEF s3
    <2>4. Segment(s4, 10, c3, "ENOSYS")
      <3>1. 10 + 2 * 1 <= 58 /\ 10 \in Nat /\ 1 \in Nat /\ 58 \in Nat
        OBVIOUS
      <3>2. Program(s3, 58) /\ (\E j \in Nat : Program(a4, j))
        BY <1>7, <1>a, <1>10
      <3>3. QED
        BY <2>1, <3>1, <3>2, <2>3, KeptIn DEF s4
    <2>5. Segment(s5, 10, c3, "ENOSYS")
      <3>1. 10 + 2 * 1 <= 98 /\ 10 \in Nat /\ 1 \in Nat /\ 98 \in Nat
        OBVIOUS
      <3>2. Program(s4, 98) /\ (\E j \in Nat : Program(a5, j))
        BY <1>8, <1>a, <1>10
      <3>3. QED
        BY <2>1, <3>1, <3>2, <2>4, KeptIn DEF s5
    <2>6. QED
      <3>1. 10 + 2 * 1 <= 122 /\ 10 \in Nat /\ 1 \in Nat /\ 122 \in Nat
        OBVIOUS
      <3>2. Program(s5, 122) /\ (\E j \in Nat : Program(last, j))
        BY <1>9, <1>a, <1>10
      <3>3. QED
        BY <2>1, <3>1, <3>2, <2>5, KeptIn DEF s6
  <1>15. Segment(s6, 12, Sockets, SocketAnswer(b))
    <2>1. Named(Sockets, 12)
      BY <1>3, Lists
    <2>2. Segment(s3, 12, Sockets, SocketAnswer(b))
      <3>1. 12 + 2 * 12 <= 36 /\ 12 \in Nat /\ 12 \in Nat /\ 36 \in Nat
        OBVIOUS
      <3>2. Program(s2, 36) /\ (\E j \in Nat : Program(a3, j))
        BY <1>6, <1>a, <1>10
      <3>3. QED
        BY <2>1, <3>1, <3>2, <1>6, KeptIn DEF s3
    <2>3. Segment(s4, 12, Sockets, SocketAnswer(b))
      <3>1. 12 + 2 * 12 <= 58 /\ 12 \in Nat /\ 12 \in Nat /\ 58 \in Nat
        OBVIOUS
      <3>2. Program(s3, 58) /\ (\E j \in Nat : Program(a4, j))
        BY <1>7, <1>a, <1>10
      <3>3. QED
        BY <2>1, <3>1, <3>2, <2>2, KeptIn DEF s4
    <2>4. Segment(s5, 12, Sockets, SocketAnswer(b))
      <3>1. 12 + 2 * 12 <= 98 /\ 12 \in Nat /\ 12 \in Nat /\ 98 \in Nat
        OBVIOUS
      <3>2. Program(s4, 98) /\ (\E j \in Nat : Program(a5, j))
        BY <1>8, <1>a, <1>10
      <3>3. QED
        BY <2>1, <3>1, <3>2, <2>3, KeptIn DEF s5
    <2>5. QED
      <3>1. 12 + 2 * 12 <= 122 /\ 12 \in Nat /\ 12 \in Nat /\ 122 \in Nat
        OBVIOUS
      <3>2. Program(s5, 122) /\ (\E j \in Nat : Program(last, j))
        BY <1>9, <1>a, <1>10
      <3>3. QED
        BY <2>1, <3>1, <3>2, <2>4, KeptIn DEF s6
  <1>16. Segment(s6, 36, Mounting, "EPERM")
    <2>1. Named(Mounting, 11)
      BY <1>3, Lists
    <2>2. Segment(s4, 36, Mounting, "EPERM")
      <3>1. 36 + 2 * 11 <= 58 /\ 36 \in Nat /\ 11 \in Nat /\ 58 \in Nat
        OBVIOUS
      <3>2. Program(s3, 58) /\ (\E j \in Nat : Program(a4, j))
        BY <1>7, <1>a, <1>10
      <3>3. QED
        BY <2>1, <3>1, <3>2, <1>7, KeptIn DEF s4
    <2>3. Segment(s5, 36, Mounting, "EPERM")
      <3>1. 36 + 2 * 11 <= 98 /\ 36 \in Nat /\ 11 \in Nat /\ 98 \in Nat
        OBVIOUS
      <3>2. Program(s4, 98) /\ (\E j \in Nat : Program(a5, j))
        BY <1>8, <1>a, <1>10
      <3>3. QED
        BY <2>1, <3>1, <3>2, <2>2, KeptIn DEF s5
    <2>4. QED
      <3>1. 36 + 2 * 11 <= 122 /\ 36 \in Nat /\ 11 \in Nat /\ 122 \in Nat
        OBVIOUS
      <3>2. Program(s5, 122) /\ (\E j \in Nat : Program(last, j))
        BY <1>9, <1>a, <1>10
      <3>3. QED
        BY <2>1, <3>1, <3>2, <2>3, KeptIn DEF s6
  <1>17. Segment(s6, 58, Attributes, "EPERM")
    <2>1. Named(Attributes, 20)
      BY <1>3, Lists
    <2>2. Segment(s5, 58, Attributes, "EPERM")
      <3>1. 58 + 2 * 20 <= 98 /\ 58 \in Nat /\ 20 \in Nat /\ 98 \in Nat
        OBVIOUS
      <3>2. Program(s4, 98) /\ (\E j \in Nat : Program(a5, j))
        BY <1>8, <1>a, <1>10
      <3>3. QED
        BY <2>1, <3>1, <3>2, <1>8, KeptIn DEF s5
    <2>3. QED
      <3>1. 58 + 2 * 20 <= 122 /\ 58 \in Nat /\ 20 \in Nat /\ 122 \in Nat
        OBVIOUS
      <3>2. Program(s5, 122) /\ (\E j \in Nat : Program(last, j))
        BY <1>9, <1>a, <1>10
      <3>3. QED
        BY <2>1, <3>1, <3>2, <2>2, KeptIn DEF s6
  <1>18. Segment(s6, 98, Kernel, "EPERM")
    <2>1. Named(Kernel, 12)
      BY <1>3, Lists
    <2>2. QED
      <3>1. 98 + 2 * 12 <= 122 /\ 98 \in Nat /\ 12 \in Nat /\ 122 \in Nat
        OBVIOUS
      <3>2. Program(s5, 122) /\ (\E j \in Nat : Program(last, j))
        BY <1>9, <1>a, <1>10
      <3>3. QED
        BY <2>1, <3>1, <3>2, <1>9, KeptIn DEF s6
  <1>19. s6[123] = Ret("ALLOW") /\ Len(s6) = 123
    <2>1. 122 \in Nat /\ 1 \in Nat /\ 122 + 1 = 123 /\ 1 \in 1..1
      OBVIOUS
    <2>2. Program(s6, 123) /\ s6[123] = last[1]
      BY <1>9, <1>10, <2>1, Glued DEF s6
    <2>3. Len(s6) = 123
      BY <2>2 DEF Program
    <2>4. QED
      BY <2>2, <2>3 DEF last
  <1>20. QED
    BY <1>1, <1>11, <1>13, <1>14, <1>15, <1>16, <1>17, <1>18, <1>19 DEF c3

\* The inductive invariant.
\*
\* The tests of a segment that have been passed failed, and the return under one is
\* reached only when it succeeds.
Tested(from, names) ==
    \A i \in 1..Len(names) : /\ pc > from + 2 * i => call.nr # names[i]
                             /\ pc = from + 2 * i => call.nr = names[i]

\* What the machine knows at each instruction.
Known ==
    /\ pc = 2 => acc = call.arch
    /\ pc = 3 => call.arch # "x86_64"
    /\ pc > 3 => call.arch = "x86_64"
    /\ pc \in {5, 6} \/ pc > 10 => acc = call.nr
    /\ pc \in 6..9 => call.nr = "clone"
    /\ pc = 7 => flags = call.flags
    /\ pc = 8 => flags = call.flags \cap NamespaceFlags
    /\ pc = 9 => call.flags \cap NamespaceFlags # {}
    /\ pc > 9 /\ call.nr = "clone" => call.flags \cap NamespaceFlags = {}

Passed ==
    /\ Tested(10, <<"clone3">>) /\ Tested(12, Sockets) /\ Tested(36, Mounting)
    /\ Tested(58, Attributes) /\ Tested(98, Kernel)

Switch == loopback \in BOOLEAN

FilterInv ==
    /\ Switch /\ pc \in 1..123
    /\ Known /\ Passed
    /\ FollowsPolicy

\* The second instruction of a pair is a return; the first goes to it or over it.
LEMMA Pairs ==
    ASSUME NEW from \in Nat, NEW n \in Nat, NEW p \in from + 1..from + 2 * n
    PROVE  \E i \in 1..n : p = from + 2 * i - 1 \/ p = from + 2 * i
  <1>1. CASE (p - from) % 2 = 0
    <2>1. (p - from) \div 2 \in 1..n /\ p = from + 2 * ((p - from) \div 2)
      BY <1>1
    <2>2. QED
      BY <2>1
  <1>2. CASE (p - from) % 2 = 1
    <2>1. (p - from + 1) \div 2 \in 1..n /\ p = from + 2 * ((p - from + 1) \div 2) - 1
      BY <1>2
    <2>2. QED
      BY <2>1
  <1>3. QED
    BY <1>1, <1>2

\* Moving on without entering or leaving the pairs of a segment changes nothing.
LEMMA TestedKept ==
    ASSUME NEW from \in Nat, NEW names, Len(names) \in Nat, Tested(from, names),
           pc \in Nat, pc' \in Nat, UNCHANGED call, pc' > pc,
           \/ pc' <= from + 1
           \/ pc > from + 2 * Len(names)
    PROVE  Tested(from, names)'
  BY DEF Tested

\* A step inside a segment.
LEMMA TestedStep ==
    ASSUME NEW from \in Nat, NEW names, Len(names) \in Nat, Tested(from, names),
           NEW i \in 1..Len(names), pc = from + 2 * i - 1, UNCHANGED call,
           pc' = pc + 1 + (IF call.nr = names[i] THEN 0 ELSE 1)
    PROVE  Tested(from, names)'
  <1>1. CASE call.nr = names[i]
    <2>1. pc' = from + 2 * i
      BY <1>1
    <2>2. \A j \in 1..Len(names) : pc' > from + 2 * j => pc > from + 2 * j
      BY <2>1
    <2>3. \A j \in 1..Len(names) : pc' = from + 2 * j => j = i
      BY <2>1
    <2>4. QED
      BY <1>1, <2>2, <2>3 DEF Tested
  <1>2. CASE call.nr # names[i]
    <2>1. pc' = from + 2 * i + 1
      BY <1>2
    <2>2. \A j \in 1..Len(names) : pc' > from + 2 * j => j = i \/ pc > from + 2 * j
      BY <2>1
    <2>3. \A j \in 1..Len(names) : pc' # from + 2 * j
      BY <2>1
    <2>4. QED
      BY <1>2, <2>2, <2>3 DEF Tested
  <1>3. QED
    BY <1>1, <1>2

\* What a step does at each kind of instruction.
LEMMA Steps ==
    ASSUME FilterNext
    PROVE  /\ UNCHANGED <<call, loopback>>
           /\ \A k : Instr = Load(k) =>
                 /\ acc' = CASE k = "arch" -> call.arch [] k = "nr" -> call.nr [] OTHER -> "flags"
                 /\ flags' = IF k = "flags" THEN call.flags ELSE {}
                 /\ pc' = pc + 1 /\ verdict' = verdict
           /\ \A k, i, j : Instr = Jeq(k, i, j) =>
                 /\ pc' = pc + 1 + (IF acc = k THEN i ELSE j)
                 /\ UNCHANGED <<acc, flags, verdict>>
           /\ Instr = Mask =>
                 flags' = flags \cap NamespaceFlags /\ pc' = pc + 1 /\ UNCHANGED <<acc, verdict>>
           /\ \A i, j : Instr = JZero(i, j) =>
                 /\ pc' = pc + 1 + (IF flags = {} THEN i ELSE j)
                 /\ UNCHANGED <<acc, flags, verdict>>
           /\ \A k : Instr = Ret(k) => verdict' = k /\ UNCHANGED <<pc, acc, flags>>
  <1> USE DEF FilterNext, LoadField, ApplyMask, Jump, Answer
  <1>1. UNCHANGED <<call, loopback>>
    OBVIOUS
  <1>2. ASSUME NEW k, Instr = Load(k)
        PROVE  /\ acc' = CASE k = "arch" -> call.arch [] k = "nr" -> call.nr [] OTHER -> "flags"
               /\ flags' = IF k = "flags" THEN call.flags ELSE {}
               /\ pc' = pc + 1 /\ verdict' = verdict
    <2>1. Instr.op = "load" /\ Instr.k = k
      BY <1>2 DEF Load
    <2>2. QED
      BY <2>1
  <1>3. ASSUME NEW k, NEW i, NEW j, Instr = Jeq(k, i, j)
        PROVE  /\ pc' = pc + 1 + (IF acc = k THEN i ELSE j)
               /\ UNCHANGED <<acc, flags, verdict>>
    <2>1. Instr.op = "jeq" /\ Instr.k = k /\ Instr.jt = i /\ Instr.jf = j
      BY <1>3 DEF Jeq
    <2>2. QED
      BY <2>1
  <1>4. ASSUME Instr = Mask
        PROVE  flags' = flags \cap NamespaceFlags /\ pc' = pc + 1 /\ UNCHANGED <<acc, verdict>>
    <2>1. Instr.op = "and"
      BY <1>4 DEF Mask
    <2>2. QED
      BY <2>1
  <1>5. ASSUME NEW i, NEW j, Instr = JZero(i, j)
        PROVE  /\ pc' = pc + 1 + (IF flags = {} THEN i ELSE j)
               /\ UNCHANGED <<acc, flags, verdict>>
    <2>1. Instr.op = "jzero" /\ Instr.jt = i /\ Instr.jf = j
      BY <1>5 DEF JZero
    <2>2. QED
      BY <2>1
  <1>6. ASSUME NEW k, Instr = Ret(k)
        PROVE  verdict' = k /\ UNCHANGED <<pc, acc, flags>>
    <2>1. Instr.op = "ret" /\ Instr.k = k
      BY <1>6 DEF Ret
    <2>2. QED
      BY <2>1
  <1>7. QED
    BY <1>1, <1>2, <1>3, <1>4, <1>5, <1>6

\* Without an answer the policy is not in question.
LEMMA NoAnswer == FilterNext /\ verdict' = verdict => FollowsPolicy'
  BY DEF FilterNext, LoadField, ApplyMask, Jump, Answer, FollowsPolicy

\* A step of a segment: on to the next instruction of it or to the end of it, or the
\* answer to one of its names.
LEMMA SegmentStep ==
    ASSUME NEW from \in Nat, NEW l \in Nat, NEW names, NEW k, Named(names, l),
           Segment(Filters[loopback], from, names, k), Tested(from, names),
           pc \in from + 1..from + 2 * l, acc = call.nr, FilterNext
    PROVE  \/ /\ pc' \in Nat /\ pc' > pc /\ pc' <= from + 2 * l + 1 /\ Tested(from, names)'
              /\ UNCHANGED <<acc, flags, verdict>>
           \/ /\ verdict' = k /\ UNCHANGED <<pc, acc, flags>>
              /\ call.nr \in Names(names)
  <1>1. Len(names) = l
    BY DEF Named
  <1>2. PICK i \in 1..l : pc = from + 2 * i - 1 \/ pc = from + 2 * i
    BY Pairs
  <1>3. /\ Filters[loopback][from + 2 * i - 1] = Jeq(names[i], 0, 1)
        /\ Filters[loopback][from + 2 * i] = Ret(k)
    BY <1>1 DEF Segment
  <1>4. CASE pc = from + 2 * i - 1
    <2>1. Instr = Jeq(names[i], 0, 1)
      BY <1>3, <1>4 DEF Instr
    <2>2. /\ pc' = pc + 1 + (IF call.nr = names[i] THEN 0 ELSE 1)
          /\ UNCHANGED <<acc, flags, verdict, call>>
      BY <2>1, Steps
    <2>3. Tested(from, names)'
      BY <1>1, <1>4, <2>2, TestedStep
    <2>4. pc' \in Nat /\ pc' > pc /\ pc' <= from + 2 * l + 1
      BY <1>4, <2>2
    <2>5. QED
      BY <2>2, <2>3, <2>4
  <1>5. CASE pc = from + 2 * i
    <2>1. Instr = Ret(k)
      BY <1>3, <1>5 DEF Instr
    <2>2. verdict' = k /\ UNCHANGED <<pc, acc, flags>>
      BY <2>1, Steps
    <2>3. call.nr \in Names(names)
      BY <1>1, <1>5 DEF Tested, Names
    <2>4. QED
      BY <2>2, <2>3
  <1>6. QED
    BY <1>2, <1>4, <1>5

LEMMA Lengths ==
    /\ Len(<<"clone3">>) = 1 /\ Len(Sockets) = 12 /\ Len(Mounting) = 11
    /\ Len(Attributes) = 20 /\ Len(Kernel) = 12
  BY Lists DEF Named

\* The first ten instructions touch no segment.
LEMMA PassedAtHead ==
    ASSUME Passed, pc \in Nat, pc' \in Nat, pc' > pc, pc' <= 11, UNCHANGED call
    PROVE  Passed'
  <1>1. /\ Len(<<"clone3">>) \in Nat /\ Len(Sockets) \in Nat /\ Len(Mounting) \in Nat
        /\ Len(Attributes) \in Nat /\ Len(Kernel) \in Nat
        /\ pc' <= 10 + 1 /\ pc' <= 12 + 1 /\ pc' <= 36 + 1 /\ pc' <= 58 + 1 /\ pc' <= 98 + 1
        /\ 10 \in Nat /\ 12 \in Nat /\ 36 \in Nat /\ 58 \in Nat /\ 98 \in Nat
    BY Lengths
  <1>2. Tested(10, <<"clone3">>)'
    BY <1>1, TestedKept DEF Passed
  <1>3. Tested(12, Sockets)'
    BY <1>1, TestedKept DEF Passed
  <1>4. Tested(36, Mounting)'
    BY <1>1, TestedKept DEF Passed
  <1>5. Tested(58, Attributes)'
    BY <1>1, TestedKept DEF Passed
  <1>6. Tested(98, Kernel)'
    BY <1>1, TestedKept DEF Passed
  <1>7. QED
    BY <1>2, <1>3, <1>4, <1>5, <1>6 DEF Passed

\* The policy, case by case.
LEMMA AnswersFollow ==
    /\ call.arch # "x86_64" => Policy = "KILL"
    /\ call.arch = "x86_64" /\ call.nr = "clone" /\ call.flags \cap NamespaceFlags # {}
         => Policy = "EPERM"
    /\ call.arch = "x86_64" /\ call.nr \in Names(<<"clone3">>) => Policy = "ENOSYS"
    /\ call.arch = "x86_64" /\ call.nr \in Names(Sockets) => Policy = SocketAnswer(loopback)
    /\ call.arch = "x86_64" /\ call.nr \in Names(Mounting) \cup Names(Attributes) \cup Names(Kernel)
         => Policy = "EPERM"
    /\ (/\ call.arch = "x86_64"
        /\ call.nr = "clone" => call.flags \cap NamespaceFlags = {}
        /\ call.nr \notin Names(<<"clone3">>) /\ call.nr \notin Names(Sockets)
        /\ call.nr \notin Names(Mounting) \cup Names(Attributes) \cup Names(Kernel))
         => Policy = "ALLOW"
  <1> DEFINE Closed == Names(Mounting) \cup Names(Attributes) \cup Names(Kernel)
  <1>1. /\ Names(Sockets) \cap Closed = {}
        /\ {"clone", "clone3"} \cap (Names(Sockets) \cup Closed) = {}
    BY Disjoint
  <1>2. Names(<<"clone3">>) = {"clone3"}
    BY DEF Names
  <1>3. Policy = IF call.arch # "x86_64" THEN "KILL"
                 ELSE IF call.nr = "clone3" THEN "ENOSYS"
                 ELSE IF \/ call.nr = "clone" /\ call.flags \cap NamespaceFlags # {}
                         \/ call.nr \in Names(Sockets) /\ ~loopback
                         \/ call.nr \in Closed
                 THEN "EPERM"
                 ELSE "ALLOW"
    BY DEF Policy
  <1> HIDE DEF Closed
  <1>4. call.arch # "x86_64" => Policy = "KILL"
    BY <1>3
  <1>5. (call.arch = "x86_64" /\ call.nr = "clone" /\ call.flags \cap NamespaceFlags # {})
          => Policy = "EPERM"
    BY <1>1, <1>2, <1>3
  <1>6. call.arch = "x86_64" /\ call.nr \in Names(<<"clone3">>) => Policy = "ENOSYS"
    BY <1>1, <1>2, <1>3
  <1>7. call.arch = "x86_64" /\ call.nr \in Names(Sockets) => Policy = SocketAnswer(loopback)
    BY <1>1, <1>2, <1>3 DEF SocketAnswer
  <1>8. call.arch = "x86_64" /\ call.nr \in Closed => Policy = "EPERM"
    BY <1>1, <1>2, <1>3
  <1>9. (/\ call.arch = "x86_64"
         /\ call.nr = "clone" => call.flags \cap NamespaceFlags = {}
         /\ call.nr \notin Names(<<"clone3">>) /\ call.nr \notin Names(Sockets)
         /\ call.nr \notin Closed)
          => Policy = "ALLOW"
    BY <1>1, <1>2, <1>3
  <1>10. QED
    BY <1>4, <1>5, <1>6, <1>7, <1>8, <1>9 DEF Closed

\* Everything but the verdict stays, and the verdict is the policy's.
LEMMA Answered ==
    ASSUME FilterInv, UNCHANGED <<call, loopback, pc, acc, flags>>, verdict' = Policy
    PROVE  FilterInv'
  <1>1. Policy' = Policy /\ Switch' = Switch
    BY DEF Policy, Switch
  <1>2. Known' /\ Passed'
    BY DEF FilterInv, Known, Passed, Tested
  <1>3. QED
    BY <1>1, <1>2 DEF FilterInv, FollowsPolicy

\* One of the first ten instructions.
LEMMA HeadStep ==
    ASSUME FilterInv, FilterNext, pc \in 1..10
    PROVE  FilterInv'
  <1>1. /\ UNCHANGED <<call, loopback>> /\ Switch /\ Switch'
        /\ Known /\ Passed
    BY Steps DEF FilterInv, Switch
  <1>2. ASSUME verdict' = verdict, pc' \in 1..11, pc' > pc, Known'
        PROVE  FilterInv'
    <2>1. Passed'
      BY <1>1, <1>2, PassedAtHead
    <2>2. FollowsPolicy'
      BY <1>2, NoAnswer
    <2>3. QED
      BY <1>1, <1>2, <2>1, <2>2 DEF FilterInv
  <1>3. ASSUME NEW k, Instr = Ret(k), Policy = k
        PROVE  FilterInv'
    <2>1. verdict' = k /\ UNCHANGED <<pc, acc, flags>>
      BY <1>3, Steps
    <2>2. QED
      BY <1>1, <1>3, <2>1, Answered
  <1>4. CASE pc = 1
    <2>1. Instr = Load("arch")
      BY <1>1, <1>4, Layout DEF Instr, Switch
    <2>2. pc' = 2 /\ verdict' = verdict /\ acc' = call.arch
      BY <1>1, <1>4, <2>1, Steps DEF Known
    <2>3. Known'
      BY <1>1, <1>4, <2>2 DEF Known
    <2>4. QED
      BY <1>2, <1>4, <2>2, <2>3
  <1>5. CASE pc = 2
    <2>1. Instr = Jeq("x86_64", 1, 0)
      BY <1>1, <1>5, Layout DEF Instr, Switch
    <2>2. pc' = (IF call.arch = "x86_64" THEN 4 ELSE 3) /\ verdict' = verdict
      BY <1>1, <1>5, <2>1, Steps DEF Known
    <2>3. Known'
      BY <1>1, <1>5, <2>2 DEF Known
    <2>4. QED
      BY <1>2, <1>5, <2>2, <2>3
  <1>6. CASE pc = 3
    <2>1. Instr = Ret("KILL")
      BY <1>1, <1>6, Layout DEF Instr, Switch
    <2>2. Policy = "KILL"
      BY <1>1, <1>6, AnswersFollow DEF Known
    <2>3. QED
      BY <1>3, <2>1, <2>2
  <1>7. CASE pc = 4
    <2>1. Instr = Load("nr")
      BY <1>1, <1>7, Layout DEF Instr, Switch
    <2>2. pc' = 5 /\ verdict' = verdict /\ acc' = call.nr
      BY <1>1, <1>7, <2>1, Steps DEF Known
    <2>3. Known'
      BY <1>1, <1>7, <2>2 DEF Known
    <2>4. QED
      BY <1>2, <1>7, <2>2, <2>3
  <1>8. CASE pc = 5
    <2>1. Instr = Jeq("clone", 0, 4)
      BY <1>1, <1>8, Layout DEF Instr, Switch
    <2>2. /\ pc' = (IF call.nr = "clone" THEN 6 ELSE 10)
          /\ UNCHANGED <<acc, flags, verdict>>
      BY <1>1, <1>8, <2>1, Steps DEF Known
    <2>3. Known'
      BY <1>1, <1>8, <2>2 DEF Known
    <2>4. QED
      BY <1>2, <1>8, <2>2, <2>3
  <1>9. CASE pc = 6
    <2>1. Instr = Load("flags")
      BY <1>1, <1>9, Layout DEF Instr, Switch
    <2>2. pc' = 7 /\ verdict' = verdict /\ flags' = call.flags
      BY <1>1, <1>9, <2>1, Steps DEF Known
    <2>3. Known'
      BY <1>1, <1>9, <2>2 DEF Known
    <2>4. QED
      BY <1>2, <1>9, <2>2, <2>3
  <1>10. CASE pc = 7
    <2>1. Instr = Mask
      BY <1>1, <1>10, Layout DEF Instr, Switch
    <2>2. pc' = 8 /\ verdict' = verdict /\ flags' = flags \cap NamespaceFlags
      BY <1>1, <1>10, <2>1, Steps DEF Known
    <2>3. Known'
      BY <1>1, <1>10, <2>2 DEF Known
    <2>4. QED
      BY <1>2, <1>10, <2>2, <2>3
  <1>11. CASE pc = 8
    <2>1. Instr = JZero(1, 0)
      BY <1>1, <1>11, Layout DEF Instr, Switch
    <2>2. /\ pc' = (IF flags = {} THEN 10 ELSE 9)
          /\ UNCHANGED <<acc, flags, verdict>>
      BY <1>1, <1>11, <2>1, Steps DEF Known
    <2>3. Known'
      BY <1>1, <1>11, <2>2 DEF Known
    <2>4. QED
      BY <1>2, <1>11, <2>2, <2>3
  <1>12. CASE pc = 9
    <2>1. Instr = Ret("EPERM")
      BY <1>1, <1>12, Layout DEF Instr, Switch
    <2>2. Policy = "EPERM"
      BY <1>1, <1>12, AnswersFollow DEF Known
    <2>3. QED
      BY <1>3, <2>1, <2>2
  <1>13. CASE pc = 10
    <2>1. Instr = Load("nr")
      BY <1>1, <1>13, Layout DEF Instr, Switch
    <2>2. pc' = 11 /\ verdict' = verdict /\ acc' = call.nr
      BY <1>1, <1>13, <2>1, Steps DEF Known
    <2>3. Known'
      BY <1>1, <1>13, <2>2 DEF Known
    <2>4. QED
      BY <1>2, <1>13, <2>2, <2>3
  <1>14. QED
    BY <1>4, <1>5, <1>6, <1>7, <1>8, <1>9, <1>10, <1>11, <1>12, <1>13

\* A test, or the return under it, of one of the lists.
LEMMA ListStep ==
    ASSUME FilterInv, FilterNext, pc \in 11..122
    PROVE  FilterInv'
  <1>1. /\ UNCHANGED <<call, loopback>> /\ Switch /\ Switch'
        /\ Known /\ Passed /\ acc = call.nr /\ call.arch = "x86_64"
    BY Steps DEF FilterInv, Known, Switch
  <1>2. ASSUME pc' \in Nat, pc' > pc, pc' <= 123, UNCHANGED <<acc, flags, verdict>>, Passed'
        PROVE  FilterInv'
    <2>1. Known'
      BY <1>1, <1>2 DEF Known
    <2>2. FollowsPolicy'
      BY <1>2, NoAnswer
    <2>3. QED
      BY <1>1, <1>2, <2>1, <2>2 DEF FilterInv
  <1>3. ASSUME NEW k, verdict' = k, UNCHANGED <<pc, acc, flags>>, Policy = k
        PROVE  FilterInv'
    BY <1>1, <1>3, Answered
  <1>4. CASE pc \in 11..12
    <2>1. /\ Segment(Filters[loopback], 10, <<"clone3">>, "ENOSYS")
          /\ Tested(10, <<"clone3">>) /\ Named(<<"clone3">>, 1)
      BY <1>1, Layout, Lists DEF Passed, Switch
    <2>2. 10 \in Nat /\ 1 \in Nat /\ 10 + 1 = 11 /\ 10 + 2 * 1 = 12
      OBVIOUS
    <2>3. \/ /\ pc' \in Nat /\ pc' > pc /\ pc' <= 10 + 2 * 1 + 1 /\ Tested(10, <<"clone3">>)'
             /\ UNCHANGED <<acc, flags, verdict>>
          \/ /\ verdict' = "ENOSYS" /\ UNCHANGED <<pc, acc, flags>>
             /\ call.nr \in Names(<<"clone3">>)
      BY <1>1, <1>4, <2>1, <2>2, SegmentStep
    <2>4. ASSUME pc' \in Nat, pc' > pc, pc' <= 13, Tested(10, <<"clone3">>)',
                 UNCHANGED <<acc, flags, verdict>>
          PROVE  FilterInv'
      <3>1. Tested(12, Sockets)'
        <4>1. 12 \in Nat /\ Len(Sockets) \in Nat /\ pc \in Nat /\ pc' <= 12 + 1
          BY <1>4, <2>4, Lengths
        <4>2. QED
          BY <1>1, <2>4, <4>1, TestedKept DEF Passed
      <3>2. Tested(36, Mounting)'
        <4>1. 36 \in Nat /\ Len(Mounting) \in Nat /\ pc \in Nat /\ pc' <= 36 + 1
          BY <1>4, <2>4, Lengths
        <4>2. QED
          BY <1>1, <2>4, <4>1, TestedKept DEF Passed
      <3>3. Tested(58, Attributes)'
        <4>1. 58 \in Nat /\ Len(Attributes) \in Nat /\ pc \in Nat /\ pc' <= 58 + 1
          BY <1>4, <2>4, Lengths
        <4>2. QED
          BY <1>1, <2>4, <4>1, TestedKept DEF Passed
      <3>4. Tested(98, Kernel)'
        <4>1. 98 \in Nat /\ Len(Kernel) \in Nat /\ pc \in Nat /\ pc' <= 98 + 1
          BY <1>4, <2>4, Lengths
        <4>2. QED
          BY <1>1, <2>4, <4>1, TestedKept DEF Passed
      <3>5. QED
        BY <1>2, <1>4, <2>4, <3>1, <3>2, <3>3, <3>4 DEF Passed
    <2>5. ASSUME call.nr \in Names(<<"clone3">>), verdict' = "ENOSYS", UNCHANGED <<pc, acc, flags>>
          PROVE  FilterInv'
      BY <1>1, <1>3, <2>5, AnswersFollow
    <2>6. QED
      BY <2>2, <2>3, <2>4, <2>5
  <1>5. CASE pc \in 13..36
    <2>1. /\ Segment(Filters[loopback], 12, Sockets, SocketAnswer(loopback))
          /\ Tested(12, Sockets) /\ Named(Sockets, 12)
      BY <1>1, Layout, Lists DEF Passed, Switch
    <2>2. 12 \in Nat /\ 12 \in Nat /\ 12 + 1 = 13 /\ 12 + 2 * 12 = 36
      OBVIOUS
    <2>3. \/ /\ pc' \in Nat /\ pc' > pc /\ pc' <= 12 + 2 * 12 + 1 /\ Tested(12, Sockets)'
             /\ UNCHANGED <<acc, flags, verdict>>
          \/ /\ verdict' = SocketAnswer(loopback) /\ UNCHANGED <<pc, acc, flags>>
             /\ call.nr \in Names(Sockets)
      BY <1>1, <1>5, <2>1, <2>2, SegmentStep
    <2>4. ASSUME pc' \in Nat, pc' > pc, pc' <= 37, Tested(12, Sockets)',
                 UNCHANGED <<acc, flags, verdict>>
          PROVE  FilterInv'
      <3>1. Tested(10, <<"clone3">>)'
        <4>1. /\ 10 \in Nat /\ Len(<<"clone3">>) \in Nat /\ pc \in Nat
             /\ pc > 10 + 2 * Len(<<"clone3">>)
          BY <1>5, <2>4, Lengths
        <4>2. QED
          BY <1>1, <2>4, <4>1, TestedKept DEF Passed
      <3>2. Tested(36, Mounting)'
        <4>1. 36 \in Nat /\ Len(Mounting) \in Nat /\ pc \in Nat /\ pc' <= 36 + 1
          BY <1>5, <2>4, Lengths
        <4>2. QED
          BY <1>1, <2>4, <4>1, TestedKept DEF Passed
      <3>3. Tested(58, Attributes)'
        <4>1. 58 \in Nat /\ Len(Attributes) \in Nat /\ pc \in Nat /\ pc' <= 58 + 1
          BY <1>5, <2>4, Lengths
        <4>2. QED
          BY <1>1, <2>4, <4>1, TestedKept DEF Passed
      <3>4. Tested(98, Kernel)'
        <4>1. 98 \in Nat /\ Len(Kernel) \in Nat /\ pc \in Nat /\ pc' <= 98 + 1
          BY <1>5, <2>4, Lengths
        <4>2. QED
          BY <1>1, <2>4, <4>1, TestedKept DEF Passed
      <3>5. QED
        BY <1>2, <1>5, <2>4, <3>1, <3>2, <3>3, <3>4 DEF Passed
    <2>5. ASSUME call.nr \in Names(Sockets), verdict' = SocketAnswer(loopback),
                 UNCHANGED <<pc, acc, flags>>
          PROVE  FilterInv'
      BY <1>1, <1>3, <2>5, AnswersFollow
    <2>6. QED
      BY <2>2, <2>3, <2>4, <2>5
  <1>6. CASE pc \in 37..58
    <2>1. /\ Segment(Filters[loopback], 36, Mounting, "EPERM")
          /\ Tested(36, Mounting) /\ Named(Mounting, 11)
      BY <1>1, Layout, Lists DEF Passed, Switch
    <2>2. 36 \in Nat /\ 11 \in Nat /\ 36 + 1 = 37 /\ 36 + 2 * 11 = 58
      OBVIOUS
    <2>3. \/ /\ pc' \in Nat /\ pc' > pc /\ pc' <= 36 + 2 * 11 + 1 /\ Tested(36, Mounting)'
             /\ UNCHANGED <<acc, flags, verdict>>
          \/ /\ verdict' = "EPERM" /\ UNCHANGED <<pc, acc, flags>>
             /\ call.nr \in Names(Mounting)
      BY <1>1, <1>6, <2>1, <2>2, SegmentStep
    <2>4. ASSUME pc' \in Nat, pc' > pc, pc' <= 59, Tested(36, Mounting)',
                 UNCHANGED <<acc, flags, verdict>>
          PROVE  FilterInv'
      <3>1. Tested(10, <<"clone3">>)'
        <4>1. /\ 10 \in Nat /\ Len(<<"clone3">>) \in Nat /\ pc \in Nat
             /\ pc > 10 + 2 * Len(<<"clone3">>)
          BY <1>6, <2>4, Lengths
        <4>2. QED
          BY <1>1, <2>4, <4>1, TestedKept DEF Passed
      <3>2. Tested(12, Sockets)'
        <4>1. 12 \in Nat /\ Len(Sockets) \in Nat /\ pc \in Nat /\ pc > 12 + 2 * Len(Sockets)
          BY <1>6, <2>4, Lengths
        <4>2. QED
          BY <1>1, <2>4, <4>1, TestedKept DEF Passed
      <3>3. Tested(58, Attributes)'
        <4>1. 58 \in Nat /\ Len(Attributes) \in Nat /\ pc \in Nat /\ pc' <= 58 + 1
          BY <1>6, <2>4, Lengths
        <4>2. QED
          BY <1>1, <2>4, <4>1, TestedKept DEF Passed
      <3>4. Tested(98, Kernel)'
        <4>1. 98 \in Nat /\ Len(Kernel) \in Nat /\ pc \in Nat /\ pc' <= 98 + 1
          BY <1>6, <2>4, Lengths
        <4>2. QED
          BY <1>1, <2>4, <4>1, TestedKept DEF Passed
      <3>5. QED
        BY <1>2, <1>6, <2>4, <3>1, <3>2, <3>3, <3>4 DEF Passed
    <2>5. ASSUME call.nr \in Names(Mounting), verdict' = "EPERM", UNCHANGED <<pc, acc, flags>>
          PROVE  FilterInv'
      BY <1>1, <1>3, <2>5, AnswersFollow
    <2>6. QED
      BY <2>2, <2>3, <2>4, <2>5
  <1>7. CASE pc \in 59..98
    <2>1. /\ Segment(Filters[loopback], 58, Attributes, "EPERM")
          /\ Tested(58, Attributes) /\ Named(Attributes, 20)
      BY <1>1, Layout, Lists DEF Passed, Switch
    <2>2. 58 \in Nat /\ 20 \in Nat /\ 58 + 1 = 59 /\ 58 + 2 * 20 = 98
      OBVIOUS
    <2>3. \/ /\ pc' \in Nat /\ pc' > pc /\ pc' <= 58 + 2 * 20 + 1 /\ Tested(58, Attributes)'
             /\ UNCHANGED <<acc, flags, verdict>>
          \/ /\ verdict' = "EPERM" /\ UNCHANGED <<pc, acc, flags>>
             /\ call.nr \in Names(Attributes)
      BY <1>1, <1>7, <2>1, <2>2, SegmentStep
    <2>4. ASSUME pc' \in Nat, pc' > pc, pc' <= 99, Tested(58, Attributes)',
                 UNCHANGED <<acc, flags, verdict>>
          PROVE  FilterInv'
      <3>1. Tested(10, <<"clone3">>)'
        <4>1. /\ 10 \in Nat /\ Len(<<"clone3">>) \in Nat /\ pc \in Nat
             /\ pc > 10 + 2 * Len(<<"clone3">>)
          BY <1>7, <2>4, Lengths
        <4>2. QED
          BY <1>1, <2>4, <4>1, TestedKept DEF Passed
      <3>2. Tested(12, Sockets)'
        <4>1. 12 \in Nat /\ Len(Sockets) \in Nat /\ pc \in Nat /\ pc > 12 + 2 * Len(Sockets)
          BY <1>7, <2>4, Lengths
        <4>2. QED
          BY <1>1, <2>4, <4>1, TestedKept DEF Passed
      <3>3. Tested(36, Mounting)'
        <4>1. 36 \in Nat /\ Len(Mounting) \in Nat /\ pc \in Nat /\ pc > 36 + 2 * Len(Mounting)
          BY <1>7, <2>4, Lengths
        <4>2. QED
          BY <1>1, <2>4, <4>1, TestedKept DEF Passed
      <3>4. Tested(98, Kernel)'
        <4>1. 98 \in Nat /\ Len(Kernel) \in Nat /\ pc \in Nat /\ pc' <= 98 + 1
          BY <1>7, <2>4, Lengths
        <4>2. QED
          BY <1>1, <2>4, <4>1, TestedKept DEF Passed
      <3>5. QED
        BY <1>2, <1>7, <2>4, <3>1, <3>2, <3>3, <3>4 DEF Passed
    <2>5. ASSUME call.nr \in Names(Attributes), verdict' = "EPERM", UNCHANGED <<pc, acc, flags>>
          PROVE  FilterInv'
      BY <1>1, <1>3, <2>5, AnswersFollow
    <2>6. QED
      BY <2>2, <2>3, <2>4, <2>5
  <1>8. CASE pc \in 99..122
    <2>1. /\ Segment(Filters[loopback], 98, Kernel, "EPERM")
          /\ Tested(98, Kernel) /\ Named(Kernel, 12)
      BY <1>1, Layout, Lists DEF Passed, Switch
    <2>2. 98 \in Nat /\ 12 \in Nat /\ 98 + 1 = 99 /\ 98 + 2 * 12 = 122
      OBVIOUS
    <2>3. \/ /\ pc' \in Nat /\ pc' > pc /\ pc' <= 98 + 2 * 12 + 1 /\ Tested(98, Kernel)'
             /\ UNCHANGED <<acc, flags, verdict>>
          \/ /\ verdict' = "EPERM" /\ UNCHANGED <<pc, acc, flags>>
             /\ call.nr \in Names(Kernel)
      BY <1>1, <1>8, <2>1, <2>2, SegmentStep
    <2>4. ASSUME pc' \in Nat, pc' > pc, pc' <= 123, Tested(98, Kernel)',
                 UNCHANGED <<acc, flags, verdict>>
          PROVE  FilterInv'
      <3>1. Tested(10, <<"clone3">>)'
        <4>1. /\ 10 \in Nat /\ Len(<<"clone3">>) \in Nat /\ pc \in Nat
             /\ pc > 10 + 2 * Len(<<"clone3">>)
          BY <1>8, <2>4, Lengths
        <4>2. QED
          BY <1>1, <2>4, <4>1, TestedKept DEF Passed
      <3>2. Tested(12, Sockets)'
        <4>1. 12 \in Nat /\ Len(Sockets) \in Nat /\ pc \in Nat /\ pc > 12 + 2 * Len(Sockets)
          BY <1>8, <2>4, Lengths
        <4>2. QED
          BY <1>1, <2>4, <4>1, TestedKept DEF Passed
      <3>3. Tested(36, Mounting)'
        <4>1. 36 \in Nat /\ Len(Mounting) \in Nat /\ pc \in Nat /\ pc > 36 + 2 * Len(Mounting)
          BY <1>8, <2>4, Lengths
        <4>2. QED
          BY <1>1, <2>4, <4>1, TestedKept DEF Passed
      <3>4. Tested(58, Attributes)'
        <4>1. 58 \in Nat /\ Len(Attributes) \in Nat /\ pc \in Nat /\ pc > 58 + 2 * Len(Attributes)
          BY <1>8, <2>4, Lengths
        <4>2. QED
          BY <1>1, <2>4, <4>1, TestedKept DEF Passed
      <3>5. QED
        BY <1>2, <1>8, <2>4, <3>1, <3>2, <3>3, <3>4 DEF Passed
    <2>5. ASSUME call.nr \in Names(Kernel), verdict' = "EPERM", UNCHANGED <<pc, acc, flags>>
          PROVE  FilterInv'
      BY <1>1, <1>3, <2>5, AnswersFollow
    <2>6. QED
      BY <2>2, <2>3, <2>4, <2>5
  <1>9. QED
    BY <1>4, <1>5, <1>6, <1>7, <1>8

LEMMA NextFilterInv == FilterInv /\ [FilterNext]_filterVars => FilterInv'
  <1>1. SUFFICES ASSUME FilterInv, [FilterNext]_filterVars PROVE FilterInv'
    OBVIOUS
  <1>2. CASE UNCHANGED filterVars
    <2>1. UNCHANGED <<call, loopback, pc, acc, flags>> /\ UNCHANGED verdict
      BY <1>2 DEF filterVars
    <2>2. Switch' /\ Known' /\ Passed' /\ pc' \in 1..123
      BY <1>1, <2>1 DEF FilterInv, Switch, Known, Passed, Tested
    <2>3. Policy' = Policy
      BY <2>1 DEF Policy
    <2>4. FollowsPolicy'
      BY <1>1, <2>1, <2>3 DEF FilterInv, FollowsPolicy
    <2>5. QED
      BY <2>2, <2>4 DEF FilterInv
  <1>3. CASE FilterNext
    <2>1. CASE pc \in 1..10
      BY <1>1, <1>3, <2>1, HeadStep
    <2>2. CASE pc \in 11..122
      BY <1>1, <1>3, <2>2, ListStep
    <2>3. CASE pc = 123
      <3>1. /\ Switch /\ Known /\ Passed
        BY <1>1 DEF FilterInv
      <3>2. Instr = Ret("ALLOW")
        BY <2>3, <3>1, Layout DEF Instr, Switch
      <3>3. verdict' = "ALLOW" /\ UNCHANGED <<call, loopback, pc, acc, flags>>
        BY <1>3, <3>2, Steps
      <3>4. call.nr \notin Names(<<"clone3">>)
        <4>1. \A i \in 1..Len(<<"clone3">>) : call.nr # <<"clone3">>[i]
          BY <2>3, <3>1, Lengths DEF Passed, Tested
        <4>2. QED
          BY <4>1 DEF Names
      <3>5. call.nr \notin Names(Sockets)
        <4>1. \A i \in 1..Len(Sockets) : call.nr # Sockets[i]
          BY <2>3, <3>1, Lengths DEF Passed, Tested
        <4>2. QED
          BY <4>1 DEF Names
      <3>6. call.nr \notin Names(Mounting)
        <4>1. \A i \in 1..Len(Mounting) : call.nr # Mounting[i]
          BY <2>3, <3>1, Lengths DEF Passed, Tested
        <4>2. QED
          BY <4>1 DEF Names
      <3>7. call.nr \notin Names(Attributes)
        <4>1. \A i \in 1..Len(Attributes) : call.nr # Attributes[i]
          BY <2>3, <3>1, Lengths DEF Passed, Tested
        <4>2. QED
          BY <4>1 DEF Names
      <3>8. call.nr \notin Names(Kernel)
        <4>1. \A i \in 1..Len(Kernel) : call.nr # Kernel[i]
          BY <2>3, <3>1, Lengths DEF Passed, Tested
        <4>2. QED
          BY <4>1 DEF Names
      <3>9. call.arch = "x86_64" /\ (call.nr = "clone" => call.flags \cap NamespaceFlags = {})
        BY <2>3, <3>1 DEF Known
      <3>10. Policy = "ALLOW"
        BY <3>4, <3>5, <3>6, <3>7, <3>8, <3>9, AnswersFollow
      <3>11. QED
        BY <1>1, <3>3, <3>10, Answered
    <2>4. QED
      BY <1>1, <2>1, <2>2, <2>3 DEF FilterInv
  <1>4. QED
    BY <1>1, <1>2, <1>3

LEMMA InitFilterInv == FilterInit => FilterInv
  <1>1. SUFFICES ASSUME FilterInit PROVE FilterInv
    OBVIOUS
  <1>2. Switch /\ pc = 1
    BY <1>1, Zenon DEF FilterInit, Switch
  <1>3. Known
    BY <1>2 DEF Known
  <1>4. Passed
    BY <1>2, Lengths DEF Passed, Tested
  <1>5. FollowsPolicy
    BY <1>1, Zenon DEF FilterInit, FollowsPolicy
  <1>6. QED
    BY <1>2, <1>3, <1>4, <1>5 DEF FilterInv

\* The filter answers every system call of every architecture the way the policy wants,
\* with the loopback allowed or not: install_seccomp's hand-counted jumps are right.
THEOREM FilterFollows == FilterSpec => []FollowsPolicy
  <1>1. FilterInv => FollowsPolicy
    BY DEF FilterInv
  <1>2. QED
    BY InitFilterInv, NextFilterInv, <1>1, PTL DEF FilterSpec

\* The program is not run off its end: no jump, from any instruction that a system call
\* can bring the machine to, leaves it.
THEOREM FilterInside == FilterSpec => [](pc \in 1..Len(Filters[loopback]))
  <1>1. FilterInv => pc \in 1..Len(Filters[loopback])
    <2>1. ASSUME FilterInv
          PROVE  Len(Filters[loopback]) = 123
      BY <2>1, Layout DEF FilterInv, Switch
    <2>2. QED
      BY <2>1 DEF FilterInv
  <1>2. QED
    BY InitFilterInv, NextFilterInv, <1>1, PTL DEF FilterSpec

=============================================================================
