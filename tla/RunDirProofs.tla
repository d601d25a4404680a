---------------------------- MODULE RunDirProofs ----------------------------
(***************************************************************************)
(* Theorems about RunDir, for every set of runners, of inputs and of       *)
(* contents.                                                               *)
(*                                                                         *)
(* For any number of runners, at once or one after the other, killed and   *)
(* failing at any program point:                                           *)
(*   TypeCorrect        every variable keeps its type                      *)
(*   OneAgent           one agent at work (HomeInv)                        *)
(*   ExclusiveCreation  one creator (CreatorInv)                           *)
(*   ResumeContinues    one set of inputs (InputsInv)                      *)
(*   CountedIsAuthored  one agent behind a counted cell (AgentInv,         *)
(*                      StatusInv)                                         *)
(*   CountedIsSolved    a solved workspace in a counted cell (SolvedInv)   *)
(* For one runner at a time (~Overlap):                                    *)
(*   StatusBelongs      a counted cell's exit status (AloneInv, OnceInv)   *)
(*   OneCell            the refinement of RunCell                          *)
(*   EvidenceOfCounted  a counted cell's diff and patch (EvidenceInv)      *)
(*   CountedForGood     no step undoes a counted cell (GraderInv)          *)
(*   SealedClean        what is sealed (CleanInv, BaseInv, TimingInv,      *)
(*                      LitterInv)                                         *)
(*   CompleteIntact     what COMPLETE vouches for (IntactInv)              *)
(*   AgentsStartWhole   the workspace an agent is launched in (WholeInv)   *)
(*   ReportedReadOnly   the permissions of what is sealed (ReadOnlyInv)    *)
(*   ResultRepeats      what result.json says (OutcomeInv)                 *)
(*   RecordedForGood    no second agent, no second grade (GradeInv)        *)
(* All of these but the first two name the points at which a kill or a     *)
(* failure would refute them.  Again for any number of runners:            *)
(*   WaitsForAnAgent    no runner waits for nothing (WaitInv)              *)
(*   RunsAreFinite      a measure every step of a run decreases            *)
(***************************************************************************)
EXTENDS RunDirProperties, TLAPS

USE ConstantsOK DEF ConstantsOK

-----------------------------------------------------------------------------
(* The inductive invariants: what is true of the directory and of          *)
(* everything that works on it between any two steps.                      *)

(* One agent.  The disposable home is there from before a runner launches  *)
(* its agent until after that agent is gone, and its creation is           *)
(* exclusive.  The lock plays no part.                                     *)

Holds(r) == pc[r] \in {"launch", "wait", "reap"} \/ agent[r] \in LiveAgent

HomeInv ==
    /\ \A r \in Runners : Holds(r) => files.home
    /\ \A r, s \in Runners : Holds(r) /\ Holds(s) => r = s
    /\ \A r \in Runners : agent[r] \in LiveAgent => pc[r] \in {"wait", "dead"}

-----------------------------------------------------------------------------
(* One creator.  mkdir of the run directory is exclusive, and an           *)
(* invocation without --resume never passes a directory that is there.     *)

Created(r) == mode[r] = "fresh" /\ pc[r] \in Running \ {"mkdir"}

CreatorInv ==
    /\ \A r \in Runners : Created(r) => dir = "present"
    /\ \A r, s \in Runners : Created(r) /\ Created(s) => r = s
    /\ \A r \in Runners : pc[r] \in {"mkdir", "request"} => mode[r] = "fresh"

-----------------------------------------------------------------------------
(* One set of inputs.  The creator writes request.json once, before any    *)
(* other runner can pass its comparison with it.                           *)

Requested(h) == h # NoHermes => inputs[h.by] = request

InputsInv ==
    /\ dir = "absent" => request = NoInputs
    /\ \A r \in Runners : pc[r] = "request" => request = NoInputs
    /\ \A r \in Runners : pc[r] \in Running \ {"mkdir", "request"} => inputs[r] = request
    /\ files.from # NoInputs => files.from = request
    /\ Requested(files.exit.hermes)
    /\ \A r \in Runners : Requested(mem[r].exit.hermes)

-----------------------------------------------------------------------------
(* What is recorded of an agent.  An agent's status is final once its      *)
(* runner has recorded it, and status 0 is only that of an agent that was  *)
(* built, in the trace, and that ended by itself.                          *)

Waiting == {"launch", "wait", "reap"}
Unlaunched == {"idle", "mkdir", "request", "lock", "readLock", "breakLock", "relock",
               "writePid", "prepare", "copy", "baseline", "load", "home", "launch"}

\* What is recorded is the status of an agent that is not at work and will not be.
Truthful(exit) ==
    IF exit.hermes = NoHermes THEN exit.grader = "none"
    ELSE \E h \in Runners : /\ exit.hermes = [by |-> h, code |-> code[h]]
                            /\ agent[h] \notin LiveAgent /\ pc[h] \notin Unlaunched

AgentInv ==
    /\ \A r \in Runners : pc[r] \in Unlaunched =>
           agent[r] = "none" /\ code[r] = "error" /\ r \notin strays
    /\ \A r \in Runners : agent[r] \in LiveAgent => code[r] = "error" /\ r \notin strays
    /\ \A r \in Runners : code[r] = "ok" => agent[r] = "gone" /\ r \notin strays
    /\ \A r \in Runners :
         agent[r] = "working" \/ r \in strays \/ code[r] = "ok" => r \in files.cogs

\* The points at which a runner holds a recorded agent in memory.
HoldsStatus == {"exitHermes", "timingHermes", "collect", "patch", "grade", "grading",
                "exitGrader", "timingGrader", "finish"}

StatusInv ==
    /\ Truthful(files.exit)
    /\ \A r \in Runners : Truthful(mem[r].exit)
    /\ \A r \in Runners : pc[r] \in {"home"} \cup Waiting => mem[r].exit.hermes = NoHermes
    /\ \A r \in Runners : pc[r] \in HoldsStatus => mem[r].exit.hermes # NoHermes
    /\ files.result.success => \E h \in Runners : code[h] = "ok"

-----------------------------------------------------------------------------
(* What is graded.  Once an agent has ended with status 0, and no other    *)
(* was built, nobody edits the workspace; so every copy that is graded     *)
(* from then on is that of the workspace.                                  *)

Settled(h) == code[h] = "ok" /\ files.cogs = {h}

\* The grader's copy is the workspace, and its verdict is about the workspace.
GradedHere ==
    /\ files.gws \in {files.content, NoContent}
    /\ files.graderOut = "accept" => files.content \in Solved

\* The workspace an agent works in was copied before it was launched.
Untouched ==
    files.base = "none" =>
        /\ files.cogs = {}
        /\ \A r \in Runners : /\ agent[r] = "none"
                              /\ pc[r] \notin {"baseline", "load", "home"} \cup Waiting

\* What is recorded of agent h, or held by a runner that goes on with it.
Evaluated(h) ==
    /\ files.exit.hermes.by = h /\ files.exit.grader # "none" => GradedHere
    /\ \A r \in Runners : mem[r].exit.hermes.by = h =>
         (mem[r].exit.grader # "none" \/ pc[r] = "grading" => GradedHere)
    /\ files.result.success => files.content \in Solved

SolvedInv == Untouched /\ \A h \in Runners : Settled(h) => Evaluated(h)

-----------------------------------------------------------------------------
(* One runner at a time (Overlap is FALSE).  Nothing is recorded twice,    *)
(* and a complete directory has no runner to come.                         *)

\* The points from which a run goes on to the end with a recorded agent.
Sealing == {"sums", "seal", "chmodTree", "chmodRoot"}
Recorded == {"timingHermes", "collect", "patch", "grade", "grading", "timingGrader",
             "finish", "unlock"} \cup Sealing

AloneInv ==
    /\ \A r, s \in Runners : Alive(r) /\ Alive(s) => r = s
    /\ dir = "absent" => mark = "none" /\ \A r \in Runners : ~Alive(r) \/ pc[r] = "mkdir"
    /\ mark = "none" => ~treeRO /\ ~rootRO
    /\ mark # "none" => \A r \in Runners : Alive(r) =>
                            ~rootRO /\ pc[r] \in {"chmodTree", "chmodRoot", "abort"}
    /\ \A r \in Runners : pc[r] \in {"chmodTree", "chmodRoot"} => mark # "none"

OnceInv ==
    /\ \A r \in Runners : pc[r] \in {"home", "exitHermes"} \cup Waiting =>
                              files.exit.hermes = NoHermes
    /\ \A r \in Runners : pc[r] \in Recorded => files.exit = mem[r].exit
    /\ \A r \in Runners : pc[r] \in Recorded \cup {"exitGrader"} =>
           files.exit.hermes = mem[r].exit.hermes /\ mem[r].exit.hermes # NoHermes
    /\ files.exit.hermes # NoHermes => ~files.home
    /\ \A r \in Runners : pc[r] = "exitHermes" => ~files.home
    /\ files.result.success => files.exit.hermes.code = "ok"

\* What a run that got so far has left behind, and what it has not.
GraderRecorded == {"exitGrader", "timingGrader", "finish", "unlock"} \cup Sealing

CleanInv ==
    /\ \A r \in Runners : pc[r] \in {"exitHermes", "timingHermes"} =>
                              mem[r].exit.grader = "none"
    /\ \A r \in Runners : pc[r] \in GraderRecorded =>
                              mem[r].exit.grader # "none" /\ files.gws = NoContent
    /\ files.exit.grader # "none" => files.gws = NoContent
    /\ \A r \in Runners : pc[r] \in Sealing => lock = NoLock
    /\ mark # "none" => /\ lock = NoLock
                        /\ files.exit.hermes # NoHermes /\ files.exit.grader # "none"

\* What is held or said of the evidence, once nobody edits the workspace any more.
Grading == {"grade", "grading", "exitGrader", "timingGrader", "finish"}
OfTheWorkspace == files.evidence = [diff |-> files.content, patch |-> files.content]
Evidenced == files.result.available => OfTheWorkspace

EvidenceInv ==
    (\E h \in Runners : Settled(h)) =>
        /\ \A r \in Runners : pc[r] = "patch" => taken[r].diff = files.content
        /\ \A r \in Runners : pc[r] \in Grading /\ taken[r].available => OfTheWorkspace
        /\ mark # "none" \/ (\E r \in Runners : pc[r] \in {"unlock"} \cup Sealing)
              => Evidenced

-----------------------------------------------------------------------------
(* No runner is killed, and none fails, in the copy of the starter or      *)
(* between the two telemetry files.                                        *)

\* The points from which the workspace is a committed copy of the starter.
Prepared == InTry \ {"prepare", "copy", "baseline"}

BaseInv ==
    /\ files.base = "partial" => \E r \in Runners : pc[r] = "baseline"
    /\ \A r \in Runners : pc[r] \in Prepared => files.base = "full"
    /\ mark # "none" => files.base = "full"

TimingInv ==
    /\ files.exit.hermes # NoHermes =>
           "hermes" \in files.timing \/ \E r \in Runners : pc[r] = "timingHermes"
    /\ files.exit.grader # "none" =>
           "grader" \in files.timing \/ \E r \in Runners : pc[r] = "timingGrader"
    /\ \A r \in Runners : pc[r] \in {"exitHermes", "timingHermes"} =>
                              "hermes" \in mem[r].timing
    /\ \A r \in Runners : pc[r] \in {"collect", "patch", "grade", "grading"} =>
                              mem[r].timing = files.timing
    /\ \A r \in Runners : pc[r] \in {"exitGrader", "timingGrader"} =>
                              mem[r].timing = {"hermes", "grader"}

-----------------------------------------------------------------------------
(* Nobody removes what a stopped runner left, and nobody at work leaves    *)
(* anything once it has taken its evidence.                                *)

LitterInv ==
    /\ \A r \in litter : pc[r] \in {"patch", "abort", "dead", "failed"}
    /\ mark # "none" => \A r \in litter : pc[r] \in {"dead", "failed"}

-----------------------------------------------------------------------------
(* No runner is killed while its grader is at work.                        *)

GraderInv == \A r \in Runners : grader[r] \in {"intact", "hurt"} => pc[r] = "grading"

(* Nor do an agent's tools outlive it: nothing is left that could write    *)
(* once the checksums are taken.                                           *)
IntactInv ==
    /\ strays = {}
    /\ \A r \in Runners : pc[r] = "seal" => sums = {Digested}
    /\ mark # "none" => sums = {Digested} /\ mark = "match"

-----------------------------------------------------------------------------
(* The type invariant of the files.                                        *)

\* The files an action rewrites keep their types.
LEMMA ScratchType ==
    ASSUME files \in Files, NEW h \in BOOLEAN, NEW c \in Contents \cup {NoContent}
    PROVE  /\ [files EXCEPT !.home = h] \in Files
           /\ [files EXCEPT !.gws = c] \in Files
           /\ [files EXCEPT !.gws = c, !.graderOut = "broken"] \in Files
           /\ [files EXCEPT !.content = c] \in Files
  BY ZenonT(60) DEF Files, Verdicts

LEMMA TraceType ==
    ASSUME files \in Files, NEW r \in Runners
    PROVE  /\ [files EXCEPT !.hooks = @ \cup {r}] \in Files
           /\ [files EXCEPT !.cogs = @ \cup {r}] \in Files
  BY DEF Files

LEMMA VerdictType ==
    ASSUME files \in Files, NEW v \in Verdicts
    PROVE  [files EXCEPT !.graderOut = v] \in Files
  BY DEF Files

LEMMA StarterType ==
    ASSUME files \in Files, NEW i \in Inputs
    PROVE  [files EXCEPT !.base = "partial", !.from = i, !.content = Starter] \in Files
  BY DEF Files

LEMMA StageType ==
    ASSUME files \in Files, NEW r \in Runners, NEW g \in Stages
    PROVE  /\ [files EXCEPT !.base = "full", !.state = [by |-> r, stage |-> g]] \in Files
           /\ [files EXCEPT !.state = [by |-> r, stage |-> g]] \in Files
  BY DEF Files, States

LEMMA EvidenceType ==
    ASSUME files \in Files, NEW r \in Runners, NEW g \in Stages, NEW e \in Evidence
    PROVE  /\ [files EXCEPT !.evidence = e] \in Files
           /\ [files EXCEPT !.evidence = e, !.state = [by |-> r, stage |-> g]] \in Files
  BY DEF Files, States

LEMMA ResultType ==
    ASSUME files \in Files, NEW r \in Runners, NEW x \in Results, NEW g \in Stages
    PROVE  [files EXCEPT !.result = x, !.state = [by |-> r, stage |-> g]] \in Files
  BY DEF Files, States

LEMMA TelemetryType ==
    ASSUME files \in Files
    PROVE  /\ \A e \in ExitStatus : [files EXCEPT !.exit = e] \in Files
           /\ \A t \in SUBSET {"hermes", "grader"} : [files EXCEPT !.timing = t] \in Files
  BY DEF Files

LEMMA InitTypeOK == Init => TypeOK
  <1>1. NoExit \in ExitStatus
    BY DEF NoExit, ExitStatus, HermesStatus
  <1>2. [exit |-> NoExit, timing |-> {}] \in Memory
    BY <1>1 DEF Memory
  <1>3. NoState \in States /\ NoResult \in Results /\ NoEvidence \in Evidence
    BY DEF States, Results, Evidence, NoEvidence
  <1>4. NoFiles \in Files
    BY <1>1, <1>3 DEF NoFiles, Files
  <1>5. SUFFICES ASSUME Init PROVE TypeOK
    OBVIOUS
  <1>6. /\ pc \in [Runners -> {"idle"} \cup Running \cup Final]
        /\ mem \in [Runners -> Memory]
        /\ taken \in [Runners -> Taken]
        /\ agent \in [Runners -> {"none", "gone"} \cup LiveAgent]
        /\ code \in [Runners -> Codes]
        /\ grader \in [Runners -> {"none", "intact", "hurt", "done"}]
    BY <1>2, <1>5 DEF Init, Codes, Taken
  <1>7. QED
    BY <1>4, <1>5, <1>6 DEF Init, TypeOK

-----------------------------------------------------------------------------
(* The type invariant.  Each action is a step of its own.                  *)

LEMMA MemoryType ==
    ASSUME NEW m \in Memory, NEW r \in Runners, NEW c \in Codes, NEW g \in {"ok", "bad"}
    PROVE  /\ [m EXCEPT !.exit.hermes = [by |-> r, code |-> c],
                        !.timing = @ \cup {"hermes"}] \in Memory
           /\ [m EXCEPT !.exit.grader = g, !.timing = @ \cup {"grader"}] \in Memory
  <1>1. [m.exit EXCEPT !.hermes = [by |-> r, code |-> c]] \in ExitStatus
    BY DEF Memory, ExitStatus, HermesStatus
  <1>2. [m.exit EXCEPT !.grader = g] \in ExitStatus
    BY DEF Memory, ExitStatus
  <1>3. QED
    BY <1>1, <1>2 DEF Memory

LEMMA OutcomeType ==
    ASSUME TypeOK, NEW r \in Runners
    PROVE  Outcome(r) \in Results
  BY DEF TypeOK, Outcome, Results, Files, Verdicts, TraceVerified, Taken

LEMMA TakenType ==
    ASSUME taken \in [Runners -> Taken], NEW r \in Runners,
           NEW c \in Contents \cup {NoContent}
    PROVE  /\ [taken EXCEPT ![r].diff = c] \in [Runners -> Taken]
           /\ [taken EXCEPT ![r].available = TRUE] \in [Runners -> Taken]
           /\ [taken EXCEPT ![r].available = FALSE] \in [Runners -> Taken]
  BY DEF Taken

LEMMA LockType ==
    ASSUME NEW r \in Runners, NEW w \in BOOLEAN
    PROVE  [owner |-> r, written |-> w] \in Locks
  BY DEF Locks

LEMMA AdmissionType ==
    ASSUME TypeOK, NEW r \in Runners,
           \/ Begin(r) \/ Mkdir(r) \/ WriteRequest(r) \/ AcquireLock(r) \/ ReadLock(r)
           \/ BreakLock(r) \/ RetakeLock(r) \/ WritePid(r)
    PROVE  TypeOK'
  <1>1. CASE Begin(r)
    BY <1>1 DEF TypeOK, Begin, ReportComplete, Final, Running, procVars, dirVars
  <1>2. CASE Mkdir(r)
    BY <1>2 DEF TypeOK, Mkdir, Moves, Final, Running, procVars
  <1>3. CASE WriteRequest(r)
    BY <1>3 DEF TypeOK, WriteRequest, Moves, Running, procVars
  <1>4. CASE AcquireLock(r)
    <2>1. pc' \in [Runners -> {"idle"} \cup Running \cup Final]
      BY <1>4 DEF TypeOK, AcquireLock, Moves, Final, Running
    <2>2. lock' \in Locks \cup {NoLock}
      BY <1>4, LockType DEF TypeOK, AcquireLock
    <2>3. QED
      BY <1>4, <2>1, <2>2 DEF TypeOK, AcquireLock, procVars
  <1>5. CASE ReadLock(r)
    BY <1>5 DEF TypeOK, ReadLock, Moves, Final, Running, procVars, dirVars
  <1>6. CASE BreakLock(r)
    BY <1>6 DEF TypeOK, BreakLock, Moves, Final, Running, procVars
  <1>7. CASE RetakeLock(r)
    <2>1. pc' \in [Runners -> {"idle"} \cup Running \cup Final]
      BY <1>7 DEF TypeOK, RetakeLock, Moves, Final, Running
    <2>2. lock' \in Locks \cup {NoLock}
      BY <1>7, LockType DEF TypeOK, RetakeLock
    <2>3. QED
      BY <1>7, <2>1, <2>2 DEF TypeOK, RetakeLock, procVars
  <1>8. CASE WritePid(r)
    BY <1>8, LockType DEF TypeOK, WritePid, Moves, Running, InTry, procVars
  <1>9. QED
    BY <1>1, <1>2, <1>3, <1>4, <1>5, <1>6, <1>7, <1>8

LEMMA WorkType ==
    ASSUME TypeOK, NEW r \in Runners,
           \/ Prepare(r) \/ CopyStarter(r) \/ Baseline(r) \/ Load(r) \/ MakeHome(r)
           \/ LaunchHermes(r) \/ WaitReturns(r) \/ HermesTimeout(r) \/ Reap(r)
    PROVE  TypeOK'
  <1>1. CASE Prepare(r)
    BY <1>1 DEF TypeOK, Prepare, Moves, Running, InTry, procVars, dirVars
  <1>2. CASE CopyStarter(r)
    <2>1. pc' \in [Runners -> {"idle"} \cup Running \cup Final]
      BY <1>2 DEF TypeOK, CopyStarter, Moves, Running, InTry
    <2>2. files' \in Files
      <3>1. files \in Files /\ inputs[r] \in Inputs
        BY DEF TypeOK
      <3>2. \/ files' = files
            \/ files' = [files EXCEPT !.base = "partial", !.from = inputs[r],
                                      !.content = Starter]
        BY <1>2 DEF CopyStarter, Rewrite, dirVars
      <3>3. QED
        BY <3>1, <3>2, StarterType
    <2>3. QED
      BY <1>2, <2>1, <2>2 DEF TypeOK, CopyStarter, Rewrite, procVars, dirVars
  <1>3. CASE Baseline(r)
    <2>1. files' \in Files
      BY <1>3, StageType DEF TypeOK, Baseline, Rewrite, Stages
    <2>2. QED
      BY <1>3, <2>1 DEF TypeOK, Baseline, Moves, Running, InTry, Rewrite, procVars
  <1>4. CASE Load(r)
    <2>1. [exit |-> files.exit, timing |-> files.timing] \in Memory
      BY DEF TypeOK, Files, Memory
    <2>2. QED
      BY <1>4, <2>1 DEF TypeOK, Load, Moves, Running, InTry, procVars, dirVars
  <1>5. CASE MakeHome(r)
    <2>1. pc' \in [Runners -> {"idle"} \cup Running \cup Final]
      BY <1>5 DEF TypeOK, MakeHome, Moves, Running, InTry
    <2>2. files' \in Files
      BY <1>5, ScratchType DEF TypeOK, MakeHome, Rewrite, dirVars
    <2>3. QED
      BY <1>5, <2>1, <2>2 DEF TypeOK, MakeHome, Rewrite, procVars, dirVars
  <1>6. CASE LaunchHermes(r)
    BY <1>6 DEF TypeOK, LaunchHermes, Moves, Running, InTry, dirVars, Codes, LiveAgent
  <1>7. CASE WaitReturns(r)
    BY <1>7 DEF TypeOK, WaitReturns, Moves, Running, InTry, procVars, dirVars
  <1>8. CASE HermesTimeout(r)
    BY <1>8 DEF TypeOK, HermesTimeout, ForcedEnd, runnerVars, dirVars, Codes
  <1>9. CASE Reap(r)
    <2>1. pc' \in [Runners -> {"idle"} \cup Running \cup Final]
      BY <1>9 DEF TypeOK, Reap, Moves, Running, InTry
    <2>2. files' \in Files
      BY <1>9, ScratchType DEF TypeOK, Reap
    <2>3. mem' \in [Runners -> Memory]
      <3>1. [mem[r] EXCEPT !.exit.hermes = [by |-> r, code |-> code[r]],
                           !.timing = @ \cup {"hermes"}] \in Memory
        BY MemoryType DEF TypeOK
      <3>2. CASE mem' = mem
        BY <3>2 DEF TypeOK
      <3>3. CASE mem' = [mem EXCEPT ![r].exit.hermes = [by |-> r, code |-> code[r]],
                                    ![r].timing = @ \cup {"hermes"}]
        BY <3>1, <3>3 DEF TypeOK
      <3>4. QED
        BY <1>9, <3>2, <3>3 DEF Reap
    <2>4. QED
      BY <1>9, <2>1, <2>2, <2>3 DEF TypeOK, Reap, procVars
  <1>10. QED
    BY <1>1, <1>2, <1>3, <1>4, <1>5, <1>6, <1>7, <1>8, <1>9

LEMMA GradeType ==
    ASSUME TypeOK, NEW r \in Runners
    PROVE  /\ Disturbed \in [Runners -> {"none", "intact", "hurt", "done"}]
           /\ DropGraderCopy \in Files
  BY ScratchType DEF TypeOK, Disturbed, DropGraderCopy

LEMMA RecordType ==
    ASSUME TypeOK, NEW r \in Runners, NEW from, NEW to \in Running,
           RecordExit(r, from, to) \/ RecordTiming(r, from, to)
    PROVE  TypeOK'
  <1>1. mem[r].exit \in ExitStatus /\ mem[r].timing \in SUBSET {"hermes", "grader"}
    BY DEF TypeOK, Memory
  <1>2. files' \in Files
    BY <1>1, TelemetryType DEF TypeOK, RecordExit, RecordTiming, Rewrite
  <1>3. pc' \in [Runners -> {"idle"} \cup Running \cup Final]
    BY DEF TypeOK, RecordExit, RecordTiming, Moves
  <1>4. QED
    BY <1>2, <1>3 DEF TypeOK, RecordExit, RecordTiming, Rewrite, procVars

LEMMA GradingType ==
    ASSUME TypeOK, NEW r \in Runners,
           Collect(r) \/ Patch(r) \/ Grade(r) \/ CollectGrade(r) \/ Finish(r)
    PROVE  TypeOK'
  <1>1. CASE Collect(r) \/ Patch(r)
    <2>1. /\ files \in Files /\ files.content \in Contents \cup {NoContent}
          /\ taken[r].diff \in Contents \cup {NoContent}
          /\ NoEvidence \in Evidence /\ Diffs(r) \in Evidence
      BY DEF TypeOK, Files, Taken, Diffs, Evidence, NoEvidence
    <2>2. files' \in Files
      <3>1. \/ files' = [files EXCEPT !.state = [by |-> r, stage |-> "hermes_complete"]]
            \/ files' = [files EXCEPT !.evidence = NoEvidence,
                            !.state = [by |-> r, stage |-> "evidence_complete"]]
            \/ files' = [files EXCEPT !.evidence = Diffs(r),
                            !.state = [by |-> r, stage |-> "evidence_complete"]]
            \/ files' = [files EXCEPT !.evidence = Diffs(r)]
        BY <1>1 DEF Collect, Patch, Captured, RewriteWith
      <3>2. "hermes_complete" \in Stages /\ "evidence_complete" \in Stages
        BY DEF Stages
      <3>3. [files EXCEPT !.state = [by |-> r, stage |-> "hermes_complete"]] \in Files
        BY <2>1, <3>2, StageType
      <3>4. [files EXCEPT !.evidence = NoEvidence,
                          !.state = [by |-> r, stage |-> "evidence_complete"]] \in Files
        BY <2>1, <3>2, EvidenceType
      <3>5. /\ [files EXCEPT !.evidence = Diffs(r),
                   !.state = [by |-> r, stage |-> "evidence_complete"]] \in Files
            /\ [files EXCEPT !.evidence = Diffs(r)] \in Files
        BY <2>1, <3>2, EvidenceType
      <3>6. QED
        BY <3>1, <3>3, <3>4, <3>5
    <2>3. pc' \in [Runners -> {"idle"} \cup Running \cup Final]
      BY <1>1 DEF TypeOK, Collect, Patch, Moves, Running, InTry
    <2>4. taken' \in [Runners -> Taken]
      <3>1. \/ taken' = [taken EXCEPT ![r].diff = files.content]
            \/ taken' = [taken EXCEPT ![r].available = TRUE]
            \/ taken' = [taken EXCEPT ![r].available = FALSE]
            \/ taken' = taken
        BY <1>1 DEF Collect, Patch, Captured
      <3>2. taken \in [Runners -> Taken]
        BY DEF TypeOK
      <3>3. /\ [taken EXCEPT ![r].diff = files.content] \in [Runners -> Taken]
            /\ [taken EXCEPT ![r].available = TRUE] \in [Runners -> Taken]
            /\ [taken EXCEPT ![r].available = FALSE] \in [Runners -> Taken]
        BY ZenonT(60), <2>1, <3>2, TakenType
      <3>4. QED
        BY <3>1, <3>2, <3>3
    <2>5. litter' \subseteq Runners
      BY <1>1 DEF TypeOK, Collect, Patch, Captured, RewriteWith
    <2>6. QED
      BY <1>1, <2>2, <2>3, <2>4, <2>5
         DEF TypeOK, Collect, Patch, Captured, RewriteWith, procVars
  <1>2. CASE Grade(r)
    <2>1. pc' \in [Runners -> {"idle"} \cup Running \cup Final]
      BY <1>2 DEF TypeOK, Grade, Moves, Running, InTry
    <2>2. files.content \in Contents \cup {NoContent}
      BY DEF TypeOK, Files
    <2>3. files' \in Files
      <3>1. \/ files' = files
            \/ files' = [files EXCEPT !.gws = files.content, !.graderOut = "broken"]
        BY <1>2 DEF Grade, Rewrite, dirVars
      <3>2. [files EXCEPT !.gws = files.content, !.graderOut = "broken"] \in Files
        BY <2>2, ScratchType DEF TypeOK
      <3>3. QED
        BY <3>1, <3>2 DEF TypeOK
    <2>4. grader' \in [Runners -> {"none", "intact", "hurt", "done"}]
      BY <1>2, GradeType DEF TypeOK, Grade
    <2>5. QED
      BY <1>2, <2>1, <2>3, <2>4 DEF TypeOK, Grade, Rewrite, dirVars
  <1>3. CASE CollectGrade(r)
    <2>1. mem' \in [Runners -> Memory]
      <3>1. PICK g \in {"ok", "bad"} :
              mem' = [mem EXCEPT ![r].exit.grader = g, ![r].timing = @ \cup {"grader"}]
        BY <1>3 DEF CollectGrade
      <3>2. [mem[r] EXCEPT !.exit.grader = g, !.timing = @ \cup {"grader"}] \in Memory
        BY MemoryType DEF TypeOK
      <3>3. QED
        BY <3>1, <3>2 DEF TypeOK
    <2>2. grader' \in [Runners -> {"none", "intact", "hurt", "done"}]
      BY <1>3, GradeType DEF CollectGrade
    <2>3. QED
      BY <1>3, <2>1, <2>2, GradeType
         DEF TypeOK, CollectGrade, Moves, Running, InTry
  <1>4. CASE Finish(r)
    <2>1. files' \in Files
      BY <1>4, ResultType, OutcomeType DEF TypeOK, Finish, Rewrite, Stages
    <2>2. QED
      BY <1>4, <2>1 DEF TypeOK, Finish, Moves, Running, InTry, Rewrite, procVars
  <1>5. QED
    BY <1>1, <1>2, <1>3, <1>4

LEMMA SealingType ==
    ASSUME TypeOK, NEW r \in Runners,
           \/ Unlock(r) \/ WriteChecksums(r) \/ Seal(r) \/ ChmodTree(r) \/ ChmodRoot(r)
           \/ Abort(r) \/ Denied(r) \/ Crash(r)
    PROVE  TypeOK'
  <1>1. CASE Unlock(r)
    BY <1>1 DEF TypeOK, Unlock, Moves, Running, InTry, procVars
  <1>2. CASE WriteChecksums(r)
    <2>1. {Digested} \subseteq Files \X SUBSET Runners
      BY DEF TypeOK, Digested
    <2>2. QED
      BY <1>2, <2>1 DEF TypeOK, WriteChecksums, Moves, Running, InTry, procVars
  <1>3. CASE Seal(r)
    BY <1>3 DEF TypeOK, Seal, Moves, Running, InTry, procVars
  <1>4. CASE ChmodTree(r)
    BY <1>4 DEF TypeOK, ChmodTree, Moves, Running, InTry, procVars
  <1>5. CASE ChmodRoot(r)
    BY <1>5 DEF TypeOK, ChmodRoot, Moves, Final, procVars
  <1>6. CASE Abort(r)
    BY <1>6 DEF TypeOK, Abort, Moves, Final, procVars
  <1>7. CASE Denied(r)
    BY <1>7 DEF TypeOK, Denied, Running, procVars, dirVars
  <1>8. CASE Crash(r)
    BY <1>8 DEF TypeOK, Crash, Leaves, RewriteWith, Final, procVars, dirVars
  <1>9. QED
    BY <1>1, <1>2, <1>3, <1>4, <1>5, <1>6, <1>7, <1>8

LEMMA RaiseType ==
    ASSUME TypeOK, NEW r \in Runners, Raise(r)
    PROVE  TypeOK'
  <1>1. pc' \in [Runners -> {"idle"} \cup Running \cup Final]
    BY DEF TypeOK, Raise, Running
  <1>2. files' \in Files
    BY ScratchType, GradeType DEF TypeOK, Raise, Leaves, DropIndex, RewriteWith
  <1>3. /\ agent' \in [Runners -> {"none", "gone"} \cup LiveAgent]
        /\ strays' \subseteq Runners
    BY DEF TypeOK, Raise, ForcedEnd
  <1>4. grader' \in [Runners -> {"none", "intact", "hurt", "done"}]
    BY GradeType DEF TypeOK, Raise
  <1>5. QED
    BY <1>1, <1>2, <1>3, <1>4 DEF TypeOK, Raise, Leaves, DropIndex, RewriteWith

LEMMA EnvironmentType ==
    ASSUME TypeOK, NEW r \in Runners, Environment(r)
    PROVE  TypeOK'
  <1>1. CASE AgentHook(r)
    BY <1>1, TraceType DEF TypeOK, AgentHook, runnerVars, LiveAgent
  <1>2. CASE AgentConstruct(r)
    BY <1>2, TraceType DEF TypeOK, AgentConstruct, runnerVars, LiveAgent
  <1>3. CASE AgentExit(r)
    BY <1>3 DEF TypeOK, AgentExit, runnerVars, dirVars, Codes
  <1>4. CASE Edit(r)
    <2>1. files' \in Files
      <3>1. PICK c \in Contents : files' = [files EXCEPT !.content = c]
        BY <1>4 DEF Edit
      <3>2. QED
        BY <3>1, ScratchType DEF TypeOK
    <2>2. QED
      BY <1>4, <2>1 DEF TypeOK, Edit, runnerVars, procVars
  <1>5. CASE StrayEnds(r)
    BY <1>5 DEF TypeOK, StrayEnds, runnerVars, dirVars
  <1>6. CASE GraderEnds(r)
    <2>1. files' \in Files
      BY <1>6, VerdictType DEF TypeOK, GraderEnds
    <2>2. QED
      BY <1>6, <2>1 DEF TypeOK, GraderEnds, runnerVars
  <1>7. QED
    BY <1>1, <1>2, <1>3, <1>4, <1>5, <1>6 DEF Environment

LEMMA NextTypeOK == TypeOK /\ [Next]_vars => TypeOK'
  <1>1. ASSUME TypeOK, NEW r \in Runners, Step(r)
        PROVE  TypeOK'
    <2>1. ASSUME \/ RecordExit(r, "exitHermes", "timingHermes")
                 \/ RecordTiming(r, "timingHermes", "collect")
                 \/ RecordExit(r, "exitGrader", "timingGrader")
                 \/ RecordTiming(r, "timingGrader", "finish")
          PROVE  TypeOK'
      <3>1. {"timingHermes", "collect", "timingGrader", "finish"} \subseteq Running
        BY DEF Running, InTry
      <3>2. QED
        BY <1>1, <2>1, <3>1, RecordType
    <2>2. QED
      BY <1>1, <2>1, AdmissionType, WorkType, GradingType, SealingType DEF Step
  <1>2. TypeOK /\ UNCHANGED vars => TypeOK'
    BY DEF TypeOK, vars, runnerVars, procVars, dirVars
  <1>3. QED
    BY <1>1, <1>2, AdmissionType, SealingType, RaiseType, EnvironmentType DEF Next

\* Every variable keeps its type, whatever is killed, fails or overlaps.
THEOREM TypeCorrect == Spec => []TypeOK
  BY InitTypeOK, NextTypeOK, PTL DEF Spec

-----------------------------------------------------------------------------
(* One agent: HomeInv.                                                     *)

\* A step of a runner that neither launches nor awaits an agent.
LEMMA HomeKept ==
    ASSUME TypeOK, HomeInv, NEW r \in Runners, NEW p,
           pc' = [pc EXCEPT ![r] = p], p \notin {"launch", "wait", "reap"},
           pc[r] \notin {"wait", "dead"},
           agent' = agent, files'.home = files.home
    PROVE  HomeInv'
  BY DEF TypeOK, HomeInv, Holds

\* A step that moves no runner, launches no agent and leaves the home alone.
LEMMA HomeUntouched ==
    ASSUME HomeInv, UNCHANGED pc, files'.home = files.home,
           \A a \in Runners : agent'[a] \in LiveAgent => agent[a] \in LiveAgent
    PROVE  HomeInv'
  BY DEF HomeInv, Holds

LEMMA HomeAdmission ==
    ASSUME TypeOK, HomeInv, NEW r \in Runners,
           \/ Begin(r) \/ Mkdir(r) \/ WriteRequest(r) \/ AcquireLock(r) \/ ReadLock(r)
           \/ BreakLock(r) \/ RetakeLock(r) \/ WritePid(r)
    PROVE  HomeInv'
  <1>1. CASE Begin(r)
    BY <1>1, HomeKept DEF Begin, ReportComplete, procVars, dirVars
  <1>2. CASE Mkdir(r)
    BY <1>2, HomeKept DEF Mkdir, Moves, procVars
  <1>3. CASE WriteRequest(r)
    BY <1>3, HomeKept DEF WriteRequest, Moves, procVars
  <1>4. CASE AcquireLock(r)
    BY <1>4, HomeKept DEF AcquireLock, Moves, procVars
  <1>5. CASE ReadLock(r)
    BY <1>5, HomeKept DEF ReadLock, Moves, procVars, dirVars
  <1>6. CASE BreakLock(r)
    BY <1>6, HomeKept DEF BreakLock, Moves, procVars
  <1>7. CASE RetakeLock(r)
    BY <1>7, HomeKept DEF RetakeLock, Moves, procVars
  <1>8. CASE WritePid(r)
    BY <1>8, HomeKept DEF WritePid, Moves, procVars
  <1>9. QED
    BY <1>1, <1>2, <1>3, <1>4, <1>5, <1>6, <1>7, <1>8

\* The actions around the agent: the ones the invariant is about.
LEMMA HomeWork ==
    ASSUME TypeOK, HomeInv, NEW r \in Runners,
           \/ MakeHome(r) \/ LaunchHermes(r) \/ WaitReturns(r) \/ HermesTimeout(r)
           \/ Reap(r)
    PROVE  HomeInv'
  <1>f. \A b \in BOOLEAN : [files EXCEPT !.home = b].home = b
    BY DEF TypeOK, Files
  <1>1. CASE MakeHome(r)
    <2>1. CASE files.home
      BY <1>1, <2>1, HomeKept DEF MakeHome, Moves, procVars, dirVars
    <2>2. CASE ~files.home
      <3>1. files'.home
        BY <1>1, <1>f, <2>2 DEF MakeHome, Rewrite
      <3>2. \A s \in Runners : ~Holds(s)
        BY <2>2 DEF HomeInv
      <3>3. QED
        BY <1>1, <2>2, <3>1, <3>2
           DEF TypeOK, HomeInv, Holds, MakeHome, Moves, procVars
    <2>3. QED
      BY <2>1, <2>2
  <1>2. CASE LaunchHermes(r)
    BY <1>2 DEF TypeOK, HomeInv, Holds, LaunchHermes, Moves, dirVars
  <1>3. CASE WaitReturns(r)
    BY <1>3 DEF TypeOK, HomeInv, Holds, WaitReturns, Moves, procVars, dirVars, LiveAgent
  <1>4. CASE HermesTimeout(r)
    BY <1>4, HomeUntouched
       DEF TypeOK, HermesTimeout, ForcedEnd, runnerVars, dirVars, LiveAgent
  <1>5. CASE Reap(r)
    <2>1. CASE Removable
      <3>1. agent[r] \notin LiveAgent /\ \A s \in Runners \ {r} : ~Holds(s)
        BY <1>5 DEF HomeInv, Holds, Reap, Moves
      <3>2. \A s \in Runners : ~Holds(s)'
        BY <1>5, <2>1, <3>1 DEF TypeOK, Holds, Reap, Moves, procVars
      <3>3. QED
        BY <3>2 DEF HomeInv, Holds
    <2>2. CASE ~Removable
      BY <1>5, <2>2, HomeKept DEF Reap, Moves, procVars
    <2>3. QED
      BY <2>1, <2>2
  <1>6. QED
    BY <1>1, <1>2, <1>3, <1>4, <1>5

\* The other steps of the body: none touches the home.
LEMMA HomeBody ==
    ASSUME TypeOK, HomeInv, NEW r \in Runners,
           \/ Prepare(r) \/ CopyStarter(r) \/ Baseline(r) \/ Load(r)
           \/ RecordExit(r, "exitHermes", "timingHermes")
           \/ RecordTiming(r, "timingHermes", "collect")
           \/ Collect(r) \/ Patch(r) \/ Grade(r) \/ CollectGrade(r)
           \/ RecordExit(r, "exitGrader", "timingGrader")
           \/ RecordTiming(r, "timingGrader", "finish") \/ Finish(r)
    PROVE  HomeInv'
  <1>1. files'.home = files.home /\ agent' = agent
    <2>1. CASE Prepare(r) \/ Load(r)
      BY <2>1 DEF Prepare, Load, procVars, dirVars
    <2>2. CASE CopyStarter(r)
      BY ZenonT(60), <2>2 DEF TypeOK, Files, CopyStarter, Rewrite, procVars, dirVars
    <2>3. CASE Baseline(r)
      BY <2>3 DEF TypeOK, Files, Baseline, Rewrite, procVars
    <2>4. ASSUME NEW from, NEW to, RecordExit(r, from, to) \/ RecordTiming(r, from, to)
          PROVE  files'.home = files.home /\ agent' = agent
      BY <2>4 DEF TypeOK, Files, RecordExit, RecordTiming, Rewrite, procVars
    <2>5. CASE Collect(r) \/ Patch(r) \/ Finish(r)
      BY ZenonT(60), <2>5 DEF TypeOK, Files, Collect, Patch, Captured, RewriteWith, Finish,
                              Rewrite, procVars
    <2>6. CASE Grade(r)
      BY ZenonT(60), <2>6 DEF TypeOK, Files, Grade, Rewrite, dirVars
    <2>7. CASE CollectGrade(r)
      BY <2>7 DEF TypeOK, Files, CollectGrade, DropGraderCopy
    <2>8. QED
      BY <2>1, <2>2, <2>3, <2>4, <2>5, <2>6, <2>7
  <1>2. \E p : /\ p \notin {"launch", "wait", "reap"}
               /\ pc[r] \notin {"wait", "dead"} /\ pc' = [pc EXCEPT ![r] = p]
    BY DEF Prepare, CopyStarter, Baseline, Load, RecordExit, RecordTiming,
           Collect, Patch, Grade, CollectGrade, Finish, Moves
  <1>3. QED
    BY <1>1, <1>2, HomeKept

LEMMA HomeSealing ==
    ASSUME TypeOK, HomeInv, NEW r \in Runners,
           \/ Unlock(r) \/ WriteChecksums(r) \/ Seal(r) \/ ChmodTree(r) \/ ChmodRoot(r)
           \/ Abort(r) \/ Denied(r)
    PROVE  HomeInv'
  <1>1. files'.home = files.home /\ agent' = agent
    BY DEF Unlock, WriteChecksums, Seal, ChmodTree, ChmodRoot, Abort, Denied,
           procVars, dirVars
  <1>2. \E p : /\ p \notin {"launch", "wait", "reap"}
               /\ pc[r] \notin {"wait", "dead"} /\ pc' = [pc EXCEPT ![r] = p]
    BY DEF Unlock, WriteChecksums, Seal, ChmodTree, ChmodRoot, Abort, Denied, Moves, Writes
  <1>3. QED
    BY <1>1, <1>2, HomeKept

\* A runner that fails has ended its agent; one that is killed has not.
LEMMA HomeFailure ==
    ASSUME TypeOK, HomeInv, NEW r \in Runners, Raise(r) \/ Crash(r)
    PROVE  HomeInv'
  <1>1. CASE Crash(r)
    <2>1. \A s \in Runners : Holds(s)' => Holds(s)
      BY <1>1 DEF TypeOK, Holds, Crash, procVars
    <2>2. \A s \in Runners : agent[s] \in LiveAgent => pc'[s] \in {"wait", "dead"}
      BY <1>1 DEF TypeOK, HomeInv, Crash
    <2>3. QED
      BY <1>1, <2>1, <2>2 DEF HomeInv, Holds, Crash, Leaves, RewriteWith, procVars, dirVars
  <1>2. CASE Raise(r) /\ pc[r] \in {"launch", "wait", "reap"}
    <2>1. \A s \in Runners \ {r} : ~Holds(s)
      BY <1>2 DEF HomeInv, Holds
    <2>2. agent'[r] \notin LiveAgent
      BY <1>2 DEF TypeOK, HomeInv, Raise, ForcedEnd, LiveAgent
    <2>3. \A s \in Runners : ~Holds(s)'
      BY <1>2, <2>1, <2>2 DEF TypeOK, Holds, Raise, ForcedEnd
    <2>4. QED
      BY <2>3 DEF HomeInv, Holds
  <1>3. CASE Raise(r) /\ pc[r] \notin {"launch", "wait", "reap"}
    <2>1. files'.home = files.home /\ agent' = agent
      BY <1>3 DEF TypeOK, Files, Raise, Leaves, DropIndex, RewriteWith, DropGraderCopy
    <2>2. QED
      BY <1>3, <2>1, HomeKept DEF Raise, InTry
  <1>4. QED
    BY <1>1, <1>2, <1>3

LEMMA HomeEnvironment ==
    ASSUME TypeOK, HomeInv, NEW r \in Runners, Environment(r)
    PROVE  HomeInv'
  <1>1. UNCHANGED pc
    BY DEF Environment, AgentHook, AgentConstruct, AgentExit, Edit, StrayEnds, GraderEnds,
           runnerVars
  <1>2. files'.home = files.home
    BY DEF TypeOK, Files, Environment, AgentHook, AgentConstruct, AgentExit, Edit,
           StrayEnds, GraderEnds, dirVars
  <1>3. \A a \in Runners : agent'[a] \in LiveAgent => agent[a] \in LiveAgent
    BY DEF TypeOK, LiveAgent, Environment, AgentHook, AgentConstruct, AgentExit, Edit,
           StrayEnds, GraderEnds, procVars
  <1>4. QED
    BY <1>1, <1>2, <1>3, HomeUntouched

LEMMA NextHomeInv == TypeOK /\ HomeInv /\ [Next]_vars => HomeInv'
  <1>1. ASSUME TypeOK, HomeInv, NEW r \in Runners, Step(r)
        PROVE  HomeInv'
    BY <1>1, HomeAdmission, HomeWork, HomeBody, HomeSealing DEF Step
  <1>2. TypeOK /\ HomeInv /\ UNCHANGED vars => HomeInv'
    BY DEF HomeInv, Holds, vars, runnerVars, procVars, dirVars
  <1>3. QED
    BY <1>1, <1>2, HomeAdmission, HomeSealing, HomeFailure, HomeEnvironment DEF Next

\* The disposable home is the mutex between agents: it is there from before an agent is
\* launched until that agent is gone, and one runner at a time holds it.
THEOREM HomeCorrect == Spec => []HomeInv
  <1>1. Init => HomeInv
    BY DEF Init, HomeInv, Holds, LiveAgent
  <1>2. QED
    BY <1>1, NextHomeInv, TypeCorrect, PTL DEF Spec

\* At most one Hermes process is ever at work in a run directory.
THEOREM OneAgent == Spec => []AtMostOneAgent
  <1>1. HomeInv => AtMostOneAgent
    BY DEF HomeInv, Holds, AtMostOneAgent
  <1>2. QED
    BY <1>1, HomeCorrect, PTL

-----------------------------------------------------------------------------
(* One creator: CreatorInv.                                                *)

\* A runner that is past the creation goes on or ends.
LEMMA CreatorKept ==
    ASSUME TypeOK, CreatorInv, NEW r \in Runners, NEW p,
           pc' = [pc EXCEPT ![r] = p], pc[r] \in Running \ {"mkdir"},
           p \notin {"mkdir", "request"}, UNCHANGED mode, UNCHANGED dir
    PROVE  CreatorInv'
  BY DEF TypeOK, CreatorInv, Created

\* A runner that ends, or goes on as a resume.
LEMMA CreatorLeaves ==
    ASSUME TypeOK, CreatorInv, NEW r \in Runners, NEW p,
           pc' = [pc EXCEPT ![r] = p],
           p \notin Running \/ (p = "lock" /\ mode[r] = "resume"),
           UNCHANGED mode, UNCHANGED dir
    PROVE  CreatorInv'
  BY DEF TypeOK, CreatorInv, Created, Running

LEMMA CreatorBegin ==
    ASSUME TypeOK, CreatorInv, NEW r \in Runners, Begin(r) \/ Mkdir(r) \/ WriteRequest(r)
    PROVE  CreatorInv'
  <1>1. CASE Begin(r)
    <2>1. CASE pc' = [pc EXCEPT ![r] = "mkdir"] /\ mode[r] = "fresh"
      BY <1>1, <2>1 DEF TypeOK, CreatorInv, Created, Begin, dirVars
    <2>2. CASE pc' = [pc EXCEPT ![r] = "lock"] /\ mode[r] = "resume"
      BY <1>1, <2>2, CreatorLeaves DEF Begin, dirVars
    <2>3. CASE \E p \in {"already", "refused"} : pc' = [pc EXCEPT ![r] = p]
      BY <1>1, <2>3, CreatorLeaves DEF Begin, dirVars, Running, InTry
    <2>4. QED
      BY <1>1, <2>1, <2>2, <2>3 DEF Begin, ReportComplete
  <1>2. CASE Mkdir(r)
    <2>1. CASE dir = "present"
      BY <1>2, <2>1, CreatorLeaves DEF Mkdir, Moves, Running, InTry
    <2>2. CASE dir = "absent"
      BY <1>2, <2>2 DEF TypeOK, CreatorInv, Created, Mkdir, Moves
    <2>3. QED
      BY <1>2, <2>1, <2>2 DEF Mkdir
  <1>3. CASE WriteRequest(r)
    <2>1. pc' = [pc EXCEPT ![r] = "lock"] /\ pc[r] \in Running \ {"mkdir"}
      BY <1>3 DEF WriteRequest, Moves, Running
    <2>2. UNCHANGED mode /\ UNCHANGED dir
      BY <1>3 DEF WriteRequest
    <2>3. QED
      BY <2>1, <2>2, CreatorKept
  <1>4. QED
    BY <1>1, <1>2, <1>3

LEMMA CreatorStep ==
    ASSUME TypeOK, CreatorInv, NEW r \in Runners, Step(r) \/ Denied(r)
    PROVE  CreatorInv'
  <1>1. CASE Mkdir(r) \/ WriteRequest(r)
    BY <1>1, CreatorBegin
  <1>2. CASE HermesTimeout(r)
    BY <1>2 DEF CreatorInv, Created, HermesTimeout, runnerVars, dirVars
  <1>3. CASE Step(r) /\ ~Mkdir(r) /\ ~WriteRequest(r) /\ ~HermesTimeout(r)
    <2>1. /\ UNCHANGED mode /\ UNCHANGED dir
          /\ pc[r] \in Running \ {"mkdir"}
          /\ \E p : p \notin {"mkdir", "request"} /\ pc' = [pc EXCEPT ![r] = p]
      <3>1. CASE AcquireLock(r) \/ ReadLock(r) \/ BreakLock(r) \/ RetakeLock(r) \/ WritePid(r)
        BY <3>1 DEF AcquireLock, ReadLock, BreakLock, RetakeLock, WritePid, Moves,
                    Running, dirVars
      <3>2. CASE \/ Prepare(r) \/ CopyStarter(r) \/ Baseline(r) \/ Load(r) \/ MakeHome(r)
                 \/ LaunchHermes(r) \/ WaitReturns(r) \/ Reap(r)
        BY <3>2 DEF Prepare, CopyStarter, Baseline, Load, MakeHome, LaunchHermes,
                    WaitReturns, Reap, Moves, Rewrite, Running, InTry, dirVars
      <3>3. CASE \/ Collect(r) \/ Patch(r) \/ Grade(r) \/ CollectGrade(r) \/ Finish(r)
                 \/ RecordExit(r, "exitHermes", "timingHermes")
                 \/ RecordTiming(r, "timingHermes", "collect")
                 \/ RecordExit(r, "exitGrader", "timingGrader")
                 \/ RecordTiming(r, "timingGrader", "finish")
        BY <3>3 DEF Collect, Patch, Captured, RewriteWith, Grade, CollectGrade, Finish,
                    RecordExit, RecordTiming, Moves, Rewrite, Running, InTry, dirVars
      <3>4. CASE \/ Unlock(r) \/ WriteChecksums(r) \/ Seal(r) \/ ChmodTree(r)
                 \/ ChmodRoot(r) \/ Abort(r)
        BY <3>4 DEF Unlock, WriteChecksums, Seal, ChmodTree, ChmodRoot, Abort,
                    Moves, Running, InTry
      <3>5. QED
        BY <1>3, <3>1, <3>2, <3>3, <3>4 DEF Step
    <2>2. QED
      BY <2>1, CreatorKept
  <1>4. CASE Denied(r)
    <2>1. pc' = [pc EXCEPT ![r] = "abort"] /\ pc[r] \in Running \ {"mkdir"}
      BY <1>4 DEF Denied, Writes, Running, InTry
    <2>2. UNCHANGED mode /\ UNCHANGED dir
      BY <1>4 DEF Denied, dirVars
    <2>3. QED
      BY <2>1, <2>2, CreatorKept
  <1>5. QED
    BY <1>1, <1>2, <1>3, <1>4

LEMMA NextCreatorInv == TypeOK /\ CreatorInv /\ [Next]_vars => CreatorInv'
  <1>1. ASSUME TypeOK, CreatorInv, NEW r \in Runners, Raise(r) \/ Crash(r)
        PROVE  CreatorInv'
    <2>1. CASE Raise(r)
      <3>1. pc' = [pc EXCEPT ![r] = "abort"] /\ pc[r] \in Running \ {"mkdir"}
        BY <2>1 DEF Raise, Running, InTry
      <3>2. UNCHANGED mode /\ UNCHANGED dir
        BY <2>1 DEF Raise
      <3>3. QED
        BY <1>1, <3>1, <3>2, CreatorKept
    <2>2. CASE Crash(r)
      BY <1>1, <2>2, CreatorLeaves DEF Crash, Leaves, RewriteWith, Running, InTry, dirVars
    <2>3. QED
      BY <1>1, <2>1, <2>2
  <1>2. ASSUME CreatorInv, NEW r \in Runners, Environment(r)
        PROVE  CreatorInv'
    BY <1>2 DEF CreatorInv, Created, Environment, AgentHook, AgentConstruct, AgentExit,
                Edit, StrayEnds, GraderEnds, runnerVars, dirVars
  <1>3. CreatorInv /\ UNCHANGED vars => CreatorInv'
    BY DEF CreatorInv, Created, vars, runnerVars, dirVars
  <1>4. QED
    BY <1>1, <1>2, <1>3, CreatorBegin, CreatorStep DEF Next

\* Of the invocations without --resume, only the one that created the directory gets past
\* its creation, and the directory is there while it works.
THEOREM CreatorCorrect == Spec => []CreatorInv
  <1>1. Init => CreatorInv
    BY DEF Init, CreatorInv, Created, Running, InTry
  <1>2. QED
    BY <1>1, NextCreatorInv, TypeCorrect, PTL DEF Spec

\* Of the live invocations without --resume, one at most is past the creation of the
\* directory, however many are racing.
THEOREM ExclusiveCreation == Spec => []OneCreator
  <1>1. CreatorInv => OneCreator
    BY DEF CreatorInv, Created, OneCreator
  <1>2. QED
    BY <1>1, CreatorCorrect, PTL

-----------------------------------------------------------------------------
(* One set of inputs: InputsInv.                                           *)

\* A step that leaves the inputs and the statuses alone, of a runner that goes on or ends.
LEMMA InputsKept ==
    ASSUME TypeOK, InputsInv, NEW r \in Runners, NEW p,
           pc' = [pc EXCEPT ![r] = p],
           p = "request" => request = NoInputs,
           \/ p \notin Running \ {"mkdir", "request"}
           \/ inputs[r] = request,
           UNCHANGED inputs, UNCHANGED mem, UNCHANGED request,
           dir' = "absent" => dir = "absent",
           files'.from = files.from, files'.exit = files.exit
    PROVE  InputsInv'
  BY DEF TypeOK, InputsInv, Requested

\* Only the creator is at "request", and nothing was recorded before it.
LEMMA InputsWritten ==
    ASSUME TypeOK, CreatorInv, InputsInv, NEW r \in Runners, WriteRequest(r)
    PROVE  InputsInv'
  <1>1. /\ pc[r] = "request" /\ pc' = [pc EXCEPT ![r] = "lock"]
        /\ request' = inputs[r] /\ UNCHANGED inputs /\ UNCHANGED mem
        /\ UNCHANGED dir /\ UNCHANGED files
    BY DEF WriteRequest, Moves
  <1>2. request = NoInputs /\ dir = "present"
    BY <1>1 DEF CreatorInv, Created, InputsInv, Running
  <1>3. \A s \in Runners : inputs[s] # NoInputs
    BY DEF TypeOK
  <1>4. \A s \in Runners \ {r} : pc[s] # "request"
    BY <1>1 DEF CreatorInv, Created, Running
  <1>5. \A s \in Runners : pc[s] \notin Running \ {"mkdir", "request"}
    BY <1>2, <1>3 DEF InputsInv
  <1>6. files.from = NoInputs
    BY <1>2 DEF InputsInv
  <1>7. \A h \in HermesStatus : Requested(h) => h = NoHermes
    BY <1>2, <1>3 DEF Requested, HermesStatus
  <1>8. files.exit.hermes = NoHermes /\ \A s \in Runners : mem[s].exit.hermes = NoHermes
    BY <1>7 DEF TypeOK, InputsInv, Files, Memory, ExitStatus
  <1>9. /\ \A s \in Runners : pc'[s] # "request"
        /\ \A s \in Runners : pc'[s] \in Running \ {"mkdir", "request"} => s = r
    BY <1>1, <1>4, <1>5 DEF TypeOK
  <1>10. QED
    BY <1>1, <1>2, <1>6, <1>8, <1>9 DEF InputsInv, Requested

LEMMA InputsAdmission ==
    ASSUME TypeOK, CreatorInv, InputsInv, NEW r \in Runners,
           \/ Begin(r) \/ Mkdir(r) \/ AcquireLock(r) \/ ReadLock(r) \/ BreakLock(r)
           \/ RetakeLock(r) \/ WritePid(r)
    PROVE  InputsInv'
  <1>1. UNCHANGED inputs /\ UNCHANGED mem /\ UNCHANGED request /\ UNCHANGED files
    BY DEF Begin, Mkdir, AcquireLock, ReadLock, BreakLock, RetakeLock, WritePid, dirVars
  <1>2. dir' = "absent" => dir = "absent"
    BY DEF Begin, Mkdir, AcquireLock, ReadLock, BreakLock, RetakeLock, WritePid, dirVars
  <1>3. \E p : /\ pc' = [pc EXCEPT ![r] = p]
               /\ p = "request" => request = NoInputs
               /\ p \notin Running \ {"mkdir", "request"} \/ inputs[r] = request
    <2>1. CASE Begin(r)
      BY <2>1 DEF Begin, ReportComplete, Running, InTry
    <2>2. CASE Mkdir(r)
      BY <2>2 DEF InputsInv, Mkdir, Moves, Running, InTry
    <2>3. CASE AcquireLock(r) \/ ReadLock(r)
      BY <2>3 DEF InputsInv, AcquireLock, ReadLock, Moves, Running
    <2>4. CASE BreakLock(r) \/ RetakeLock(r) \/ WritePid(r)
      BY <2>4 DEF InputsInv, BreakLock, RetakeLock, WritePid, Moves, Running
    <2>5. QED
      BY <2>1, <2>2, <2>3, <2>4
  <1>4. QED
    BY <1>1, <1>2, <1>3, InputsKept

\* The steps of the body that neither copy the starter nor touch a status.
LEMMA InputsBody ==
    ASSUME TypeOK, InputsInv, NEW r \in Runners,
           \/ Prepare(r) \/ Baseline(r) \/ MakeHome(r) \/ LaunchHermes(r) \/ WaitReturns(r)
           \/ RecordTiming(r, "timingHermes", "collect")
           \/ Collect(r) \/ Patch(r) \/ Grade(r)
           \/ RecordTiming(r, "timingGrader", "finish") \/ Finish(r)
    PROVE  InputsInv'
  <1>1. UNCHANGED inputs /\ UNCHANGED mem /\ UNCHANGED request /\ UNCHANGED dir
    BY DEF Prepare, Baseline, MakeHome, LaunchHermes, WaitReturns, RecordTiming,
           Collect, Patch, Captured, RewriteWith, Grade, Finish, Rewrite, dirVars
  <1>2. files'.from = files.from /\ files'.exit = files.exit
    <2>1. CASE Prepare(r) \/ LaunchHermes(r) \/ WaitReturns(r)
      BY <2>1 DEF Prepare, LaunchHermes, WaitReturns, dirVars
    <2>2. CASE Baseline(r)
      BY <2>2 DEF TypeOK, Files, Baseline, Rewrite
    <2>3. CASE MakeHome(r)
      BY <2>3 DEF TypeOK, Files, MakeHome, Rewrite, dirVars
    <2>4. ASSUME NEW from, NEW to, RecordTiming(r, from, to)
          PROVE  files'.from = files.from /\ files'.exit = files.exit
      BY <2>4 DEF TypeOK, Files, RecordTiming, Rewrite
    <2>5. CASE Collect(r) \/ Patch(r) \/ Finish(r)
      BY ZenonT(60), <2>5 DEF TypeOK, Files, Collect, Patch, Captured, RewriteWith, Finish,
                              Rewrite
    <2>6. CASE Grade(r)
      BY ZenonT(60), <2>6 DEF TypeOK, Files, Grade, Rewrite, dirVars
    <2>7. QED
      BY <2>1, <2>2, <2>3, <2>4, <2>5, <2>6
  <1>3. \E p : pc' = [pc EXCEPT ![r] = p] /\ p # "request" /\ inputs[r] = request
    BY DEF InputsInv, Running, InTry, Prepare, Baseline, MakeHome, LaunchHermes,
           WaitReturns, RecordTiming, Collect, Patch, Grade, Finish, Moves
  <1>4. QED
    BY <1>1, <1>2, <1>3, InputsKept

\* What is copied and what is recorded is the runner's own, and its inputs are the request.
LEMMA InputsRecorded ==
    ASSUME TypeOK, InputsInv, NEW r \in Runners,
           \/ CopyStarter(r) \/ Load(r) \/ Reap(r) \/ CollectGrade(r)
           \/ RecordExit(r, "exitHermes", "timingHermes")
           \/ RecordExit(r, "exitGrader", "timingGrader")
    PROVE  InputsInv'
  <1>1. UNCHANGED inputs /\ UNCHANGED request /\ UNCHANGED dir
    BY DEF CopyStarter, Load, Reap, CollectGrade, RecordExit, Rewrite, dirVars
  <1>2. inputs[r] = request
    BY DEF InputsInv, Running, InTry, CopyStarter, Load, Reap, CollectGrade, RecordExit,
           Moves
  <1>3. \A s \in Runners : /\ pc'[s] = "request" => pc[s] = "request"
                           /\ pc'[s] \in Running \ {"mkdir", "request"} =>
                                  inputs[s] = request
    BY <1>2 DEF TypeOK, InputsInv, CopyStarter, Load, Reap, CollectGrade, RecordExit, Moves
  <1>4. files'.from \in {files.from, inputs[r]}
    <2>1. CASE CopyStarter(r)
      BY ZenonT(60), <2>1 DEF TypeOK, Files, CopyStarter, Rewrite, dirVars
    <2>2. CASE Load(r) \/ Reap(r)
      BY <2>2 DEF TypeOK, Files, Load, Reap, dirVars
    <2>3. CASE CollectGrade(r)
      BY <2>3 DEF TypeOK, Files, CollectGrade, DropGraderCopy
    <2>4. ASSUME NEW from, NEW to, RecordExit(r, from, to)
          PROVE  files'.from = files.from
      BY <2>4 DEF TypeOK, Files, RecordExit, Rewrite
    <2>5. QED
      BY <2>1, <2>2, <2>3, <2>4
  <1>5. files'.exit.hermes \in {files.exit.hermes, mem[r].exit.hermes}
    <2>1. CASE CopyStarter(r)
      BY ZenonT(60), <2>1 DEF TypeOK, Files, CopyStarter, Rewrite, dirVars
    <2>2. CASE Load(r) \/ Reap(r)
      BY <2>2 DEF TypeOK, Files, Load, Reap, dirVars
    <2>3. CASE CollectGrade(r)
      BY <2>3 DEF TypeOK, Files, CollectGrade, DropGraderCopy
    <2>4. ASSUME NEW from, NEW to, RecordExit(r, from, to)
          PROVE  files'.exit = mem[r].exit
      BY <2>4 DEF TypeOK, Files, RecordExit, Rewrite
    <2>5. QED
      BY <2>1, <2>2, <2>3, <2>4
  <1>6. \A s \in Runners : \/ mem'[s].exit.hermes \in {mem[s].exit.hermes, files.exit.hermes}
                           \/ mem'[s].exit.hermes.by = r
    <2>1. CASE CopyStarter(r)
      BY <2>1 DEF CopyStarter
    <2>2. CASE Load(r)
      BY <2>2 DEF TypeOK, Load
    <2>3. CASE Reap(r)
      <3>1. CASE mem' = mem
        BY <3>1
      <3>2. CASE mem' = [mem EXCEPT ![r].exit.hermes = [by |-> r, code |-> code[r]],
                                    ![r].timing = @ \cup {"hermes"}]
        <4>1. [mem[r] EXCEPT !.exit.hermes = [by |-> r, code |-> code[r]],
                             !.timing = @ \cup {"hermes"}].exit.hermes.by = r
          BY DEF TypeOK, Memory, ExitStatus
        <4>2. QED
          BY <3>2, <4>1 DEF TypeOK
      <3>3. QED
        BY <2>3, <3>1, <3>2 DEF Reap
    <2>4. CASE CollectGrade(r)
      BY <2>4 DEF TypeOK, Memory, ExitStatus, CollectGrade
    <2>5. ASSUME NEW from, NEW to, RecordExit(r, from, to)
          PROVE  UNCHANGED mem
      BY <2>5 DEF RecordExit
    <2>6. QED
      BY <2>1, <2>2, <2>3, <2>4, <2>5
  <1>7. QED
    BY <1>1, <1>2, <1>3, <1>4, <1>5, <1>6 DEF InputsInv, Requested

LEMMA InputsSealing ==
    ASSUME TypeOK, InputsInv, NEW r \in Runners,
           \/ Unlock(r) \/ WriteChecksums(r) \/ Seal(r) \/ ChmodTree(r) \/ ChmodRoot(r)
           \/ Abort(r) \/ Denied(r) \/ Crash(r)
    PROVE  InputsInv'
  <1>1. /\ UNCHANGED inputs /\ UNCHANGED mem /\ UNCHANGED request /\ UNCHANGED dir
        /\ UNCHANGED files
    BY DEF Unlock, WriteChecksums, Seal, ChmodTree, ChmodRoot, Abort, Denied, Crash, Leaves,
           RewriteWith, dirVars
  <1>2. \E p : /\ pc' = [pc EXCEPT ![r] = p] /\ p # "request"
               /\ p \notin Running \/ inputs[r] = request
    BY DEF InputsInv, Running, InTry, Unlock, WriteChecksums, Seal, ChmodTree, ChmodRoot,
           Abort, Denied, Writes, Crash, Moves
  <1>3. QED
    BY <1>1, <1>2, InputsKept

LEMMA InputsFailure ==
    ASSUME TypeOK, InputsInv, NEW r \in Runners, Raise(r) \/ HermesTimeout(r) \/ Environment(r)
    PROVE  InputsInv'
  <1>1. UNCHANGED inputs /\ UNCHANGED mem /\ UNCHANGED request /\ UNCHANGED dir
    BY DEF Raise, HermesTimeout, Environment, AgentHook, AgentConstruct, AgentExit, Edit,
           StrayEnds, GraderEnds, runnerVars, dirVars
  <1>2. files'.from = files.from /\ files'.exit = files.exit
    <2>1. CASE Raise(r)
      BY <2>1 DEF TypeOK, Files, Raise, Leaves, DropIndex, RewriteWith, DropGraderCopy
    <2>2. CASE HermesTimeout(r)
      BY <2>2 DEF HermesTimeout, dirVars
    <2>3. CASE Environment(r)
      <3>1. CASE AgentHook(r) \/ AgentConstruct(r)
        BY <3>1 DEF TypeOK, Files, AgentHook, AgentConstruct
      <3>2. CASE AgentExit(r) \/ StrayEnds(r)
        BY <3>2 DEF AgentExit, StrayEnds, dirVars
      <3>3. CASE Edit(r) \/ GraderEnds(r)
        BY <3>3 DEF TypeOK, Files, Edit, GraderEnds
      <3>4. QED
        BY <2>3, <3>1, <3>2, <3>3 DEF Environment
    <2>4. QED
      BY <2>1, <2>2, <2>3
  <1>3. CASE Raise(r)
    <2>1. inputs[r] = request /\ pc' = [pc EXCEPT ![r] = "abort"]
      BY <1>3 DEF InputsInv, Raise, Running, InTry
    <2>2. QED
      BY <1>1, <1>2, <2>1, InputsKept
  <1>4. CASE UNCHANGED pc
    BY <1>1, <1>2, <1>4 DEF InputsInv, Requested
  <1>5. QED
    BY <1>3, <1>4 DEF HermesTimeout, Environment, AgentHook, AgentConstruct, AgentExit,
                      Edit, StrayEnds, GraderEnds, runnerVars

LEMMA NextInputsInv == TypeOK /\ CreatorInv /\ InputsInv /\ [Next]_vars => InputsInv'
  <1>1. ASSUME TypeOK, CreatorInv, InputsInv, NEW r \in Runners, Step(r)
        PROVE  InputsInv'
    BY <1>1, InputsWritten, InputsAdmission, InputsBody, InputsRecorded, InputsSealing,
       InputsFailure DEF Step
  <1>2. InputsInv /\ UNCHANGED vars => InputsInv'
    BY DEF InputsInv, Requested, vars, runnerVars, dirVars
  <1>3. QED
    BY <1>1, <1>2, InputsAdmission, InputsSealing, InputsFailure DEF Next

\* A resume continues only what was built from its own inputs: the workspace and the
\* recorded agent run stem from the inputs that request.json digests.
THEOREM ResumeContinues == Spec => []ResumeKeepsInputs
  <1>1. Init => InputsInv
    BY DEF Init, InputsInv, Requested, Running, InTry, NoFiles, NoExit
  <1>2. InputsInv => ResumeKeepsInputs
    BY DEF InputsInv, Requested, ResumeKeepsInputs
  <1>3. QED
    BY <1>1, <1>2, NextInputsInv, TypeCorrect, CreatorCorrect, PTL DEF Spec

-----------------------------------------------------------------------------
(* What the steps write.  The steps of the admission, and those from the   *)
(* finally clause to the seal, touch neither processes nor artifacts.      *)

AdmissionStep(r) ==
    \/ Begin(r) \/ Mkdir(r) \/ WriteRequest(r) \/ AcquireLock(r) \/ ReadLock(r)
    \/ BreakLock(r) \/ RetakeLock(r) \/ WritePid(r)

BodyStep(r) ==
    \/ Prepare(r) \/ CopyStarter(r) \/ Baseline(r) \/ Load(r) \/ MakeHome(r)
    \/ LaunchHermes(r) \/ WaitReturns(r) \/ HermesTimeout(r) \/ Reap(r)
    \/ RecordExit(r, "exitHermes", "timingHermes")
    \/ RecordTiming(r, "timingHermes", "collect")
    \/ Collect(r) \/ Patch(r) \/ Grade(r) \/ CollectGrade(r)
    \/ RecordExit(r, "exitGrader", "timingGrader")
    \/ RecordTiming(r, "timingGrader", "finish") \/ Finish(r)

SealingStep(r) ==
    \/ Unlock(r) \/ WriteChecksums(r) \/ Seal(r) \/ ChmodTree(r) \/ ChmodRoot(r)
    \/ Abort(r) \/ Denied(r) \/ Crash(r)

LEMMA NextSteps ==
    Next <=> \E r \in Runners : \/ AdmissionStep(r) \/ BodyStep(r) \/ SealingStep(r)
                                \/ Raise(r) \/ Environment(r)
  BY DEF Next, Step, AdmissionStep, BodyStep, SealingStep

Admitting == {"idle", "mkdir", "request", "lock", "readLock", "breakLock", "relock",
              "writePid"}

LEMMA AdmissionEffect ==
    ASSUME TypeOK, NEW r \in Runners, AdmissionStep(r)
    PROVE  /\ UNCHANGED <<mode, inputs, mem, taken, agent, code, strays, grader, files,
                          litter, sums, mark, treeRO, rootRO>>
           /\ pc[r] \in Admitting
           /\ \E p \in (Admitting \ {"idle"}) \cup {"prepare", "refused", "already"} :
                  pc' = [pc EXCEPT ![r] = p]
  BY DEF AdmissionStep, Begin, ReportComplete, Mkdir, WriteRequest, AcquireLock, ReadLock,
         BreakLock, RetakeLock, WritePid, Moves, Admitting, procVars, dirVars

LEMMA SealingEffect ==
    ASSUME TypeOK, NEW r \in Runners, SealingStep(r)
    PROVE  /\ UNCHANGED <<mode, inputs, mem, taken, agent, code, strays, grader, dir,
                          request, files>>
           /\ pc[r] \in Running
           /\ \E p \in Sealing \cup {"completed", "abort", "failed", "dead"} :
                  pc' = [pc EXCEPT ![r] = p]
  BY DEF SealingStep, Unlock, WriteChecksums, Seal, ChmodTree, ChmodRoot, Abort, Denied,
         Crash, Leaves, RewriteWith, Moves, Sealing, Running, InTry, Writes, procVars,
         dirVars

\* The steps that rewrite artifacts, one by one: what each writes, and what it leaves.
LEMMA WorkspaceWrites ==
    ASSUME TypeOK, NEW r \in Runners
    PROVE  /\ CopyStarter(r) /\ files' # files =>
                /\ files.base = "none" /\ files'.base = "partial"
                /\ files'.content = Starter
                /\ UNCHANGED <<files.home, files.hooks, files.cogs, files.exit, files.timing,
                               files.evidence, files.gws, files.graderOut, files.result>>
           /\ Baseline(r) =>
                /\ files'.base = "full"
                /\ UNCHANGED <<files.content, files.home, files.hooks, files.cogs,
                               files.exit, files.timing, files.evidence, files.gws,
                               files.graderOut, files.result>>
           /\ MakeHome(r) \/ Reap(r) =>
                UNCHANGED <<files.base, files.content, files.hooks, files.cogs, files.exit,
                            files.timing, files.evidence, files.gws, files.graderOut,
                            files.result>>
  <1>1. ASSUME CopyStarter(r), files' # files
        PROVE  /\ files.base = "none" /\ files'.base = "partial"
               /\ files'.content = Starter
               /\ UNCHANGED <<files.home, files.hooks, files.cogs, files.exit, files.timing,
                               files.evidence, files.gws, files.graderOut, files.result>>
    <2>1. /\ files.base = "none"
          /\ files' = [files EXCEPT !.base = "partial", !.from = inputs[r],
                                    !.content = Starter]
      BY <1>1 DEF CopyStarter, Rewrite, dirVars
    <2>2. QED
      BY <2>1 DEF TypeOK, Files
  <1>2. ASSUME Baseline(r)
        PROVE  /\ files'.base = "full"
               /\ UNCHANGED <<files.content, files.home, files.hooks, files.cogs,
                              files.exit, files.timing, files.evidence, files.gws,
                              files.graderOut, files.result>>
    BY <1>2 DEF TypeOK, Files, Baseline, Rewrite
  <1>3. ASSUME MakeHome(r) \/ Reap(r)
        PROVE  UNCHANGED <<files.base, files.content, files.hooks, files.cogs, files.exit,
                           files.timing, files.evidence, files.gws, files.graderOut,
                           files.result>>
    BY <1>3 DEF TypeOK, Files, MakeHome, Reap, Rewrite, dirVars
  <1>4. QED
    BY <1>1, <1>2, <1>3

LEMMA TelemetryWrites ==
    ASSUME TypeOK, NEW r \in Runners, NEW from, NEW to
    PROVE  /\ RecordExit(r, from, to) =>
                /\ files'.exit = mem[r].exit
                /\ UNCHANGED <<files.base, files.content, files.home, files.hooks,
                               files.cogs, files.timing, files.evidence, files.gws,
                               files.graderOut, files.result>>
           /\ RecordTiming(r, from, to) =>
                /\ files'.timing = mem[r].timing
                /\ UNCHANGED <<files.base, files.content, files.home, files.hooks,
                               files.cogs, files.exit, files.evidence, files.gws,
                               files.graderOut, files.result>>
  BY DEF TypeOK, Files, RecordExit, RecordTiming, Rewrite

LEMMA GradingWrites ==
    ASSUME TypeOK, NEW r \in Runners
    PROVE  /\ Collect(r) \/ Patch(r) =>
                UNCHANGED <<files.base, files.content, files.home, files.hooks,
                            files.cogs, files.exit, files.timing, files.gws,
                            files.graderOut, files.result>>
           /\ Grade(r) =>
                /\ \/ /\ files'.gws = files.content /\ files'.graderOut = "broken"
                      /\ mem[r].exit.grader = "none" /\ pc' = [pc EXCEPT ![r] = "grading"]
                   \/ /\ UNCHANGED <<files.gws, files.graderOut>>
                      /\ mem[r].exit.grader # "none" /\ pc' = [pc EXCEPT ![r] = "finish"]
                /\ UNCHANGED <<files.base, files.content, files.home, files.hooks,
                               files.cogs, files.exit, files.timing, files.evidence,
                               files.result>>
           /\ CollectGrade(r) \/ (Raise(r) /\ pc[r] = "grading") =>
                /\ files'.gws = IF Removable THEN NoContent ELSE files.gws
                /\ UNCHANGED <<files.base, files.content, files.home, files.hooks,
                               files.cogs, files.exit, files.timing, files.evidence,
                               files.graderOut, files.result>>
           /\ Finish(r) =>
                /\ files'.result = Outcome(r)
                /\ UNCHANGED <<files.base, files.content, files.home, files.hooks,
                               files.cogs, files.exit, files.timing, files.evidence,
                               files.gws, files.graderOut>>
  <1>1. ASSUME Collect(r) \/ Patch(r)
        PROVE  UNCHANGED <<files.base, files.content, files.home, files.hooks,
                           files.cogs, files.exit, files.timing, files.gws,
                           files.graderOut, files.result>>
    <2>1. \E e, g : \/ files' = [files EXCEPT !.state = g]
                    \/ files' = [files EXCEPT !.evidence = e]
                    \/ files' = [files EXCEPT !.evidence = e, !.state = g]
      BY Zenon, <1>1 DEF Collect, Patch, Captured, RewriteWith
    <2>2. QED
      BY <2>1 DEF TypeOK, Files
  <1>2. ASSUME Grade(r)
        PROVE  /\ \/ /\ files'.gws = files.content /\ files'.graderOut = "broken"
                     /\ mem[r].exit.grader = "none" /\ pc' = [pc EXCEPT ![r] = "grading"]
                  \/ /\ UNCHANGED <<files.gws, files.graderOut>>
                     /\ mem[r].exit.grader # "none" /\ pc' = [pc EXCEPT ![r] = "finish"]
               /\ UNCHANGED <<files.base, files.content, files.home, files.hooks,
                              files.cogs, files.exit, files.timing, files.evidence,
                              files.result>>
    <2>1. CASE mem[r].exit.grader = "none"
      <3>1. files' = [files EXCEPT !.gws = files.content, !.graderOut = "broken"]
        BY <1>2, <2>1 DEF Grade, Rewrite
      <3>2. pc' = [pc EXCEPT ![r] = "grading"]
        BY <1>2, <2>1 DEF Grade, Moves
      <3>3. QED
        BY <2>1, <3>1, <3>2 DEF TypeOK, Files
    <2>2. CASE mem[r].exit.grader # "none"
      BY <1>2, <2>2 DEF Grade, Moves, dirVars
    <2>3. QED
      BY <2>1, <2>2
  <1>3. ASSUME CollectGrade(r) \/ (Raise(r) /\ pc[r] = "grading")
        PROVE  /\ files'.gws = IF Removable THEN NoContent ELSE files.gws
               /\ UNCHANGED <<files.base, files.content, files.home, files.hooks,
                              files.cogs, files.exit, files.timing, files.evidence,
                              files.graderOut, files.result>>
    <2>1. files' = DropGraderCopy
      BY <1>3 DEF CollectGrade, Raise
    <2>2. QED
      BY <2>1 DEF TypeOK, Files, DropGraderCopy
  <1>4. ASSUME Finish(r)
        PROVE  /\ files'.result = Outcome(r)
               /\ UNCHANGED <<files.base, files.content, files.home, files.hooks,
                              files.cogs, files.exit, files.timing, files.evidence,
                              files.gws, files.graderOut>>
    BY <1>4 DEF TypeOK, Files, Finish, Rewrite
  <1>5. QED
    BY <1>1, <1>2, <1>3, <1>4

LEMMA EnvironmentWrites ==
    ASSUME TypeOK, NEW r \in Runners
    PROVE  /\ AgentHook(r) =>
                /\ files'.hooks = files.hooks \cup {r}
                /\ UNCHANGED <<files.base, files.content, files.home, files.cogs, files.exit,
                               files.timing, files.evidence, files.gws, files.graderOut,
                               files.result>>
           /\ AgentConstruct(r) =>
                /\ files'.cogs = files.cogs \cup {r}
                /\ UNCHANGED <<files.base, files.content, files.home, files.hooks, files.exit,
                               files.timing, files.evidence, files.gws, files.graderOut,
                               files.result>>
           /\ Edit(r) =>
                UNCHANGED <<files.base, files.home, files.hooks, files.cogs, files.exit,
                            files.timing, files.evidence, files.gws, files.graderOut,
                            files.result>>
           /\ GraderEnds(r) =>
                /\ files'.graderOut = "accept" => files.gws \in Solved
                /\ UNCHANGED <<files.base, files.content, files.home, files.hooks,
                               files.cogs, files.exit, files.timing, files.evidence,
                               files.gws, files.result>>
           /\ Raise(r) /\ pc[r] # "grading" =>
                UNCHANGED <<files.base, files.content, files.hooks, files.cogs, files.exit,
                            files.timing, files.evidence, files.gws, files.graderOut,
                            files.result>>
  <1>0. ASSUME AgentHook(r)
        PROVE  /\ files'.hooks = files.hooks \cup {r}
               /\ UNCHANGED <<files.base, files.content, files.home, files.cogs, files.exit,
                              files.timing, files.evidence, files.gws, files.graderOut,
                              files.result>>
    BY <1>0 DEF TypeOK, Files, AgentHook
  <1>1. ASSUME AgentConstruct(r)
        PROVE  /\ files'.cogs = files.cogs \cup {r}
               /\ UNCHANGED <<files.base, files.content, files.home, files.hooks, files.exit,
                              files.timing, files.evidence, files.gws, files.graderOut,
                              files.result>>
    BY <1>1 DEF TypeOK, Files, AgentConstruct
  <1>2. ASSUME Edit(r)
        PROVE  UNCHANGED <<files.base, files.home, files.hooks, files.cogs, files.exit,
                           files.timing, files.evidence, files.gws, files.graderOut,
                           files.result>>
    BY <1>2 DEF TypeOK, Files, Edit
  <1>3. ASSUME GraderEnds(r)
        PROVE  /\ files'.graderOut = "accept" => files.gws \in Solved
               /\ UNCHANGED <<files.base, files.content, files.home, files.hooks,
                              files.cogs, files.exit, files.timing, files.evidence,
                              files.gws, files.result>>
    BY <1>3 DEF TypeOK, Files, GraderEnds
  <1>4. ASSUME Raise(r), pc[r] # "grading"
        PROVE  UNCHANGED <<files.base, files.content, files.hooks, files.cogs, files.exit,
                           files.timing, files.evidence, files.gws, files.graderOut,
                           files.result>>
    <2>1. files' = files \/ files' = [files EXCEPT !.home = ~Removable]
      BY <1>4 DEF Raise, Leaves, DropIndex, RewriteWith
    <2>2. QED
      BY <2>1 DEF TypeOK, Files
  <1>5. QED
    BY <1>0, <1>1, <1>2, <1>3, <1>4

\* Memory: a load, and the two results.
LEMMA MemoryWrites ==
    ASSUME TypeOK, NEW r \in Runners
    PROVE  /\ Load(r) => /\ mem'[r].exit = files.exit /\ mem'[r].timing = files.timing
                         /\ \A s \in Runners \ {r} : mem'[s] = mem[s]
           /\ Reap(r) =>
                /\ \A s \in Runners \ {r} : mem'[s] = mem[s]
                /\ \/ UNCHANGED mem /\ UNCHANGED files /\ pc' = [pc EXCEPT ![r] = "abort"]
                   \/ /\ mem'[r].exit.hermes = [by |-> r, code |-> code[r]]
                      /\ mem'[r].exit.grader = mem[r].exit.grader
                      /\ mem'[r].timing = mem[r].timing \cup {"hermes"}
                      /\ ~files'.home /\ pc' = [pc EXCEPT ![r] = "exitHermes"]
           /\ CollectGrade(r) =>
                /\ \A s \in Runners \ {r} : mem'[s] = mem[s]
                /\ mem'[r].exit.hermes = mem[r].exit.hermes
                /\ mem'[r].exit.grader \in {"ok", "bad"}
                /\ mem'[r].timing = mem[r].timing \cup {"grader"}
  <1>1. ASSUME Load(r)
        PROVE  /\ mem'[r].exit = files.exit /\ mem'[r].timing = files.timing
               /\ \A s \in Runners \ {r} : mem'[s] = mem[s]
    BY <1>1 DEF TypeOK, Load
  <1>2. ASSUME Reap(r)
        PROVE  /\ \A s \in Runners \ {r} : mem'[s] = mem[s]
               /\ \/ UNCHANGED mem /\ UNCHANGED files /\ pc' = [pc EXCEPT ![r] = "abort"]
                  \/ /\ mem'[r].exit.hermes = [by |-> r, code |-> code[r]]
                     /\ mem'[r].exit.grader = mem[r].exit.grader
                     /\ mem'[r].timing = mem[r].timing \cup {"hermes"}
                     /\ ~files'.home /\ pc' = [pc EXCEPT ![r] = "exitHermes"]
    <2>1. CASE Removable
      <3>1. /\ files' = [files EXCEPT !.home = FALSE]
            /\ mem' = [mem EXCEPT ![r].exit.hermes = [by |-> r, code |-> code[r]],
                                  ![r].timing = @ \cup {"hermes"}]
            /\ pc' = [pc EXCEPT ![r] = "exitHermes"]
        BY <1>2, <2>1 DEF Reap, Moves
      <3>2. mem[r] \in Memory /\ mem[r].exit \in ExitStatus /\ r \in DOMAIN mem
        BY DEF TypeOK, Memory
      <3>3. ~files'.home
        BY <3>1 DEF TypeOK, Files
      <3>4. QED
        BY ZenonT(60), <3>1, <3>2, <3>3 DEF TypeOK, Memory, ExitStatus
    <2>2. CASE ~Removable
      BY <1>2, <2>2 DEF Reap, Moves
    <2>3. QED
      BY <2>1, <2>2
  <1>3. ASSUME CollectGrade(r)
        PROVE  /\ \A s \in Runners \ {r} : mem'[s] = mem[s]
               /\ mem'[r].exit.hermes = mem[r].exit.hermes
               /\ mem'[r].exit.grader \in {"ok", "bad"}
               /\ mem'[r].timing = mem[r].timing \cup {"grader"}
    BY <1>3 DEF TypeOK, Memory, ExitStatus, CollectGrade
  <1>4. QED
    BY <1>1, <1>2, <1>3

-----------------------------------------------------------------------------
(* The agent: AgentInv.                                                    *)

\* A step that does not touch the agents, of a runner that goes on.
LEMMA AgentKept ==
    ASSUME TypeOK, AgentInv, NEW r \in Runners, NEW p,
           pc' = [pc EXCEPT ![r] = p], p \in Unlaunched => pc[r] \in Unlaunched,
           UNCHANGED <<agent, code, strays>>, files'.cogs = files.cogs
    PROVE  AgentInv'
  BY DEF TypeOK, AgentInv

LEMMA AgentBody ==
    ASSUME TypeOK, HomeInv, AgentInv, NEW r \in Runners, BodyStep(r)
    PROVE  AgentInv'
  <1>1. CASE LaunchHermes(r)
    <2>1. pc[r] = "launch" /\ agent[r] = "none" /\ code[r] = "error" /\ r \notin strays
      BY <1>1 DEF AgentInv, LaunchHermes, Moves, Unlaunched, TypeOK
    <2>2. UNCHANGED files /\ UNCHANGED strays
      BY <1>1 DEF LaunchHermes, dirVars
    <2>3. QED
      BY <1>1, <2>1, <2>2 DEF TypeOK, AgentInv, LaunchHermes, Moves, Unlaunched, LiveAgent
  <1>2. CASE HermesTimeout(r)
    BY <1>2 DEF TypeOK, AgentInv, HermesTimeout, ForcedEnd, runnerVars, dirVars,
                LiveAgent, Unlaunched
  <1>3. CASE \/ Prepare(r) \/ Load(r) \/ WaitReturns(r)
    BY <1>3, AgentKept DEF Prepare, Load, WaitReturns, Moves, procVars, dirVars, Unlaunched
  <1>4. CASE \/ CopyStarter(r) \/ Baseline(r) \/ MakeHome(r) \/ Reap(r)
    <2>1. files'.cogs = files.cogs
      BY <1>4, WorkspaceWrites
    <2>2. QED
      BY <1>4, <2>1, AgentKept
         DEF CopyStarter, Baseline, MakeHome, Reap, Moves, procVars, Unlaunched
  <1>5. ASSUME NEW from, NEW to \in {"timingHermes", "collect", "timingGrader", "finish"},
               RecordExit(r, from, to) \/ RecordTiming(r, from, to)
        PROVE  AgentInv'
    <2>1. files'.cogs = files.cogs
      BY <1>5, TelemetryWrites
    <2>2. QED
      BY <1>5, <2>1, AgentKept DEF RecordExit, RecordTiming, Moves, procVars, Unlaunched
  <1>6. CASE Collect(r) \/ Patch(r) \/ Grade(r) \/ CollectGrade(r) \/ Finish(r)
    <2>1. files'.cogs = files.cogs
      BY <1>6, GradingWrites
    <2>2. QED
      BY <1>6, <2>1, AgentKept
         DEF Collect, Patch, Grade, CollectGrade, Finish, Moves, procVars, Unlaunched
  <1>7. QED
    BY <1>1, <1>2, <1>3, <1>4, <1>5, <1>6 DEF BodyStep

LEMMA AgentRaise ==
    ASSUME TypeOK, AgentInv, NEW r \in Runners, Raise(r)
    PROVE  AgentInv'
  <1>1. files'.cogs = files.cogs /\ pc' = [pc EXCEPT ![r] = "abort"] /\ UNCHANGED code
    BY EnvironmentWrites, GradingWrites DEF Raise
  <1>2. CASE pc[r] = "wait"
    <2>1. ForcedEnd(r)
      BY <1>2 DEF Raise
    <2>2. QED
      BY <1>1, <1>2, <2>1 DEF TypeOK, AgentInv, ForcedEnd, LiveAgent, Unlaunched
  <1>3. CASE pc[r] # "wait"
    <2>1. UNCHANGED <<agent, strays>>
      BY <1>3 DEF Raise
    <2>2. QED
      BY <1>1, <2>1, AgentKept DEF Unlaunched
  <1>4. QED
    BY <1>2, <1>3

LEMMA AgentEnvironment ==
    ASSUME TypeOK, HomeInv, AgentInv, NEW r \in Runners, Environment(r)
    PROVE  AgentInv'
  <1>1. CASE AgentHook(r) \/ AgentConstruct(r)
    <2>1. \/ agent' = [agent EXCEPT ![r] = "hooked"] /\ files'.cogs = files.cogs
          \/ agent' = [agent EXCEPT ![r] = "working"] /\ files'.cogs = files.cogs \cup {r}
      BY <1>1, EnvironmentWrites DEF AgentHook, AgentConstruct
    <2>2. UNCHANGED pc /\ UNCHANGED <<code, strays>> /\ agent[r] \in LiveAgent
      BY <1>1 DEF AgentHook, AgentConstruct, runnerVars, LiveAgent
    <2>3. pc[r] \notin Unlaunched
      BY <2>2 DEF AgentInv, LiveAgent
    <2>4. QED
      BY <2>1, <2>2, <2>3 DEF TypeOK, AgentInv, LiveAgent
  <1>2. CASE AgentExit(r)
    BY <1>2 DEF TypeOK, AgentInv, HomeInv, AgentExit, runnerVars, dirVars, LiveAgent,
                Unlaunched
  <1>3. CASE StrayEnds(r)
    BY <1>3 DEF TypeOK, AgentInv, StrayEnds, runnerVars, dirVars
  <1>4. CASE Edit(r) \/ GraderEnds(r)
    <2>1. files'.cogs = files.cogs
      BY <1>4, EnvironmentWrites
    <2>2. UNCHANGED <<pc, agent, code, strays>>
      BY <1>4 DEF Edit, GraderEnds, runnerVars, procVars
    <2>3. QED
      BY <2>1, <2>2 DEF AgentInv
  <1>5. QED
    BY <1>1, <1>2, <1>3, <1>4 DEF Environment

\* Status 0 is only that of an agent that was built, is in the trace, ended by itself and
\* left no process behind; a live agent has no status yet.
THEOREM AgentCorrect == Spec => []AgentInv
  <1>1. Init => AgentInv
    BY DEF Init, AgentInv, LiveAgent
  <1>2. ASSUME TypeOK, HomeInv, AgentInv, [Next]_vars
        PROVE  AgentInv'
    <2>1. ASSUME NEW r \in Runners, AdmissionStep(r) \/ SealingStep(r)
          PROVE  AgentInv'
      <3>1. UNCHANGED <<agent, code, strays>> /\ files'.cogs = files.cogs
        BY <1>2, <2>1, AdmissionEffect, SealingEffect
      <3>2. \E p : pc' = [pc EXCEPT ![r] = p] /\ (p \in Unlaunched => pc[r] \in Unlaunched)
        BY <1>2, <2>1, AdmissionEffect, SealingEffect DEF Admitting, Sealing, Unlaunched
      <3>3. QED
        BY <1>2, <3>1, <3>2, AgentKept
    <2>2. CASE UNCHANGED vars
      BY <1>2, <2>2 DEF AgentInv, vars, runnerVars, procVars, dirVars
    <2>3. QED
      BY <1>2, <2>1, <2>2, NextSteps, AgentBody, AgentRaise, AgentEnvironment
  <1>3. QED
    BY <1>1, <1>2, TypeCorrect, HomeCorrect, PTL DEF Spec

-----------------------------------------------------------------------------
(* What is recorded of it: StatusInv.                                      *)

\* The status of an agent that was launched and is not at work is final.
Over(h) == agent[h] \notin LiveAgent /\ pc[h] \notin Unlaunched

LEMMA OverStays ==
    ASSUME TypeOK, HomeInv, AgentInv, [Next]_vars, NEW h \in Runners, Over(h)
    PROVE  Over(h)' /\ code'[h] = code[h]
  <1>1. ASSUME NEW r \in Runners, AdmissionStep(r) \/ SealingStep(r)
        PROVE  Over(h)' /\ code'[h] = code[h]
    <2>1. UNCHANGED <<agent, code>>
      BY <1>1, AdmissionEffect, SealingEffect
    <2>2. \E p : pc' = [pc EXCEPT ![r] = p] /\ (p \in Unlaunched => pc[r] \in Unlaunched)
      BY <1>1, AdmissionEffect, SealingEffect DEF Admitting, Sealing, Unlaunched
    <2>3. QED
      BY <2>1, <2>2 DEF TypeOK, Over
  <1>2. ASSUME NEW r \in Runners, BodyStep(r)
        PROVE  Over(h)' /\ code'[h] = code[h]
    <2>1. CASE LaunchHermes(r)
      BY <2>1 DEF TypeOK, Over, LaunchHermes, Moves, Unlaunched
    <2>2. CASE HermesTimeout(r)
      BY <2>2 DEF TypeOK, Over, HermesTimeout, ForcedEnd, runnerVars, LiveAgent
    <2>3. CASE ~LaunchHermes(r) /\ ~HermesTimeout(r)
      <3>1. UNCHANGED <<agent, code>>
        BY <1>2, <2>3
           DEF BodyStep, Prepare, CopyStarter, Baseline, Load, MakeHome, WaitReturns, Reap,
               RecordExit, RecordTiming, Collect, Patch, Grade, CollectGrade, Finish,
               procVars
      <3>2. \E p : pc' = [pc EXCEPT ![r] = p] /\ (p \in Unlaunched => pc[r] \in Unlaunched)
        <4>1. CASE Collect(r) \/ Patch(r) \/ Grade(r) \/ CollectGrade(r) \/ Finish(r)
          <5>1. \E p \in {"patch", "grade", "grading", "finish", "exitGrader", "unlock",
                         "abort"} : pc' = [pc EXCEPT ![r] = p]
            BY <4>1 DEF Collect, Patch, Grade, CollectGrade, Finish, Moves
          <5>2. QED
            BY <5>1 DEF Unlaunched
        <4>2. CASE ~(Collect(r) \/ Patch(r) \/ Grade(r) \/ CollectGrade(r) \/ Finish(r))
          BY <1>2, <2>3, <4>2
             DEF BodyStep, Prepare, CopyStarter, Baseline, Load, MakeHome, WaitReturns, Reap,
                 RecordExit, RecordTiming, Moves, Unlaunched
        <4>3. QED
          BY <4>1, <4>2
      <3>3. QED
        BY <3>1, <3>2 DEF TypeOK, Over
    <2>4. QED
      BY <2>1, <2>2, <2>3
  <1>3. ASSUME NEW r \in Runners, Raise(r)
        PROVE  Over(h)' /\ code'[h] = code[h]
    BY <1>3 DEF TypeOK, Over, Raise, ForcedEnd, LiveAgent, Unlaunched
  <1>4. ASSUME NEW r \in Runners, Environment(r)
        PROVE  Over(h)' /\ code'[h] = code[h]
    BY <1>4 DEF TypeOK, Over, Environment, AgentHook, AgentConstruct, AgentExit, Edit,
                StrayEnds, GraderEnds, runnerVars, procVars, LiveAgent
  <1>5. CASE UNCHANGED vars
    BY <1>5 DEF Over, vars, runnerVars, procVars
  <1>6. QED
    BY <1>1, <1>2, <1>3, <1>4, <1>5, NextSteps

\* What was truthful of an exit status stays truthful.
LEMMA TruthfulStays ==
    ASSUME TypeOK, HomeInv, AgentInv, [Next]_vars, NEW e, Truthful(e)
    PROVE  Truthful(e)'
  <1>1. CASE e.hermes = NoHermes
    BY <1>1 DEF Truthful
  <1>2. CASE e.hermes # NoHermes
    <2>1. PICK h \in Runners : e.hermes = [by |-> h, code |-> code[h]] /\ Over(h)
      BY <1>2 DEF Truthful, Over
    <2>2. Over(h)' /\ code'[h] = code[h]
      BY <2>1, OverStays
    <2>3. QED
      BY <1>2, <2>1, <2>2 DEF Truthful, Over
  <1>3. QED
    BY <1>1, <1>2

\* A step that changes no record, of a runner that goes on with what it holds.
LEMMA StatusKept ==
    ASSUME TypeOK, HomeInv, AgentInv, StatusInv, [Next]_vars, NEW r \in Runners,
           UNCHANGED mem, files'.exit = files.exit,
           files'.result.success => files.result.success,
           \/ UNCHANGED pc
           \/ \E p : /\ pc' = [pc EXCEPT ![r] = p]
                     /\ p \in {"home"} \cup Waiting => pc[r] \in {"home"} \cup Waiting
                     /\ p \in HoldsStatus => mem[r].exit.hermes # NoHermes
    PROVE  StatusInv'
  <1>1. Truthful(files.exit)' /\ \A s \in Runners : Truthful(mem[s].exit)'
    <2>1. Truthful(files.exit)'
      BY ZenonT(60), TruthfulStays DEF StatusInv, Truthful
    <2>2. ASSUME NEW s \in Runners PROVE Truthful(mem[s].exit)'
      BY TruthfulStays DEF StatusInv, Truthful
    <2>3. QED
      BY <2>1, <2>2
  <1>2. ASSUME NEW h \in Runners, code[h] = "ok"
        PROVE  code'[h] = "ok"
    BY <1>2, OverStays DEF AgentInv, Over, LiveAgent
  <1>3. /\ \A s \in Runners : pc'[s] \in {"home"} \cup Waiting =>
                                  mem'[s].exit.hermes = NoHermes
        /\ \A s \in Runners : pc'[s] \in HoldsStatus => mem'[s].exit.hermes # NoHermes
    <2>1. CASE UNCHANGED pc
      BY <2>1 DEF StatusInv
    <2>2. ASSUME NEW p, pc' = [pc EXCEPT ![r] = p],
                 p \in {"home"} \cup Waiting => pc[r] \in {"home"} \cup Waiting,
                 p \in HoldsStatus => mem[r].exit.hermes # NoHermes
          PROVE  /\ \A s \in Runners : pc'[s] \in {"home"} \cup Waiting =>
                                           mem'[s].exit.hermes = NoHermes
                 /\ \A s \in Runners : pc'[s] \in HoldsStatus =>
                                           mem'[s].exit.hermes # NoHermes
      BY <2>2 DEF TypeOK, StatusInv
    <2>3. QED
      BY <2>1, <2>2
  <1>4. files'.result.success => \E h \in Runners : code'[h] = "ok"
    BY <1>2 DEF StatusInv
  <1>5. QED
    BY <1>1, <1>3, <1>4 DEF StatusInv

LEMMA StatusBody ==
    ASSUME TypeOK, HomeInv, AgentInv, StatusInv, [Next]_vars, NEW r \in Runners, BodyStep(r)
    PROVE  StatusInv'
  <1>1. CASE Prepare(r) \/ LaunchHermes(r) \/ WaitReturns(r) \/ HermesTimeout(r)
    <2>1. UNCHANGED mem /\ UNCHANGED files
      BY <1>1 DEF Prepare, LaunchHermes, WaitReturns, HermesTimeout, runnerVars, dirVars
    <2>2. \/ UNCHANGED pc
          \/ \E p \in {"copy", "load"} : pc' = [pc EXCEPT ![r] = p]
          \/ /\ pc[r] \in Waiting
             /\ \E p \in Waiting : pc' = [pc EXCEPT ![r] = p]
      BY <1>1 DEF Prepare, LaunchHermes, WaitReturns, HermesTimeout, runnerVars, Moves,
                  Waiting
    <2>3. \A p \in {"copy", "load"} : p \notin {"home"} \cup Waiting /\ p \notin HoldsStatus
      BY DEF Waiting, HoldsStatus
    <2>4. Waiting \cap HoldsStatus = {}
      BY DEF Waiting, HoldsStatus
    <2>5. QED
      BY <2>1, <2>2, <2>3, <2>4, StatusKept
  <1>2. CASE CopyStarter(r) \/ Baseline(r) \/ MakeHome(r)
    <2>1. UNCHANGED mem /\ files'.exit = files.exit /\ files'.result = files.result
      BY <1>2, WorkspaceWrites DEF CopyStarter, Baseline, MakeHome
    <2>2. \/ \E p \in {"baseline", "abort", "load"} : pc' = [pc EXCEPT ![r] = p]
          \/ pc[r] = "home" /\ pc' = [pc EXCEPT ![r] = "launch"]
      BY <1>2 DEF CopyStarter, Baseline, MakeHome, Moves
    <2>3. \A p \in {"baseline", "abort", "load"} :
              p \notin {"home"} \cup Waiting /\ p \notin HoldsStatus
      BY DEF Waiting, HoldsStatus
    <2>4. "launch" \notin HoldsStatus
      BY DEF HoldsStatus
    <2>5. QED
      BY <2>1, <2>2, <2>3, <2>4, StatusKept
  <1>3. CASE Collect(r) \/ Patch(r) \/ Grade(r)
    <2>1. UNCHANGED mem /\ files'.exit = files.exit /\ files'.result = files.result
      BY <1>3, GradingWrites DEF Collect, Patch, Grade
    <2>2. \E p : pc' = [pc EXCEPT ![r] = p] /\ p \notin {"home"} \cup Waiting
      BY <1>3 DEF Collect, Patch, Grade, Moves, Waiting
    <2>3. mem[r].exit.hermes # NoHermes
      BY <1>3 DEF StatusInv, HoldsStatus, Collect, Patch, Grade, Moves
    <2>4. QED
      BY <2>1, <2>2, <2>3, StatusKept
  <1>4. ASSUME NEW from \in HoldsStatus, NEW to \in HoldsStatus,
               to \notin {"home"} \cup Waiting, RecordTiming(r, from, to)
        PROVE  StatusInv'
    <2>1. UNCHANGED mem /\ files'.exit = files.exit /\ files'.result = files.result
      BY <1>4, TelemetryWrites DEF RecordTiming
    <2>2. pc' = [pc EXCEPT ![r] = to] /\ mem[r].exit.hermes # NoHermes
      BY <1>4 DEF StatusInv, RecordTiming, Moves
    <2>3. QED
      BY <1>4, <2>1, <2>2, StatusKept
  <1>5. ASSUME NEW from \in HoldsStatus, NEW to \in HoldsStatus,
               to \notin {"home"} \cup Waiting, RecordExit(r, from, to)
        PROVE  StatusInv'
    <2>1. /\ UNCHANGED mem /\ files'.exit = mem[r].exit /\ files'.result = files.result
          /\ UNCHANGED <<code, agent>>
      BY <1>5, TelemetryWrites DEF RecordExit, procVars
    <2>2. pc[r] = from /\ pc' = [pc EXCEPT ![r] = to] /\ mem[r].exit.hermes # NoHermes
      BY <1>5 DEF StatusInv, RecordExit, Moves
    <2>3. Truthful(files.exit)' /\ \A s \in Runners : Truthful(mem[s].exit)'
      BY <2>1, OverStays DEF StatusInv, Truthful, Over
    <2>4. QED
      BY <1>5, <2>1, <2>2, <2>3 DEF TypeOK, StatusInv
  <1>6. CASE Load(r)
    <2>1. /\ mem'[r].exit = files.exit /\ \A s \in Runners \ {r} : mem'[s] = mem[s]
          /\ UNCHANGED files /\ UNCHANGED <<code, agent>>
      BY <1>6, MemoryWrites DEF Load, dirVars, procVars
    <2>2. pc' = [pc EXCEPT ![r] = IF files.exit.hermes = NoHermes THEN "home" ELSE "collect"]
      BY <1>6 DEF Load, Moves
    <2>3. Truthful(files.exit)' /\ \A s \in Runners : Truthful(mem[s].exit)'
      BY <2>1, OverStays DEF StatusInv, Truthful, Over
    <2>4. QED
      BY <2>1, <2>2, <2>3 DEF TypeOK, StatusInv, HoldsStatus, Waiting
  <1>7. CASE Reap(r)
    <2>1. files'.exit = files.exit /\ files'.result = files.result /\ UNCHANGED <<code, agent>>
      BY <1>7, WorkspaceWrites DEF Reap, procVars
    <2>2. CASE UNCHANGED mem /\ pc' = [pc EXCEPT ![r] = "abort"]
      <3>1. "abort" \notin {"home"} \cup Waiting /\ "abort" \notin HoldsStatus
        BY DEF Waiting, HoldsStatus
      <3>2. QED
        BY <2>1, <2>2, <3>1, StatusKept
    <2>3. CASE /\ mem'[r].exit.hermes = [by |-> r, code |-> code[r]]
               /\ pc' = [pc EXCEPT ![r] = "exitHermes"]
      <3>1. agent[r] \notin LiveAgent
        BY <1>7 DEF HomeInv, Reap, Moves
      <3>2. [by |-> r, code |-> code[r]] # NoHermes
        BY DEF NoHermes
      <3>3. Truthful(mem[r].exit)'
        BY <2>1, <2>3, <3>1, <3>2 DEF TypeOK, Truthful, Unlaunched
      <3>4. \A s \in Runners \ {r} : mem'[s] = mem[s]
        BY <1>7, MemoryWrites
      <3>5. Truthful(files.exit)' /\ \A s \in Runners \ {r} : Truthful(mem[s].exit)'
        BY <2>1, <3>4, OverStays DEF StatusInv, Truthful, Over
      <3>6. QED
        BY <2>1, <2>3, <3>2, <3>3, <3>4, <3>5
           DEF TypeOK, StatusInv, HoldsStatus, Waiting
    <2>4. QED
      BY <1>7, <2>2, <2>3, MemoryWrites
  <1>8. CASE CollectGrade(r)
    <2>1. files'.exit = files.exit /\ files'.result = files.result /\ UNCHANGED <<code, agent>>
      BY <1>8, GradingWrites DEF CollectGrade
    <2>2. /\ mem'[r].exit.hermes = mem[r].exit.hermes
          /\ \A s \in Runners \ {r} : mem'[s] = mem[s]
      BY <1>8, MemoryWrites
    <2>3. pc' = [pc EXCEPT ![r] = "exitGrader"] /\ mem[r].exit.hermes # NoHermes
      BY <1>8 DEF StatusInv, HoldsStatus, CollectGrade, Moves
    <2>4. Truthful(files.exit)' /\ \A s \in Runners \ {r} : Truthful(mem[s].exit)'
      BY <2>1, <2>2, OverStays DEF StatusInv, Truthful, Over
    <2>5. Truthful(mem[r].exit)'
      <3>1. PICK h \in Runners : mem[r].exit.hermes = [by |-> h, code |-> code[h]] /\ Over(h)
        BY <2>3 DEF StatusInv, Truthful, Over
      <3>2. Over(h)' /\ code'[h] = code[h]
        BY <3>1, OverStays
      <3>3. mem'[r].exit.hermes # NoHermes
        BY <2>2, <2>3
      <3>4. QED
        BY <2>2, <3>1, <3>2, <3>3 DEF Truthful, Over
    <2>6. QED
      BY <2>1, <2>2, <2>3, <2>4, <2>5 DEF TypeOK, StatusInv, HoldsStatus, Waiting
  <1>9. CASE Finish(r)
    <2>1. /\ UNCHANGED mem /\ files'.exit = files.exit /\ UNCHANGED <<code, agent>>
          /\ files'.result = Outcome(r)
      BY <1>9, GradingWrites DEF Finish, procVars
    <2>2. pc' = [pc EXCEPT ![r] = "unlock"] /\ mem[r].exit.hermes # NoHermes
      BY <1>9 DEF StatusInv, HoldsStatus, Finish, Moves
    <2>3. Truthful(files.exit)' /\ \A s \in Runners : Truthful(mem[s].exit)'
      BY <2>1, OverStays DEF StatusInv, Truthful, Over
    <2>4. Outcome(r).success => \E h \in Runners : code[h] = "ok"
      <3>1. Outcome(r).success => mem[r].exit.hermes.code = "ok"
        BY DEF Outcome
      <3>2. \E h \in Runners : mem[r].exit.hermes = [by |-> h, code |-> code[h]]
        BY <2>2 DEF StatusInv, Truthful
      <3>3. QED
        BY <3>1, <3>2
    <2>5. QED
      BY <2>1, <2>2, <2>3, <2>4 DEF TypeOK, StatusInv, HoldsStatus, Waiting
  <1>10. QED
    BY <1>1, <1>2, <1>3, <1>4, <1>5, <1>6, <1>7, <1>8, <1>9
       DEF BodyStep, HoldsStatus, Waiting

LEMMA NextStatusInv ==
    TypeOK /\ HomeInv /\ AgentInv /\ StatusInv /\ [Next]_vars => StatusInv'
  <1>1. SUFFICES ASSUME TypeOK, HomeInv, AgentInv, StatusInv, [Next]_vars
                 PROVE  StatusInv'
    OBVIOUS
  <1>2. ASSUME NEW r \in Runners, AdmissionStep(r) \/ SealingStep(r)
        PROVE  StatusInv'
    <2>1. UNCHANGED mem /\ files'.exit = files.exit /\ files'.result = files.result
      BY <1>1, <1>2, AdmissionEffect, SealingEffect
    <2>2. \E p : /\ pc' = [pc EXCEPT ![r] = p]
                 /\ p \notin {"home"} \cup Waiting /\ p \notin HoldsStatus
      BY <1>1, <1>2, AdmissionEffect, SealingEffect
         DEF Admitting, Sealing, Waiting, HoldsStatus
    <2>3. QED
      BY <1>1, <2>1, <2>2, StatusKept
  <1>3. ASSUME NEW r \in Runners, Raise(r) \/ Environment(r)
        PROVE  StatusInv'
    <2>1. UNCHANGED mem
      BY <1>3 DEF Raise, Environment, AgentHook, AgentConstruct, AgentExit, Edit,
                  StrayEnds, GraderEnds, runnerVars
    <2>2. files'.exit = files.exit /\ files'.result = files.result
      <3>1. CASE AgentExit(r) \/ StrayEnds(r)
        BY <3>1 DEF AgentExit, StrayEnds, dirVars
      <3>2. QED
        BY <1>1, <1>3, <3>1, EnvironmentWrites, GradingWrites DEF Environment
    <2>3. UNCHANGED pc \/ pc' = [pc EXCEPT ![r] = "abort"]
      BY <1>3 DEF Raise, Environment, AgentHook, AgentConstruct, AgentExit, Edit,
                  StrayEnds, GraderEnds, runnerVars
    <2>4. "abort" \notin {"home"} \cup Waiting /\ "abort" \notin HoldsStatus
      BY DEF Waiting, HoldsStatus
    <2>5. QED
      BY <1>1, <2>1, <2>2, <2>3, <2>4, StatusKept
  <1>4. CASE UNCHANGED vars
    <2>1. UNCHANGED <<pc, mem, files, code, agent>>
      BY <1>4 DEF vars, runnerVars, procVars, dirVars
    <2>2. QED
      BY <1>1, <2>1 DEF StatusInv, Truthful
  <1>5. QED
    BY <1>1, <1>2, <1>3, <1>4, NextSteps, StatusBody

\* A recorded status, on disk or in a runner's memory, is that of an agent that is not at
\* work and will not be again, and a success is recorded only if some agent ended with 0.
THEOREM StatusCorrect == Spec => []StatusInv
  <1>1. Init => StatusInv
    BY DEF Init, StatusInv, Truthful, NoFiles, NoExit, NoResult, Waiting, HoldsStatus
  <1>2. QED
    BY <1>1, NextStatusInv, TypeCorrect, HomeCorrect, AgentCorrect, PTL DEF Spec

\* A cell that counts is the work of one agent: it was built, it ended by itself with
\* code 0, no other was ever built, and nothing of it is still at work.
THEOREM CountedIsAuthored == Spec => []SoleAuthor
  <1>1. AgentInv /\ StatusInv => SoleAuthor
    BY DEF AgentInv, StatusInv, SoleAuthor, Counted, Verified, TraceVerified
  <1>2. QED
    BY <1>1, AgentCorrect, StatusCorrect, PTL

-----------------------------------------------------------------------------
(* What is graded: SolvedInv.                                              *)

\* Only the construction of an agent leaves an isolation record.
LEMMA CogsWritten ==
    ASSUME TypeOK, [Next]_vars
    PROVE  \/ files'.cogs = files.cogs
           \/ \E r \in Runners : AgentConstruct(r) /\ files'.cogs = files.cogs \cup {r}
  <1>1. ASSUME NEW r \in Runners, AdmissionStep(r) \/ SealingStep(r)
        PROVE  files'.cogs = files.cogs
    BY <1>1, AdmissionEffect, SealingEffect
  <1>2. ASSUME NEW r \in Runners, BodyStep(r)
        PROVE  files'.cogs = files.cogs
    <2>1. CASE Prepare(r) \/ Load(r) \/ LaunchHermes(r) \/ WaitReturns(r) \/ HermesTimeout(r)
      BY <2>1 DEF Prepare, Load, LaunchHermes, WaitReturns, HermesTimeout, dirVars
    <2>2. CASE CopyStarter(r) \/ Baseline(r) \/ MakeHome(r) \/ Reap(r)
      BY <2>2, WorkspaceWrites
    <2>3. ASSUME NEW from, NEW to, RecordExit(r, from, to) \/ RecordTiming(r, from, to)
          PROVE  files'.cogs = files.cogs
      BY <2>3, TelemetryWrites
    <2>4. CASE Collect(r) \/ Patch(r) \/ Grade(r) \/ CollectGrade(r) \/ Finish(r)
      BY <2>4, GradingWrites
    <2>5. QED
      BY <1>2, <2>1, <2>2, <2>3, <2>4 DEF BodyStep
  <1>3. ASSUME NEW r \in Runners, Raise(r)
        PROVE  files'.cogs = files.cogs
    BY <1>3, EnvironmentWrites, GradingWrites
  <1>4. ASSUME NEW r \in Runners, Environment(r)
        PROVE  \/ files'.cogs = files.cogs
               \/ AgentConstruct(r) /\ files'.cogs = files.cogs \cup {r}
    <2>1. CASE AgentExit(r) \/ StrayEnds(r)
      BY <2>1 DEF AgentExit, StrayEnds, dirVars
    <2>2. QED
      BY <1>4, <2>1, EnvironmentWrites DEF Environment
  <1>5. CASE UNCHANGED vars
    BY <1>5 DEF vars, dirVars
  <1>6. QED
    BY <1>1, <1>2, <1>3, <1>4, <1>5, NextSteps

\* A step that leaves the workspace copied and starts nothing.
LEMMA UntouchedKept ==
    ASSUME TypeOK, SolvedInv, NEW r \in Runners, NEW p,
           pc' = [pc EXCEPT ![r] = p], UNCHANGED agent,
           files'.base = "none" => files.base = "none" /\ files'.cogs = files.cogs,
           \/ files'.base # "none" \/ p \notin {"baseline", "load", "home"} \cup Waiting
           \/ pc[r] \in {"baseline", "load", "home"} \cup Waiting
    PROVE  Untouched'
  BY DEF TypeOK, SolvedInv, Untouched

LEMMA UntouchedBody ==
    ASSUME TypeOK, SolvedInv, NEW r \in Runners, BodyStep(r)
    PROVE  Untouched'
  <1>1. CASE LaunchHermes(r) \/ WaitReturns(r)
    <2>1. files.base # "none"
      BY <1>1 DEF SolvedInv, Untouched, LaunchHermes, WaitReturns, Moves, Waiting
    <2>2. UNCHANGED files
      BY <1>1 DEF LaunchHermes, WaitReturns, dirVars
    <2>3. QED
      BY <2>1, <2>2 DEF Untouched
  <1>2. CASE HermesTimeout(r)
    <2>1. files.base # "none" /\ UNCHANGED files
      BY <1>2 DEF SolvedInv, Untouched, HermesTimeout, Waiting, dirVars
    <2>2. QED
      BY <2>1 DEF Untouched
  <1>3. CASE Prepare(r) \/ Load(r)
    <2>1. UNCHANGED <<files, agent>>
      BY <1>3 DEF Prepare, Load, dirVars, procVars
    <2>2. \/ /\ pc[r] = "prepare"
             /\ pc' = [pc EXCEPT ![r] = IF files.base = "none" THEN "copy" ELSE "load"]
          \/ pc[r] = "load" /\ \E p : pc' = [pc EXCEPT ![r] = p]
      BY <1>3 DEF Prepare, Load, Moves
    <2>3. "copy" \notin {"baseline", "load", "home"} \cup Waiting
      BY DEF Waiting
    <2>4. QED
      BY <2>1, <2>2, <2>3, UntouchedKept
  <1>4. CASE CopyStarter(r)
    <2>1. UNCHANGED agent /\ \E p \in {"baseline", "abort"} : pc' = [pc EXCEPT ![r] = p]
      BY <1>4 DEF CopyStarter, Moves, procVars
    <2>2. \/ files'.base # "none"
          \/ UNCHANGED files /\ pc' = [pc EXCEPT ![r] = "abort"]
      BY ZenonT(60), <1>4, WorkspaceWrites
         DEF CopyStarter, Moves, Rewrite, dirVars, TypeOK, Files
    <2>3. "abort" \notin {"baseline", "load", "home"} \cup Waiting
      BY DEF Waiting
    <2>4. QED
      BY <2>1, <2>2, <2>3, UntouchedKept
  <1>5. CASE Baseline(r) \/ MakeHome(r) \/ Reap(r)
    <2>1. /\ files'.base # "none" \/ files'.base = files.base
          /\ files'.cogs = files.cogs /\ UNCHANGED agent
      BY <1>5, WorkspaceWrites DEF Baseline, MakeHome, Reap, procVars
    <2>2. /\ pc[r] \in {"baseline", "home"} \cup Waiting
          /\ \E p : pc' = [pc EXCEPT ![r] = p]
      BY <1>5 DEF Baseline, MakeHome, Reap, Moves, Waiting
    <2>3. QED
      BY <2>1, <2>2, UntouchedKept DEF SolvedInv, Untouched
  <1>6. ASSUME NEW from, NEW to \in {"timingHermes", "collect", "timingGrader", "finish"},
               RecordExit(r, from, to) \/ RecordTiming(r, from, to)
        PROVE  Untouched'
    <2>1. files'.base = files.base /\ files'.cogs = files.cogs
      BY <1>6, TelemetryWrites
    <2>2. pc' = [pc EXCEPT ![r] = to] /\ UNCHANGED agent
      BY <1>6 DEF RecordExit, RecordTiming, Moves, procVars
    <2>3. to \notin {"baseline", "load", "home"} \cup Waiting
      BY <1>6 DEF Waiting
    <2>4. QED
      BY <2>1, <2>2, <2>3, UntouchedKept
  <1>7. CASE Collect(r) \/ Patch(r) \/ Grade(r) \/ CollectGrade(r) \/ Finish(r)
    <2>1. files'.base = files.base /\ files'.cogs = files.cogs
      BY <1>7, GradingWrites
    <2>2. /\ UNCHANGED agent
          /\ \E p \in {"patch", "grade", "grading", "finish", "exitGrader", "unlock",
                        "abort"} :
                 pc' = [pc EXCEPT ![r] = p]
      BY <1>7 DEF Collect, Patch, Grade, CollectGrade, Finish, Moves, procVars
    <2>3. \A p \in {"patch", "grade", "grading", "finish", "exitGrader", "unlock", "abort"} :
              p \notin {"baseline", "load", "home"} \cup Waiting
      BY DEF Waiting
    <2>4. QED
      BY <2>1, <2>2, <2>3, UntouchedKept
  <1>8. QED
    BY <1>1, <1>2, <1>3, <1>4, <1>5, <1>6, <1>7 DEF BodyStep

LEMMA NextUntouched ==
    ASSUME TypeOK, AgentInv, SolvedInv, [Next]_vars
    PROVE  Untouched'
  <1>1. ASSUME NEW r \in Runners, AdmissionStep(r) \/ SealingStep(r)
        PROVE  Untouched'
    <2>1. UNCHANGED <<files, agent>>
      BY <1>1, AdmissionEffect, SealingEffect
    <2>2. \E p : /\ pc' = [pc EXCEPT ![r] = p]
                 /\ p \notin {"baseline", "load", "home"} \cup Waiting
      BY <1>1, AdmissionEffect, SealingEffect DEF Admitting, Sealing, Waiting
    <2>3. QED
      BY <2>1, <2>2, UntouchedKept
  <1>2. ASSUME NEW r \in Runners, Raise(r)
        PROVE  Untouched'
    <2>1. /\ files'.base = files.base /\ files'.cogs = files.cogs
          /\ pc' = [pc EXCEPT ![r] = "abort"]
      BY <1>2, EnvironmentWrites, GradingWrites DEF Raise
    <2>2. "abort" \notin {"baseline", "load", "home"} \cup Waiting
      BY DEF Waiting
    <2>3. CASE UNCHANGED agent
      BY <2>1, <2>2, <2>3, UntouchedKept
    <2>4. CASE ~UNCHANGED agent
      <3>1. pc[r] = "wait"
        BY <1>2, <2>4 DEF Raise
      <3>2. QED
        BY <2>1, <3>1 DEF SolvedInv, Untouched, Waiting
    <2>5. QED
      BY <2>3, <2>4
  <1>3. ASSUME NEW r \in Runners, Environment(r)
        PROVE  Untouched'
    <2>1. CASE AgentHook(r) \/ AgentConstruct(r) \/ AgentExit(r) \/ StrayEnds(r)
      <3>1. agent[r] # "none" \/ r \in strays
        BY <2>1 DEF AgentHook, AgentConstruct, AgentExit, StrayEnds, LiveAgent
      <3>2. files.base # "none"
        BY <3>1 DEF SolvedInv, Untouched, AgentInv
      <3>3. files'.base = files.base
        BY <2>1, EnvironmentWrites DEF AgentExit, StrayEnds, dirVars
      <3>4. QED
        BY <3>2, <3>3 DEF Untouched
    <2>2. CASE Edit(r) \/ GraderEnds(r)
      <3>1. files'.base = files.base /\ files'.cogs = files.cogs
        BY <2>2, EnvironmentWrites
      <3>2. UNCHANGED <<pc, agent>>
        BY <2>2 DEF Edit, GraderEnds, runnerVars, procVars
      <3>3. QED
        BY <3>1, <3>2 DEF SolvedInv, Untouched
    <2>3. QED
      BY <1>3, <2>1, <2>2 DEF Environment
  <1>4. CASE UNCHANGED vars
    BY <1>4 DEF SolvedInv, Untouched, vars, runnerVars, procVars, dirVars
  <1>5. QED
    BY <1>1, <1>2, <1>3, <1>4, NextSteps, UntouchedBody

\* While an agent that ended with status 0 is the only one built, nobody edits.
LEMMA SettledContent ==
    ASSUME TypeOK, AgentInv, SolvedInv, [Next]_vars, NEW h \in Runners, Settled(h)
    PROVE  files'.content = files.content
  <1>1. /\ \A a \in Runners : agent[a] = "working" \/ a \in strays => a = h
        /\ agent[h] = "gone" /\ h \notin strays
    BY DEF AgentInv, Settled
  <1>2. files.base # "none"
    BY DEF SolvedInv, Untouched, Settled
  <1>3. ASSUME NEW r \in Runners, AdmissionStep(r) \/ SealingStep(r)
        PROVE  files'.content = files.content
    BY <1>3, AdmissionEffect, SealingEffect
  <1>4. ASSUME NEW r \in Runners, BodyStep(r)
        PROVE  files'.content = files.content
    <2>1. CASE Prepare(r) \/ Load(r) \/ LaunchHermes(r) \/ WaitReturns(r) \/ HermesTimeout(r)
      BY <2>1 DEF Prepare, Load, LaunchHermes, WaitReturns, HermesTimeout, dirVars
    <2>2. CASE CopyStarter(r)
      BY <1>2, <2>2, WorkspaceWrites
    <2>3. CASE Baseline(r) \/ MakeHome(r) \/ Reap(r)
      BY <2>3, WorkspaceWrites
    <2>4. ASSUME NEW from, NEW to, RecordExit(r, from, to) \/ RecordTiming(r, from, to)
          PROVE  files'.content = files.content
      BY <2>4, TelemetryWrites
    <2>5. CASE Collect(r) \/ Patch(r) \/ Grade(r) \/ CollectGrade(r) \/ Finish(r)
      BY <2>5, GradingWrites
    <2>6. QED
      BY <1>4, <2>1, <2>2, <2>3, <2>4, <2>5 DEF BodyStep
  <1>5. ASSUME NEW r \in Runners, Raise(r)
        PROVE  files'.content = files.content
    BY <1>5, EnvironmentWrites, GradingWrites
  <1>6. ASSUME NEW r \in Runners, Environment(r)
        PROVE  files'.content = files.content
    <2>1. ~Edit(r)
      BY <1>1 DEF Edit
    <2>2. CASE AgentExit(r) \/ StrayEnds(r)
      BY <2>2 DEF AgentExit, StrayEnds, dirVars
    <2>3. QED
      BY <1>6, <2>1, <2>2, EnvironmentWrites DEF Environment
  <1>7. CASE UNCHANGED vars
    BY <1>7 DEF vars, dirVars
  <1>8. QED
    BY <1>3, <1>4, <1>5, <1>6, <1>7, NextSteps

\* A record that names an agent is the status it ended with.
LEMMA TruthfulNames ==
    ASSUME NEW e, Truthful(e), NEW h \in Runners, e.hermes.by = h
    PROVE  e.hermes.code = code[h] /\ Over(h)
  <1>1. e.hermes # NoHermes
    BY DEF NoHermes
  <1>2. PICK g \in Runners : e.hermes = [by |-> g, code |-> code[g]] /\ Over(g)
    BY <1>1 DEF Truthful, Over
  <1>3. QED
    BY <1>2

\* Only the end of the agent that was built settles it.
LEMMA SettledAtExit ==
    ASSUME TypeOK, AgentInv, [Next]_vars, NEW h \in Runners, Settled(h)', ~Settled(h)
    PROVE  /\ code[h] # "ok" /\ agent[h] \in LiveAgent
           /\ UNCHANGED <<runnerVars, dirVars>>
  <1>1. code[h] # "ok"
    <2>1. ASSUME code[h] = "ok" PROVE FALSE
      <3>1. PICK r \in Runners : AgentConstruct(r) /\ files'.cogs = files.cogs \cup {r}
        BY <2>1, CogsWritten DEF Settled, TypeOK
      <3>2. r = h /\ h \in files.cogs
        BY <2>1, <3>1 DEF Settled, AgentInv
      <3>3. QED
        BY <2>1, <3>1, <3>2 DEF AgentInv, AgentConstruct
    <2>2. QED
      BY <2>1
  <1>2. PICK r \in Runners : AgentExit(r)
    <2>1. UNCHANGED code \/ \E r \in Runners : \/ AgentExit(r) \/ LaunchHermes(r)
                                               \/ HermesTimeout(r)
      BY ZenonT(60)
         DEF Next, Step, Environment, Begin, Mkdir, WriteRequest, AcquireLock, ReadLock,
             BreakLock, RetakeLock, WritePid, Prepare, CopyStarter, Baseline, Load, MakeHome,
             WaitReturns, Reap, RecordExit, RecordTiming, Collect, Patch, Grade,
             CollectGrade, Finish, Unlock, WriteChecksums, Seal, ChmodTree, ChmodRoot, Abort,
             Denied, Raise, Crash, AgentHook, AgentConstruct, Edit, StrayEnds, GraderEnds,
             procVars, vars
    <2>2. ASSUME NEW r \in Runners, LaunchHermes(r) \/ HermesTimeout(r)
          PROVE  code'[h] # "ok"
      BY <1>1, <2>2 DEF TypeOK, LaunchHermes, HermesTimeout
    <2>3. QED
      BY <1>1, <2>1, <2>2 DEF Settled
  <1>3. r = h /\ agent[h] \in LiveAgent
    BY <1>1, <1>2 DEF TypeOK, AgentExit, Settled
  <1>4. QED
    BY <1>1, <1>2, <1>3 DEF AgentExit

\* An agent that has just ended is recorded nowhere yet, nor is there a success.
LEMMA JustSettled ==
    ASSUME TypeOK, HomeInv, AgentInv, StatusInv, [Next]_vars, NEW h \in Runners,
           Settled(h)', ~Settled(h)
    PROVE  Evaluated(h)'
  <1>1. code[h] # "ok" /\ agent[h] \in LiveAgent
    BY SettledAtExit
  <1>2. UNCHANGED <<files, mem, pc>>
    BY SettledAtExit DEF runnerVars, dirVars
  <1>3. files.exit.hermes.by # h
    BY <1>1, TruthfulNames DEF StatusInv, Over
  <1>4. \A s \in Runners : mem[s].exit.hermes.by # h
    BY <1>1, TruthfulNames DEF StatusInv, Over
  <1>5. ~files.result.success
    <2>1. ASSUME files.result.success PROVE FALSE
      <3>1. PICK g \in Runners : code[g] = "ok"
        BY <2>1 DEF StatusInv
      <3>2. g \in files.cogs /\ files.cogs = {h}
        BY <1>2, <3>1 DEF AgentInv, Settled
      <3>3. QED
        BY <1>1, <3>1, <3>2
    <2>2. QED
      BY <2>1
  <1>6. QED
    BY <1>2, <1>3, <1>4, <1>5 DEF Evaluated

\* Nothing that is recorded or held of a settled agent changes, nor what it is about.
LEMMA EvaluatedKept ==
    ASSUME NEW h \in Runners, Evaluated(h), GradedHere => GradedHere', UNCHANGED mem,
           files'.content = files.content, files'.exit = files.exit,
           files'.result = files.result,
           \A s \in Runners : pc'[s] = "grading" => pc[s] = "grading"
    PROVE  Evaluated(h)'
  BY DEF Evaluated

\* The grader's verdict stays one about the workspace.
LEMMA GradedStays ==
    ASSUME TypeOK, AgentInv, SolvedInv, [Next]_vars, NEW h \in Runners, Settled(h),
           GradedHere
    PROVE  GradedHere'
  <1>1. files'.content = files.content
    BY SettledContent
  <1>2. ASSUME NEW r \in Runners, AdmissionStep(r) \/ SealingStep(r)
        PROVE  UNCHANGED <<files.gws, files.graderOut>>
    BY <1>2, AdmissionEffect, SealingEffect
  <1>3. ASSUME NEW r \in Runners, BodyStep(r), ~Grade(r), ~CollectGrade(r)
        PROVE  UNCHANGED <<files.gws, files.graderOut>>
    <2>1. CASE Prepare(r) \/ Load(r) \/ LaunchHermes(r) \/ WaitReturns(r) \/ HermesTimeout(r)
      BY <2>1 DEF Prepare, Load, LaunchHermes, WaitReturns, HermesTimeout, dirVars
    <2>2. CASE CopyStarter(r) \/ Baseline(r) \/ MakeHome(r) \/ Reap(r)
      BY <2>2, WorkspaceWrites
    <2>3. ASSUME NEW from, NEW to, RecordExit(r, from, to) \/ RecordTiming(r, from, to)
          PROVE  UNCHANGED <<files.gws, files.graderOut>>
      BY <2>3, TelemetryWrites
    <2>4. CASE Collect(r) \/ Patch(r) \/ Finish(r)
      BY <2>4, GradingWrites
    <2>5. QED
      BY <1>3, <2>1, <2>2, <2>3, <2>4 DEF BodyStep
  <1>4. ASSUME NEW r \in Runners, Grade(r) \/ CollectGrade(r) \/ Raise(r)
        PROVE  \/ files'.gws = files.content /\ files'.graderOut = "broken"
               \/ files'.gws \in {files.gws, NoContent} /\ UNCHANGED files.graderOut
    BY <1>4, GradingWrites, EnvironmentWrites
  <1>5. ASSUME NEW r \in Runners, Environment(r)
        PROVE  /\ UNCHANGED files.gws
               /\ \/ UNCHANGED files.graderOut
                  \/ files'.graderOut = "accept" => files.gws \in Solved
    <2>1. CASE AgentExit(r) \/ StrayEnds(r)
      BY <2>1 DEF AgentExit, StrayEnds, dirVars
    <2>2. QED
      BY <1>5, <2>1, EnvironmentWrites DEF Environment
  <1>6. CASE UNCHANGED vars
    BY <1>6 DEF GradedHere, vars, dirVars
  <1>7. ASSUME UNCHANGED <<files.gws, files.graderOut>>
        PROVE  GradedHere'
    BY <1>1, <1>7 DEF GradedHere
  <1>8. ASSUME NEW r \in Runners, Grade(r) \/ CollectGrade(r) \/ Raise(r)
        PROVE  GradedHere'
    BY <1>1, <1>4, <1>8 DEF GradedHere
  <1>9. ASSUME NEW r \in Runners, Environment(r)
        PROVE  GradedHere'
    BY <1>1, <1>5, <1>9 DEF GradedHere
  <1>10. QED
    BY <1>2, <1>3, <1>6, <1>7, <1>8, <1>9, NextSteps

\* The steps of the body of run_one that record, hold or grade nothing new.
LEMMA EvaluatedWork ==
    ASSUME TypeOK, NEW h \in Runners, Evaluated(h), NEW r \in Runners,
           files'.content = files.content, GradedHere => GradedHere',
           \/ Prepare(r) \/ CopyStarter(r) \/ Baseline(r) \/ MakeHome(r)
           \/ LaunchHermes(r) \/ WaitReturns(r) \/ HermesTimeout(r)
           \/ RecordTiming(r, "timingHermes", "collect")
           \/ RecordTiming(r, "timingGrader", "finish")
    PROVE  Evaluated(h)'
  <1>1. CASE Prepare(r) \/ LaunchHermes(r) \/ WaitReturns(r) \/ HermesTimeout(r)
    <2>1. UNCHANGED <<mem, files>>
      BY <1>1 DEF Prepare, LaunchHermes, WaitReturns, HermesTimeout, runnerVars, dirVars
    <2>2. UNCHANGED pc \/ \E p \in {"copy", "load", "wait", "reap"} : pc' = [pc EXCEPT ![r] = p]
      BY <1>1 DEF Prepare, LaunchHermes, WaitReturns, HermesTimeout, runnerVars, Moves
    <2>3. \A s \in Runners : pc'[s] = "grading" => pc[s] = "grading"
      BY <2>2 DEF TypeOK
    <2>4. QED
      BY <2>1, <2>3, EvaluatedKept
  <1>2. CASE CopyStarter(r) \/ Baseline(r) \/ MakeHome(r)
    <2>1. /\ UNCHANGED mem /\ files'.exit = files.exit /\ files'.result = files.result
      <3>1. CASE UNCHANGED files
        BY <1>2, <3>1 DEF CopyStarter, Baseline, MakeHome
      <3>2. CASE files' # files
        BY <1>2, <3>2, WorkspaceWrites DEF CopyStarter, Baseline, MakeHome
      <3>3. QED
        BY <3>1, <3>2
    <2>2. \E p \in {"baseline", "abort", "load", "launch"} : pc' = [pc EXCEPT ![r] = p]
      BY <1>2 DEF CopyStarter, Baseline, MakeHome, Moves
    <2>3. \A s \in Runners : pc'[s] = "grading" => pc[s] = "grading"
      BY <2>2 DEF TypeOK
    <2>4. QED
      BY <2>1, <2>3, EvaluatedKept
  <1>3. CASE \/ RecordTiming(r, "timingHermes", "collect")
             \/ RecordTiming(r, "timingGrader", "finish")
    <2>1. /\ UNCHANGED mem /\ files'.exit = files.exit /\ files'.result = files.result
      BY <1>3, TelemetryWrites DEF RecordTiming
    <2>2. \E p \in {"collect", "finish"} : pc' = [pc EXCEPT ![r] = p]
      BY <1>3 DEF RecordTiming, Moves
    <2>3. \A s \in Runners : pc'[s] = "grading" => pc[s] = "grading"
      BY <2>2 DEF TypeOK
    <2>4. QED
      BY <2>1, <2>3, EvaluatedKept
  <1>4. QED
    BY <1>1, <1>2, <1>3

\* The steps that record, load or hold a status, collect, grade and evaluate.
LEMMA EvaluatedRecord ==
    ASSUME TypeOK, AgentInv, StatusInv, NEW h \in Runners, Settled(h), Evaluated(h),
           NEW r \in Runners, files'.content = files.content, GradedHere => GradedHere',
           \/ Load(r) \/ Reap(r) \/ Collect(r) \/ Patch(r) \/ Grade(r) \/ CollectGrade(r)
           \/ Finish(r)
           \/ RecordExit(r, "exitHermes", "timingHermes")
           \/ RecordExit(r, "exitGrader", "timingGrader")
    PROVE  Evaluated(h)'
  <1>1. CASE Load(r)
    <2>1. /\ UNCHANGED files /\ mem'[r].exit = files.exit
          /\ \A s \in Runners \ {r} : mem'[s] = mem[s]
      BY <1>1, MemoryWrites DEF Load, dirVars
    <2>2. \E p \in {"home", "collect"} : pc' = [pc EXCEPT ![r] = p]
      BY <1>1 DEF Load, Moves
    <2>3. pc'[r] # "grading" /\ \A s \in Runners \ {r} : pc'[s] = pc[s]
      BY <2>2 DEF TypeOK
    <2>4. GradedHere' <=> GradedHere
      BY <2>1 DEF GradedHere
    <2>5. QED
      BY <2>1, <2>3, <2>4 DEF Evaluated
  <1>2. CASE Reap(r)
    <2>1. /\ files'.exit = files.exit /\ files'.result = files.result
      BY <1>2, WorkspaceWrites
    <2>2. CASE UNCHANGED mem /\ pc' = [pc EXCEPT ![r] = "abort"]
      <3>1. \A s \in Runners : pc'[s] = "grading" => pc[s] = "grading"
        BY <2>2 DEF TypeOK
      <3>2. QED
        BY <2>1, <2>2, <3>1, EvaluatedKept
    <2>3. CASE /\ mem'[r].exit.grader = mem[r].exit.grader
               /\ pc' = [pc EXCEPT ![r] = "exitHermes"]
      <3>1. mem[r].exit.grader = "none"
        BY <1>2 DEF StatusInv, Truthful, Reap, Moves, Waiting
      <3>2. pc'[r] # "grading" /\ \A s \in Runners \ {r} : pc'[s] = pc[s]
        BY <2>3 DEF TypeOK
      <3>3. \A s \in Runners \ {r} : mem'[s] = mem[s]
        BY <1>2, MemoryWrites
      <3>4. QED
        BY <2>1, <2>3, <3>1, <3>2, <3>3 DEF Evaluated
    <2>4. QED
      BY <1>2, <2>2, <2>3, MemoryWrites
  <1>3. CASE Collect(r) \/ Patch(r)
    <2>1. UNCHANGED mem /\ files'.exit = files.exit /\ files'.result = files.result
      BY <1>3, GradingWrites DEF Collect, Patch
    <2>2. \E p \in {"patch", "grade", "abort"} : pc' = [pc EXCEPT ![r] = p]
      BY <1>3 DEF Collect, Patch, Moves
    <2>3. \A s \in Runners : pc'[s] = "grading" => pc[s] = "grading"
      BY <2>2 DEF TypeOK
    <2>4. QED
      BY <2>1, <2>3, EvaluatedKept
  <1>4. CASE Grade(r)
    <2>1. UNCHANGED mem /\ files'.exit = files.exit /\ files'.result = files.result
      BY <1>4, GradingWrites DEF Grade
    <2>2. CASE /\ files'.gws = files.content /\ files'.graderOut = "broken"
      <3>1. GradedHere'
        BY <2>2 DEF GradedHere
      <3>2. QED
        BY <2>1, <3>1 DEF Evaluated
    <2>3. CASE pc' = [pc EXCEPT ![r] = "finish"]
      <3>1. \A s \in Runners : pc'[s] = "grading" => pc[s] = "grading"
        BY <2>3 DEF TypeOK
      <3>2. QED
        BY <2>1, <3>1, EvaluatedKept
    <2>4. QED
      BY <1>4, <2>2, <2>3, GradingWrites
  <1>5. CASE CollectGrade(r)
    <2>1. files'.exit = files.exit /\ files'.result = files.result
      BY <1>5, GradingWrites
    <2>2. /\ mem'[r].exit.hermes = mem[r].exit.hermes
          /\ \A s \in Runners \ {r} : mem'[s] = mem[s]
      BY <1>5, MemoryWrites
    <2>3. pc[r] = "grading" /\ pc' = [pc EXCEPT ![r] = "exitGrader"]
      BY <1>5 DEF CollectGrade, Moves
    <2>4. \A s \in Runners : pc'[s] = "grading" => s # r /\ pc[s] = "grading"
      BY <2>3 DEF TypeOK
    <2>5. mem[r].exit.hermes.by = h => GradedHere'
      BY <2>3 DEF Evaluated
    <2>6. QED
      BY <2>1, <2>2, <2>4, <2>5 DEF Evaluated
  <1>6. CASE Finish(r)
    <2>1. /\ UNCHANGED mem /\ files'.exit = files.exit /\ files'.result = Outcome(r)
          /\ UNCHANGED <<files.gws, files.graderOut>>
      BY <1>6, GradingWrites DEF Finish
    <2>2. pc[r] = "finish" /\ pc' = [pc EXCEPT ![r] = "unlock"]
      BY <1>6 DEF Finish, Moves
    <2>3. \A s \in Runners : pc'[s] = "grading" => pc[s] = "grading"
      BY <2>2 DEF TypeOK
    <2>4. ASSUME Outcome(r).success
          PROVE  files'.content \in Solved
      <3>1. /\ mem[r].exit.hermes.code = "ok" /\ mem[r].exit.grader = "ok"
            /\ files.graderOut = "accept"
        BY <2>4 DEF Outcome
      <3>2. PICK g \in Runners : mem[r].exit.hermes = [by |-> g, code |-> code[g]]
        BY <2>2 DEF StatusInv, Truthful, HoldsStatus
      <3>3. g = h
        BY <3>1, <3>2 DEF AgentInv, Settled
      <3>4. GradedHere
        BY <3>1, <3>2, <3>3 DEF Evaluated
      <3>5. QED
        BY <3>1, <3>4 DEF GradedHere
    <2>5. QED
      BY <2>1, <2>3, <2>4 DEF Evaluated
  <1>7. ASSUME NEW from, NEW to \in {"timingHermes", "timingGrader"}, RecordExit(r, from, to)
        PROVE  Evaluated(h)'
    <2>1. UNCHANGED mem /\ files'.exit = mem[r].exit /\ files'.result = files.result
      BY <1>7, TelemetryWrites DEF RecordExit
    <2>2. \A s \in Runners : pc'[s] = "grading" => pc[s] = "grading"
      BY <1>7 DEF RecordExit, Moves, TypeOK
    <2>3. QED
      BY <2>1, <2>2 DEF Evaluated
  <1>8. QED
    BY <1>1, <1>2, <1>3, <1>4, <1>5, <1>6, <1>7

LEMMA NextEvaluated ==
    ASSUME TypeOK, HomeInv, AgentInv, StatusInv, SolvedInv, [Next]_vars,
           NEW h \in Runners, Settled(h)'
    PROVE  Evaluated(h)'
  <1>1. CASE ~Settled(h)
    BY <1>1, JustSettled
  <1>2. CASE Settled(h)
    <2>1. files'.content = files.content /\ (GradedHere => GradedHere') /\ Evaluated(h)
      BY <1>2, SettledContent, GradedStays DEF SolvedInv
    <2>2. ASSUME NEW r \in Runners, AdmissionStep(r) \/ SealingStep(r)
          PROVE  Evaluated(h)'
      <3>1. UNCHANGED <<mem, files>>
        BY <2>2, AdmissionEffect, SealingEffect
      <3>2. \E p : pc' = [pc EXCEPT ![r] = p] /\ p # "grading"
        BY <2>2, AdmissionEffect, SealingEffect DEF Admitting, Sealing
      <3>3. \A s \in Runners : pc'[s] = "grading" => pc[s] = "grading"
        BY <3>2 DEF TypeOK
      <3>4. QED
        BY <2>1, <3>1, <3>2, <3>3, EvaluatedKept
    <2>3. ASSUME NEW r \in Runners, Raise(r) \/ Environment(r)
          PROVE  Evaluated(h)'
      <3>1. UNCHANGED mem /\ (UNCHANGED pc \/ pc' = [pc EXCEPT ![r] = "abort"])
        BY <2>3 DEF Raise, Environment, AgentHook, AgentConstruct, AgentExit, Edit,
                    StrayEnds, GraderEnds, runnerVars
      <3>2. files'.exit = files.exit /\ files'.result = files.result
        <4>1. CASE AgentExit(r) \/ StrayEnds(r)
          BY <4>1 DEF AgentExit, StrayEnds, dirVars
        <4>2. QED
          BY <2>3, <4>1, EnvironmentWrites, GradingWrites DEF Environment
      <3>3. \A s \in Runners : pc'[s] = "grading" => pc[s] = "grading"
        BY <3>1 DEF TypeOK
      <3>4. QED
        BY <2>1, <3>1, <3>2, <3>3, EvaluatedKept
    <2>4. ASSUME NEW r \in Runners, BodyStep(r)
          PROVE  Evaluated(h)'
      BY <1>2, <2>1, <2>4, EvaluatedWork, EvaluatedRecord DEF BodyStep
    <2>5. CASE UNCHANGED vars
      <3>1. UNCHANGED <<mem, files, pc>>
        BY <2>5 DEF vars, runnerVars, dirVars
      <3>2. QED
        BY <2>1, <3>1 DEF Evaluated, GradedHere
    <2>6. QED
      BY <2>2, <2>3, <2>4, <2>5, NextSteps
  <1>3. QED
    BY <1>1, <1>2

\* Once the only agent built has ended with status 0, every copy that is graded is the
\* workspace.
THEOREM SolvedCorrect == Spec => []SolvedInv
  <1>1. Init => SolvedInv
    BY DEF Init, SolvedInv, Untouched, Settled, NoFiles, Waiting
  <1>2. TypeOK /\ HomeInv /\ AgentInv /\ StatusInv /\ SolvedInv /\ [Next]_vars => SolvedInv'
    BY NextUntouched, NextEvaluated DEF SolvedInv
  <1>3. QED
    BY <1>1, <1>2, TypeCorrect, HomeCorrect, AgentCorrect, StatusCorrect, PTL DEF Spec

\* What a counted cell holds is a workspace the grader passes, whatever has been killed,
\* resumed or left running over the directory.
THEOREM CountedIsSolved == Spec => []SolvedIsSealed
  <1>1. AgentInv /\ StatusInv /\ SolvedInv => SolvedIsSealed
    <2>1. SUFFICES ASSUME AgentInv, StatusInv, SolvedInv, Counted
                   PROVE  files.content \in Solved
      BY DEF SolvedIsSealed
    <2>2. PICK h \in Runners : code[h] = "ok"
      BY <2>1 DEF StatusInv, Counted
    <2>3. Settled(h)
      BY <2>1, <2>2 DEF AgentInv, Settled, Counted, Verified, TraceVerified
    <2>4. QED
      BY <2>1, <2>3 DEF SolvedInv, Evaluated, Counted
  <1>2. QED
    BY <1>1, AgentCorrect, StatusCorrect, SolvedCorrect, PTL

-----------------------------------------------------------------------------
(* One runner at a time.                                                   *)

Body == InTry \ (Sealing \cup {"unlock"})

\* The body of run_one leaves the lock, the request and the seal alone.
LEMMA BodyEffect ==
    ASSUME TypeOK, NEW r \in Runners, BodyStep(r)
    PROVE  /\ UNCHANGED <<mode, inputs, dir, request, lock, sums, mark, rootRO>>
           /\ treeRO' \in {treeRO, FALSE}
           /\ pc[r] \in Body
           /\ \E p \in Body \cup {"unlock", "abort"} : pc' = [pc EXCEPT ![r] = p]
  <1>1. CASE Prepare(r) \/ Load(r) \/ LaunchHermes(r) \/ WaitReturns(r)
    BY <1>1 DEF Prepare, Load, LaunchHermes, WaitReturns, Moves, Body, InTry, Sealing,
                dirVars
  <1>2. CASE HermesTimeout(r)
    <2>1. pc' = [pc EXCEPT ![r] = "wait"]
      BY <1>2 DEF TypeOK, HermesTimeout, runnerVars
    <2>2. QED
      BY <1>2, <2>1 DEF HermesTimeout, Body, InTry, Sealing, runnerVars, dirVars
  <1>3. CASE CopyStarter(r) \/ Baseline(r) \/ MakeHome(r) \/ Reap(r)
    BY <1>3 DEF CopyStarter, Baseline, MakeHome, Reap, Rewrite, Moves, Body, InTry, Sealing,
                dirVars
  <1>4. CASE Collect(r) \/ Patch(r) \/ Grade(r) \/ CollectGrade(r) \/ Finish(r)
    BY <1>4 DEF Collect, Patch, Captured, RewriteWith, Grade, CollectGrade, Finish, Rewrite,
                Moves, Body, InTry, Sealing, dirVars
  <1>5. ASSUME NEW from \in Body, NEW to \in Body,
               RecordExit(r, from, to) \/ RecordTiming(r, from, to)
        PROVE  /\ UNCHANGED <<mode, inputs, dir, request, lock, sums, mark, rootRO>>
               /\ treeRO' \in {treeRO, FALSE}
               /\ pc[r] \in Body
               /\ \E p \in Body \cup {"unlock", "abort"} : pc' = [pc EXCEPT ![r] = p]
    BY <1>5 DEF RecordExit, RecordTiming, Rewrite, Moves
  <1>6. {"exitHermes", "timingHermes", "collect", "exitGrader", "timingGrader", "finish"}
           \subseteq Body
    BY DEF Body, InTry, Sealing
  <1>7. QED
    BY <1>1, <1>2, <1>3, <1>4, <1>5, <1>6 DEF BodyStep

LEMMA RaiseEffect ==
    ASSUME NEW r \in Runners, Raise(r)
    PROVE  /\ UNCHANGED <<mode, inputs, mem, taken, code, dir, request, lock, sums, mark,
                          rootRO>>
           /\ treeRO' = treeRO \/ (treeRO' = FALSE /\ ~rootRO /\ pc[r] \in Temporary)
           /\ pc[r] \in InTry /\ pc' = [pc EXCEPT ![r] = "abort"]
  BY DEF Raise, Leaves, DropIndex, RewriteWith

LEMMA EnvironmentEffect ==
    ASSUME NEW r \in Runners, Environment(r)
    PROVE  UNCHANGED <<pc, mode, inputs, mem, taken, dir, request, lock, litter, sums, mark,
                       treeRO, rootRO>>
  BY DEF Environment, AgentHook, AgentConstruct, AgentExit, Edit, StrayEnds, GraderEnds,
         runnerVars, dirVars

\* A step of the runner that is alive, on its way to the seal or to its end.
LEMMA AloneKept ==
    ASSUME TypeOK, AloneInv, NEW r \in Runners, Alive(r), pc[r] # "mkdir",
           NEW p, p \notin {"mkdir", "chmodTree", "chmodRoot"},
           pc' = [pc EXCEPT ![r] = p],
           p \in Running => p = "abort" \/ pc[r] \notin {"chmodTree", "chmodRoot", "abort"},
           UNCHANGED <<dir, mark, rootRO>>, treeRO' \in {treeRO, FALSE}
    PROVE  AloneInv'
  <1>1. \A s \in Runners \ {r} : ~Alive(s) /\ pc'[s] = pc[s]
    BY DEF TypeOK, AloneInv
  <1>2. pc'[r] = p /\ "mkdir" \in Running
    BY DEF TypeOK, Running
  <1>3. \A s \in Runners : Alive(s)' => s = r
    BY <1>1 DEF Alive
  <1>4. dir # "absent"
    BY DEF AloneInv
  <1>5. \A s \in Runners : pc'[s] \notin {"chmodTree", "chmodRoot"}
    BY <1>1, <1>2 DEF Alive, Running, InTry
  <1>6. mark' # "none" => \A s \in Runners : Alive(s)' =>
                             ~rootRO' /\ pc'[s] \in {"chmodTree", "chmodRoot", "abort"}
    BY <1>2, <1>3 DEF AloneInv, Alive
  <1>7. mark' = "none" => ~treeRO' /\ ~rootRO'
    BY DEF TypeOK, AloneInv
  <1>8. QED
    BY <1>3, <1>4, <1>5, <1>6, <1>7 DEF AloneInv

LEMMA AloneAdmission ==
    ASSUME ~Overlap, TypeOK, AloneInv, NEW r \in Runners, AdmissionStep(r)
    PROVE  AloneInv'
  <1>1. CASE Begin(r)
    <2>1. /\ \A s \in Runners : ~Alive(s)
          /\ UNCHANGED <<dir, mark, treeRO, rootRO>>
      BY <1>1 DEF Begin, dirVars
    <2>2. \/ \E p \in {"refused", "already"} : pc' = [pc EXCEPT ![r] = p]
          \/ dir = "present" /\ mark = "none" /\ pc' = [pc EXCEPT ![r] = "lock"]
          \/ dir = "absent" /\ pc' = [pc EXCEPT ![r] = "mkdir"]
      BY <1>1 DEF Begin, ReportComplete
    <2>3. QED
      BY <2>1, <2>2 DEF TypeOK, AloneInv, Alive, Running, InTry
  <1>2. CASE Mkdir(r)
    <2>1. Alive(r) /\ \A s \in Runners \ {r} : ~Alive(s)
      BY <1>2 DEF AloneInv, Alive, Mkdir, Moves, Running
    <2>2. UNCHANGED <<mark, treeRO, rootRO>> /\ dir' = "present"
      BY <1>2 DEF TypeOK, Mkdir
    <2>3. \/ dir = "absent" /\ pc' = [pc EXCEPT ![r] = "request"]
          \/ dir = "present" /\ pc' = [pc EXCEPT ![r] = "refused"]
      BY <1>2 DEF Mkdir, Moves
    <2>4. QED
      BY <2>1, <2>2, <2>3 DEF TypeOK, AloneInv, Alive, Running, InTry
  <1>3. CASE \/ WriteRequest(r) \/ AcquireLock(r) \/ ReadLock(r) \/ BreakLock(r)
             \/ RetakeLock(r) \/ WritePid(r)
    <2>1. UNCHANGED <<dir, mark, treeRO, rootRO>>
      BY <1>3 DEF WriteRequest, AcquireLock, ReadLock, BreakLock, RetakeLock, WritePid,
                  dirVars
    <2>2. /\ pc[r] \in Admitting \ {"idle", "mkdir"}
          /\ \E p \in {"lock", "readLock", "breakLock", "relock", "writePid", "prepare", "refused"} :
                 pc' = [pc EXCEPT ![r] = p]
      BY <1>3 DEF WriteRequest, AcquireLock, ReadLock, BreakLock, RetakeLock, WritePid,
                  Moves, Admitting
    <2>3. Alive(r) /\ pc[r] \notin {"mkdir", "chmodTree", "chmodRoot", "abort"}
      BY <2>2 DEF Alive, Running, Admitting
    <2>4. QED
      BY <2>1, <2>2, <2>3, AloneKept
  <1>4. QED
    BY <1>1, <1>2, <1>3 DEF AdmissionStep

LEMMA AloneSealing ==
    ASSUME TypeOK, AloneInv, NEW r \in Runners, SealingStep(r)
    PROVE  AloneInv'
  <1>0. Alive(r) /\ dir' = dir
    BY SealingEffect DEF Alive
  <1>1. /\ \A s \in Runners : Alive(s) => s = r
        /\ pc[r] # "mkdir" => dir = "present"
    BY <1>0 DEF TypeOK, AloneInv
  <1>2. CASE Unlock(r) \/ Abort(r) \/ Denied(r) \/ Crash(r)
    <2>1. UNCHANGED <<mark, rootRO>> /\ treeRO' \in {treeRO, FALSE}
      BY <1>2 DEF Unlock, Abort, Denied, Crash, Leaves, RewriteWith, dirVars
    <2>2. CASE pc[r] # "mkdir"
      <3>1. /\ \E p \in {"sums", "abort", "failed", "dead"} :
                   /\ pc' = [pc EXCEPT ![r] = p]
                   /\ p = "sums" => pc[r] = "unlock"
        BY <1>2 DEF Unlock, Abort, Denied, Crash, Moves
      <3>2. "failed" \notin Running /\ "dead" \notin Running
        BY DEF Running, InTry
      <3>3. QED
        BY <1>0, <2>1, <2>2, <3>1, <3>2, AloneKept
    <2>3. CASE pc[r] = "mkdir"
      <3>1. pc' = [pc EXCEPT ![r] = "dead"]
        BY <1>2, <2>3 DEF Unlock, Abort, Denied, Crash, Moves, Writes
      <3>2. UNCHANGED <<mark, treeRO, rootRO>>
        BY <1>2, <2>3 DEF Unlock, Abort, Denied, Crash, Leaves, Temporary, Moves, Writes,
                          dirVars
      <3>3. QED
        BY <1>0, <1>1, <2>3, <3>1, <3>2 DEF TypeOK, AloneInv, Alive, Running, InTry
    <2>4. QED
      BY <2>2, <2>3
  <1>3. CASE WriteChecksums(r)
    <2>1. mark = "none"
      BY <1>0, <1>3 DEF AloneInv, WriteChecksums, Moves
    <2>2. /\ pc[r] = "sums" /\ pc' = [pc EXCEPT ![r] = "seal"]
          /\ UNCHANGED <<mark, rootRO>> /\ treeRO' = FALSE
      BY <1>3, <2>1 DEF WriteChecksums, Moves
    <2>3. QED
      BY <1>0, <2>2, AloneKept
  <1>4. CASE Seal(r) \/ ChmodTree(r)
    <2>1. pc[r] = "seal" => ~rootRO
      BY <1>4 DEF Seal, ChmodTree, Moves
    <2>2. pc[r] = "chmodTree" => mark # "none" /\ ~rootRO
      BY <1>0 DEF AloneInv
    <2>3. /\ pc[r] \in {"seal", "chmodTree"} /\ UNCHANGED rootRO
          /\ \/ mark' = "match" /\ pc' = [pc EXCEPT ![r] = "chmodTree"]
             \/ pc[r] = "chmodTree" /\ UNCHANGED mark /\ pc' = [pc EXCEPT ![r] = "chmodRoot"]
      BY <1>4 DEF Seal, ChmodTree, Moves
    <2>4. QED
      BY <1>0, <1>1, <2>1, <2>2, <2>3 DEF TypeOK, AloneInv, Alive, Running, InTry
  <1>5. CASE ChmodRoot(r)
    <2>1. mark # "none" /\ UNCHANGED <<mark, treeRO>> /\ pc[r] = "chmodRoot"
          /\ pc' = [pc EXCEPT ![r] = "completed"]
      BY <1>0, <1>5 DEF AloneInv, ChmodRoot, Moves
    <2>2. QED
      BY <1>0, <1>1, <2>1 DEF TypeOK, AloneInv, Alive, Running, InTry
  <1>6. QED
    BY <1>2, <1>3, <1>4, <1>5 DEF SealingStep

LEMMA NextAloneInv ==
    ASSUME ~Overlap, TypeOK, AloneInv, [Next]_vars
    PROVE  AloneInv'
  <1>1. ASSUME NEW r \in Runners, BodyStep(r)
        PROVE  AloneInv'
    <2>1. /\ UNCHANGED <<dir, mark, rootRO>> /\ treeRO' \in {treeRO, FALSE}
          /\ pc[r] \in Body
          /\ \E p \in Body \cup {"unlock", "abort"} : pc' = [pc EXCEPT ![r] = p]
      BY <1>1, BodyEffect
    <2>2. /\ \A p \in Body \cup {"unlock", "abort"} : p \notin {"mkdir", "chmodTree", "chmodRoot"}
          /\ \A p \in Body : p \in Running /\ p # "abort"
      BY DEF Body, Sealing, Running, InTry
    <2>3. QED
      BY <2>1, <2>2, AloneKept DEF Alive
  <1>2. ASSUME NEW r \in Runners, Raise(r)
        PROVE  AloneInv'
    <2>1. pc[r] # "mkdir" /\ Alive(r)
      BY <1>2, RaiseEffect DEF Alive, Running, InTry
    <2>2. QED
      BY <1>2, <2>1, RaiseEffect, AloneKept
  <1>3. ASSUME NEW r \in Runners, Environment(r)
        PROVE  AloneInv'
    BY <1>3, EnvironmentEffect DEF AloneInv, Alive
  <1>4. CASE UNCHANGED vars
    BY <1>4 DEF AloneInv, Alive, vars, runnerVars, dirVars
  <1>5. QED
    BY <1>1, <1>2, <1>3, <1>4, NextSteps, AloneAdmission, AloneSealing

\* Without overlap, while an invocation is at work no other is, and what a killed one
\* left behind is no longer running.
THEOREM AloneCorrect == ASSUME ~Overlap PROVE Spec => []AloneInv
  <1>1. Init => AloneInv
    BY DEF Init, AloneInv, Alive, Running, InTry
  <1>2. TypeOK /\ AloneInv /\ [Next]_vars => AloneInv'
    BY NextAloneInv
  <1>3. QED
    BY <1>1, <1>2, TypeCorrect, PTL DEF Spec

-----------------------------------------------------------------------------
(* One record of one agent: OnceInv.                                       *)

\* Only the runner that moves is in the body of run_one.
LEMMA OnlyMover ==
    ASSUME TypeOK, AloneInv, NEW r \in Runners, Alive(r), NEW p, pc' = [pc EXCEPT ![r] = p]
    PROVE  pc'[r] = p /\ \A s \in Runners \ {r} : pc'[s] \notin Running
  BY DEF TypeOK, AloneInv, Alive

\* A step that leaves the records alone, of a runner that holds none.
LEMMA OnceKept ==
    ASSUME TypeOK, OnceInv, NEW r \in Runners, NEW p, pc' = [pc EXCEPT ![r] = p],
           p \notin {"home", "exitHermes", "exitGrader"} \cup Waiting \cup Recorded,
           UNCHANGED mem, files'.exit = files.exit, files'.result = files.result,
           files'.home => files.home
    PROVE  OnceInv'
  BY DEF TypeOK, OnceInv

\* A step of the one runner that is alive.
LEMMA OnceHolds ==
    ASSUME TypeOK, AloneInv, NEW r \in Runners, Alive(r), NEW p, pc' = [pc EXCEPT ![r] = p],
           p \in {"home", "exitHermes"} \cup Waiting => files'.exit.hermes = NoHermes,
           p \in Recorded => files'.exit = mem'[r].exit,
           p \in Recorded \cup {"exitGrader"} =>
               files'.exit.hermes = mem'[r].exit.hermes /\ mem'[r].exit.hermes # NoHermes,
           files'.exit.hermes # NoHermes \/ p = "exitHermes" => ~files'.home,
           files'.result.success => files'.exit.hermes.code = "ok"
    PROVE  OnceInv'
  <1>1. pc'[r] = p /\ \A s \in Runners \ {r} : pc'[s] \notin Running
    BY OnlyMover
  <1>2. {"home", "exitHermes", "exitGrader"} \cup Waiting \cup Recorded \subseteq Running
    BY DEF Waiting, Recorded, Sealing, Running, InTry
  <1>3. \A s \in Runners :
            pc'[s] \in {"home", "exitHermes", "exitGrader"} \cup Waiting \cup Recorded => s = r
    BY <1>1, <1>2
  <1>4. QED
    BY <1>1, <1>3 DEF OnceInv

LEMMA OnceBody ==
    ASSUME TypeOK, StatusInv, AloneInv, OnceInv, NEW r \in Runners, BodyStep(r)
    PROVE  OnceInv'
  <1>0. Alive(r)
    BY BodyEffect DEF Alive, Body, Running
  <1>1. CASE Prepare(r) \/ CopyStarter(r) \/ Baseline(r)
    <2>1. \E p \in {"copy", "load", "baseline", "abort"} : pc' = [pc EXCEPT ![r] = p]
      BY <1>1 DEF Prepare, CopyStarter, Baseline, Moves
    <2>2. /\ UNCHANGED mem /\ files'.exit = files.exit /\ files'.result = files.result
          /\ files'.home = files.home
      <3>1. CASE UNCHANGED files
        BY <1>1, <3>1 DEF Prepare, CopyStarter, Baseline
      <3>2. CASE files' # files
        BY <1>1, <3>2, WorkspaceWrites DEF Prepare, CopyStarter, Baseline, dirVars
      <3>3. QED
        BY <3>1, <3>2
    <2>3. \A p \in {"copy", "load", "baseline", "abort"} :
              p \notin {"home", "exitHermes", "exitGrader"} \cup Waiting \cup Recorded
      BY DEF Waiting, Recorded, Sealing
    <2>4. QED
      BY <2>1, <2>2, <2>3, OnceKept
  <1>2. CASE Load(r)
    <2>1. UNCHANGED files /\ mem'[r].exit = files.exit
      BY <1>2, MemoryWrites DEF Load, dirVars
    <2>2. \/ files.exit.hermes = NoHermes /\ pc' = [pc EXCEPT ![r] = "home"]
          \/ files.exit.hermes # NoHermes /\ pc' = [pc EXCEPT ![r] = "collect"]
      BY <1>2 DEF Load, Moves
    <2>3. /\ "home" \notin Recorded \cup {"exitGrader"}
          /\ "collect" \notin {"home", "exitHermes"} \cup Waiting
      BY DEF Waiting, Recorded, Sealing
    <2>4. /\ files'.exit.hermes # NoHermes => ~files'.home
          /\ files'.result.success => files'.exit.hermes.code = "ok"
      BY <2>1 DEF OnceInv
    <2>5. QED
      BY <1>0, <2>1, <2>2, <2>3, <2>4, OnceHolds
  <1>3. CASE MakeHome(r) \/ LaunchHermes(r) \/ WaitReturns(r) \/ HermesTimeout(r)
    <2>1. files.exit.hermes = NoHermes
      BY <1>3 DEF OnceInv, MakeHome, LaunchHermes, WaitReturns, HermesTimeout, Moves, Waiting
    <2>2. files'.exit = files.exit /\ files'.result = files.result
      BY <1>3, WorkspaceWrites
         DEF LaunchHermes, WaitReturns, HermesTimeout, dirVars
    <2>3. \E p \in Waiting \cup {"abort"} : pc' = [pc EXCEPT ![r] = p]
      <3>1. CASE HermesTimeout(r)
        <4>1. pc' = [pc EXCEPT ![r] = "wait"]
          BY <3>1 DEF HermesTimeout, runnerVars, TypeOK
        <4>2. QED
          BY <4>1 DEF Waiting
      <3>2. QED
        BY <1>3, <3>1 DEF MakeHome, LaunchHermes, WaitReturns, Moves, Waiting
    <2>4. Waiting \cup {"abort"} \subseteq Running \ (Recorded \cup {"exitGrader", "exitHermes"})
      BY DEF Waiting, Recorded, Sealing, Running, InTry
    <2>5. files'.result.success => files'.exit.hermes.code = "ok"
      BY <2>2 DEF OnceInv
    <2>6. PICK p \in Waiting \cup {"abort"} : pc' = [pc EXCEPT ![r] = p]
      BY <2>3
    <2>7. QED
      BY <1>0, <2>1, <2>2, <2>4, <2>5, <2>6, OnceHolds
  <1>4. CASE Reap(r)
    <2>1. files.exit.hermes = NoHermes
      BY <1>4 DEF OnceInv, Reap, Moves, Waiting
    <2>2. files'.exit = files.exit /\ files'.result = files.result
      BY <1>4, WorkspaceWrites
    <2>3. \/ pc' = [pc EXCEPT ![r] = "abort"]
          \/ ~files'.home /\ pc' = [pc EXCEPT ![r] = "exitHermes"]
      BY <1>4, MemoryWrites
    <2>4. {"abort", "exitHermes"} \cap (Recorded \cup {"exitGrader"}) = {}
      BY DEF Recorded, Sealing
    <2>5. files'.result.success => files'.exit.hermes.code = "ok"
      BY <2>2 DEF OnceInv
    <2>6. QED
      BY <1>0, <2>1, <2>2, <2>3, <2>4, <2>5, OnceHolds
  <1>5. CASE RecordExit(r, "exitHermes", "timingHermes")
    <2>1. /\ files'.exit = mem[r].exit /\ files'.result = files.result /\ UNCHANGED mem
          /\ files'.home = files.home
      BY <1>5, TelemetryWrites DEF RecordExit
    <2>2. pc[r] = "exitHermes" /\ pc' = [pc EXCEPT ![r] = "timingHermes"]
      BY <1>5 DEF RecordExit, Moves
    <2>3. mem[r].exit.hermes # NoHermes /\ ~files.home /\ ~files.result.success
      BY <2>2 DEF StatusInv, HoldsStatus, OnceInv, NoHermes
    <2>4. "timingHermes" \notin {"home", "exitHermes"} \cup Waiting
      BY DEF Waiting
    <2>5. QED
      BY <1>0, <2>1, <2>2, <2>3, <2>4, OnceHolds
  <1>6. CASE \/ RecordTiming(r, "timingHermes", "collect") \/ Collect(r) \/ Patch(r) \/ Grade(r)
             \/ RecordTiming(r, "timingGrader", "finish")
    <2>1. /\ files'.exit = files.exit /\ files'.result = files.result /\ UNCHANGED mem
          /\ files'.home = files.home
      BY <1>6, TelemetryWrites, GradingWrites DEF RecordTiming, Collect, Patch, Grade
    <2>2. /\ pc[r] \in Recorded
          /\ \E p \in {"collect", "patch", "grade", "grading", "finish", "abort"} :
                 pc' = [pc EXCEPT ![r] = p]
      BY <1>6 DEF RecordTiming, Collect, Patch, Grade, Moves, Recorded
    <2>3. /\ files.exit = mem[r].exit /\ files.exit.hermes # NoHermes /\ ~files.home
          /\ files.result.success => files.exit.hermes.code = "ok"
      BY <2>2 DEF OnceInv
    <2>4. {"collect", "patch", "grade", "grading", "finish", "abort"}
            \cap ({"home", "exitHermes"} \cup Waiting) = {}
      BY DEF Waiting
    <2>5. QED
      BY <1>0, <2>1, <2>2, <2>3, <2>4, OnceHolds
  <1>7. CASE CollectGrade(r)
    <2>1. /\ files'.exit = files.exit /\ files'.result = files.result
          /\ files'.home = files.home /\ mem'[r].exit.hermes = mem[r].exit.hermes
      BY <1>7, GradingWrites, MemoryWrites
    <2>2. pc[r] = "grading" /\ pc' = [pc EXCEPT ![r] = "exitGrader"]
      BY <1>7 DEF CollectGrade, Moves
    <2>3. /\ files.exit.hermes = mem[r].exit.hermes /\ files.exit.hermes # NoHermes
          /\ ~files.home
          /\ files.result.success => files.exit.hermes.code = "ok"
      BY <2>2 DEF OnceInv, Recorded
    <2>4. "exitGrader" \notin {"home", "exitHermes"} \cup Waiting \cup Recorded
      BY DEF Waiting, Recorded, Sealing
    <2>5. QED
      BY <1>0, <2>1, <2>2, <2>3, <2>4, OnceHolds
  <1>8. CASE RecordExit(r, "exitGrader", "timingGrader")
    <2>1. /\ files'.exit = mem[r].exit /\ files'.result = files.result /\ UNCHANGED mem
          /\ files'.home = files.home
      BY <1>8, TelemetryWrites DEF RecordExit
    <2>2. pc[r] = "exitGrader" /\ pc' = [pc EXCEPT ![r] = "timingGrader"]
      BY <1>8 DEF RecordExit, Moves
    <2>3. /\ files.exit.hermes = mem[r].exit.hermes /\ files.exit.hermes # NoHermes
          /\ ~files.home
          /\ files.result.success => files.exit.hermes.code = "ok"
      BY <2>2 DEF OnceInv
    <2>4. "timingGrader" \notin {"home", "exitHermes"} \cup Waiting
      BY DEF Waiting
    <2>5. QED
      BY <1>0, <2>1, <2>2, <2>3, <2>4, OnceHolds
  <1>9. CASE Finish(r)
    <2>1. /\ files'.exit = files.exit /\ files'.result = Outcome(r) /\ UNCHANGED mem
          /\ files'.home = files.home
      BY <1>9, GradingWrites DEF Finish
    <2>2. pc[r] = "finish" /\ pc' = [pc EXCEPT ![r] = "unlock"]
      BY <1>9 DEF Finish, Moves
    <2>3. files.exit = mem[r].exit /\ files.exit.hermes # NoHermes /\ ~files.home
      BY <2>2 DEF OnceInv, Recorded
    <2>4. Outcome(r).success => mem[r].exit.hermes.code = "ok"
      BY DEF Outcome
    <2>5. "unlock" \notin {"home", "exitHermes"} \cup Waiting
      BY DEF Waiting
    <2>6. QED
      BY <1>0, <2>1, <2>2, <2>3, <2>4, <2>5, OnceHolds
  <1>10. QED
    BY <1>1, <1>2, <1>3, <1>4, <1>5, <1>6, <1>7, <1>8, <1>9 DEF BodyStep

LEMMA NextOnceInv ==
    ASSUME TypeOK, StatusInv, AloneInv, OnceInv, [Next]_vars
    PROVE  OnceInv'
  <1>1. ASSUME NEW r \in Runners, AdmissionStep(r)
        PROVE  OnceInv'
    <2>1. UNCHANGED <<mem, files>>
      BY <1>1, AdmissionEffect
    <2>2. \E p : /\ pc' = [pc EXCEPT ![r] = p]
                 /\ p \notin {"home", "exitHermes", "exitGrader"} \cup Waiting \cup Recorded
      BY <1>1, AdmissionEffect DEF Admitting, Waiting, Recorded, Sealing
    <2>3. QED
      BY <2>1, <2>2, OnceKept
  <1>2. ASSUME NEW r \in Runners, SealingStep(r)
        PROVE  OnceInv'
    <2>1. UNCHANGED <<mem, files>>
      BY <1>2, SealingEffect
    <2>2. CASE \E p \in {"completed", "abort", "failed", "dead"} : pc' = [pc EXCEPT ![r] = p]
      <3>1. {"completed", "abort", "failed", "dead"} \cap
              ({"home", "exitHermes", "exitGrader"} \cup Waiting \cup Recorded) = {}
        BY DEF Waiting, Recorded, Sealing
      <3>2. QED
        BY <2>1, <2>2, <3>1, OnceKept
    <2>3. CASE \E p \in Sealing : pc[r] \in Recorded /\ pc' = [pc EXCEPT ![r] = p]
      <3>1. PICK p \in Sealing : pc' = [pc EXCEPT ![r] = p]
        BY <2>3
      <3>2. /\ Alive(r) /\ p \in Recorded
            /\ p \notin {"home", "exitHermes"} \cup Waiting
        BY <1>2, <3>1, SealingEffect DEF Alive, Recorded, Sealing, Waiting
      <3>3. /\ files.exit = mem[r].exit /\ mem[r].exit.hermes # NoHermes /\ ~files.home
            /\ files.result.success => files.exit.hermes.code = "ok"
        BY <2>3 DEF OnceInv
      <3>4. QED
        BY <2>1, <3>1, <3>2, <3>3, OnceHolds
    <2>4. \/ \E p \in {"completed", "abort", "failed", "dead"} : pc' = [pc EXCEPT ![r] = p]
          \/ \E p \in Sealing : pc[r] \in Recorded /\ pc' = [pc EXCEPT ![r] = p]
      BY <1>2 DEF SealingStep, Unlock, WriteChecksums, Seal, ChmodTree, ChmodRoot, Abort,
                  Denied, Crash, Moves, Sealing, Recorded
    <2>5. QED
      BY <2>2, <2>3, <2>4
  <1>3. ASSUME NEW r \in Runners, Raise(r)
        PROVE  OnceInv'
    <2>1. /\ UNCHANGED mem /\ files'.exit = files.exit /\ files'.result = files.result
          /\ pc' = [pc EXCEPT ![r] = "abort"]
      BY <1>3, RaiseEffect, EnvironmentWrites, GradingWrites
    <2>2. files'.home => files.home \/ files.exit.hermes = NoHermes
      <3>1. CASE pc[r] \in {"launch", "wait", "reap"}
        BY <3>1 DEF OnceInv, Waiting
      <3>2. CASE pc[r] \notin {"launch", "wait", "reap"}
        BY <1>3, <3>2, GradingWrites DEF Raise, Leaves, DropIndex, RewriteWith
      <3>3. QED
        BY <3>1, <3>2
    <2>3. files'.exit.hermes # NoHermes => ~files'.home
      BY <2>1, <2>2 DEF OnceInv
    <2>4. files'.result.success => files'.exit.hermes.code = "ok"
      BY <2>1 DEF OnceInv
    <2>5. "abort" \notin {"home", "exitHermes", "exitGrader"} \cup Waiting \cup Recorded
      BY DEF Waiting, Recorded, Sealing
    <2>6. Alive(r)
      BY <1>3, RaiseEffect DEF Alive, Running
    <2>7. QED
      BY <2>1, <2>3, <2>4, <2>5, <2>6, OnceHolds
  <1>4. ASSUME NEW r \in Runners, Environment(r)
        PROVE  OnceInv'
    <2>1. /\ files'.exit = files.exit /\ files'.result = files.result
          /\ files'.home = files.home
      <3>1. CASE AgentExit(r) \/ StrayEnds(r)
        BY <3>1 DEF AgentExit, StrayEnds, dirVars
      <3>2. QED
        BY <1>4, <3>1, EnvironmentWrites DEF Environment
    <2>2. QED
      BY <1>4, <2>1, EnvironmentEffect DEF OnceInv
  <1>5. CASE UNCHANGED vars
    BY <1>5 DEF OnceInv, vars, runnerVars, dirVars
  <1>6. QED
    BY <1>1, <1>2, <1>3, <1>4, <1>5, NextSteps, OnceBody

\* Without overlap, no agent is launched over a recorded status, and the status on disk
\* and the one the run goes on with are the same from its recording to its sealing.
THEOREM OnceCorrect == ASSUME ~Overlap PROVE Spec => []OnceInv
  <1>1. Init => OnceInv
    BY DEF Init, OnceInv, NoFiles, NoExit, NoResult, Waiting, Recorded, Sealing
  <1>2. TypeOK /\ StatusInv /\ AloneInv /\ OnceInv /\ [Next]_vars => OnceInv'
    BY NextOnceInv
  <1>3. QED
    BY <1>1, <1>2, TypeCorrect, StatusCorrect, AloneCorrect, PTL DEF Spec

\* One invocation at a time, whatever is killed or fails: the exit status sealed with a
\* counted cell is that of the agent that worked in it.
THEOREM StatusBelongs == ASSUME ~Overlap PROVE Spec => []StatusIsAuthors
  <1>1. AgentInv /\ StatusInv /\ OnceInv => StatusIsAuthors
    <2>1. SUFFICES ASSUME AgentInv, StatusInv, OnceInv, Counted
                   PROVE  \E r \in Runners :
                            files.cogs = {r} /\ files.exit.hermes = [by |-> r, code |-> "ok"]
      BY DEF StatusIsAuthors
    <2>2. files.exit.hermes.code = "ok" /\ files.exit.hermes # NoHermes
      BY <2>1 DEF OnceInv, Counted, Verified
    <2>3. PICK h \in Runners : files.exit.hermes = [by |-> h, code |-> code[h]]
      BY <2>1, <2>2 DEF StatusInv, Truthful
    <2>4. h \in files.cogs
      BY <2>1, <2>2, <2>3 DEF AgentInv
    <2>5. QED
      BY <2>1, <2>2, <2>3, <2>4 DEF Counted, Verified, TraceVerified
  <1>2. QED
    BY <1>1, AgentCorrect, StatusCorrect, OnceCorrect, PTL

-----------------------------------------------------------------------------
(* One cell to the campaign: the refinement of RunCell.                    *)

CellStatus == IF dir = "absent" THEN "absent" ELSE IF mark = "none" THEN "open"
              ELSE IF rootRO THEN "shut" ELSE "complete"
CellWorking == \E a \in Runners : agent[a] \in LiveAgent
CellSound == /\ mark # "none" /\ files.result.trace
             /\ files.exit.hermes.code = "ok" /\ files.exit.grader = "ok"

\* What a step of the directory has to do for each step of the cell.
LEMMA CellSteps ==
    /\ /\ CellStatus' = CellStatus /\ CellWorking' = CellWorking /\ CellSound' = CellSound
       => UNCHANGED Cell!cellVars
    /\ /\ CellStatus = "absent" /\ CellStatus' = "open"
       /\ CellWorking' = CellWorking /\ CellSound' = CellSound
       => Cell!CellNext
    /\ /\ CellStatus = "open" /\ ~CellWorking /\ CellWorking'
       /\ CellStatus' = CellStatus /\ CellSound' = CellSound
       => Cell!CellNext
    /\ /\ CellWorking /\ ~CellWorking'
       /\ CellStatus' = CellStatus /\ CellSound' = CellSound
       => Cell!CellNext
    /\ /\ CellStatus = "open" /\ ~CellWorking /\ ~CellWorking' /\ CellStatus' = "complete"
       => Cell!CellNext
    /\ /\ CellStatus = "complete" /\ CellStatus' = "shut"
       /\ CellWorking' = CellWorking /\ CellSound' = CellSound
       => Cell!CellNext
  <1>1. /\ CellStatus' = CellStatus /\ CellWorking' = CellWorking /\ CellSound' = CellSound
        => UNCHANGED Cell!cellVars
    BY DEF CellStatus, CellWorking, CellSound, Cell!cellVars
  <1>2. /\ CellStatus = "absent" /\ CellStatus' = "open"
        /\ CellWorking' = CellWorking /\ CellSound' = CellSound
        => Cell!CellNext
    BY DEF CellStatus, CellWorking, CellSound, Cell!CellNext, Cell!CellCreate
  <1>3. /\ CellStatus = "open" /\ ~CellWorking /\ CellWorking'
        /\ CellStatus' = CellStatus /\ CellSound' = CellSound
        => Cell!CellNext
    BY DEF CellStatus, CellWorking, CellSound, Cell!CellNext, Cell!WorkStarts
  <1>4. /\ CellWorking /\ ~CellWorking'
        /\ CellStatus' = CellStatus /\ CellSound' = CellSound
        => Cell!CellNext
    BY DEF CellStatus, CellWorking, CellSound, Cell!CellNext, Cell!WorkEnds
  <1>5. /\ CellStatus = "open" /\ ~CellWorking /\ ~CellWorking' /\ CellStatus' = "complete"
        => Cell!CellNext
    BY DEF CellStatus, CellWorking, CellSound, Cell!CellNext, Cell!CellComplete
  <1>6. /\ CellStatus = "complete" /\ CellStatus' = "shut"
        /\ CellWorking' = CellWorking /\ CellSound' = CellSound
        => Cell!CellNext
    BY DEF CellStatus, CellWorking, CellSound, Cell!CellNext, Cell!CellShut
  <1>7. QED
    BY <1>1, <1>2, <1>3, <1>4, <1>5, <1>6

\* Nothing that ran to its end is judged anew, except by a seal.
LEMMA SoundKept ==
    ASSUME mark' = mark,
           mark # "none" => files'.exit = files.exit /\ files'.result = files.result
    PROVE  CellSound' = CellSound
  BY DEF CellSound

LEMMA StatusStays ==
    ASSUME UNCHANGED <<dir, mark, rootRO>>
    PROVE  CellStatus' = CellStatus
  BY DEF CellStatus

LEMMA WorkingStays ==
    ASSUME UNCHANGED agent
    PROVE  CellWorking' = CellWorking
  BY DEF CellWorking

\* The agent at work is the only one.
LEMMA WorkingEnds ==
    ASSUME TypeOK, HomeInv, NEW a \in Runners, agent[a] \in LiveAgent,
           agent' = [agent EXCEPT ![a] = "gone"]
    PROVE  CellWorking /\ ~CellWorking'
  BY DEF TypeOK, HomeInv, Holds, CellWorking, LiveAgent

LEMMA CellAdmission ==
    ASSUME TypeOK, AloneInv, NEW r \in Runners, AdmissionStep(r)
    PROVE  [Cell!CellNext]_(Cell!cellVars)
  <1>1. CellWorking' = CellWorking /\ CellSound' = CellSound
    BY AdmissionEffect, WorkingStays, SoundKept
  <1>2. UNCHANGED <<mark, rootRO>>
    BY AdmissionEffect
  <1>3. CASE UNCHANGED dir
    BY <1>1, <1>2, <1>3, StatusStays, CellSteps
  <1>4. CASE dir' # dir
    <2>1. dir = "absent" /\ dir' = "present"
      BY <1>4 DEF AdmissionStep, Begin, Mkdir, WriteRequest, AcquireLock, ReadLock,
                  BreakLock, RetakeLock, WritePid, dirVars
    <2>2. mark = "none"
      BY <2>1 DEF AloneInv
    <2>3. CellStatus = "absent" /\ CellStatus' = "open"
      BY <1>2, <2>1, <2>2 DEF CellStatus
    <2>4. QED
      BY <1>1, <2>3, CellSteps
  <1>5. QED
    BY <1>3, <1>4

LEMMA CellBody ==
    ASSUME TypeOK, HomeInv, AgentInv, AloneInv, NEW r \in Runners, BodyStep(r)
    PROVE  [Cell!CellNext]_(Cell!cellVars)
  <1>1. /\ UNCHANGED <<dir, mark, rootRO>> /\ pc[r] \in Body
    BY BodyEffect
  <1>2. dir # "absent" /\ mark = "none"
    BY <1>1 DEF AloneInv, Alive, Body, Running, InTry, Sealing
  <1>3. CellStatus = "open" /\ CellStatus' = CellStatus /\ CellSound' = CellSound
    BY <1>1, <1>2, StatusStays, SoundKept DEF TypeOK, CellStatus
  <1>4. CASE UNCHANGED agent
    BY <1>3, <1>4, WorkingStays, CellSteps
  <1>5. CASE HermesTimeout(r)
    BY <1>3, <1>5, WorkingEnds, CellSteps DEF HermesTimeout, ForcedEnd
  <1>6. CASE LaunchHermes(r) /\ agent' # agent
    <2>1. pc[r] = "launch" /\ agent' = [agent EXCEPT ![r] = "launched"]
      BY <1>6 DEF LaunchHermes, Moves
    <2>2. \A a \in Runners : agent[a] \notin LiveAgent
      BY <2>1 DEF HomeInv, Holds, AgentInv, Unlaunched, LiveAgent
    <2>3. ~CellWorking
      BY <2>2 DEF CellWorking
    <2>4. CellWorking'
      BY <2>1 DEF TypeOK, CellWorking, LiveAgent
    <2>5. QED
      BY <1>3, <2>3, <2>4, CellSteps
  <1>7. UNCHANGED agent \/ HermesTimeout(r) \/ LaunchHermes(r)
    BY DEF BodyStep, Prepare, CopyStarter, Baseline, Load, MakeHome, WaitReturns, Reap,
           RecordExit, RecordTiming, Collect, Patch, Grade, CollectGrade, Finish, procVars
  <1>8. QED
    BY <1>4, <1>5, <1>6, <1>7

LEMMA CellSealing ==
    ASSUME TypeOK, HomeInv, AloneInv, OnceInv, NEW r \in Runners, SealingStep(r)
    PROVE  [Cell!CellNext]_(Cell!cellVars)
  <1>1. UNCHANGED <<agent, dir, files>> /\ Alive(r)
    BY SealingEffect DEF Alive
  <1>2. CellWorking' = CellWorking
    BY <1>1, WorkingStays
  <1>3. CASE UNCHANGED <<mark, rootRO>>
    BY <1>1, <1>2, <1>3, StatusStays, SoundKept, CellSteps
  <1>4. CASE WriteChecksums(r)
    <2>1. mark = "none"
      BY <1>1, <1>4 DEF AloneInv, WriteChecksums, Moves
    <2>2. QED
      BY <1>3, <1>4, <2>1 DEF WriteChecksums
  <1>5. CASE Seal(r)
    <2>1. pc[r] = "seal" /\ ~rootRO /\ mark' = "match" /\ UNCHANGED rootRO
      BY <1>5 DEF Seal, Moves
    <2>2. dir # "absent" /\ mark = "none"
      BY <1>1, <2>1 DEF AloneInv
    <2>3. files.exit.hermes # NoHermes
      BY <2>1 DEF OnceInv, Recorded, Sealing
    <2>4. ~CellWorking
      BY <2>3 DEF OnceInv, HomeInv, Holds, CellWorking
    <2>5. CellStatus = "open" /\ CellStatus' = "complete"
      BY <1>1, <2>1, <2>2 DEF CellStatus
    <2>6. QED
      BY <1>2, <2>4, <2>5, CellSteps
  <1>6. CASE ChmodRoot(r)
    <2>1. rootRO' = TRUE /\ UNCHANGED mark /\ pc[r] = "chmodRoot"
      BY <1>6 DEF ChmodRoot, Moves
    <2>2. dir # "absent" /\ mark # "none" /\ ~rootRO
      BY <1>1, <2>1 DEF AloneInv
    <2>3. CellStatus = "complete" /\ CellStatus' = "shut"
      BY <1>1, <2>1, <2>2 DEF CellStatus
    <2>4. CellSound' = CellSound
      BY <1>1, <2>1, SoundKept
    <2>5. QED
      BY <1>2, <2>3, <2>4, CellSteps
  <1>7. CASE Unlock(r) \/ ChmodTree(r) \/ Abort(r) \/ Denied(r) \/ Crash(r)
    BY <1>3, <1>7 DEF Unlock, ChmodTree, Abort, Denied, Crash, Leaves, RewriteWith, dirVars
  <1>8. QED
    BY <1>4, <1>5, <1>6, <1>7 DEF SealingStep

LEMMA CellRaise ==
    ASSUME TypeOK, HomeInv, AloneInv, NEW r \in Runners, Raise(r)
    PROVE  [Cell!CellNext]_(Cell!cellVars)
  <1>1. /\ UNCHANGED <<dir, mark, rootRO>>
        /\ files'.exit = files.exit /\ files'.result = files.result
    BY RaiseEffect, EnvironmentWrites, GradingWrites
  <1>2. CellStatus' = CellStatus /\ CellSound' = CellSound
    BY <1>1, StatusStays, SoundKept
  <1>3. CASE UNCHANGED agent
    BY <1>2, <1>3, WorkingStays, CellSteps
  <1>4. CASE agent' # agent
    <2>1. pc[r] = "wait" /\ agent' = [agent EXCEPT ![r] = "gone"]
      BY <1>4 DEF Raise, ForcedEnd
    <2>2. CASE agent[r] \in LiveAgent
      BY <1>2, <2>1, <2>2, WorkingEnds, CellSteps
    <2>3. CASE agent[r] \notin LiveAgent
      <3>1. CellWorking' = CellWorking
        BY <2>1, <2>3 DEF TypeOK, CellWorking, LiveAgent
      <3>2. QED
        BY <1>2, <3>1, CellSteps
    <2>4. QED
      BY <2>2, <2>3
  <1>5. QED
    BY <1>3, <1>4

LEMMA CellEnvironment ==
    ASSUME TypeOK, HomeInv, NEW r \in Runners, Environment(r)
    PROVE  [Cell!CellNext]_(Cell!cellVars)
  <1>1. /\ UNCHANGED <<dir, mark, rootRO>>
        /\ files'.exit = files.exit /\ files'.result = files.result
    <2>1. CASE AgentExit(r) \/ StrayEnds(r)
      BY <2>1 DEF AgentExit, StrayEnds, dirVars
    <2>2. QED
      BY <2>1, EnvironmentEffect, EnvironmentWrites DEF Environment
  <1>2. CellStatus' = CellStatus /\ CellSound' = CellSound
    BY <1>1, StatusStays, SoundKept
  <1>3. CASE AgentHook(r) \/ AgentConstruct(r)
    <2>1. agent[r] \in LiveAgent /\ agent'[r] \in LiveAgent
      BY <1>3 DEF TypeOK, AgentHook, AgentConstruct, LiveAgent
    <2>2. CellWorking' = CellWorking
      BY <2>1 DEF CellWorking
    <2>3. QED
      BY <1>2, <2>2, CellSteps
  <1>4. CASE AgentExit(r)
    BY <1>2, <1>4, WorkingEnds, CellSteps DEF AgentExit
  <1>5. CASE Edit(r) \/ StrayEnds(r) \/ GraderEnds(r)
    BY <1>2, <1>5, WorkingStays, CellSteps DEF Edit, StrayEnds, GraderEnds, procVars
  <1>6. QED
    BY <1>3, <1>4, <1>5 DEF Environment

\* One invocation after the other over the directory, killed or failing anywhere, is one
\* cell to the campaign.
THEOREM OneCell == ASSUME ~Overlap PROVE Spec => IsOneCell
  <1>1. Init => Cell!CellInit
    BY DEF Init, Cell!CellInit, LiveAgent
  <1>2. /\ TypeOK /\ HomeInv /\ AgentInv /\ AloneInv /\ OnceInv /\ [Next]_vars
        => [Cell!CellNext]_(Cell!cellVars)
    <2>1. SUFFICES ASSUME TypeOK, HomeInv, AgentInv, AloneInv, OnceInv, [Next]_vars
                   PROVE  [Cell!CellNext]_(Cell!cellVars)
      OBVIOUS
    <2>2. CASE UNCHANGED vars
      <3>1. UNCHANGED <<agent, dir, mark, rootRO, files>>
        BY <2>2 DEF vars, procVars, dirVars
      <3>2. QED
        BY <3>1, StatusStays, WorkingStays, SoundKept, CellSteps
    <2>3. QED
      BY <2>1, <2>2, NextSteps, CellAdmission, CellBody, CellSealing, CellRaise,
         CellEnvironment
  <1>3. QED
    BY <1>1, <1>2, TypeCorrect, HomeCorrect, AgentCorrect, AloneCorrect, OnceCorrect, PTL
       DEF Spec, IsOneCell, Cell!CellSpec

-----------------------------------------------------------------------------
(* A counted cell stays one.                                               *)

\* A grader is at work only while its runner waits for it, unless that may be killed.
LEMMA NextGraderInv ==
    ASSUME "grading" \notin CrashAt, TypeOK, GraderInv, [Next]_vars
    PROVE  GraderInv'
  <1>1. ASSUME NEW r \in Runners, UNCHANGED grader, NEW p, pc' = [pc EXCEPT ![r] = p],
               pc[r] # "grading"
        PROVE  GraderInv'
    BY <1>1 DEF TypeOK, GraderInv
  <1>2. ASSUME NEW r \in Runners, AdmissionStep(r)
        PROVE  GraderInv'
    BY <1>1, <1>2, AdmissionEffect DEF Admitting
  <1>3. ASSUME NEW r \in Runners, SealingStep(r)
        PROVE  GraderInv'
    <2>1. pc[r] # "grading"
      BY <1>3 DEF SealingStep, Unlock, WriteChecksums, Seal, ChmodTree, ChmodRoot, Abort,
                  Denied, Crash, Moves, Writes
    <2>2. QED
      BY <1>1, <1>3, <2>1, SealingEffect
  <1>4. ASSUME NEW r \in Runners, BodyStep(r)
        PROVE  GraderInv'
    <2>1. CASE Grade(r)
      BY <2>1 DEF TypeOK, GraderInv, Grade, Disturbed, Moves
    <2>2. CASE CollectGrade(r)
      BY <2>2 DEF TypeOK, GraderInv, CollectGrade, Disturbed, Moves
    <2>3. CASE ~Grade(r) /\ ~CollectGrade(r)
      <3>1. UNCHANGED grader /\ pc[r] # "grading"
        BY <1>4, <2>3
           DEF BodyStep, Prepare, CopyStarter, Baseline, Load, MakeHome, LaunchHermes,
               WaitReturns, HermesTimeout, Reap, RecordExit, RecordTiming, Collect, Patch,
               Finish, Moves, procVars
      <3>2. QED
        BY <1>1, <1>4, <3>1, BodyEffect
    <2>4. QED
      BY <2>1, <2>2, <2>3
  <1>5. ASSUME NEW r \in Runners, Raise(r)
        PROVE  GraderInv'
    <2>1. CASE pc[r] = "grading"
      BY <1>5, <2>1 DEF TypeOK, GraderInv, Raise, Disturbed
    <2>2. CASE pc[r] # "grading"
      BY <1>1, <1>5, <2>2 DEF Raise
    <2>3. QED
      BY <2>1, <2>2
  <1>6. ASSUME NEW r \in Runners, Environment(r)
        PROVE  GraderInv'
    BY <1>6 DEF TypeOK, GraderInv, Environment, AgentHook, AgentConstruct, AgentExit, Edit,
                StrayEnds, GraderEnds, runnerVars, procVars
  <1>7. CASE UNCHANGED vars
    BY <1>7 DEF GraderInv, vars, runnerVars, procVars
  <1>8. QED
    BY <1>2, <1>3, <1>4, <1>5, <1>6, <1>7, NextSteps

\* No grader outlives its runner when none is killed while its grader is at work.
THEOREM GraderCorrect == ASSUME "grading" \notin CrashAt PROVE Spec => []GraderInv
  <1>1. Init => GraderInv
    BY DEF Init, GraderInv
  <1>2. TypeOK /\ GraderInv /\ [Next]_vars => GraderInv'
    BY NextGraderInv
  <1>3. QED
    BY <1>1, <1>2, TypeCorrect, PTL DEF Spec

\* In a counted cell nobody runs, and nothing can write.
LEMMA CountedAtRest ==
    ASSUME TypeOK, HomeInv, AloneInv, OnceInv, GraderInv, SoleAuthor, Counted, NEW r \in Runners
    PROVE  /\ ~Alive(r) /\ agent[r] \notin LiveAgent
           /\ agent[r] # "working" /\ r \notin strays \cap files.cogs
           /\ grader[r] \notin {"intact", "hurt"}
  <1>1. mark # "none" /\ rootRO /\ files.exit.hermes # NoHermes
    BY DEF Counted, Verified
  <1>2. ~Alive(r)
    BY <1>1 DEF AloneInv
  <1>3. agent[r] \notin LiveAgent
    BY <1>1 DEF OnceInv, HomeInv, Holds
  <1>4. r \notin strays \cap files.cogs
    BY DEF SoleAuthor
  <1>5. grader[r] \notin {"intact", "hurt"}
    BY <1>2 DEF GraderInv, Alive, Running, InTry
  <1>6. QED
    BY <1>2, <1>3, <1>4, <1>5 DEF LiveAgent

LEMMA CountedKept ==
    ASSUME TypeOK, HomeInv, AgentInv, AloneInv, OnceInv, GraderInv, SoleAuthor, Counted,
           [Next]_vars
    PROVE  Counted'
  <1>1. UNCHANGED <<files, litter, sums, mark, treeRO, rootRO>>
    <2>1. ASSUME NEW r \in Runners, Begin(r)
          PROVE  UNCHANGED <<files, litter, sums, mark, treeRO, rootRO>>
      BY <2>1 DEF Begin, dirVars
    <2>2. ASSUME NEW r \in Runners, AdmissionStep(r), ~Begin(r)
          PROVE  FALSE
      <3>1. pc[r] \in Admitting \ {"idle"}
        BY <2>2 DEF AdmissionStep, Mkdir, WriteRequest, AcquireLock, ReadLock, BreakLock,
                    RetakeLock, WritePid, Moves, Admitting
      <3>2. QED
        BY <3>1, CountedAtRest DEF Alive, Admitting, Running
    <2>3. ASSUME NEW r \in Runners, BodyStep(r) \/ SealingStep(r) \/ Raise(r)
          PROVE  FALSE
      BY <2>3, BodyEffect, SealingEffect, RaiseEffect, CountedAtRest
         DEF Alive, Body, Running
    <2>4. ASSUME NEW r \in Runners, Environment(r)
          PROVE  UNCHANGED <<files, litter, sums, mark, treeRO, rootRO>>
      <3>1. /\ agent[r] \notin LiveAgent /\ agent[r] # "working"
            /\ r \notin strays \cap files.cogs /\ grader[r] \notin {"intact", "hurt"}
        BY CountedAtRest
      <3>2. ~Edit(r)
        BY <3>1 DEF Edit, AgentInv
      <3>3. CASE StrayEnds(r)
        BY <3>3 DEF StrayEnds, dirVars
      <3>4. QED
        BY <2>4, <3>1, <3>2, <3>3 DEF Environment, AgentHook, AgentConstruct, AgentExit,
                                      GraderEnds, LiveAgent
    <2>5. CASE UNCHANGED vars
      BY <2>5 DEF vars, dirVars
    <2>6. QED
      BY <2>1, <2>2, <2>3, <2>4, <2>5, NextSteps
  <1>2. QED
    BY <1>1 DEF Counted, Verified, Intact, Digested, TraceVerified

\* No step undoes a counted cell, as long as one invocation works on the directory at a
\* time and none is killed while its grader is at work.
THEOREM CountedForGood ==
    ASSUME ~Overlap, "grading" \notin CrashAt
    PROVE  Spec => CountedStays
  <1>1. /\ TypeOK /\ HomeInv /\ AgentInv /\ AloneInv /\ OnceInv /\ GraderInv /\ SoleAuthor
        /\ [Next]_vars
        => [Counted => Counted']_vars
    BY CountedKept
  <1>2. QED
    BY <1>1, TypeCorrect, HomeCorrect, AgentCorrect, AloneCorrect, OnceCorrect,
       GraderCorrect, CountedIsAuthored, PTL DEF Spec, CountedStays

-----------------------------------------------------------------------------
(* What a run leaves behind: CleanInv.                                     *)

\* A runner in the body of run_one works on a directory that is not complete.
LEMMA BodyOpen ==
    ASSUME TypeOK, AloneInv, NEW r \in Runners, pc[r] \in Body \cup {"unlock", "sums", "seal"}
    PROVE  Alive(r) /\ mark = "none" /\ ~treeRO /\ ~rootRO
  <1>1. Alive(r) /\ pc[r] \notin {"chmodTree", "chmodRoot", "abort"}
    BY DEF Alive, Body, Running, InTry, Sealing
  <1>2. QED
    BY <1>1 DEF AloneInv

\* Nothing is denied to the one runner that is alive.
LEMMA NothingDenied ==
    ASSUME TypeOK, AloneInv, NEW r \in Runners
    PROVE  ~Denied(r)
  <1>1. SUFFICES ASSUME Denied(r) PROVE FALSE
    OBVIOUS
  <1>2. Alive(r) /\ rootRO
    BY <1>1, SealingEffect DEF SealingStep, Alive, Denied
  <1>3. QED
    BY <1>2 DEF AloneInv

\* A runner that starts changes nothing but where it is.
LEMMA BeginEffect ==
    ASSUME NEW r \in Runners, Begin(r)
    PROVE  /\ pc[r] = "idle" /\ UNCHANGED <<mem, taken, files, lock, litter, sums, mark,
                                           strays>>
           /\ \E p \in {"refused", "already", "lock", "mkdir"} : pc' = [pc EXCEPT ![r] = p]
  BY DEF Begin, ReportComplete, procVars, dirVars

\* The steps from the creation of the directory to the lock, of a runner that is alive.
LEMMA AdmittedEffect ==
    ASSUME TypeOK, NEW r \in Runners, AdmissionStep(r), ~Begin(r)
    PROVE  /\ Alive(r) /\ pc[r] \in Admitting
           /\ UNCHANGED <<mem, taken, files, litter, sums, mark, strays>>
           /\ \E p \in (Admitting \ {"idle"}) \cup {"prepare", "refused", "already"} :
                  pc' = [pc EXCEPT ![r] = p]
  <1>1. pc[r] # "idle"
    BY DEF AdmissionStep, Mkdir, WriteRequest, AcquireLock, ReadLock, BreakLock, RetakeLock,
           WritePid, Moves
  <1>2. QED
    BY <1>1, AdmissionEffect DEF Alive, Admitting, Running

\* A step of the one runner that is alive.
LEMMA CleanHolds ==
    ASSUME TypeOK, AloneInv, NEW r \in Runners, Alive(r), NEW p, pc' = [pc EXCEPT ![r] = p],
           p \in {"exitHermes", "timingHermes"} => mem'[r].exit.grader = "none",
           p \in GraderRecorded => mem'[r].exit.grader # "none" /\ files'.gws = NoContent,
           files'.exit.grader # "none" => files'.gws = NoContent,
           p \in Sealing => lock' = NoLock,
           mark' # "none" => /\ lock' = NoLock
                             /\ files'.exit.hermes # NoHermes /\ files'.exit.grader # "none"
    PROVE  CleanInv'
  <1>1. pc'[r] = p /\ \A s \in Runners \ {r} : pc'[s] \notin Running
    BY OnlyMover
  <1>2. {"exitHermes", "timingHermes"} \cup GraderRecorded \cup Sealing \subseteq Running
    BY DEF GraderRecorded, Sealing, Running, InTry
  <1>3. \A s \in Runners :
            pc'[s] \in {"exitHermes", "timingHermes"} \cup GraderRecorded \cup Sealing => s = r
    BY <1>1, <1>2
  <1>4. QED
    BY <1>1, <1>3 DEF CleanInv

LEMMA CleanBody ==
    ASSUME TypeOK, StatusInv, AloneInv, OnceInv, CleanInv, NEW r \in Runners, BodyStep(r)
    PROVE  CleanInv'
  <1>0. /\ Alive(r) /\ mark' = "none" /\ Removable
        /\ \A p \in Body \cup {"unlock", "abort"} : p \notin Sealing
    BY BodyEffect, BodyOpen DEF Body, Sealing, Removable
  <1>1. CASE \/ Prepare(r) \/ CopyStarter(r) \/ Baseline(r) \/ Load(r) \/ MakeHome(r)
             \/ LaunchHermes(r) \/ WaitReturns(r) \/ HermesTimeout(r) \/ Collect(r) \/ Patch(r)
             \/ RecordTiming(r, "timingHermes", "collect")
    <2>1. files'.exit = files.exit /\ files'.gws = files.gws
      <3>1. CASE UNCHANGED files
        BY <3>1
      <3>2. CASE files' # files
        BY <1>1, <3>2, WorkspaceWrites, TelemetryWrites, GradingWrites
           DEF Prepare, Load, LaunchHermes, WaitReturns, HermesTimeout, dirVars
      <3>3. QED
        BY <3>1, <3>2
    <2>2. \E p \in {"copy", "load", "baseline", "home", "launch", "wait", "reap", "collect",
                    "patch", "grade", "abort"} : pc' = [pc EXCEPT ![r] = p]
      <3>1. CASE HermesTimeout(r)
        BY <3>1 DEF HermesTimeout, runnerVars, TypeOK
      <3>2. QED
        BY <1>1, <3>1 DEF Prepare, CopyStarter, Baseline, Load, MakeHome, LaunchHermes,
                          WaitReturns, Collect, Patch, RecordTiming, Moves
    <2>3. \A p \in {"copy", "load", "baseline", "home", "launch", "wait", "reap", "collect",
                    "patch", "grade", "abort"} :
              p \notin {"exitHermes", "timingHermes"} \cup GraderRecorded \cup Sealing
      BY DEF GraderRecorded, Sealing
    <2>4. files'.exit.grader # "none" => files'.gws = NoContent
      BY <2>1 DEF CleanInv
    <2>5. QED
      BY <1>0, <2>2, <2>3, <2>4, CleanHolds
  <1>2. CASE Reap(r)
    <2>1. files'.exit = files.exit /\ files'.gws = files.gws
      BY <1>2, WorkspaceWrites
    <2>2. mem[r].exit.grader = "none"
      BY <1>2 DEF StatusInv, Truthful, Reap, Moves, Waiting
    <2>3. \/ pc' = [pc EXCEPT ![r] = "abort"]
          \/ pc' = [pc EXCEPT ![r] = "exitHermes"] /\ mem'[r].exit.grader = "none"
      BY <1>2, <2>2, MemoryWrites
    <2>4. {"abort", "exitHermes"} \cap (GraderRecorded \cup Sealing) = {}
      BY DEF GraderRecorded, Sealing
    <2>5. files'.exit.grader # "none" => files'.gws = NoContent
      BY <2>1 DEF CleanInv
    <2>6. QED
      BY <1>0, <2>3, <2>4, <2>5, CleanHolds
  <1>3. CASE RecordExit(r, "exitHermes", "timingHermes")
    <2>1. files'.exit = mem[r].exit /\ UNCHANGED mem
      BY <1>3, TelemetryWrites DEF RecordExit
    <2>2. pc[r] = "exitHermes" /\ pc' = [pc EXCEPT ![r] = "timingHermes"]
      BY <1>3 DEF RecordExit, Moves
    <2>3. mem[r].exit.grader = "none"
      BY <2>2 DEF CleanInv
    <2>4. "timingHermes" \notin GraderRecorded \cup Sealing
      BY DEF GraderRecorded, Sealing
    <2>5. QED
      BY <1>0, <2>1, <2>2, <2>3, <2>4, CleanHolds
  <1>4. CASE Grade(r)
    <2>1. files'.exit = files.exit /\ UNCHANGED mem /\ files.exit = mem[r].exit
      BY <1>4, GradingWrites DEF Grade, OnceInv, Moves, Recorded
    <2>2. CASE mem[r].exit.grader = "none" /\ pc' = [pc EXCEPT ![r] = "grading"]
      <3>1. "grading" \notin {"exitHermes", "timingHermes"} \cup GraderRecorded \cup Sealing
        BY DEF GraderRecorded, Sealing
      <3>2. QED
        BY <1>0, <2>1, <2>2, <3>1, CleanHolds
    <2>3. CASE /\ mem[r].exit.grader # "none" /\ pc' = [pc EXCEPT ![r] = "finish"]
               /\ UNCHANGED files.gws
      <3>1. files'.gws = NoContent
        BY <2>1, <2>3 DEF CleanInv
      <3>2. "finish" \notin {"exitHermes", "timingHermes"} \cup Sealing
        BY DEF Sealing
      <3>3. QED
        BY <1>0, <2>1, <2>3, <3>1, <3>2, CleanHolds
    <2>4. QED
      BY <1>4, <2>2, <2>3, GradingWrites
  <1>5. CASE CollectGrade(r)
    <2>1. files'.gws = NoContent /\ mem'[r].exit.grader # "none"
      BY <1>0, <1>5, GradingWrites, MemoryWrites
    <2>2. pc' = [pc EXCEPT ![r] = "exitGrader"]
      BY <1>5 DEF CollectGrade, Moves
    <2>3. "exitGrader" \notin {"exitHermes", "timingHermes"} \cup Sealing
      BY DEF Sealing
    <2>4. QED
      BY <1>0, <2>1, <2>2, <2>3, CleanHolds
  <1>6. CASE \/ RecordExit(r, "exitGrader", "timingGrader")
             \/ RecordTiming(r, "timingGrader", "finish") \/ Finish(r)
    <2>1. files'.gws = files.gws /\ UNCHANGED mem
      BY <1>6, TelemetryWrites, GradingWrites DEF RecordExit, RecordTiming, Finish
    <2>2. /\ pc[r] \in GraderRecorded
          /\ \E p \in {"timingGrader", "finish", "unlock"} : pc' = [pc EXCEPT ![r] = p]
      BY <1>6 DEF RecordExit, RecordTiming, Finish, Moves, GraderRecorded
    <2>3. mem[r].exit.grader # "none" /\ files.gws = NoContent
      BY <2>2 DEF CleanInv
    <2>4. {"timingGrader", "finish", "unlock"} \cap ({"exitHermes", "timingHermes"} \cup Sealing)
            = {}
      BY DEF Sealing
    <2>5. QED
      BY <1>0, <2>1, <2>2, <2>3, <2>4, CleanHolds
  <1>7. QED
    BY <1>1, <1>2, <1>3, <1>4, <1>5, <1>6 DEF BodyStep

LEMMA CleanSealing ==
    ASSUME TypeOK, StatusInv, AloneInv, OnceInv, CleanInv, NEW r \in Runners, SealingStep(r)
    PROVE  CleanInv'
  <1>0. Alive(r) /\ UNCHANGED <<mem, files>>
    BY SealingEffect DEF Alive
  <1>1. files'.exit.grader # "none" => files'.gws = NoContent
    BY <1>0 DEF CleanInv
  <1>2. ASSUME NEW p \in {"completed", "abort", "failed", "dead"}, pc' = [pc EXCEPT ![r] = p],
               UNCHANGED mark, lock' \in {lock, NoLock}
        PROVE  CleanInv'
    <2>1. p \notin {"exitHermes", "timingHermes"} \cup GraderRecorded \cup Sealing
      BY <1>2 DEF GraderRecorded, Sealing
    <2>2. mark' # "none" => /\ lock' = NoLock
                            /\ files'.exit.hermes # NoHermes /\ files'.exit.grader # "none"
      BY <1>0, <1>2 DEF CleanInv
    <2>3. QED
      BY <1>0, <1>1, <1>2, <2>1, <2>2, CleanHolds
  <1>3. ASSUME NEW p \in Sealing, pc' = [pc EXCEPT ![r] = p], pc[r] \in {"unlock"} \cup Sealing,
               lock' = NoLock,
               mark' # "none" => mark # "none" \/ pc[r] = "seal"
        PROVE  CleanInv'
    <2>1. /\ p \notin {"exitHermes", "timingHermes"} /\ p \in GraderRecorded
          /\ pc[r] \in GraderRecorded
      BY <1>3 DEF GraderRecorded, Sealing
    <2>2. mem[r].exit.grader # "none" /\ files.gws = NoContent
      BY <2>1 DEF CleanInv
    <2>3. mark' # "none" => files.exit.hermes # NoHermes /\ files.exit.grader # "none"
      <3>1. CASE mark # "none"
        BY <3>1 DEF CleanInv
      <3>2. CASE pc[r] = "seal"
        BY <2>2, <3>2 DEF OnceInv, Recorded, Sealing
      <3>3. QED
        BY <1>3, <3>1, <3>2
    <2>4. QED
      BY <1>0, <1>1, <1>3, <2>1, <2>2, <2>3, CleanHolds
  <1>4. CASE Unlock(r)
    BY <1>2, <1>3, <1>4 DEF Unlock, Moves, Sealing
  <1>5. CASE WriteChecksums(r)
    <2>1. pc[r] = "sums" /\ pc' = [pc EXCEPT ![r] = "seal"] /\ UNCHANGED lock
      BY <1>5 DEF WriteChecksums, Moves
    <2>2. lock = NoLock /\ mark' = "none"
      BY <1>5, <2>1, BodyOpen DEF CleanInv, Sealing, WriteChecksums
    <2>3. QED
      BY <1>3, <2>1, <2>2 DEF Sealing
  <1>6. CASE Seal(r) \/ ChmodTree(r)
    <2>1. /\ pc[r] \in {"seal", "chmodTree"} /\ UNCHANGED lock
          /\ pc[r] # "seal" => UNCHANGED mark
          /\ \E p \in {"chmodTree", "chmodRoot"} : pc' = [pc EXCEPT ![r] = p]
      BY <1>6 DEF Seal, ChmodTree, Moves
    <2>2. lock = NoLock
      BY <2>1 DEF CleanInv, Sealing
    <2>3. QED
      BY <1>3, <2>1, <2>2 DEF Sealing
  <1>7. CASE ChmodRoot(r) \/ Abort(r) \/ Denied(r) \/ Crash(r)
    BY <1>2, <1>7 DEF ChmodRoot, Abort, Denied, Crash, Leaves, RewriteWith, Moves, dirVars
  <1>8. QED
    BY <1>4, <1>5, <1>6, <1>7 DEF SealingStep

LEMMA NextCleanInv ==
    ASSUME TypeOK, StatusInv, AloneInv, OnceInv, CleanInv, [Next]_vars
    PROVE  CleanInv'
  <1>1. ASSUME NEW r \in Runners, Begin(r)
        PROVE  CleanInv'
    <2>1. \E p \in {"refused", "already", "lock", "mkdir"} : pc' = [pc EXCEPT ![r] = p]
      BY <1>1, BeginEffect
    <2>2. \A p \in {"refused", "already", "lock", "mkdir"} :
              p \notin {"exitHermes", "timingHermes"} \cup GraderRecorded \cup Sealing
      BY DEF GraderRecorded, Sealing
    <2>3. UNCHANGED <<mem, files, lock, mark>>
      BY <1>1, BeginEffect
    <2>4. PICK p : /\ pc' = [pc EXCEPT ![r] = p]
                   /\ p \notin {"exitHermes", "timingHermes"} \cup GraderRecorded \cup Sealing
      BY <2>1, <2>2
    <2>5. \A s \in Runners :
              pc'[s] \in {"exitHermes", "timingHermes"} \cup GraderRecorded \cup Sealing =>
                  pc'[s] = pc[s]
      BY <2>4 DEF TypeOK
    <2>6. QED
      BY <2>3, <2>5 DEF CleanInv
  <1>2. ASSUME NEW r \in Runners, AdmissionStep(r), ~Begin(r)
        PROVE  CleanInv'
    <2>1. Alive(r) /\ UNCHANGED <<mem, files, mark>> /\ pc[r] \in Admitting
      BY <1>2, AdmittedEffect
    <2>2. mark' = "none"
      BY <2>1 DEF AloneInv, Admitting
    <2>3. \E p : /\ pc' = [pc EXCEPT ![r] = p]
                 /\ p \notin {"exitHermes", "timingHermes"} \cup GraderRecorded \cup Sealing
      BY <1>2, AdmittedEffect DEF Admitting, GraderRecorded, Sealing
    <2>4. files'.exit.grader # "none" => files'.gws = NoContent
      BY <2>1 DEF CleanInv
    <2>5. QED
      BY <2>1, <2>2, <2>3, <2>4, CleanHolds
  <1>3. ASSUME NEW r \in Runners, Raise(r)
        PROVE  CleanInv'
    <2>1. /\ UNCHANGED <<mem, lock, mark>> /\ files'.exit = files.exit
          /\ pc' = [pc EXCEPT ![r] = "abort"] /\ Alive(r)
      BY <1>3, RaiseEffect, EnvironmentWrites, GradingWrites DEF Alive, Running
    <2>2. files'.gws \in {files.gws, NoContent}
      BY <1>3, EnvironmentWrites, GradingWrites
    <2>3. "abort" \notin {"exitHermes", "timingHermes"} \cup GraderRecorded \cup Sealing
      BY DEF GraderRecorded, Sealing
    <2>4. files'.exit.grader # "none" => files'.gws = NoContent
      BY <2>1, <2>2 DEF CleanInv
    <2>5. mark' # "none" => /\ lock' = NoLock
                            /\ files'.exit.hermes # NoHermes /\ files'.exit.grader # "none"
      BY <2>1 DEF CleanInv
    <2>6. QED
      BY <2>1, <2>3, <2>4, <2>5, CleanHolds
  <1>4. ASSUME NEW r \in Runners, Environment(r)
        PROVE  CleanInv'
    <2>1. files'.exit = files.exit /\ files'.gws = files.gws
      <3>1. CASE AgentExit(r) \/ StrayEnds(r)
        BY <3>1 DEF AgentExit, StrayEnds, dirVars
      <3>2. QED
        BY <1>4, <3>1, EnvironmentWrites DEF Environment
    <2>2. QED
      BY <1>4, <2>1, EnvironmentEffect DEF CleanInv
  <1>5. CASE UNCHANGED vars
    BY <1>5 DEF CleanInv, vars, runnerVars, dirVars
  <1>6. QED
    BY <1>1, <1>2, <1>3, <1>4, <1>5, NextSteps, CleanBody, CleanSealing

\* Without overlap, the grader's copy is gone once its status is recorded and the lock is
\* gone once the run seals, so a marked directory holds neither.
THEOREM CleanCorrect == ASSUME ~Overlap PROVE Spec => []CleanInv
  <1>1. Init => CleanInv
    BY DEF Init, CleanInv, NoFiles, NoExit, GraderRecorded, Sealing
  <1>2. TypeOK /\ StatusInv /\ AloneInv /\ OnceInv /\ CleanInv /\ [Next]_vars => CleanInv'
    BY NextCleanInv
  <1>3. QED
    BY <1>1, <1>2, TypeCorrect, StatusCorrect, AloneCorrect, OnceCorrect, PTL DEF Spec

-----------------------------------------------------------------------------
(* The diff and the patch: EvidenceInv.                                    *)

\* What is written of the evidence, and when a runner goes on to the next point.
LEMMA EvidenceWrites ==
    ASSUME TypeOK, NEW r \in Runners
    PROVE  /\ Collect(r) =>
                \/ pc' = [pc EXCEPT ![r] = "patch"] /\ taken'[r].diff = files.content
                \/ pc' = [pc EXCEPT ![r] = "grade"] /\ ~taken'[r].available
           /\ Patch(r) /\ ~rootRO =>
                /\ pc[r] = "patch" /\ pc' = [pc EXCEPT ![r] = "grade"]
                /\ taken'[r].available =>
                       files'.evidence = [diff |-> taken[r].diff, patch |-> files.content]
  <1>1. ASSUME Collect(r)
        PROVE  \/ pc' = [pc EXCEPT ![r] = "patch"] /\ taken'[r].diff = files.content
               \/ pc' = [pc EXCEPT ![r] = "grade"] /\ ~taken'[r].available
    BY <1>1 DEF TypeOK, Taken, Collect, Captured, Moves
  <1>2. ASSUME Patch(r), ~rootRO
        PROVE  /\ pc[r] = "patch" /\ pc' = [pc EXCEPT ![r] = "grade"]
               /\ taken'[r].available =>
                      files'.evidence = [diff |-> taken[r].diff, patch |-> files.content]
    <2>1. pc[r] = "patch" /\ pc' = [pc EXCEPT ![r] = "grade"]
      BY <1>2 DEF Patch, Moves
    <2>2. Captured(r, Diffs(r), TRUE) \/ Captured(r, NoEvidence, FALSE)
      BY <1>2 DEF Patch
    <2>3. CASE Captured(r, Diffs(r), TRUE)
      BY <2>1, <2>3 DEF TypeOK, Files, Captured, RewriteWith, Diffs
    <2>4. CASE Captured(r, NoEvidence, FALSE)
      BY <2>1, <2>4 DEF TypeOK, Taken, Captured
    <2>5. QED
      BY <2>1, <2>2, <2>3, <2>4
  <1>3. QED
    BY <1>1, <1>2

\* A step of the one runner that is alive.
LEMMA EvidenceHolds ==
    ASSUME TypeOK, AloneInv, NEW r \in Runners, Alive(r), NEW p, pc' = [pc EXCEPT ![r] = p],
           p = "patch" => taken'[r].diff = files'.content,
           p \in Grading /\ taken'[r].available => OfTheWorkspace',
           p \in {"unlock"} \cup Sealing \/ mark' # "none" => Evidenced'
    PROVE  EvidenceInv'
  <1>1. pc'[r] = p /\ \A s \in Runners \ {r} : pc'[s] \notin Running
    BY OnlyMover
  <1>2. \A s \in Runners : pc'[s] \in {"patch", "unlock"} \cup Grading \cup Sealing => s = r
    BY <1>1 DEF Grading, Sealing, Running, InTry
  <1>3. QED
    BY <1>1, <1>2 DEF EvidenceInv

\* A step that leaves the workspace and the evidence alone, of a runner that is alive.
LEMMA EvidenceStays ==
    ASSUME TypeOK, AloneInv, EvidenceInv, NEW h \in Runners, Settled(h),
           NEW r \in Runners, Alive(r), NEW p, pc' = [pc EXCEPT ![r] = p], UNCHANGED taken,
           files'.content = files.content, files'.evidence = files.evidence,
           files'.result = files.result,
           p # "patch", p \in Grading => pc[r] \in Grading,
           \/ p \notin {"unlock"} \cup Sealing
           \/ pc[r] \in {"unlock"} \cup Sealing,
           mark' # "none" => mark # "none" \/ pc[r] \in Sealing
    PROVE  EvidenceInv'
  <1>1. p \in Grading /\ taken'[r].available => OfTheWorkspace'
    BY DEF EvidenceInv, OfTheWorkspace
  <1>2. p \in {"unlock"} \cup Sealing \/ mark' # "none" => Evidenced'
    BY DEF EvidenceInv, Evidenced, OfTheWorkspace
  <1>3. QED
    BY <1>1, <1>2, EvidenceHolds

\* While its agent is at work nothing is held of the evidence, or said of it.
LEMMA NothingEvident ==
    ASSUME TypeOK, HomeInv, AloneInv, OnceInv, CleanInv, NEW h \in Runners,
           agent[h] \in LiveAgent
    PROVE  /\ mark = "none"
           /\ \A r \in Runners :
                  pc[r] \notin {"patch", "unlock"} \cup Grading \cup Sealing
  <1>1. files.exit.hermes = NoHermes
    BY DEF HomeInv, Holds, OnceInv
  <1>2. \A r \in Runners : pc[r] \notin Recorded \cup {"exitGrader"}
    BY <1>1 DEF OnceInv
  <1>3. {"patch", "unlock"} \cup Grading \cup Sealing \subseteq Recorded \cup {"exitGrader"}
    BY DEF Grading, Recorded
  <1>4. mark = "none"
    BY <1>1 DEF CleanInv
  <1>5. QED
    BY <1>2, <1>3, <1>4

LEMMA EvidenceBody ==
    ASSUME TypeOK, AloneInv, EvidenceInv, NEW h \in Runners, Settled(h),
           NEW r \in Runners, BodyStep(r), files'.content = files.content
    PROVE  EvidenceInv'
  <1>1. Alive(r) /\ mark' = "none" /\ ~rootRO
    BY BodyEffect, BodyOpen
  <1>2. CASE Collect(r)
    <2>1. CASE pc' = [pc EXCEPT ![r] = "patch"] /\ taken'[r].diff = files.content
      <3>1. "patch" \notin {"unlock"} \cup Grading \cup Sealing
        BY DEF Grading, Sealing
      <3>2. QED
        BY <1>1, <2>1, <3>1, EvidenceHolds
    <2>2. CASE pc' = [pc EXCEPT ![r] = "grade"] /\ ~taken'[r].available
      <3>1. "grade" \notin {"patch", "unlock"} \cup Sealing
        BY DEF Sealing
      <3>2. QED
        BY <1>1, <2>2, <3>1, EvidenceHolds
    <2>3. QED
      BY <1>2, <2>1, <2>2, EvidenceWrites
  <1>3. CASE Patch(r)
    <2>1. /\ pc[r] = "patch" /\ pc' = [pc EXCEPT ![r] = "grade"]
          /\ taken'[r].available =>
                 files'.evidence = [diff |-> taken[r].diff, patch |-> files.content]
      BY <1>1, <1>3, EvidenceWrites
    <2>2. taken[r].diff = files.content
      BY <2>1 DEF EvidenceInv
    <2>3. taken'[r].available => OfTheWorkspace'
      BY <2>1, <2>2 DEF OfTheWorkspace
    <2>4. "grade" \notin {"patch", "unlock"} \cup Sealing
      BY DEF Sealing
    <2>5. QED
      BY <1>1, <2>1, <2>3, <2>4, EvidenceHolds
  <1>4. CASE Finish(r)
    <2>1. /\ pc[r] = "finish" /\ pc' = [pc EXCEPT ![r] = "unlock"]
          /\ files'.result = Outcome(r) /\ files'.evidence = files.evidence
      BY <1>4, GradingWrites DEF Finish, Moves
    <2>2. taken[r].available => OfTheWorkspace
      BY <2>1 DEF EvidenceInv, Grading
    <2>3. Evidenced'
      BY <2>1, <2>2 DEF Evidenced, OfTheWorkspace, Outcome
    <2>4. "unlock" \notin {"patch"} \cup Grading
      BY DEF Grading
    <2>5. QED
      BY <1>1, <2>1, <2>3, <2>4, EvidenceHolds
  <1>5. CASE \/ Prepare(r) \/ CopyStarter(r) \/ Baseline(r) \/ Load(r) \/ MakeHome(r)
             \/ LaunchHermes(r) \/ WaitReturns(r) \/ HermesTimeout(r) \/ Reap(r)
             \/ RecordExit(r, "exitHermes", "timingHermes")
             \/ RecordTiming(r, "timingHermes", "collect")
    <2>1. UNCHANGED taken /\ files'.evidence = files.evidence /\ files'.result = files.result
      <3>1. CASE UNCHANGED files
        BY <1>5, <3>1 DEF Prepare, CopyStarter, Baseline, Load, MakeHome, LaunchHermes,
                          WaitReturns, HermesTimeout, Reap, RecordExit, RecordTiming,
                          runnerVars
      <3>2. CASE files' # files
        BY <1>5, <3>2, WorkspaceWrites, TelemetryWrites
           DEF Prepare, CopyStarter, Baseline, Load, MakeHome, LaunchHermes,
               WaitReturns, HermesTimeout, Reap, RecordExit, RecordTiming, dirVars
      <3>3. QED
        BY <3>1, <3>2
    <2>2. \E p \in {"copy", "load", "baseline", "home", "launch", "wait", "reap", "collect",
                    "exitHermes", "timingHermes", "abort"} : pc' = [pc EXCEPT ![r] = p]
      <3>1. CASE HermesTimeout(r)
        BY <3>1 DEF HermesTimeout, runnerVars, TypeOK
      <3>2. QED
        BY <1>5, <3>1 DEF Prepare, CopyStarter, Baseline, Load, MakeHome, LaunchHermes,
                          WaitReturns, Reap, RecordExit, RecordTiming, Moves
    <2>3. \A p \in {"copy", "load", "baseline", "home", "launch", "wait", "reap", "collect",
                    "exitHermes", "timingHermes", "abort"} :
              p \notin {"patch", "unlock"} \cup Grading \cup Sealing
      BY DEF Grading, Sealing
    <2>4. QED
      BY <1>1, <2>1, <2>2, <2>3, EvidenceStays
  <1>6. CASE \/ Grade(r) \/ CollectGrade(r) \/ RecordExit(r, "exitGrader", "timingGrader")
             \/ RecordTiming(r, "timingGrader", "finish")
    <2>1. UNCHANGED taken /\ files'.evidence = files.evidence /\ files'.result = files.result
      BY <1>6, GradingWrites, TelemetryWrites
         DEF Grade, CollectGrade, RecordExit, RecordTiming
    <2>2. /\ pc[r] \in Grading
          /\ \E p \in {"grading", "exitGrader", "timingGrader", "finish"} :
                 pc' = [pc EXCEPT ![r] = p]
      BY <1>6 DEF Grade, CollectGrade, RecordExit, RecordTiming, Moves, Grading
    <2>3. \A p \in {"grading", "exitGrader", "timingGrader", "finish"} :
              p \notin {"patch", "unlock"} \cup Sealing
      BY DEF Sealing
    <2>4. QED
      BY <1>1, <2>1, <2>2, <2>3, EvidenceStays
  <1>7. QED
    BY <1>2, <1>3, <1>4, <1>5, <1>6 DEF BodyStep

LEMMA NextEvidenceInv ==
    ASSUME TypeOK, HomeInv, AgentInv, SolvedInv, AloneInv, OnceInv, CleanInv, EvidenceInv,
           [Next]_vars
    PROVE  EvidenceInv'
  <1>1. SUFFICES ASSUME NEW h \in Runners, Settled(h)'
                 PROVE  EvidenceInv'
    BY DEF EvidenceInv
  <1>2. CASE ~Settled(h)
    <2>1. agent[h] \in LiveAgent /\ UNCHANGED <<pc, mark>>
      BY <1>1, <1>2, SettledAtExit DEF runnerVars, dirVars
    <2>2. /\ mark' = "none"
          /\ \A r \in Runners :
                 pc'[r] \notin {"patch", "unlock"} \cup Grading \cup Sealing
      BY <2>1, NothingEvident
    <2>3. QED
      BY <2>2 DEF EvidenceInv
  <1>3. ASSUME Settled(h)
        PROVE  EvidenceInv'
    <2>0. files'.content = files.content
      BY <1>3, SettledContent
    <2>1. ASSUME NEW r \in Runners, Begin(r)
          PROVE  EvidenceInv'
      <3>1. UNCHANGED <<taken, files, mark>>
        BY <2>1, BeginEffect
      <3>2. \A s \in Runners : pc'[s] \in {"patch", "unlock"} \cup Grading \cup Sealing =>
                                   pc'[s] = pc[s]
        BY <2>1, BeginEffect DEF TypeOK, Grading, Sealing
      <3>3. QED
        BY <1>3, <3>1, <3>2 DEF EvidenceInv, Evidenced, OfTheWorkspace
    <2>2. ASSUME NEW r \in Runners, AdmissionStep(r), ~Begin(r)
          PROVE  EvidenceInv'
      <3>1. Alive(r) /\ UNCHANGED <<taken, files, mark>>
        BY <2>2, AdmittedEffect
      <3>2. \E p : /\ pc' = [pc EXCEPT ![r] = p]
                   /\ p \notin {"patch", "unlock"} \cup Grading \cup Sealing
        BY <2>2, AdmittedEffect DEF Admitting, Grading, Sealing
      <3>3. QED
        BY <1>3, <3>1, <3>2, EvidenceStays
    <2>3. ASSUME NEW r \in Runners, BodyStep(r)
          PROVE  EvidenceInv'
      BY <1>3, <2>0, <2>3, EvidenceBody
    <2>4. ASSUME NEW r \in Runners, SealingStep(r)
          PROVE  EvidenceInv'
      <3>1. Alive(r) /\ UNCHANGED <<taken, files>>
        BY <2>4, SealingEffect DEF Alive
      <3>2. /\ mark' # "none" => mark # "none" \/ pc[r] \in Sealing
            /\ \E p : /\ pc' = [pc EXCEPT ![r] = p]
                      /\ p \notin {"patch"} \cup Grading
                      /\ p \in {"unlock"} \cup Sealing => pc[r] \in {"unlock"} \cup Sealing
        BY <2>4 DEF SealingStep, Unlock, WriteChecksums, Seal, ChmodTree, ChmodRoot, Abort,
                    Denied, Crash, Leaves, RewriteWith, Moves, Grading, Sealing, dirVars
      <3>3. QED
        BY <1>3, <3>1, <3>2, EvidenceStays
    <2>5. ASSUME NEW r \in Runners, Raise(r)
          PROVE  EvidenceInv'
      <3>1. /\ Alive(r) /\ UNCHANGED <<taken, mark>>
            /\ pc' = [pc EXCEPT ![r] = "abort"]
        BY <2>5, RaiseEffect DEF Alive, Running
      <3>2. files'.evidence = files.evidence /\ files'.result = files.result
        BY <2>5, EnvironmentWrites, GradingWrites
      <3>3. "abort" \notin {"patch", "unlock"} \cup Grading \cup Sealing
        BY DEF Grading, Sealing
      <3>4. QED
        BY <1>3, <2>0, <3>1, <3>2, <3>3, EvidenceStays
    <2>6. ASSUME NEW a \in Runners, Environment(a)
          PROVE  EvidenceInv'
      <3>1. UNCHANGED <<pc, taken, mark>>
        BY <2>6, EnvironmentEffect
      <3>2. files'.evidence = files.evidence /\ files'.result = files.result
        <4>1. CASE AgentExit(a) \/ StrayEnds(a)
          BY <4>1 DEF AgentExit, StrayEnds, dirVars
        <4>2. QED
          BY <2>6, <4>1, EnvironmentWrites DEF Environment
      <3>3. QED
        BY <1>3, <2>0, <3>1, <3>2 DEF EvidenceInv, Evidenced, OfTheWorkspace
    <2>7. CASE UNCHANGED vars
      BY <1>3, <2>7 DEF EvidenceInv, Evidenced, OfTheWorkspace, vars, runnerVars, dirVars
    <2>8. QED
      BY <2>1, <2>2, <2>3, <2>4, <2>5, <2>6, <2>7, NextSteps
  <1>4. QED
    BY <1>2, <1>3

\* One invocation at a time, killed and resumed anywhere: if the manifest of a counted cell
\* says that the evidence is available, the diff and the patch, which are taken one after the
\* other, are both of the sealed workspace.
THEOREM EvidenceOfCounted == ASSUME ~Overlap PROVE Spec => []EvidenceIsSealed
  <1>1. Init => EvidenceInv
    BY DEF Init, EvidenceInv, Settled
  <1>2. /\ TypeOK /\ HomeInv /\ AgentInv /\ SolvedInv /\ AloneInv /\ OnceInv /\ CleanInv
        /\ EvidenceInv /\ [Next]_vars
        => EvidenceInv'
    BY NextEvidenceInv
  <1>3. AgentInv /\ StatusInv /\ EvidenceInv => EvidenceIsSealed
    <2>1. SUFFICES ASSUME AgentInv, StatusInv, EvidenceInv, Counted, files.result.available
                   PROVE  OfTheWorkspace
      BY DEF EvidenceIsSealed, OfTheWorkspace
    <2>2. PICK h \in Runners : code[h] = "ok"
      BY <2>1 DEF StatusInv, Counted
    <2>3. Settled(h)
      BY <2>1, <2>2 DEF AgentInv, Settled, Counted, Verified, TraceVerified
    <2>4. QED
      BY <2>1, <2>3 DEF EvidenceInv, Evidenced, Counted, Verified
  <1>4. QED
    BY <1>1, <1>2, <1>3, TypeCorrect, HomeCorrect, AgentCorrect, StatusCorrect, SolvedCorrect,
       AloneCorrect, OnceCorrect, CleanCorrect, PTL DEF Spec

-----------------------------------------------------------------------------
(* A whole copy of the starter: BaseInv.                                   *)

LEMMA BaseHolds ==
    ASSUME TypeOK, AloneInv, NEW r \in Runners, Alive(r), NEW p, pc' = [pc EXCEPT ![r] = p],
           files'.base = "partial" => p = "baseline",
           p \in Prepared \/ mark' # "none" => files'.base = "full"
    PROVE  BaseInv'
  <1>1. pc'[r] = p /\ \A s \in Runners \ {r} : pc'[s] \notin Running
    BY OnlyMover
  <1>2. \A s \in Runners : pc'[s] \in Prepared => s = r
    BY <1>1 DEF Prepared, Running
  <1>3. QED
    BY <1>1, <1>2 DEF BaseInv

\* Only the runner that makes it sees a half copy.
LEMMA BaseWhole ==
    ASSUME TypeOK, AloneInv, BaseInv, NEW r \in Runners, Alive(r), pc[r] # "baseline"
    PROVE  files.base # "partial"
  BY DEF AloneInv, BaseInv, Alive, Running, InTry

\* A step that leaves the workspace's base as it is, of a runner that is not in the copy.
LEMMA BaseKept ==
    ASSUME TypeOK, AloneInv, BaseInv, NEW r \in Runners, Alive(r), pc[r] # "baseline",
           NEW p, pc' = [pc EXCEPT ![r] = p], p \in Prepared => pc[r] \in Prepared,
           mark' # "none" => mark # "none" \/ pc[r] \in Prepared,
           files'.base = files.base
    PROVE  BaseInv'
  <1>1. files.base # "partial"
    BY BaseWhole
  <1>2. p \in Prepared \/ mark' # "none" => files.base = "full"
    BY DEF BaseInv
  <1>3. QED
    BY <1>1, <1>2, BaseHolds

LEMMA BaseBody ==
    ASSUME TypeOK, AloneInv, BaseInv, NEW r \in Runners, BodyStep(r)
    PROVE  BaseInv'
  <1>0. Alive(r) /\ mark = "none" /\ UNCHANGED mark
    BY BodyEffect, BodyOpen
  <1>1. CASE Prepare(r)
    <2>1. files.base \in {"none", "full"}
      BY <1>0, <1>1, BaseWhole DEF TypeOK, Files, Prepare, Moves
    <2>2. UNCHANGED files
      BY <1>1 DEF Prepare, dirVars
    <2>3. \/ pc' = [pc EXCEPT ![r] = "copy"]
          \/ files.base = "full" /\ pc' = [pc EXCEPT ![r] = "load"]
      BY <1>1, <2>1 DEF Prepare, Moves
    <2>4. "copy" \notin Prepared
      BY DEF Prepared
    <2>5. QED
      BY <1>0, <2>1, <2>2, <2>3, <2>4, BaseHolds
  <1>2. CASE CopyStarter(r)
    <2>1. CASE files' # files
      <3>1. files'.base = "partial"
        BY <1>2, <2>1, WorkspaceWrites
      <3>2. pc' = [pc EXCEPT ![r] = "baseline"]
        BY <1>2, <2>1 DEF CopyStarter, Moves, dirVars
      <3>3. "baseline" \notin Prepared
        BY DEF Prepared
      <3>4. QED
        BY <1>0, <3>1, <3>2, <3>3, BaseHolds
    <2>2. CASE UNCHANGED files
      <3>1. pc[r] = "copy" /\ pc' = [pc EXCEPT ![r] = "abort"]
        BY ZenonT(60), <1>2, <2>2 DEF TypeOK, Files, CopyStarter, Rewrite, Moves
      <3>2. "abort" \notin Prepared
        BY DEF Prepared, InTry
      <3>3. QED
        BY <1>0, <2>2, <3>1, <3>2, BaseKept
    <2>3. QED
      BY <2>1, <2>2
  <1>3. CASE Baseline(r)
    <2>1. files'.base = "full" /\ pc' = [pc EXCEPT ![r] = "load"]
      BY <1>3, WorkspaceWrites DEF Baseline, Moves
    <2>2. QED
      BY <1>0, <2>1, BaseHolds
  <1>4. CASE ~Prepare(r) /\ ~CopyStarter(r) /\ ~Baseline(r)
    <2>1. pc[r] \in Prepared
      BY <1>4 DEF BodyStep, Load, MakeHome, LaunchHermes, WaitReturns, HermesTimeout, Reap,
                  RecordExit, RecordTiming, Collect, Patch, Grade, CollectGrade, Finish,
                  Moves, Prepared, InTry
    <2>2. files'.base = files.base
      <3>1. CASE Load(r) \/ LaunchHermes(r) \/ WaitReturns(r) \/ HermesTimeout(r)
        BY <3>1 DEF Load, LaunchHermes, WaitReturns, HermesTimeout, dirVars
      <3>2. CASE MakeHome(r) \/ Reap(r)
        BY <3>2, WorkspaceWrites
      <3>3. ASSUME NEW from, NEW to, RecordExit(r, from, to) \/ RecordTiming(r, from, to)
            PROVE  files'.base = files.base
        BY <3>3, TelemetryWrites
      <3>4. CASE Collect(r) \/ Patch(r) \/ Grade(r) \/ CollectGrade(r) \/ Finish(r)
        BY <3>4, GradingWrites
      <3>5. QED
        BY <1>4, <3>1, <3>2, <3>3, <3>4 DEF BodyStep
    <2>3. pc[r] # "baseline"
      BY <2>1 DEF Prepared
    <2>4. QED
      BY <1>0, <2>1, <2>2, <2>3, BodyEffect, BaseKept
  <1>5. QED
    BY <1>1, <1>2, <1>3, <1>4

LEMMA NextBaseInv ==
    ASSUME "baseline" \notin CrashAt \cup RaiseAt, TypeOK, AloneInv, BaseInv, [Next]_vars
    PROVE  BaseInv'
  <1>1. ASSUME NEW r \in Runners, Begin(r)
        PROVE  BaseInv'
    <2>1. UNCHANGED <<files, mark>>
      BY <1>1, BeginEffect
    <2>2. PICK p \in {"refused", "already", "lock", "mkdir"} : pc' = [pc EXCEPT ![r] = p]
      BY <1>1, BeginEffect
    <2>3. pc[r] = "idle" /\ p \notin Prepared
      BY <1>1, BeginEffect DEF Prepared, InTry
    <2>4. \A s \in Runners : /\ pc[s] = "baseline" => pc'[s] = "baseline"
                             /\ pc'[s] \in Prepared => pc[s] \in Prepared
      BY <2>2, <2>3 DEF TypeOK
    <2>5. QED
      BY <2>1, <2>4 DEF BaseInv
  <1>2. ASSUME NEW r \in Runners, AdmissionStep(r), ~Begin(r)
        PROVE  BaseInv'
    <2>1. Alive(r) /\ UNCHANGED <<files, mark>> /\ pc[r] # "baseline"
      BY <1>2, AdmittedEffect DEF Admitting
    <2>2. \E p : pc' = [pc EXCEPT ![r] = p] /\ p \notin Prepared
      BY <1>2, AdmittedEffect DEF Admitting, Prepared, InTry
    <2>3. QED
      BY <2>1, <2>2, BaseKept
  <1>3. ASSUME NEW r \in Runners, SealingStep(r)
        PROVE  BaseInv'
    <2>1. Alive(r) /\ UNCHANGED files
      BY <1>3, SealingEffect DEF Alive
    <2>2. pc[r] # "baseline"
      BY <1>3, NothingDenied DEF SealingStep, Unlock, WriteChecksums, Seal, ChmodTree,
                                 ChmodRoot, Abort, Crash, Moves
    <2>3. \E p : pc' = [pc EXCEPT ![r] = p] /\ (p \in Prepared => pc[r] \in Prepared)
      BY <1>3 DEF SealingStep, Unlock, WriteChecksums, Seal, ChmodTree, ChmodRoot, Abort,
                  Denied, Crash, Moves, Prepared, InTry
    <2>4. mark' # "none" => mark # "none" \/ pc[r] \in Prepared
      BY <1>3 DEF SealingStep, Unlock, WriteChecksums, Seal, ChmodTree, ChmodRoot, Abort,
                  Denied, Crash, Leaves, RewriteWith, Moves, Prepared, InTry, dirVars
    <2>5. QED
      BY <2>1, <2>2, <2>3, <2>4, BaseKept
  <1>4. ASSUME NEW r \in Runners, Raise(r)
        PROVE  BaseInv'
    <2>1. /\ files'.base = files.base /\ UNCHANGED mark /\ Alive(r) /\ pc[r] # "baseline"
          /\ pc' = [pc EXCEPT ![r] = "abort"]
      BY <1>4, RaiseEffect, EnvironmentWrites, GradingWrites DEF Alive, Running, Raise
    <2>2. "abort" \notin Prepared
      BY DEF Prepared, InTry
    <2>3. QED
      BY <2>1, <2>2, BaseKept
  <1>5. ASSUME NEW r \in Runners, Environment(r)
        PROVE  BaseInv'
    <2>1. files'.base = files.base
      <3>1. CASE AgentExit(r) \/ StrayEnds(r)
        BY <3>1 DEF AgentExit, StrayEnds, dirVars
      <3>2. QED
        BY <1>5, <3>1, EnvironmentWrites DEF Environment
    <2>2. QED
      BY <1>5, <2>1, EnvironmentEffect DEF BaseInv
  <1>6. CASE UNCHANGED vars
    BY <1>6 DEF BaseInv, vars, runnerVars, dirVars
  <1>7. QED
    BY <1>1, <1>2, <1>3, <1>4, <1>5, <1>6, NextSteps, BaseBody

\* Without overlap, and with no kill or failure in the copy of the starter, a run that is
\* past its baseline, and a marked directory, hold the whole starter.
THEOREM BaseCorrect ==
    ASSUME ~Overlap, "baseline" \notin CrashAt \cup RaiseAt
    PROVE  Spec => []BaseInv
  <1>1. Init => BaseInv
    BY DEF Init, BaseInv, NoFiles, Prepared, InTry
  <1>2. TypeOK /\ AloneInv /\ BaseInv /\ [Next]_vars => BaseInv'
    BY NextBaseInv
  <1>3. QED
    BY <1>1, <1>2, TypeCorrect, AloneCorrect, PTL DEF Spec

-----------------------------------------------------------------------------
(* Both processes' timings: TimingInv.                                     *)

Timed == {"exitHermes", "timingHermes", "collect", "patch", "grade", "grading",
          "exitGrader", "timingGrader"}

LEMMA TimingHolds ==
    ASSUME TypeOK, AloneInv, NEW r \in Runners, Alive(r), NEW p, pc' = [pc EXCEPT ![r] = p],
           files'.exit.hermes # NoHermes => "hermes" \in files'.timing \/ p = "timingHermes",
           files'.exit.grader # "none" => "grader" \in files'.timing \/ p = "timingGrader",
           p \in {"exitHermes", "timingHermes"} => "hermes" \in mem'[r].timing,
           p \in {"collect", "patch", "grade", "grading"} =>
               mem'[r].timing = files'.timing,
           p \in {"exitGrader", "timingGrader"} => mem'[r].timing = {"hermes", "grader"}
    PROVE  TimingInv'
  <1>1. pc'[r] = p /\ \A s \in Runners \ {r} : pc'[s] \notin Running
    BY OnlyMover
  <1>2. Timed \subseteq Running
    BY DEF Timed, Running, InTry
  <1>3. \A s \in Runners : pc'[s] \in Timed => s = r
    BY <1>1, <1>2
  <1>4. QED
    BY <1>1, <1>3 DEF TimingInv, Timed

\* Except between the two files, a recorded process has its timing recorded.
LEMMA TimingRecorded ==
    ASSUME TypeOK, AloneInv, TimingInv, NEW r \in Runners, Alive(r)
    PROVE  /\ files.exit.hermes # NoHermes /\ pc[r] # "timingHermes" => "hermes" \in files.timing
           /\ files.exit.grader # "none" /\ pc[r] # "timingGrader" => "grader" \in files.timing
  BY DEF AloneInv, TimingInv, Alive, Running, InTry

\* A step that leaves the telemetry as it is.
LEMMA TimingKept ==
    ASSUME TypeOK, AloneInv, TimingInv, NEW r \in Runners, Alive(r),
           pc[r] \notin {"timingHermes", "timingGrader"},
           NEW p, pc' = [pc EXCEPT ![r] = p], p \notin Timed,
           files'.exit = files.exit, files'.timing = files.timing
    PROVE  TimingInv'
  <1>1. /\ files'.exit.hermes # NoHermes => "hermes" \in files'.timing
        /\ files'.exit.grader # "none" => "grader" \in files'.timing
    BY TimingRecorded
  <1>2. QED
    BY <1>1, TimingHolds DEF Timed

LEMMA TimingBody ==
    ASSUME TypeOK, StatusInv, AloneInv, OnceInv, CleanInv, TimingInv, NEW r \in Runners,
           BodyStep(r)
    PROVE  TimingInv'
  <1>0. Alive(r)
    BY BodyEffect, BodyOpen
  <1>1. CASE \/ Prepare(r) \/ CopyStarter(r) \/ Baseline(r) \/ MakeHome(r)
             \/ LaunchHermes(r) \/ WaitReturns(r) \/ HermesTimeout(r) \/ Finish(r)
    <2>1. files'.exit = files.exit /\ files'.timing = files.timing
      <3>1. CASE UNCHANGED files
        BY <3>1
      <3>2. CASE files' # files
        BY <1>1, <3>2, WorkspaceWrites, GradingWrites
           DEF Prepare, LaunchHermes, WaitReturns, HermesTimeout, dirVars
      <3>3. QED
        BY <3>1, <3>2
    <2>2. /\ pc[r] \notin {"timingHermes", "timingGrader"}
          /\ \E p \in {"copy", "load", "baseline", "launch", "wait", "reap", "unlock", "abort"} :
                 pc' = [pc EXCEPT ![r] = p]
      <3>1. CASE HermesTimeout(r)
        BY <3>1 DEF HermesTimeout, runnerVars, TypeOK
      <3>2. QED
        BY <1>1, <3>1 DEF Prepare, CopyStarter, Baseline, MakeHome, LaunchHermes,
                          WaitReturns, Finish, Moves
    <2>3. \A p \in {"copy", "load", "baseline", "launch", "wait", "reap", "unlock", "abort"} :
              p \notin Timed
      BY DEF Timed
    <2>4. QED
      BY <1>0, <2>1, <2>2, <2>3, TimingKept
  <1>2. CASE Load(r)
    <2>1. UNCHANGED files /\ mem'[r].timing = files.timing
      BY <1>2, MemoryWrites DEF Load, dirVars
    <2>2. pc[r] = "load" /\ \E p \in {"home", "collect"} : pc' = [pc EXCEPT ![r] = p]
      BY <1>2 DEF Load, Moves
    <2>3. /\ files'.exit.hermes # NoHermes => "hermes" \in files'.timing
          /\ files'.exit.grader # "none" => "grader" \in files'.timing
      BY <1>0, <2>1, <2>2, TimingRecorded
    <2>4. QED
      BY <1>0, <2>1, <2>2, <2>3, TimingHolds
  <1>3. CASE Reap(r)
    <2>1. files'.exit = files.exit /\ files'.timing = files.timing
      BY <1>3, WorkspaceWrites
    <2>2. pc[r] = "reap"
      BY <1>3 DEF Reap, Moves
    <2>3. \/ pc' = [pc EXCEPT ![r] = "abort"]
          \/ pc' = [pc EXCEPT ![r] = "exitHermes"] /\ "hermes" \in mem'[r].timing
      BY <1>3, MemoryWrites
    <2>4. /\ files'.exit.hermes # NoHermes => "hermes" \in files'.timing
          /\ files'.exit.grader # "none" => "grader" \in files'.timing
      BY <1>0, <2>1, <2>2, TimingRecorded
    <2>5. QED
      BY <1>0, <2>3, <2>4, TimingHolds
  <1>4. CASE RecordExit(r, "exitHermes", "timingHermes")
    <2>1. files'.exit = mem[r].exit /\ UNCHANGED mem
      BY <1>4, TelemetryWrites DEF RecordExit
    <2>2. pc[r] = "exitHermes" /\ pc' = [pc EXCEPT ![r] = "timingHermes"]
      BY <1>4 DEF RecordExit, Moves
    <2>3. mem[r].exit.grader = "none" /\ "hermes" \in mem[r].timing
      BY <2>2 DEF CleanInv, TimingInv
    <2>4. QED
      BY <1>0, <2>1, <2>2, <2>3, TimingHolds
  <1>5. CASE RecordTiming(r, "timingHermes", "collect")
    <2>1. files'.timing = mem[r].timing /\ files'.exit = files.exit /\ UNCHANGED mem
      BY <1>5, TelemetryWrites DEF RecordTiming
    <2>2. pc[r] = "timingHermes" /\ pc' = [pc EXCEPT ![r] = "collect"]
      BY <1>5 DEF RecordTiming, Moves
    <2>3. /\ mem[r].exit.grader = "none" /\ "hermes" \in mem[r].timing
          /\ files.exit = mem[r].exit
      BY <2>2 DEF CleanInv, TimingInv, OnceInv, Recorded
    <2>4. QED
      BY <1>0, <2>1, <2>2, <2>3, TimingHolds
  <1>6. CASE Collect(r) \/ Patch(r) \/ Grade(r)
    <2>1. files'.exit = files.exit /\ files'.timing = files.timing /\ UNCHANGED mem
      BY <1>6, GradingWrites DEF Collect, Patch, Grade
    <2>2. /\ pc[r] \in {"collect", "patch", "grade"}
          /\ \E p \in {"patch", "grade", "grading", "finish", "abort"} :
                 pc' = [pc EXCEPT ![r] = p]
      BY <1>6 DEF Collect, Patch, Grade, Moves
    <2>3. mem[r].timing = files.timing
      BY <2>2 DEF TimingInv
    <2>4. /\ files'.exit.hermes # NoHermes => "hermes" \in files'.timing
          /\ files'.exit.grader # "none" => "grader" \in files'.timing
      BY <1>0, <2>1, <2>2, TimingRecorded
    <2>5. QED
      BY <1>0, <2>1, <2>2, <2>3, <2>4, TimingHolds
  <1>7. CASE CollectGrade(r)
    <2>1. /\ files'.exit = files.exit /\ files'.timing = files.timing
          /\ mem'[r].timing = mem[r].timing \cup {"grader"}
      BY <1>7, GradingWrites, MemoryWrites
    <2>2. pc[r] = "grading" /\ pc' = [pc EXCEPT ![r] = "exitGrader"]
      BY <1>7 DEF CollectGrade, Moves
    <2>3. /\ files'.exit.hermes # NoHermes => "hermes" \in files'.timing
          /\ files'.exit.grader # "none" => "grader" \in files'.timing
      BY <1>0, <2>1, <2>2, TimingRecorded
    <2>4. mem[r].timing = files.timing /\ files.exit.hermes # NoHermes
      BY <2>2 DEF TimingInv, OnceInv, Recorded
    <2>5. mem[r].timing \subseteq {"hermes", "grader"}
      BY DEF TypeOK, Memory
    <2>6. mem'[r].timing = {"hermes", "grader"}
      BY <2>1, <2>3, <2>4, <2>5
    <2>7. QED
      BY <1>0, <2>2, <2>3, <2>6, TimingHolds
  <1>8. CASE RecordExit(r, "exitGrader", "timingGrader")
    <2>1. /\ files'.exit = mem[r].exit /\ files'.timing = files.timing /\ UNCHANGED mem
      BY <1>8, TelemetryWrites DEF RecordExit
    <2>2. pc[r] = "exitGrader" /\ pc' = [pc EXCEPT ![r] = "timingGrader"]
      BY <1>8 DEF RecordExit, Moves
    <2>3. mem[r].timing = {"hermes", "grader"} /\ files.exit.hermes # NoHermes
      BY <2>2 DEF TimingInv, OnceInv
    <2>4. "hermes" \in files.timing
      BY <1>0, <2>2, <2>3, TimingRecorded
    <2>5. QED
      BY <1>0, <2>1, <2>2, <2>3, <2>4, TimingHolds
  <1>9. CASE RecordTiming(r, "timingGrader", "finish")
    <2>1. files'.timing = mem[r].timing
      BY <1>9, TelemetryWrites
    <2>2. pc[r] = "timingGrader" /\ pc' = [pc EXCEPT ![r] = "finish"]
      BY <1>9 DEF RecordTiming, Moves
    <2>3. mem[r].timing = {"hermes", "grader"}
      BY <2>2 DEF TimingInv
    <2>4. QED
      BY <1>0, <2>1, <2>2, <2>3, TimingHolds
  <1>10. QED
    BY <1>1, <1>2, <1>3, <1>4, <1>5, <1>6, <1>7, <1>8, <1>9 DEF BodyStep

LEMMA NextTimingInv ==
    ASSUME {"timingHermes", "timingGrader"} \cap (CrashAt \cup RaiseAt) = {},
           TypeOK, StatusInv, AloneInv, OnceInv, CleanInv, TimingInv, [Next]_vars
    PROVE  TimingInv'
  <1>1. ASSUME NEW r \in Runners, Begin(r)
        PROVE  TimingInv'
    <2>1. UNCHANGED <<files, mem>>
      BY <1>1, BeginEffect
    <2>2. PICK p \in {"refused", "already", "lock", "mkdir"} : pc' = [pc EXCEPT ![r] = p]
      BY <1>1, BeginEffect
    <2>3. pc[r] = "idle" /\ p \notin Timed
      BY <1>1, BeginEffect DEF Timed
    <2>4. \A s \in Runners : /\ pc[s] \in Timed => pc'[s] = pc[s]
                             /\ pc'[s] \in Timed => pc[s] = pc'[s]
      BY <2>2, <2>3 DEF TypeOK, Timed
    <2>5. QED
      BY <2>1, <2>4 DEF TimingInv, Timed
  <1>2. ASSUME NEW r \in Runners, AdmissionStep(r), ~Begin(r)
        PROVE  TimingInv'
    <2>1. /\ Alive(r) /\ UNCHANGED files
          /\ pc[r] \notin {"timingHermes", "timingGrader"}
      BY <1>2, AdmittedEffect DEF Admitting
    <2>2. \E p : pc' = [pc EXCEPT ![r] = p] /\ p \notin Timed
      BY <1>2, AdmittedEffect DEF Admitting, Timed
    <2>3. QED
      BY <2>1, <2>2, TimingKept
  <1>3. ASSUME NEW r \in Runners, SealingStep(r)
        PROVE  TimingInv'
    <2>1. Alive(r) /\ UNCHANGED files
      BY <1>3, SealingEffect DEF Alive
    <2>2. pc[r] \notin {"timingHermes", "timingGrader"}
      BY <1>3, NothingDenied DEF SealingStep, Unlock, WriteChecksums, Seal, ChmodTree,
                                 ChmodRoot, Abort, Crash, Moves
    <2>3. \E p : pc' = [pc EXCEPT ![r] = p] /\ p \notin Timed
      BY <1>3, SealingEffect DEF Sealing, Timed
    <2>4. QED
      BY <2>1, <2>2, <2>3, TimingKept
  <1>4. ASSUME NEW r \in Runners, Raise(r)
        PROVE  TimingInv'
    <2>1. /\ files'.exit = files.exit /\ files'.timing = files.timing /\ Alive(r)
          /\ pc' = [pc EXCEPT ![r] = "abort"]
          /\ pc[r] \notin {"timingHermes", "timingGrader"}
      BY <1>4, RaiseEffect, EnvironmentWrites, GradingWrites DEF Alive, Running, Raise
    <2>2. "abort" \notin Timed
      BY DEF Timed
    <2>3. QED
      BY <2>1, <2>2, TimingKept
  <1>5. ASSUME NEW r \in Runners, Environment(r)
        PROVE  TimingInv'
    <2>1. files'.exit = files.exit /\ files'.timing = files.timing
      <3>1. CASE AgentExit(r) \/ StrayEnds(r)
        BY <3>1 DEF AgentExit, StrayEnds, dirVars
      <3>2. QED
        BY <1>5, <3>1, EnvironmentWrites DEF Environment
    <2>2. QED
      BY <1>5, <2>1, EnvironmentEffect DEF TimingInv
  <1>6. CASE UNCHANGED vars
    BY <1>6 DEF TimingInv, vars, runnerVars, dirVars
  <1>7. QED
    BY <1>1, <1>2, <1>3, <1>4, <1>5, <1>6, NextSteps, TimingBody

\* Without overlap, and with no kill or failure between the two telemetry files, a process
\* whose exit status is recorded has its timings recorded too.
THEOREM TimingCorrect ==
    ASSUME ~Overlap, {"timingHermes", "timingGrader"} \cap (CrashAt \cup RaiseAt) = {}
    PROVE  Spec => []TimingInv
  <1>1. Init => TimingInv
    BY DEF Init, TimingInv, NoFiles, NoExit
  <1>2. TypeOK /\ StatusInv /\ AloneInv /\ OnceInv /\ CleanInv /\ TimingInv /\ [Next]_vars
        => TimingInv'
    BY NextTimingInv
  <1>3. QED
    BY <1>1, <1>2, TypeCorrect, StatusCorrect, AloneCorrect, OnceCorrect, CleanCorrect, PTL
       DEF Spec

-----------------------------------------------------------------------------
(* Whose temporary files and private indexes lie about: LitterInv.         *)

\* A step of one runner that leaves nothing of another's.
LEMMA LitterKept ==
    ASSUME TypeOK, LitterInv, NEW r \in Runners, NEW p, pc' = [pc EXCEPT ![r] = p],
           litter' \subseteq litter \cup {r},
           r \in litter' => p \in {"patch", "abort", "dead", "failed"},
           mark' # "none" => mark # "none" /\ (r \in litter' => p \in {"dead", "failed"})
    PROVE  LitterInv'
  <1>1. pc'[r] = p /\ \A s \in Runners \ {r} : pc'[s] = pc[s]
    BY DEF TypeOK
  <1>2. QED
    BY <1>1 DEF TypeOK, LitterInv

\* A runner that is not in the way of any other's leavings.
LEMMA LitterFree ==
    ASSUME TypeOK, LitterInv, NEW r \in Runners, NEW p, pc' = [pc EXCEPT ![r] = p],
           UNCHANGED litter, pc[r] \notin {"patch", "abort", "dead", "failed"},
           mark' # "none" => mark # "none"
    PROVE  LitterInv'
  <1>1. r \notin litter
    BY DEF LitterInv
  <1>2. QED
    BY <1>1, LitterKept

LEMMA LitterBody ==
    ASSUME TypeOK, AloneInv, LitterInv, NEW r \in Runners, BodyStep(r)
    PROVE  LitterInv'
  <1>0. mark' = "none" /\ ~rootRO /\ pc[r] \in Body
    BY BodyEffect, BodyOpen
  <1>1. CASE Collect(r)
    <2>1. CASE pc' = [pc EXCEPT ![r] = "patch"] /\ litter' = litter \cup {r}
      BY <1>0, <2>1, LitterKept
    <2>2. CASE pc' = [pc EXCEPT ![r] = "grade"] /\ litter' = litter \ {r}
      BY <1>0, <2>2, LitterKept
    <2>3. QED
      BY <1>1, <2>1, <2>2 DEF Collect, Captured, RewriteWith, Moves
  <1>2. CASE Patch(r)
    <2>1. pc' = [pc EXCEPT ![r] = "grade"] /\ litter' = litter \ {r}
      BY <1>0, <1>2 DEF Patch, Captured, RewriteWith, Moves
    <2>2. QED
      BY <1>0, <2>1, LitterKept
  <1>3. CASE ~Collect(r) /\ ~Patch(r)
    <2>1. UNCHANGED litter
      BY <1>3 DEF BodyStep, Prepare, CopyStarter, Baseline, Load, MakeHome, LaunchHermes,
                  WaitReturns, HermesTimeout, Reap, RecordExit, RecordTiming, Grade,
                  CollectGrade, Finish, Rewrite, dirVars
    <2>2. pc[r] \notin {"patch", "abort", "dead", "failed"}
      <3>1. pc[r] # "patch"
        BY <1>3 DEF BodyStep, Prepare, CopyStarter, Baseline, Load, MakeHome, LaunchHermes,
                    WaitReturns, HermesTimeout, Reap, RecordExit, RecordTiming, Grade,
                    CollectGrade, Finish, Moves
      <3>2. QED
        BY <1>0, <3>1 DEF Body, InTry
    <2>3. \E p : pc' = [pc EXCEPT ![r] = p]
      BY BodyEffect
    <2>4. QED
      BY <1>0, <2>1, <2>2, <2>3, LitterFree
  <1>4. QED
    BY <1>1, <1>2, <1>3

LEMMA LitterSealing ==
    ASSUME TypeOK, AloneInv, LitterInv, NEW r \in Runners, SealingStep(r)
    PROVE  LitterInv'
  <1>0. Alive(r)
    BY SealingEffect DEF Alive
  <1>1. CASE Seal(r)
    <2>1. /\ UNCHANGED litter /\ pc[r] = "seal" /\ pc' = [pc EXCEPT ![r] = "chmodTree"]
      BY <1>1 DEF Seal, Moves
    <2>2. \A s \in litter : s # r /\ pc[s] \in {"dead", "failed"}
      BY <1>0, <2>1 DEF TypeOK, LitterInv, AloneInv, Alive, Running, InTry
    <2>3. QED
      BY <2>1, <2>2 DEF TypeOK, LitterInv
  <1>2. CASE Abort(r)
    <2>1. UNCHANGED <<litter, mark>> /\ pc' = [pc EXCEPT ![r] = "failed"]
      BY <1>2 DEF Abort, Moves
    <2>2. QED
      BY <2>1, LitterKept
  <1>3. CASE Denied(r)
    <2>1. /\ UNCHANGED <<litter, mark>> /\ rootRO /\ pc[r] \in Writes
          /\ pc' = [pc EXCEPT ![r] = "abort"]
      BY <1>3 DEF Denied, dirVars
    <2>2. rootRO => mark # "none"
      BY DEF AloneInv
    <2>3. FALSE
      BY <1>0, <2>1, <2>2 DEF AloneInv, Writes
    <2>4. QED
      BY <2>3
  <1>4. CASE Crash(r)
    <2>1. /\ litter' \subseteq litter \cup {r} /\ UNCHANGED mark
          /\ pc' = [pc EXCEPT ![r] = "dead"]
      BY <1>4 DEF Crash, Leaves, RewriteWith, dirVars
    <2>2. QED
      BY <2>1, LitterKept
  <1>5. CASE Unlock(r) \/ WriteChecksums(r) \/ ChmodTree(r) \/ ChmodRoot(r)
    <2>1. UNCHANGED litter /\ pc[r] \in {"unlock", "sums", "chmodTree", "chmodRoot"}
      BY <1>5 DEF Unlock, WriteChecksums, ChmodTree, ChmodRoot, Moves
    <2>2. mark' # "none" => mark # "none"
      BY <1>5 DEF Unlock, WriteChecksums, ChmodTree, ChmodRoot
    <2>3. \E p : pc' = [pc EXCEPT ![r] = p]
      BY SealingEffect
    <2>4. pc[r] \notin {"patch", "abort", "dead", "failed"}
      BY <2>1
    <2>5. QED
      BY <2>1, <2>2, <2>3, <2>4, LitterFree
  <1>6. QED
    BY <1>1, <1>2, <1>3, <1>4, <1>5 DEF SealingStep

LEMMA NextLitterInv ==
    ASSUME TypeOK, AloneInv, LitterInv, [Next]_vars
    PROVE  LitterInv'
  <1>1. ASSUME NEW r \in Runners, AdmissionStep(r)
        PROVE  LitterInv'
    <2>1. /\ UNCHANGED <<litter, mark>> /\ pc[r] \in Admitting
          /\ \E p : pc' = [pc EXCEPT ![r] = p]
      BY <1>1, AdmissionEffect
    <2>2. pc[r] \notin {"patch", "abort", "dead", "failed"}
      BY <2>1 DEF Admitting
    <2>3. QED
      BY <2>1, <2>2, LitterFree
  <1>2. ASSUME NEW r \in Runners, Raise(r)
        PROVE  LitterInv'
    <2>1. /\ Alive(r) /\ UNCHANGED mark /\ pc[r] \in InTry
          /\ pc' = [pc EXCEPT ![r] = "abort"]
      BY <1>2, RaiseEffect DEF Alive, Running
    <2>2. litter' \subseteq litter \cup {r}
      BY <1>2 DEF Raise, Leaves, DropIndex, RewriteWith
    <2>3. ASSUME mark # "none" PROVE r \notin litter'
      <3>1. pc[r] \in {"chmodTree", "chmodRoot"}
        BY <2>1, <2>3 DEF AloneInv, InTry
      <3>2. UNCHANGED litter
        BY <1>2, <3>1 DEF Raise, Leaves, Temporary
      <3>3. QED
        BY <3>1, <3>2 DEF LitterInv
    <2>4. QED
      BY <2>1, <2>2, <2>3, LitterKept
  <1>3. ASSUME NEW r \in Runners, Environment(r)
        PROVE  LitterInv'
    BY <1>3, EnvironmentEffect DEF LitterInv
  <1>4. CASE UNCHANGED vars
    BY <1>4 DEF LitterInv, vars, runnerVars, dirVars
  <1>5. QED
    BY <1>1, <1>2, <1>3, <1>4, NextSteps, LitterBody, LitterSealing

\* One invocation at a time: what lies about of temporary files and private indexes is the
\* private index of a runner that takes evidence, and the leavings of runners that stopped.
THEOREM LitterCorrect ==
    ASSUME ~Overlap
    PROVE  Spec => []LitterInv
  <1>1. Init => LitterInv
    BY DEF Init, LitterInv
  <1>2. TypeOK /\ AloneInv /\ LitterInv /\ [Next]_vars => LitterInv'
    BY NextLitterInv
  <1>3. QED
    BY <1>1, <1>2, TypeCorrect, AloneCorrect, PTL DEF Spec

\* One invocation at a time, none of which is killed or fails in the copy of the starter
\* or between the two telemetry files: a directory that could be verified holds no home, no
\* grader's copy and no lock, a whole copy of the starter and both processes' records, and
\* of temporary files and private indexes only those of runners that were killed or failed.
THEOREM SealedClean ==
    ASSUME ~Overlap,
           {"baseline", "timingHermes", "timingGrader"} \cap (CrashAt \cup RaiseAt) = {}
    PROVE  Spec => []SealedIsClean
  <1>1. TypeOK /\ AloneInv /\ OnceInv /\ CleanInv /\ BaseInv /\ TimingInv /\ LitterInv
        => SealedIsClean
    <2>1. SUFFICES ASSUME TypeOK, AloneInv, OnceInv, CleanInv, BaseInv, TimingInv,
                          LitterInv, mark = "match"
                   PROVE  /\ lock = NoLock /\ ~files.home /\ files.gws = NoContent
                          /\ files.base = "full"
                          /\ files.exit.hermes # NoHermes /\ files.exit.grader # "none"
                          /\ files.timing = {"hermes", "grader"}
                          /\ \A r \in litter : pc[r] \in {"dead", "failed"}
      BY DEF SealedIsClean
    <2>2. /\ lock = NoLock /\ files.exit.hermes # NoHermes /\ files.exit.grader # "none"
          /\ files.base = "full"
      BY <2>1 DEF CleanInv, BaseInv
    <2>3. ~files.home /\ files.gws = NoContent
      BY <2>1, <2>2 DEF OnceInv, CleanInv
    <2>4. \A r \in Runners : pc[r] \notin {"timingHermes", "timingGrader"}
      BY <2>1 DEF AloneInv, Alive, Running, InTry
    <2>5. files.timing \subseteq {"hermes", "grader"}
      BY <2>1 DEF TypeOK, Files
    <2>6. files.timing = {"hermes", "grader"}
      BY <2>1, <2>2, <2>4, <2>5 DEF TimingInv
    <2>7. \A r \in litter : pc[r] \in {"dead", "failed"}
      BY <2>1 DEF LitterInv
    <2>8. QED
      BY <2>2, <2>3, <2>6, <2>7
  <1>2. /\ "baseline" \notin CrashAt \cup RaiseAt
        /\ {"timingHermes", "timingGrader"} \cap (CrashAt \cup RaiseAt) = {}
    OBVIOUS
  <1>3. QED
    BY <1>1, <1>2, TypeCorrect, AloneCorrect, OnceCorrect, CleanCorrect, BaseCorrect,
       TimingCorrect, LitterCorrect, PTL

-----------------------------------------------------------------------------
(* The seal vouches for the artifacts: IntactInv.                          *)

LEMMA IntactHolds ==
    ASSUME TypeOK, AloneInv, NEW r \in Runners, Alive(r), NEW p, pc' = [pc EXCEPT ![r] = p],
           strays' = {}, p = "seal" => sums' = {Digested'},
           mark' # "none" => sums' = {Digested'} /\ mark' = "match"
    PROVE  IntactInv'
  <1>1. pc'[r] = p /\ \A s \in Runners \ {r} : pc'[s] \notin Running
    BY OnlyMover
  <1>2. \A s \in Runners : pc'[s] = "seal" => s = r
    BY <1>1 DEF Running, InTry
  <1>3. QED
    BY <1>1, <1>2 DEF IntactInv

LEMMA IntactSealing ==
    ASSUME TypeOK, AloneInv, IntactInv, NEW r \in Runners, SealingStep(r)
    PROVE  IntactInv'
  <1>0. Alive(r) /\ UNCHANGED <<files, strays>>
    BY SealingEffect DEF Alive
  <1>1. CASE WriteChecksums(r)
    <2>1. /\ mark = "none" /\ sums' = {Digested} /\ UNCHANGED litter
          /\ pc' = [pc EXCEPT ![r] = "seal"]
      BY <1>1, BodyOpen DEF WriteChecksums, Moves
    <2>2. mark' = "none" /\ Digested' = Digested
      BY <1>0, <1>1, <2>1 DEF WriteChecksums, Digested
    <2>3. QED
      BY <1>0, <2>1, <2>2, IntactHolds DEF IntactInv
  <1>2. CASE Seal(r)
    <2>1. /\ pc[r] = "seal" /\ pc' = [pc EXCEPT ![r] = "chmodTree"] /\ mark' = "match"
          /\ UNCHANGED <<sums, litter>>
      BY <1>2 DEF Seal, Moves
    <2>2. sums' = {Digested'}
      BY <1>0, <2>1 DEF IntactInv, Digested
    <2>3. QED
      BY <1>0, <2>1, <2>2, IntactHolds DEF IntactInv
  <1>3. CASE ~WriteChecksums(r) /\ ~Seal(r)
    <2>1. /\ UNCHANGED <<mark, sums>>
          /\ \E p : pc' = [pc EXCEPT ![r] = p] /\ p # "seal"
      BY <1>3 DEF SealingStep, Unlock, ChmodTree, ChmodRoot, Abort, Denied, Crash, Leaves,
                  RewriteWith, Moves, dirVars
    <2>2. ASSUME mark # "none" PROVE Digested' = Digested
      <3>1. pc[r] \notin Temporary
        BY <1>0, <2>2 DEF AloneInv, Temporary
      <3>2. UNCHANGED litter
        BY <1>3, <3>1 DEF SealingStep, Unlock, ChmodTree, ChmodRoot, Abort, Denied, Crash,
                          Leaves, dirVars
      <3>3. QED
        BY <1>0, <3>2 DEF Digested
    <2>3. QED
      BY <1>0, <2>1, <2>2, IntactHolds DEF IntactInv
  <1>4. QED
    BY <1>1, <1>2, <1>3

LEMMA NextIntactInv ==
    ASSUME ~Strays, TypeOK, HomeInv, AloneInv, OnceInv, CleanInv, GraderInv, IntactInv,
           [Next]_vars
    PROVE  IntactInv'
  <1>1. ASSUME NEW r \in Runners, Begin(r)
        PROVE  IntactInv'
    <2>1. UNCHANGED <<sums, mark, strays>> /\ Digested' = Digested
      BY <1>1, BeginEffect DEF Digested
    <2>2. \A s \in Runners : pc'[s] = "seal" => pc[s] = "seal"
      BY <1>1, BeginEffect DEF TypeOK
    <2>3. QED
      BY <2>1, <2>2 DEF IntactInv
  <1>2. ASSUME NEW r \in Runners, AdmissionStep(r), ~Begin(r)
        PROVE  IntactInv'
    <2>1. Alive(r) /\ UNCHANGED <<sums, mark, strays>> /\ Digested' = Digested
      BY <1>2, AdmittedEffect DEF Digested
    <2>2. \E p : pc' = [pc EXCEPT ![r] = p] /\ p # "seal"
      BY <1>2, AdmittedEffect DEF Admitting
    <2>3. QED
      BY <2>1, <2>2, IntactHolds DEF IntactInv
  <1>3. ASSUME NEW r \in Runners, BodyStep(r)
        PROVE  IntactInv'
    <2>1. Alive(r) /\ mark' = "none"
      BY <1>3, BodyEffect, BodyOpen
    <2>2. strays' = {}
      BY <1>3 DEF IntactInv, BodyStep, Prepare, CopyStarter, Baseline, Load, MakeHome,
                  LaunchHermes, WaitReturns, HermesTimeout, ForcedEnd, Reap, RecordExit,
                  RecordTiming, Collect, Patch, Grade, CollectGrade, Finish, procVars
    <2>3. \E p : pc' = [pc EXCEPT ![r] = p] /\ p # "seal"
      BY <1>3, BodyEffect DEF Body, Sealing
    <2>4. QED
      BY <2>1, <2>2, <2>3, IntactHolds
  <1>4. ASSUME NEW r \in Runners, Raise(r)
        PROVE  IntactInv'
    <2>1. /\ Alive(r) /\ UNCHANGED <<sums, mark>> /\ pc[r] \in InTry
          /\ pc' = [pc EXCEPT ![r] = "abort"]
      BY <1>4, RaiseEffect DEF Alive, Running
    <2>2. strays' = {}
      BY <1>4 DEF IntactInv, Raise, ForcedEnd
    <2>3. ASSUME mark # "none" PROVE Digested' = Digested
      <3>1. pc[r] \in {"chmodTree", "chmodRoot"}
        BY <2>1, <2>3 DEF AloneInv, InTry
      <3>2. UNCHANGED <<files, litter>>
        BY <1>4, <3>1 DEF Raise, Leaves, Temporary
      <3>3. QED
        BY <3>2 DEF Digested
    <2>4. QED
      BY <2>1, <2>2, <2>3, IntactHolds DEF IntactInv
  <1>5. ASSUME NEW r \in Runners, Environment(r)
        PROVE  IntactInv'
    <2>1. UNCHANGED <<pc, sums, mark>>
      BY <1>5, EnvironmentEffect
    <2>2. strays' = {}
      BY <1>5 DEF IntactInv, Environment, AgentHook, AgentConstruct, AgentExit, Edit,
                  StrayEnds, GraderEnds, procVars
    <2>3. ASSUME mark # "none" \/ \E s \in Runners : pc[s] = "seal"
          PROVE  Digested' = Digested
      <3>1. files.exit.hermes # NoHermes
        BY <2>3 DEF CleanInv, OnceInv, Recorded, Sealing
      <3>2. agent[r] \notin LiveAgent
        BY <3>1 DEF OnceInv, HomeInv, Holds
      <3>3. pc[r] # "grading"
        BY <2>3 DEF AloneInv, Alive, Running, InTry
      <3>4. grader[r] \notin {"intact", "hurt"}
        BY <3>3 DEF GraderInv
      <3>5. UNCHANGED files
        BY <1>5, <3>2, <3>4 DEF IntactInv, Environment, AgentHook, AgentConstruct, AgentExit,
                                Edit, StrayEnds, GraderEnds, dirVars, LiveAgent
      <3>6. QED
        BY <1>5, <3>5, EnvironmentEffect DEF Digested
    <2>4. QED
      BY <2>1, <2>2, <2>3 DEF IntactInv
  <1>6. CASE UNCHANGED vars
    BY <1>6 DEF IntactInv, Digested, vars, runnerVars, procVars, dirVars
  <1>7. QED
    BY <1>1, <1>2, <1>3, <1>4, <1>5, <1>6, NextSteps, IntactSealing

\* Without overlap, strays or a kill while a grader is at work, nothing edits the artifacts
\* between their checksums and the completion marker, nor after it.
THEOREM IntactCorrect ==
    ASSUME ~Overlap, ~Strays, "grading" \notin CrashAt
    PROVE  Spec => []IntactInv
  <1>1. Init => IntactInv
    BY DEF Init, IntactInv
  <1>2. /\ TypeOK /\ HomeInv /\ AloneInv /\ OnceInv /\ CleanInv /\ GraderInv /\ IntactInv
        /\ [Next]_vars
        => IntactInv'
    BY NextIntactInv
  <1>3. QED
    BY <1>1, <1>2, TypeCorrect, HomeCorrect, AloneCorrect, OnceCorrect, CleanCorrect,
       GraderCorrect, PTL DEF Spec

\* One invocation at a time, none killed while its grader is at work, and agents whose
\* tools end with them: while the completion marker is there, the artifacts are those
\* that were checksummed.
THEOREM CompleteIntact ==
    ASSUME ~Overlap, ~Strays, "grading" \notin CrashAt
    PROVE  Spec => []CompleteIsIntact
  <1>1. IntactInv => CompleteIsIntact
    BY DEF IntactInv, CompleteIsIntact, Intact
  <1>2. QED
    BY <1>1, IntactCorrect, PTL

-----------------------------------------------------------------------------
(* Every agent starts from a whole starter: WholeInv.                      *)

\* No agent was launched in a workspace that is not a whole, committed starter.
WholeInv == files.base # "full" => \A r \in Runners : agent[r] = "none"

LEMMA NextWholeInv ==
    ASSUME TypeOK, BaseInv, WholeInv, [Next]_vars
    PROVE  WholeInv'
  <1>1. ASSUME UNCHANGED agent, files'.base = files.base
        PROVE  WholeInv'
    BY <1>1 DEF WholeInv
  <1>2. ASSUME files.base = "full", files'.base = files.base
        PROVE  WholeInv'
    BY <1>2 DEF WholeInv
  <1>3. ASSUME NEW r \in Runners, AdmissionStep(r) \/ SealingStep(r)
        PROVE  WholeInv'
    <2>1. UNCHANGED <<agent, files>>
      BY <1>3, AdmissionEffect, SealingEffect
    <2>2. QED
      BY <1>1, <2>1
  <1>4. ASSUME NEW r \in Runners, BodyStep(r)
        PROVE  WholeInv'
    <2>1. CASE Prepare(r) \/ Load(r) \/ WaitReturns(r)
      BY <1>1, <2>1 DEF Prepare, Load, WaitReturns, procVars, dirVars
    <2>2. CASE CopyStarter(r)
      <3>1. CASE UNCHANGED files
        BY <1>1, <2>2, <3>1 DEF CopyStarter, procVars
      <3>2. CASE files' # files
        <4>1. files.base = "none" /\ UNCHANGED agent
          BY <2>2, <3>2, WorkspaceWrites DEF CopyStarter, procVars
        <4>2. QED
          BY <4>1 DEF WholeInv
      <3>3. QED
        BY <3>1, <3>2
    <2>3. CASE Baseline(r)
      BY <2>3, WorkspaceWrites DEF WholeInv
    <2>4. CASE LaunchHermes(r) \/ HermesTimeout(r)
      <3>1. pc[r] \in Prepared /\ UNCHANGED files
        BY <2>4 DEF LaunchHermes, HermesTimeout, Moves, Prepared, InTry, dirVars
      <3>2. QED
        BY <1>2, <3>1 DEF BaseInv
    <2>5. CASE MakeHome(r) \/ Reap(r)
      BY <1>1, <2>5, WorkspaceWrites DEF MakeHome, Reap, procVars
    <2>6. ASSUME NEW from, NEW to, RecordExit(r, from, to) \/ RecordTiming(r, from, to)
          PROVE  WholeInv'
      BY <1>1, <2>6, TelemetryWrites DEF RecordExit, RecordTiming, procVars
    <2>7. CASE Collect(r) \/ Patch(r) \/ Grade(r) \/ CollectGrade(r) \/ Finish(r)
      BY <1>1, <2>7, GradingWrites DEF Collect, Patch, Grade, CollectGrade, Finish, procVars
    <2>8. QED
      BY <1>4, <2>1, <2>2, <2>3, <2>4, <2>5, <2>6, <2>7 DEF BodyStep
  <1>5. ASSUME NEW r \in Runners, Raise(r)
        PROVE  WholeInv'
    <2>1. files'.base = files.base
      BY <1>5, EnvironmentWrites, GradingWrites
    <2>2. CASE pc[r] = "wait"
      <3>1. files.base = "full"
        BY <2>2 DEF BaseInv, Prepared, InTry
      <3>2. QED
        BY <1>2, <2>1, <3>1
    <2>3. CASE pc[r] # "wait"
      BY <1>1, <1>5, <2>1, <2>3 DEF Raise
    <2>4. QED
      BY <2>2, <2>3
  <1>6. ASSUME NEW r \in Runners, Environment(r)
        PROVE  WholeInv'
    <2>1. CASE AgentHook(r) \/ AgentConstruct(r) \/ AgentExit(r)
      <3>1. agent[r] # "none" /\ files'.base = files.base
        BY <2>1, EnvironmentWrites DEF AgentHook, AgentConstruct, AgentExit, LiveAgent,
                                       dirVars
      <3>2. QED
        BY <1>2, <3>1 DEF WholeInv
    <2>2. CASE Edit(r) \/ StrayEnds(r) \/ GraderEnds(r)
      BY <1>1, <2>2, EnvironmentWrites DEF Edit, StrayEnds, GraderEnds, procVars, dirVars
    <2>3. QED
      BY <1>6, <2>1, <2>2 DEF Environment
  <1>7. CASE UNCHANGED vars
    BY <1>1, <1>7 DEF vars, procVars, dirVars
  <1>8. QED
    BY <1>3, <1>4, <1>5, <1>6, <1>7, NextSteps

\* The complement of the one refutation of AgentStartsFromBaseline: one invocation at a
\* time, none killed or failing between the first byte of the starter's copy and its
\* baseline commit: an agent is only ever at work in a whole, committed starter.
THEOREM AgentsStartWhole ==
    ASSUME ~Overlap, "baseline" \notin CrashAt \cup RaiseAt
    PROVE  Spec => []AgentStartsFromBaseline
  <1>1. Init => WholeInv
    BY DEF Init, WholeInv
  <1>2. TypeOK /\ BaseInv /\ WholeInv /\ [Next]_vars => WholeInv'
    BY NextWholeInv
  <1>3. WholeInv => AgentStartsFromBaseline
    BY DEF WholeInv, AgentStartsFromBaseline, LiveAgent
  <1>4. "baseline" \notin CrashAt \cup RaiseAt
    OBVIOUS
  <1>5. QED
    BY <1>1, <1>2, <1>3, <1>4, TypeCorrect, BaseCorrect, PTL DEF Spec

-----------------------------------------------------------------------------
(* A complete directory is read-only: ReadOnlyInv.                         *)

\* A complete directory is read-only, or the runner that sealed it is about to make it so.
ReadOnlyInv ==
    /\ mark # "none" =>
         \/ treeRO /\ rootRO
         \/ \E r \in Runners : pc[r] = "chmodTree"
         \/ treeRO /\ \E r \in Runners : pc[r] = "chmodRoot"
    /\ \A r \in Runners : pc[r] \in {"completed", "already"} =>
                              mark # "none" /\ treeRO /\ rootRO

\* A complete directory on which nobody works is read-only, and so is one that an
\* invocation reported as complete.
CompleteIsReadOnly ==
    /\ mark # "none" /\ (\A r \in Runners : ~Alive(r)) => treeRO /\ rootRO
    /\ \A r \in Runners : pc[r] \in {"completed", "already"} => mark # "none" /\ treeRO /\ rootRO

\* A step of the one runner that is alive.
LEMMA ReadOnlyHolds ==
    ASSUME TypeOK, AloneInv, ReadOnlyInv, NEW r \in Runners, Alive(r), pc[r] # "abort",
           NEW p, pc' = [pc EXCEPT ![r] = p],
           mark # "none" => mark' # "none" /\ (treeRO => treeRO') /\ (rootRO => rootRO'),
           mark' # "none" => \/ treeRO' /\ rootRO'
                             \/ p = "chmodTree"
                             \/ treeRO' /\ p = "chmodRoot",
           p \in {"completed", "already"} => mark' # "none" /\ treeRO' /\ rootRO'
    PROVE  ReadOnlyInv'
  <1>1. pc'[r] = p /\ \A s \in Runners \ {r} : pc'[s] = pc[s]
    BY DEF TypeOK
  <1>2. QED
    BY <1>1 DEF ReadOnlyInv

LEMMA ReadOnlySealing ==
    ASSUME {"chmodTree", "chmodRoot"} \cap CrashAt = {}, TypeOK, AloneInv, ReadOnlyInv,
           NEW r \in Runners, SealingStep(r)
    PROVE  ReadOnlyInv'
  <1>0. Alive(r)
    BY SealingEffect DEF Alive
  <1>1. CASE Unlock(r) \/ WriteChecksums(r) \/ Seal(r)
    <2>1. mark = "none"
      BY <1>1, BodyOpen DEF Unlock, WriteChecksums, Seal, Moves
    <2>2. \/ mark' = "none" /\ \E p \in {"sums", "seal", "abort"} : pc' = [pc EXCEPT ![r] = p]
          \/ pc' = [pc EXCEPT ![r] = "chmodTree"]
      BY <1>1, <2>1 DEF Unlock, WriteChecksums, Seal, Moves
    <2>3. pc[r] # "abort"
      BY <1>1 DEF Unlock, WriteChecksums, Seal, Moves
    <2>4. QED
      BY <1>0, <2>1, <2>2, <2>3, ReadOnlyHolds
  <1>2. CASE ChmodTree(r)
    <2>1. /\ pc[r] = "chmodTree" /\ pc' = [pc EXCEPT ![r] = "chmodRoot"] /\ treeRO'
          /\ UNCHANGED <<mark, rootRO>>
      BY <1>2 DEF ChmodTree, Moves
    <2>2. QED
      BY <1>0, <2>1, ReadOnlyHolds
  <1>3. CASE ChmodRoot(r)
    <2>1. /\ pc[r] = "chmodRoot" /\ pc' = [pc EXCEPT ![r] = "completed"] /\ rootRO'
          /\ UNCHANGED <<mark, treeRO>>
      BY <1>3 DEF ChmodRoot, Moves
    <2>2. mark # "none" /\ ~rootRO
      BY <1>0, <2>1 DEF AloneInv
    <2>3. \A s \in Runners : pc[s] # "chmodTree"
      BY <1>0, <2>1 DEF AloneInv, Alive, Running, InTry
    <2>4. treeRO
      BY <2>2, <2>3 DEF ReadOnlyInv
    <2>5. QED
      BY <1>0, <2>1, <2>2, <2>4, ReadOnlyHolds
  <1>4. CASE Abort(r) \/ Denied(r) \/ Crash(r)
    <2>1. UNCHANGED <<mark, treeRO, rootRO>>
      <3>1. UNCHANGED <<mark, rootRO>> /\ (treeRO' = FALSE \/ UNCHANGED treeRO)
        BY <1>4 DEF Abort, Denied, Crash, Leaves, RewriteWith, dirVars
      <3>2. UNCHANGED treeRO \/ pc[r] \in Temporary
        BY <1>4 DEF Abort, Denied, Crash, Leaves, dirVars
      <3>3. pc[r] \in Temporary => ~treeRO
        BY <1>0 DEF AloneInv, Temporary
      <3>4. QED
        BY <3>1, <3>2, <3>3 DEF TypeOK
    <2>2. pc[r] \notin {"chmodTree", "chmodRoot"}
      BY <1>4 DEF Abort, Denied, Crash, Moves, Writes
    <2>3. \E p \in {"failed", "abort", "dead"} : pc' = [pc EXCEPT ![r] = p]
      BY <1>4 DEF Abort, Denied, Crash, Moves
    <2>4. QED
      BY <2>1, <2>2, <2>3 DEF TypeOK, ReadOnlyInv
  <1>5. QED
    BY <1>1, <1>2, <1>3, <1>4 DEF SealingStep

LEMMA NextReadOnlyInv ==
    ASSUME {"chmodTree", "chmodRoot"} \cap (CrashAt \cup RaiseAt) = {},
           TypeOK, AloneInv, ReadOnlyInv, ~Overlap, [Next]_vars
    PROVE  ReadOnlyInv'
  <1>1. ASSUME NEW r \in Runners, Begin(r)
        PROVE  ReadOnlyInv'
    <2>1. /\ \A s \in Runners : ~Alive(s)
          /\ pc[r] = "idle" /\ UNCHANGED <<mark, treeRO, rootRO>>
      BY <1>1 DEF Begin, dirVars
    <2>2. mark # "none" => treeRO /\ rootRO
      BY <2>1 DEF ReadOnlyInv, Alive, Running, InTry
    <2>3. \/ mark # "none" /\ \E p \in {"already", "refused"} : pc' = [pc EXCEPT ![r] = p]
          \/ \E p \in {"refused", "lock", "mkdir"} : pc' = [pc EXCEPT ![r] = p]
      BY <1>1 DEF Begin, ReportComplete
    <2>4. \A s \in Runners \ {r} : pc'[s] = pc[s]
      BY <2>3 DEF TypeOK
    <2>5. pc'[r] \in {"completed", "already"} => mark # "none"
      BY <2>3 DEF TypeOK
    <2>6. QED
      BY <2>1, <2>2, <2>4, <2>5 DEF ReadOnlyInv
  <1>2. ASSUME NEW r \in Runners, AdmissionStep(r), ~Begin(r)
        PROVE  ReadOnlyInv'
    <2>1. Alive(r) /\ pc[r] \in Admitting /\ UNCHANGED <<mark, treeRO, rootRO>>
      BY <1>2, AdmittedEffect, AdmissionEffect
    <2>2. mark = "none"
      BY <2>1 DEF AloneInv, Admitting
    <2>3. \E p \in (Admitting \ {"idle"}) \cup {"prepare", "refused"} :
              pc' = [pc EXCEPT ![r] = p]
      BY <1>2 DEF AdmissionStep, Mkdir, WriteRequest, AcquireLock, ReadLock, BreakLock,
                  RetakeLock, WritePid, Moves, Admitting
    <2>4. QED
      BY <2>1, <2>2, <2>3, ReadOnlyHolds DEF Admitting
  <1>3. ASSUME NEW r \in Runners, BodyStep(r)
        PROVE  ReadOnlyInv'
    <2>1. Alive(r) /\ mark = "none" /\ UNCHANGED mark /\ pc[r] # "abort"
      BY <1>3, BodyEffect, BodyOpen DEF Body, InTry
    <2>2. PICK p \in Body \cup {"unlock", "abort"} : pc' = [pc EXCEPT ![r] = p]
      BY <1>3, BodyEffect
    <2>3. p \notin {"completed", "already"}
      BY DEF Body, InTry
    <2>4. QED
      BY <2>1, <2>2, <2>3, ReadOnlyHolds
  <1>4. ASSUME NEW r \in Runners, Raise(r)
        PROVE  ReadOnlyInv'
    <2>1. /\ UNCHANGED <<mark, treeRO, rootRO>> /\ pc[r] \in InTry /\ pc[r] \in RaiseAt
          /\ pc' = [pc EXCEPT ![r] = "abort"]
      <3>1. pc[r] \in Temporary => ~treeRO
        BY <1>4, RaiseEffect DEF AloneInv, Alive, Running, Temporary
      <3>2. QED
        BY <1>4, <3>1, RaiseEffect DEF Raise, TypeOK
    <2>2. QED
      BY <2>1 DEF TypeOK, ReadOnlyInv
  <1>5. ASSUME NEW r \in Runners, Environment(r)
        PROVE  ReadOnlyInv'
    BY <1>5, EnvironmentEffect DEF ReadOnlyInv
  <1>6. CASE UNCHANGED vars
    BY <1>6 DEF ReadOnlyInv, vars, runnerVars, dirVars
  <1>7. {"chmodTree", "chmodRoot"} \cap CrashAt = {}
    OBVIOUS
  <1>8. QED
    BY <1>1, <1>2, <1>3, <1>4, <1>5, <1>6, <1>7, NextSteps, ReadOnlySealing

\* One invocation at a time, none killed or failing between the completion marker and the
\* last chmod: a complete directory on which nobody works is read-only, and so is one
\* that an invocation reported as complete.
THEOREM ReportedReadOnly ==
    ASSUME ~Overlap, {"chmodTree", "chmodRoot"} \cap (CrashAt \cup RaiseAt) = {}
    PROVE  Spec => []CompleteIsReadOnly
  <1>1. Init => ReadOnlyInv
    BY DEF Init, ReadOnlyInv
  <1>2. TypeOK /\ AloneInv /\ ReadOnlyInv /\ [Next]_vars => ReadOnlyInv'
    BY NextReadOnlyInv
  <1>3. ReadOnlyInv => CompleteIsReadOnly
    BY DEF ReadOnlyInv, CompleteIsReadOnly, Alive, Running, InTry
  <1>4. QED
    BY <1>1, <1>2, <1>3, TypeCorrect, AloneCorrect, PTL DEF Spec

-----------------------------------------------------------------------------
(* result.json repeats the outcome: OutcomeInv.                            *)

\* result.json repeats what the other artifacts say of the outcome.
ResultAgrees ==
    /\ files.result.written
    /\ files.result.trace = TraceVerified /\ files.result.verdict = files.graderOut
    /\ files.result.success <=> /\ files.exit.hermes.code = "ok" /\ TraceVerified
                                /\ files.exit.grader = "ok" /\ files.graderOut = "accept"

\* What Finish wrote stays what the other artifacts say, to the seal and after it.
OutcomeInv ==
    /\ \A r \in Runners : pc[r] \in {"unlock"} \cup Sealing => ResultAgrees
    /\ mark # "none" => ResultAgrees

\* result.json of a complete directory repeats what its exit status, its tool trace and
\* its grader's output say.
ResultIsOutcome == mark # "none" => ResultAgrees

LEMMA AgreesKept ==
    ASSUME ResultAgrees, UNCHANGED <<files.hooks, files.cogs, files.exit, files.graderOut,
                                     files.result>>
    PROVE  ResultAgrees'
  BY DEF ResultAgrees, TraceVerified

\* A step of the one runner that is alive.
LEMMA OutcomeHolds ==
    ASSUME TypeOK, AloneInv, NEW r \in Runners, Alive(r), NEW p, pc' = [pc EXCEPT ![r] = p],
           p \in {"unlock"} \cup Sealing \/ mark' # "none" => ResultAgrees'
    PROVE  OutcomeInv'
  <1>1. pc'[r] = p /\ \A s \in Runners \ {r} : pc'[s] \notin Running
    BY OnlyMover
  <1>2. \A s \in Runners : pc'[s] \in {"unlock"} \cup Sealing => s = r
    BY <1>1 DEF Sealing, Running, InTry
  <1>3. QED
    BY <1>1, <1>2 DEF OutcomeInv

LEMMA FinishAgrees ==
    ASSUME TypeOK, OnceInv, NEW r \in Runners, Finish(r)
    PROVE  ResultAgrees'
  <1>1. /\ files'.result = Outcome(r)
        /\ UNCHANGED <<files.hooks, files.cogs, files.exit, files.graderOut>>
    BY GradingWrites
  <1>2. files.exit = mem[r].exit
    BY DEF OnceInv, Recorded, Finish, Moves
  <1>3. /\ Outcome(r).written
        /\ Outcome(r).trace = TraceVerified /\ Outcome(r).verdict = files.graderOut
        /\ Outcome(r).success <=> /\ files.exit.hermes.code = "ok" /\ TraceVerified
                                  /\ files.exit.grader = "ok" /\ files.graderOut = "accept"
    BY <1>2 DEF Outcome
  <1>4. TraceVerified' = TraceVerified
    BY <1>1 DEF TraceVerified
  <1>5. QED
    BY <1>1, <1>3, <1>4 DEF ResultAgrees

\* Once a run has its outcome, neither agent nor grader writes to the artifacts it is
\* computed from.
LEMMA OutcomeEnvironment ==
    ASSUME TypeOK, HomeInv, AloneInv, OnceInv, CleanInv, GraderInv, NEW a \in Runners,
           Environment(a),
           mark # "none" \/ \E s \in Runners : pc[s] \in {"unlock"} \cup Sealing
    PROVE  UNCHANGED <<files.hooks, files.cogs, files.exit, files.graderOut, files.result>>
  <1>1. files.exit.hermes # NoHermes
    BY DEF CleanInv, OnceInv, Recorded
  <1>2. agent[a] \notin LiveAgent
    BY <1>1 DEF OnceInv, HomeInv, Holds
  <1>3. pc[a] # "grading"
    BY DEF AloneInv, Alive, Running, InTry, Sealing
  <1>4. grader[a] \notin {"intact", "hurt"}
    BY <1>3 DEF GraderInv
  <1>5. CASE Edit(a)
    BY <1>5, EnvironmentWrites
  <1>6. CASE StrayEnds(a)
    BY <1>6 DEF StrayEnds, dirVars
  <1>7. QED
    BY <1>2, <1>4, <1>5, <1>6 DEF Environment, AgentHook, AgentConstruct, AgentExit,
                                  GraderEnds, LiveAgent

LEMMA NextOutcomeInv ==
    ASSUME TypeOK, HomeInv, AloneInv, OnceInv, CleanInv, GraderInv, OutcomeInv, [Next]_vars
    PROVE  OutcomeInv'
  <1>1. ASSUME NEW r \in Runners, Begin(r)
        PROVE  OutcomeInv'
    <2>1. UNCHANGED <<files, mark>>
      BY <1>1, BeginEffect
    <2>2. \A s \in Runners : pc'[s] \in {"unlock"} \cup Sealing => pc'[s] = pc[s]
      BY <1>1, BeginEffect DEF TypeOK, Sealing
    <2>3. ResultAgrees => ResultAgrees'
      BY <2>1, AgreesKept
    <2>4. QED
      BY <2>1, <2>2, <2>3 DEF OutcomeInv
  <1>2. ASSUME NEW r \in Runners, AdmissionStep(r), ~Begin(r)
        PROVE  OutcomeInv'
    <2>1. Alive(r) /\ UNCHANGED <<files, mark>>
      BY <1>2, AdmittedEffect
    <2>2. \E p : pc' = [pc EXCEPT ![r] = p] /\ p \notin {"unlock"} \cup Sealing
      BY <1>2, AdmittedEffect DEF Admitting, Sealing
    <2>3. mark # "none" => ResultAgrees'
      BY <2>1, AgreesKept DEF OutcomeInv
    <2>4. QED
      BY <2>1, <2>2, <2>3, OutcomeHolds
  <1>3. ASSUME NEW r \in Runners, BodyStep(r)
        PROVE  OutcomeInv'
    <2>1. Alive(r) /\ mark' = "none"
      BY <1>3, BodyEffect, BodyOpen
    <2>2. PICK p \in Body \cup {"unlock", "abort"} : pc' = [pc EXCEPT ![r] = p]
      BY <1>3, BodyEffect
    <2>3. p \in {"unlock"} \cup Sealing => p = "unlock"
      BY DEF Body, Sealing
    <2>4. CASE Finish(r)
      BY <2>1, <2>2, <2>4, FinishAgrees, OutcomeHolds
    <2>5. CASE ~Finish(r)
      <3>1. pc'[r] # "unlock"
        BY <1>3, <2>5
           DEF TypeOK, BodyStep, Prepare, CopyStarter, Baseline, Load, MakeHome,
               LaunchHermes, WaitReturns, HermesTimeout, Reap, RecordExit, RecordTiming,
               Collect, Patch, Grade, CollectGrade, Moves, runnerVars
      <3>2. p # "unlock"
        BY <2>2, <3>1 DEF TypeOK
      <3>3. QED
        BY <2>1, <2>2, <2>3, <3>2, OutcomeHolds
    <2>6. QED
      BY <2>4, <2>5
  <1>4. ASSUME NEW r \in Runners, SealingStep(r)
        PROVE  OutcomeInv'
    <2>1. Alive(r) /\ UNCHANGED files
      BY <1>4, SealingEffect DEF Alive
    <2>2. /\ mark' # "none" => mark # "none" \/ pc[r] \in Sealing
          /\ \E p : /\ pc' = [pc EXCEPT ![r] = p]
                    /\ p \in {"unlock"} \cup Sealing => pc[r] \in {"unlock"} \cup Sealing
      BY <1>4 DEF SealingStep, Unlock, WriteChecksums, Seal, ChmodTree, ChmodRoot, Abort,
                  Denied, Crash, Leaves, RewriteWith, Moves, Sealing, dirVars
    <2>3. mark # "none" \/ pc[r] \in {"unlock"} \cup Sealing => ResultAgrees'
      BY <2>1, AgreesKept DEF OutcomeInv
    <2>4. QED
      BY <2>1, <2>2, <2>3, OutcomeHolds
  <1>5. ASSUME NEW r \in Runners, Raise(r)
        PROVE  OutcomeInv'
    <2>1. /\ Alive(r) /\ UNCHANGED mark /\ pc[r] \in InTry
          /\ pc' = [pc EXCEPT ![r] = "abort"]
      BY <1>5, RaiseEffect DEF Alive, Running
    <2>2. ASSUME mark # "none" PROVE ResultAgrees'
      <3>1. pc[r] \in {"chmodTree", "chmodRoot"}
        BY <2>1, <2>2 DEF AloneInv, InTry
      <3>2. UNCHANGED files
        BY <1>5, <3>1 DEF Raise, Leaves, DropIndex, RewriteWith
      <3>3. QED
        BY <2>2, <3>2, AgreesKept DEF OutcomeInv
    <2>3. "abort" \notin {"unlock"} \cup Sealing
      BY DEF Sealing
    <2>4. QED
      BY <2>1, <2>2, <2>3, OutcomeHolds
  <1>6. ASSUME NEW a \in Runners, Environment(a)
        PROVE  OutcomeInv'
    <2>1. UNCHANGED <<pc, mark>>
      BY <1>6, EnvironmentEffect
    <2>2. ASSUME mark # "none" \/ \E s \in Runners : pc[s] \in {"unlock"} \cup Sealing
          PROVE  ResultAgrees'
      <3>1. ResultAgrees
        BY <2>2 DEF OutcomeInv
      <3>2. QED
        BY <1>6, <2>2, <3>1, OutcomeEnvironment, AgreesKept
    <2>3. QED
      BY <2>1, <2>2 DEF OutcomeInv
  <1>7. CASE UNCHANGED vars
    <2>1. UNCHANGED <<pc, files, mark>>
      BY <1>7 DEF vars, runnerVars, dirVars
    <2>2. ResultAgrees => ResultAgrees'
      BY <2>1, AgreesKept
    <2>3. QED
      BY <2>1, <2>2 DEF OutcomeInv
  <1>8. QED
    BY <1>1, <1>2, <1>3, <1>4, <1>5, <1>6, <1>7, NextSteps

\* One invocation at a time, none killed while its grader is at work: result.json of a
\* complete directory, resolved or not, repeats what its exit status, its tool trace and
\* its grader's output say.
THEOREM ResultRepeats ==
    ASSUME ~Overlap, "grading" \notin CrashAt
    PROVE  Spec => []ResultIsOutcome
  <1>1. Init => OutcomeInv
    BY DEF Init, OutcomeInv, Sealing
  <1>2. /\ TypeOK /\ HomeInv /\ AloneInv /\ OnceInv /\ CleanInv /\ GraderInv /\ OutcomeInv
        /\ [Next]_vars
        => OutcomeInv'
    BY NextOutcomeInv
  <1>3. OutcomeInv => ResultIsOutcome
    BY DEF OutcomeInv, ResultIsOutcome
  <1>4. QED
    BY <1>1, <1>2, <1>3, TypeCorrect, HomeCorrect, AloneCorrect, OnceCorrect, CleanCorrect,
       GraderCorrect, PTL DEF Spec

-----------------------------------------------------------------------------
(* What is recorded is recorded for good: GradeInv.                        *)

\* Nothing is recorded of a grader that is still at work, or has only just ended.
GradeInv == \A r \in Runners : pc[r] \in {"grading", "exitGrader"} => files.exit.grader = "none"

\* A step of the one runner that is alive.
LEMMA GradeHolds ==
    ASSUME TypeOK, AloneInv, NEW r \in Runners, Alive(r), NEW p, pc' = [pc EXCEPT ![r] = p],
           p \in {"grading", "exitGrader"} => files'.exit.grader = "none"
    PROVE  GradeInv'
  <1>1. pc'[r] = p /\ \A s \in Runners \ {r} : pc'[s] \notin Running
    BY OnlyMover
  <1>2. \A s \in Runners : pc'[s] \in {"grading", "exitGrader"} => s = r
    BY <1>1 DEF Running, InTry
  <1>3. QED
    BY <1>1, <1>2 DEF GradeInv

LEMMA NextGradeInv ==
    ASSUME TypeOK, AloneInv, OnceInv, GradeInv, [Next]_vars
    PROVE  GradeInv'
  <1>1. ASSUME NEW r \in Runners, Begin(r)
        PROVE  GradeInv'
    <2>1. UNCHANGED files
      BY <1>1, BeginEffect
    <2>2. \A s \in Runners : pc'[s] \in {"grading", "exitGrader"} => pc'[s] = pc[s]
      BY <1>1, BeginEffect DEF TypeOK
    <2>3. QED
      BY <2>1, <2>2 DEF GradeInv
  <1>2. ASSUME NEW r \in Runners, AdmissionStep(r), ~Begin(r)
        PROVE  GradeInv'
    <2>1. Alive(r) /\ \E p : pc' = [pc EXCEPT ![r] = p] /\ p \notin {"grading", "exitGrader"}
      BY <1>2, AdmittedEffect DEF Admitting
    <2>2. QED
      BY <2>1, GradeHolds
  <1>3. ASSUME NEW r \in Runners, BodyStep(r)
        PROVE  GradeInv'
    <2>1. Alive(r)
      BY <1>3, BodyEffect DEF Alive, Body, Running
    <2>2. CASE Grade(r)
      <3>1. files'.exit = files.exit /\ files.exit = mem[r].exit
        BY <2>2, GradingWrites DEF OnceInv, Recorded, Grade, Moves
      <3>2. \/ mem[r].exit.grader = "none" /\ pc' = [pc EXCEPT ![r] = "grading"]
            \/ pc' = [pc EXCEPT ![r] = "finish"]
        BY <2>2, GradingWrites
      <3>3. QED
        BY <2>1, <3>1, <3>2, GradeHolds
    <2>3. CASE CollectGrade(r)
      <3>1. /\ files'.exit = files.exit /\ pc[r] = "grading"
            /\ pc' = [pc EXCEPT ![r] = "exitGrader"]
        BY <2>3, GradingWrites DEF CollectGrade, Moves
      <3>2. QED
        BY <2>1, <3>1, GradeHolds DEF GradeInv
    <2>4. CASE ~Grade(r) /\ ~CollectGrade(r)
      <3>1. pc'[r] \notin {"grading", "exitGrader"}
        BY <1>3, <2>4
           DEF TypeOK, BodyStep, Prepare, CopyStarter, Baseline, Load, MakeHome,
               LaunchHermes, WaitReturns, HermesTimeout, Reap, RecordExit, RecordTiming,
               Collect, Patch, Finish, Moves, runnerVars
      <3>2. PICK p \in Body \cup {"unlock", "abort"} : pc' = [pc EXCEPT ![r] = p]
        BY <1>3, BodyEffect
      <3>3. p \notin {"grading", "exitGrader"}
        BY <3>1, <3>2 DEF TypeOK
      <3>4. QED
        BY <2>1, <3>2, <3>3, GradeHolds
    <2>5. QED
      BY <2>2, <2>3, <2>4
  <1>4. ASSUME NEW r \in Runners, SealingStep(r) \/ Raise(r)
        PROVE  GradeInv'
    <2>1. Alive(r) /\ \E p : pc' = [pc EXCEPT ![r] = p] /\ p \notin {"grading", "exitGrader"}
      BY <1>4, SealingEffect, RaiseEffect DEF Alive, Running, Sealing
    <2>2. QED
      BY <2>1, GradeHolds
  <1>5. ASSUME NEW a \in Runners, Environment(a)
        PROVE  GradeInv'
    <2>1. files'.exit = files.exit
      <3>1. CASE AgentExit(a) \/ StrayEnds(a)
        BY <3>1 DEF AgentExit, StrayEnds, dirVars
      <3>2. QED
        BY <1>5, <3>1, EnvironmentWrites DEF Environment
    <2>2. QED
      BY <1>5, <2>1, EnvironmentEffect DEF GradeInv
  <1>6. CASE UNCHANGED vars
    BY <1>6 DEF GradeInv, vars, runnerVars, dirVars
  <1>7. QED
    BY <1>1, <1>2, <1>3, <1>4, <1>5, <1>6, NextSteps

\* No step replaces a recorded agent, launches another over it or replaces a recorded
\* grade.
Stays ==
    /\ files.exit.hermes # NoHermes =>
         /\ files'.exit.hermes = files.exit.hermes
         /\ \A r \in Runners : agent[r] = "none" => agent'[r] = "none"
    /\ files.exit.grader # "none" =>
         files'.exit = files.exit /\ files'.graderOut = files.graderOut

RecordedOnce == [][Stays]_vars

LEMMA StaysBody ==
    ASSUME TypeOK, StatusInv, OnceInv, GradeInv, NEW r \in Runners, BodyStep(r)
    PROVE  Stays
  <1>0. files.exit.hermes = NoHermes => files.exit.grader = "none"
    BY DEF StatusInv, Truthful
  <1>1. CASE Prepare(r) \/ Load(r) \/ WaitReturns(r)
    BY <1>1 DEF Prepare, Load, WaitReturns, Stays, procVars, dirVars
  <1>2. CASE CopyStarter(r) \/ Baseline(r)
    <2>1. UNCHANGED agent
      BY <1>2 DEF CopyStarter, Baseline, procVars
    <2>2. UNCHANGED <<files.exit, files.graderOut>>
      <3>1. CASE UNCHANGED files
        BY <3>1
      <3>2. CASE files' # files
        BY <1>2, <3>2, WorkspaceWrites
      <3>3. QED
        BY <3>1, <3>2
    <2>3. QED
      BY <2>1, <2>2 DEF Stays
  <1>3. CASE LaunchHermes(r) \/ HermesTimeout(r) \/ MakeHome(r) \/ Reap(r)
    <2>1. files.exit.hermes = NoHermes
      BY <1>3 DEF OnceInv, LaunchHermes, HermesTimeout, MakeHome, Reap, Moves, Waiting
    <2>2. QED
      BY <1>0, <2>1 DEF Stays
  <1>4. CASE RecordExit(r, "exitHermes", "timingHermes")
    <2>1. files.exit.hermes = NoHermes
      BY <1>4 DEF OnceInv, RecordExit, Moves
    <2>2. QED
      BY <1>0, <2>1 DEF Stays
  <1>5. CASE RecordExit(r, "exitGrader", "timingGrader")
    <2>1. /\ files.exit.grader = "none" /\ files.exit.hermes = mem[r].exit.hermes
          /\ UNCHANGED agent
      BY <1>5 DEF GradeInv, OnceInv, RecordExit, Moves, procVars
    <2>2. files'.exit = mem[r].exit
      BY <1>5, TelemetryWrites
    <2>3. QED
      BY <2>1, <2>2 DEF Stays
  <1>6. ASSUME NEW from, NEW to, RecordTiming(r, from, to)
        PROVE  Stays
    BY <1>6, TelemetryWrites DEF Stays, RecordTiming, procVars
  <1>7. CASE Grade(r)
    <2>1. files.exit = mem[r].exit
      BY <1>7 DEF OnceInv, Recorded, Grade, Moves
    <2>2. UNCHANGED agent
      BY SMTT(60), <1>7 DEF Grade
    <2>3. QED
      BY <1>7, <2>1, <2>2, GradingWrites DEF Stays
  <1>8. CASE Collect(r) \/ Patch(r) \/ CollectGrade(r) \/ Finish(r)
    BY <1>8, GradingWrites DEF Stays, Collect, Patch, CollectGrade, Finish, procVars
  <1>9. QED
    BY <1>1, <1>2, <1>3, <1>4, <1>5, <1>6, <1>7, <1>8 DEF BodyStep

LEMMA NextStays ==
    ASSUME TypeOK, StatusInv, AloneInv, OnceInv, GraderInv, GradeInv, Next
    PROVE  Stays
  <1>0. files.exit.hermes = NoHermes => files.exit.grader = "none"
    BY DEF StatusInv, Truthful
  <1>1. ASSUME NEW r \in Runners, AdmissionStep(r) \/ SealingStep(r)
        PROVE  Stays
    <2>1. UNCHANGED <<agent, files>>
      BY <1>1, AdmissionEffect, SealingEffect
    <2>2. QED
      BY <2>1 DEF Stays
  <1>2. ASSUME NEW r \in Runners, Raise(r)
        PROVE  Stays
    <2>1. UNCHANGED <<files.exit, files.graderOut>>
      BY <1>2, EnvironmentWrites, GradingWrites
    <2>2. CASE pc[r] = "wait"
      BY <1>0, <2>2 DEF OnceInv, Waiting, Stays
    <2>3. CASE pc[r] # "wait"
      BY <1>2, <2>1, <2>3 DEF Raise, Stays
    <2>4. QED
      BY <2>2, <2>3
  <1>3. ASSUME NEW a \in Runners, Environment(a)
        PROVE  Stays
    <2>1. CASE AgentHook(a) \/ AgentConstruct(a)
      <3>1. UNCHANGED <<files.exit, files.graderOut>>
        BY <2>1, EnvironmentWrites
      <3>2. \A r \in Runners : agent[r] = "none" => agent'[r] = "none"
        BY <2>1 DEF TypeOK, AgentHook, AgentConstruct
      <3>3. QED
        BY <3>1, <3>2 DEF Stays
    <2>2. CASE AgentExit(a) \/ StrayEnds(a)
      BY <2>2 DEF TypeOK, AgentExit, StrayEnds, Stays, LiveAgent, dirVars
    <2>3. CASE Edit(a)
      BY <2>3, EnvironmentWrites DEF Edit, Stays, procVars
    <2>4. CASE GraderEnds(a)
      <3>1. files.exit.grader = "none"
        BY <2>4 DEF GraderEnds, GraderInv, GradeInv
      <3>2. QED
        BY <2>4, <3>1, EnvironmentWrites DEF GraderEnds, Stays
    <2>5. QED
      BY <1>3, <2>1, <2>2, <2>3, <2>4 DEF Environment
  <1>4. QED
    BY <1>1, <1>2, <1>3, NextSteps, StaysBody

\* One invocation at a time, none killed while its grader is at work: run_one resumed as
\* often as it may be launches no second agent once one is recorded in exit_status.json,
\* and grades no second time once a grade is.
THEOREM RecordedForGood ==
    ASSUME ~Overlap, "grading" \notin CrashAt
    PROVE  Spec => RecordedOnce
  <1>1. Init => GradeInv
    BY DEF Init, GradeInv
  <1>2. TypeOK /\ AloneInv /\ OnceInv /\ GradeInv /\ [Next]_vars => GradeInv'
    BY NextGradeInv
  <1>3. /\ TypeOK /\ StatusInv /\ AloneInv /\ OnceInv /\ GraderInv /\ GradeInv /\ [Next]_vars
        => [Stays]_vars
    BY NextStays
  <1>4. QED
    BY <1>1, <1>2, <1>3, TypeCorrect, StatusCorrect, AloneCorrect, OnceCorrect, GraderCorrect,
       PTL DEF Spec, RecordedOnce

-----------------------------------------------------------------------------
(* Runs are finite.                                                        *)

\* The program points in the order in which a run passes them.
Rank(p) ==
    CASE p = "idle" -> 0 [] p = "mkdir" -> 1 [] p = "request" -> 2 [] p = "lock" -> 3
      [] p = "readLock" -> 4 [] p = "breakLock" -> 5 [] p = "relock" -> 6
      [] p = "writePid" -> 7 [] p = "prepare" -> 8 [] p = "copy" -> 9 [] p = "baseline" -> 10
      [] p = "load" -> 11 [] p = "home" -> 12 [] p = "launch" -> 13 [] p = "wait" -> 14
      [] p = "reap" -> 15 [] p = "exitHermes" -> 16 [] p = "timingHermes" -> 17
      [] p = "collect" -> 18 [] p = "patch" -> 19 [] p = "grade" -> 20 [] p = "grading" -> 21
      [] p = "exitGrader" -> 22 [] p = "timingGrader" -> 23 [] p = "finish" -> 24
      [] p = "unlock" -> 25 [] p = "sums" -> 26 [] p = "seal" -> 27 [] p = "chmodTree" -> 28
      [] p = "chmodRoot" -> 29 [] p = "abort" -> 30
      [] OTHER -> 31

\* What a runner has left to do: the points ahead of it, and an agent to wait for.
Left(r) == 2 * (31 - Rank(pc[r])) + (IF agent[r] \in LiveAgent THEN 1 ELSE 0)

\* A step of run_one leaves its runner with strictly less to do, and no step of anything
\* else gives it more.
EveryStepCounts ==
    [][\A r \in Runners : /\ Left(r)' <= Left(r)
                          /\ Step(r) \/ Denied(r) => Left(r)' < Left(r)]_vars

LEMMA Ranks ==
    /\ Rank("idle") = 0 /\ Rank("mkdir") = 1 /\ Rank("request") = 2
    /\ Rank("lock") = 3 /\ Rank("readLock") = 4 /\ Rank("breakLock") = 5
    /\ Rank("relock") = 6 /\ Rank("writePid") = 7 /\ Rank("prepare") = 8
    /\ Rank("copy") = 9 /\ Rank("baseline") = 10 /\ Rank("load") = 11
    /\ Rank("home") = 12 /\ Rank("launch") = 13 /\ Rank("wait") = 14
    /\ Rank("reap") = 15 /\ Rank("exitHermes") = 16 /\ Rank("timingHermes") = 17
    /\ Rank("collect") = 18 /\ Rank("patch") = 19 /\ Rank("grade") = 20 /\ Rank("grading") = 21
    /\ Rank("exitGrader") = 22 /\ Rank("timingGrader") = 23 /\ Rank("finish") = 24
    /\ Rank("unlock") = 25 /\ Rank("sums") = 26 /\ Rank("seal") = 27
    /\ Rank("chmodTree") = 28 /\ Rank("chmodRoot") = 29 /\ Rank("abort") = 30
    /\ \A p \in Final : Rank(p) = 31
  BY DEF Rank, Final

LEMMA RankType == \A p \in {"idle"} \cup Running \cup Final : Rank(p) \in 0..31
  BY Ranks DEF Running, InTry

\* A runner that moves on has less left, whatever becomes of its agent.
LEMMA MovesOn ==
    ASSUME TypeOK, TypeOK', NEW r \in Runners, Rank(pc[r]) < Rank(pc'[r])
    PROVE  Left(r)' < Left(r)
  <1>1. Rank(pc[r]) \in 0..31 /\ Rank(pc'[r]) \in 0..31
    BY RankType DEF TypeOK
  <1>2. Left(r)' <= 2 * (31 - Rank(pc'[r])) + 1 /\ Left(r)' \in Nat
    BY <1>1 DEF Left
  <1>3. Left(r) >= 2 * (31 - Rank(pc[r])) /\ Left(r) \in Nat
    BY <1>1 DEF Left
  <1>4. QED
    BY <1>1, <1>2, <1>3

\* One that stays where it is has no more left, and less when its agent is ended.
LEMMA StaysThere ==
    ASSUME TypeOK, NEW r \in Runners, pc'[r] = pc[r],
           agent'[r] \in LiveAgent => agent[r] \in LiveAgent
    PROVE  /\ Left(r)' <= Left(r)
           /\ agent[r] \in LiveAgent /\ agent'[r] \notin LiveAgent => Left(r)' < Left(r)
  <1>1. Rank(pc[r]) \in 0..31
    BY RankType DEF TypeOK
  <1>2. QED
    BY <1>1 DEF Left

\* The points a runner can leave for the finally clause, or be killed at.
LEMMA Before ==
    /\ \A p \in InTry : Rank(p) < 30
    /\ \A p \in Running : Rank(p) < 31
    /\ \A p \in Writes : Rank(p) < 30
  BY Ranks DEF Running, InTry, Writes

\* Every step of a runner goes on in the program, save the end of the wait for its agent.
LEMMA Advances ==
    ASSUME TypeOK, NEW r \in Runners, AdmissionStep(r) \/ BodyStep(r) \/ SealingStep(r) \/ Raise(r),
           ~HermesTimeout(r)
    PROVE  Rank(pc[r]) < Rank(pc'[r])
  <1>1. ASSUME NEW p, NEW q, Moves(r, p, q), Rank(p) < Rank(q)
        PROVE  Rank(pc[r]) < Rank(pc'[r])
    BY <1>1 DEF Moves, TypeOK
  <1>2. ASSUME NEW q, pc' = [pc EXCEPT ![r] = q], Rank(pc[r]) < Rank(q)
        PROVE  Rank(pc[r]) < Rank(pc'[r])
    BY <1>2 DEF TypeOK
  <1>3. {"refused", "already", "completed", "failed", "dead"} \subseteq Final
    BY DEF Final
  <1>4. CASE Begin(r)
    <2>1. PICK q \in {"already", "refused", "lock", "mkdir"} : pc' = [pc EXCEPT ![r] = q]
      BY <1>4 DEF Begin, ReportComplete
    <2>2. pc[r] = "idle" /\ Rank("idle") < Rank(q)
      BY <1>3, <1>4, Ranks DEF Begin
    <2>3. QED
      BY <1>2, <2>1, <2>2
  <1>5. CASE Mkdir(r) \/ WriteRequest(r)
    BY <1>1, <1>3, <1>5, Ranks DEF Mkdir, WriteRequest
  <1>6. CASE AcquireLock(r)
    <2>1. PICK q \in {"writePid", "refused", "readLock"} : Moves(r, "lock", q)
      BY <1>6 DEF AcquireLock
    <2>2. Rank("lock") < Rank(q)
      BY <1>3, Ranks
    <2>3. QED
      BY <1>1, <2>1, <2>2
  <1>7. CASE ReadLock(r)
    <2>1. PICK q \in {"refused", "breakLock"} : Moves(r, "readLock", q)
      BY <1>7 DEF ReadLock
    <2>2. Rank("readLock") < Rank(q)
      BY <1>3, Ranks
    <2>3. QED
      BY <1>1, <2>1, <2>2
  <1>8. CASE BreakLock(r) \/ RetakeLock(r) \/ WritePid(r)
    BY <1>1, <1>3, <1>8, Ranks DEF BreakLock, RetakeLock, WritePid
  <1>9. CASE Prepare(r)
    <2>1. PICK q \in {"copy", "load"} : Moves(r, "prepare", q)
      BY <1>9 DEF Prepare
    <2>2. Rank("prepare") < Rank(q)
      BY Ranks
    <2>3. QED
      BY <1>1, <2>1, <2>2
  <1>10. CASE CopyStarter(r) \/ Baseline(r)
    BY <1>1, <1>10, Ranks DEF CopyStarter, Baseline
  <1>11. CASE Load(r)
    <2>1. PICK q \in {"home", "collect"} : Moves(r, "load", q)
      BY <1>11 DEF Load
    <2>2. Rank("load") < Rank(q)
      BY Ranks
    <2>3. QED
      BY <1>1, <2>1, <2>2
  <1>12. CASE MakeHome(r) \/ LaunchHermes(r) \/ WaitReturns(r) \/ Reap(r)
    BY <1>1, <1>12, Ranks DEF MakeHome, LaunchHermes, WaitReturns, Reap
  <1>13. CASE \/ RecordExit(r, "exitHermes", "timingHermes")
              \/ RecordTiming(r, "timingHermes", "collect")
              \/ RecordExit(r, "exitGrader", "timingGrader")
              \/ RecordTiming(r, "timingGrader", "finish")
    BY <1>1, <1>13, Ranks DEF RecordExit, RecordTiming
  <1>14. CASE Collect(r) \/ Patch(r) \/ Grade(r) \/ CollectGrade(r) \/ Finish(r)
    <2>1. CASE Collect(r)
      <3>1. PICK q \in {"patch", "grade"} : Moves(r, "collect", q)
        BY <2>1 DEF Collect
      <3>2. Rank("collect") < Rank(q)
        BY Ranks
      <3>3. QED
        BY <1>1, <3>1, <3>2
    <2>2. CASE Patch(r)
      <3>1. PICK q \in {"grade", "abort"} : Moves(r, "patch", q)
        BY <2>2 DEF Patch
      <3>2. Rank("patch") < Rank(q)
        BY Ranks
      <3>3. QED
        BY <1>1, <3>1, <3>2
    <2>3. CASE Grade(r) \/ CollectGrade(r) \/ Finish(r)
      BY <1>1, <2>3, Ranks DEF Grade, CollectGrade, Finish
    <2>4. QED
      BY <1>14, <2>1, <2>2, <2>3
  <1>15. CASE \/ Unlock(r) \/ WriteChecksums(r) \/ Seal(r) \/ ChmodTree(r) \/ ChmodRoot(r)
              \/ Abort(r)
    BY <1>1, <1>3, <1>15, Ranks DEF Unlock, WriteChecksums, Seal, ChmodTree, ChmodRoot, Abort
  <1>16. CASE Denied(r)
    BY <1>2, <1>16, Before, Ranks DEF Denied
  <1>17. CASE Raise(r)
    <2>1. pc[r] \in InTry /\ pc' = [pc EXCEPT ![r] = "abort"]
      BY <1>17 DEF Raise
    <2>2. Rank(pc[r]) < 30 /\ Rank("abort") = 30
      BY <2>1, Before, Ranks
    <2>3. Rank(pc[r]) < Rank("abort")
      BY <2>2
    <2>4. QED
      BY <1>2, <2>1, <2>3
  <1>18. CASE Crash(r)
    <2>1. pc[r] \in Running /\ pc' = [pc EXCEPT ![r] = "dead"]
      BY <1>18 DEF Crash
    <2>2. Rank(pc[r]) < 31 /\ Rank("dead") = 31
      BY <1>3, <2>1, Before, Ranks
    <2>3. Rank(pc[r]) < Rank("dead")
      BY <2>2
    <2>4. QED
      BY <1>2, <2>1, <2>3
  <1>19. QED
    BY <1>4, <1>5, <1>6, <1>7, <1>8, <1>9, <1>10, <1>11, <1>12, <1>13, <1>14, <1>15, <1>16,
       <1>17, <1>18 DEF AdmissionStep, BodyStep, SealingStep

\* What a step of one runner, or of its processes, does to the others.
LEMMA OthersUnmoved ==
    ASSUME TypeOK, NEW s \in Runners,
           \/ AdmissionStep(s) \/ BodyStep(s) \/ SealingStep(s) \/ Raise(s) \/ Environment(s),
           NEW r \in Runners, r # s
    PROVE  pc'[r] = pc[r] /\ agent'[r] = agent[r]
  <1>1. CASE AdmissionStep(s)
    BY <1>1, AdmissionEffect DEF TypeOK
  <1>2. CASE SealingStep(s)
    BY <1>2, SealingEffect DEF TypeOK
  <1>3. CASE \/ Prepare(s) \/ CopyStarter(s) \/ Baseline(s) \/ Load(s) \/ MakeHome(s)
             \/ WaitReturns(s) \/ Reap(s)
    BY <1>3 DEF TypeOK, Prepare, CopyStarter, Baseline, Load, MakeHome, WaitReturns, Reap,
                Moves, procVars
  <1>4. CASE LaunchHermes(s) \/ HermesTimeout(s)
    BY <1>4 DEF TypeOK, LaunchHermes, HermesTimeout, ForcedEnd, Moves, runnerVars
  <1>5. ASSUME NEW p, NEW q, RecordExit(s, p, q) \/ RecordTiming(s, p, q)
        PROVE  pc'[r] = pc[r] /\ agent'[r] = agent[r]
    BY <1>5 DEF TypeOK, RecordExit, RecordTiming, Moves, procVars
  <1>6. CASE Collect(s) \/ Patch(s) \/ Grade(s) \/ CollectGrade(s) \/ Finish(s)
    BY <1>6 DEF TypeOK, Collect, Patch, Grade, CollectGrade, Finish, Moves, procVars
  <1>7. CASE Raise(s)
    <2>1. pc' = [pc EXCEPT ![s] = "abort"]
      BY <1>7 DEF Raise
    <2>2. agent' = agent \/ agent' = [agent EXCEPT ![s] = "gone"]
      BY <1>7 DEF Raise, ForcedEnd
    <2>3. QED
      BY <2>1, <2>2 DEF TypeOK
  <1>8. CASE Environment(s)
    BY <1>8 DEF TypeOK, Environment, AgentHook, AgentConstruct, AgentExit, Edit, StrayEnds,
                GraderEnds, runnerVars, procVars
  <1>9. QED
    BY <1>1, <1>2, <1>3, <1>4, <1>5, <1>6, <1>7, <1>8 DEF BodyStep

\* The measure over one step of the directory.
LEMMA NextCounts ==
    ASSUME TypeOK, TypeOK', Next, NEW r \in Runners
    PROVE  /\ Left(r)' <= Left(r)
           /\ Step(r) \/ Denied(r) => Left(r)' < Left(r)
  <1>1. Left(r) \in Nat /\ Left(r)' \in Nat
    <2>1. Rank(pc[r]) \in 0..31 /\ Rank(pc'[r]) \in 0..31
      BY RankType DEF TypeOK
    <2>2. QED
      BY <2>1 DEF Left
  <1>2. ASSUME AdmissionStep(r) \/ BodyStep(r) \/ SealingStep(r) \/ Raise(r)
        PROVE  Left(r)' < Left(r)
    <2>1. CASE HermesTimeout(r)
      <3>1. pc'[r] = pc[r] /\ agent[r] \in LiveAgent /\ agent'[r] = "gone"
        BY <2>1 DEF TypeOK, HermesTimeout, ForcedEnd, runnerVars
      <3>2. QED
        BY <3>1, StaysThere DEF LiveAgent
    <2>2. CASE ~HermesTimeout(r)
      BY <1>2, <2>2, Advances, MovesOn
    <2>3. QED
      BY <2>1, <2>2
  <1>3. Step(r) \/ Denied(r) => AdmissionStep(r) \/ BodyStep(r) \/ SealingStep(r)
    BY DEF Step, AdmissionStep, BodyStep, SealingStep
  <1>4. CASE Environment(r)
    <2>1. pc'[r] = pc[r] /\ (agent'[r] \in LiveAgent => agent[r] \in LiveAgent)
      BY <1>4 DEF TypeOK, Environment, AgentHook, AgentConstruct, AgentExit, Edit, StrayEnds,
                  GraderEnds, runnerVars, procVars, LiveAgent
    <2>2. Left(r)' <= Left(r)
      BY <2>1, StaysThere
    <2>3. QED
      BY <1>2, <1>3, <2>2
  <1>5. ASSUME NEW s \in Runners, s # r,
               \/ AdmissionStep(s) \/ BodyStep(s) \/ SealingStep(s) \/ Raise(s) \/ Environment(s)
        PROVE  Left(r)' <= Left(r)
    <2>1. pc'[r] = pc[r] /\ agent'[r] = agent[r]
      BY <1>5, OthersUnmoved
    <2>2. QED
      BY <2>1, StaysThere
  <1>6. QED
    BY <1>1, <1>2, <1>3, <1>4, <1>5, NextSteps

\* A runner that waits has launched what it waits for.
WaitInv == \A r \in Runners : pc[r] = "wait" => agent[r] # "none"

LEMMA NextWaitInv == TypeOK /\ WaitInv /\ [Next]_vars => WaitInv'
  <1>1. SUFFICES ASSUME TypeOK, WaitInv, [Next]_vars, NEW r \in Runners, pc'[r] = "wait"
                 PROVE  agent'[r] # "none"
    BY DEF WaitInv
  <1>2. CASE AdmissionStep(r) \/ SealingStep(r)
    <2>1. pc'[r] # "wait"
      BY <1>1, <1>2, AdmissionEffect, SealingEffect DEF TypeOK, Admitting, Sealing
    <2>2. QED
      BY <1>1, <2>1
  <1>3. CASE BodyStep(r)
    <2>1. CASE LaunchHermes(r)
      BY <1>1, <2>1 DEF TypeOK, LaunchHermes, Moves
    <2>2. CASE HermesTimeout(r)
      BY <1>1, <2>2 DEF TypeOK, HermesTimeout, ForcedEnd
    <2>3. CASE \/ Prepare(r) \/ CopyStarter(r) \/ Baseline(r) \/ Load(r) \/ MakeHome(r)
               \/ WaitReturns(r) \/ Reap(r)
      BY <1>1, <2>3 DEF TypeOK, Prepare, CopyStarter, Baseline, Load, MakeHome, WaitReturns,
                        Reap, Moves
    <2>4. CASE \/ RecordExit(r, "exitHermes", "timingHermes")
               \/ RecordTiming(r, "timingHermes", "collect")
               \/ RecordExit(r, "exitGrader", "timingGrader")
               \/ RecordTiming(r, "timingGrader", "finish")
      BY <1>1, <2>4 DEF TypeOK, RecordExit, RecordTiming, Moves
    <2>5. CASE Collect(r) \/ Patch(r) \/ Grade(r) \/ CollectGrade(r) \/ Finish(r)
      BY <1>1, <2>5 DEF TypeOK, Collect, Patch, Grade, CollectGrade, Finish, Moves
    <2>6. QED
      BY <1>3, <2>1, <2>2, <2>3, <2>4, <2>5 DEF BodyStep
  <1>4. CASE Raise(r)
    BY <1>1, <1>4 DEF TypeOK, Raise
  <1>5. CASE Environment(r)
    BY <1>1, <1>5 DEF TypeOK, WaitInv, Environment, AgentHook, AgentConstruct, AgentExit,
                      Edit, StrayEnds, GraderEnds, runnerVars, procVars
  <1>6. ASSUME NEW s \in Runners, s # r,
               \/ AdmissionStep(s) \/ BodyStep(s) \/ SealingStep(s) \/ Raise(s) \/ Environment(s)
        PROVE  agent'[r] # "none"
    BY <1>1, <1>6, OthersUnmoved DEF WaitInv
  <1>7. CASE UNCHANGED vars
    BY <1>1, <1>7 DEF WaitInv, vars, runnerVars, procVars
  <1>8. QED
    BY <1>1, <1>2, <1>3, <1>4, <1>5, <1>6, <1>7, NextSteps

\* A runner in execute_timed's wait has an agent that ends or can be ended.
THEOREM WaitsForAnAgent == Spec => []WaitInv
  <1>1. Init => WaitInv
    BY DEF Init, WaitInv
  <1>2. QED
    BY <1>1, NextWaitInv, TypeCorrect, PTL DEF Spec

\* A run passes each program point at most once, whatever overlaps it, fails or hangs: no retry of
\* the lock, of the home or of a stage makes run_one go round.  The measure behind
\* RunnersEnd, which adds that some step of a runner under way is always possible.
THEOREM RunsAreFinite == Spec => EveryStepCounts
  <1>1. TypeOK /\ TypeOK' /\ [Next]_vars
        => [\A r \in Runners : /\ Left(r)' <= Left(r)
                               /\ Step(r) \/ Denied(r) => Left(r)' < Left(r)]_vars
    BY NextCounts
  <1>2. QED
    BY <1>1, TypeCorrect, PTL DEF Spec, EveryStepCounts
=============================================================================
