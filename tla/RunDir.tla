------------------------------- MODULE RunDir -------------------------------
(***************************************************************************)
(* One run directory of the benchmark runner and every process that works  *)
(* on it: run_one of harness/runner/runner.py, the Hermes agent and the    *)
(* grader it launches, and what the aggregator reads off the sealed        *)
(* directory.  A runner process is one invocation of run_one; it lives     *)
(* once.  The agent and the grader have sessions of their own              *)
(* (start_new_session), so they outlive a runner that is killed.           *)
(*                                                                         *)
(* A step is one effect on the directory that another process, or a        *)
(* restart, can see: a create, a rename, an unlink, a recursive copy or    *)
(* removal.  Contents are abstract: a workspace holds a member of          *)
(* Contents, the starter/prompt/grader/limits of an invocation are a       *)
(* member of Inputs.                                                       *)
(***************************************************************************)
EXTENDS Naturals, FiniteSets

CONSTANTS Runners,    \* runner processes (a pid is not reused)
          Nobody,     \* no runner
          Inputs,     \* what request_record digests: prompt, starter, grader, limits
          NoInputs,
          Contents,   \* what a workspace can hold
          Starter,    \* the starter's content
          Solved,     \* the contents the deterministic grader passes
          NoContent,
          Overlap,    \* may two runner processes work on the directory at once?
          Strays,     \* may an agent's tools outlive its forced end?
          CrashAt,    \* program points at which a runner may be killed
          RaiseAt     \* program points inside the try at which an exception may arise

\* The program points of run_one, in program order.
InTry == {"prepare", "copy", "baseline", "load", "home", "launch", "wait", "reap",
          "exitHermes", "timingHermes", "collect", "patch", "grade", "grading",
          "exitGrader", "timingGrader", "finish", "unlock", "sums", "seal",
          "chmodTree", "chmodRoot"}
Running == {"mkdir", "request", "lock", "readLock", "breakLock", "relock",
            "writePid", "abort"} \cup InTry
Final == {"refused", "failed", "completed", "already", "dead"}

\* The points whose next effect needs write permission on the run directory.
Writes == {"copy", "baseline", "home", "launch", "exitHermes", "timingHermes",
           "collect", "patch", "grade", "exitGrader", "timingGrader", "finish", "sums",
           "seal"}

\* The points whose next effect renames a temporary file over the one it replaces.
Temporary == {"request", "baseline", "exitHermes", "timingHermes", "collect", "patch",
              "exitGrader", "timingGrader", "finish", "sums", "seal"}

Codes == {"ok", "error", "timeout"}
Verdicts == {"accept", "reject", "broken"}
Stages == {"prepared", "hermes_complete", "evidence_complete", "artifacts_complete"}
LiveAgent == {"launched", "hooked", "working"}

ASSUME ConstantsOK ==
    /\ Nobody \notin Runners
    /\ NoInputs \notin Inputs
    /\ Starter \in Contents /\ Solved \subseteq Contents /\ NoContent \notin Contents
    /\ Overlap \in BOOLEAN /\ Strays \in BOOLEAN
    /\ CrashAt \subseteq Running /\ RaiseAt \subseteq InTry

VARIABLES
    pc, mode, inputs,  \* each runner: where it is, fresh or --resume, its inputs
    mem,               \* its in-memory exit_status and timings,
    taken,             \*   and its first diff and git_evidence["available"]
    agent, code,       \* the agent it launched, and that agent's wait status
    strays,            \* agents with tool processes that survived them
    grader,            \* the grader it launched
    dir, request, lock, files, litter, sums, mark, treeRO, rootRO   \* the run directory
runnerVars == <<pc, mode, inputs, mem, taken>>
procVars == <<agent, code, strays, grader>>
dirVars == <<dir, request, lock, files, litter, sums, mark, treeRO, rootRO>>
vars == <<runnerVars, procVars, dirVars>>

NoHermes == [by |-> Nobody, code |-> "none"]
HermesStatus == [by : Runners, code : Codes] \cup {NoHermes}
ExitStatus == [hermes : HermesStatus, grader : {"none", "ok", "bad"}]
NoExit == [hermes |-> NoHermes, grader |-> "none"]
Memory == [exit : ExitStatus, timing : SUBSET {"hermes", "grader"}]
Taken == [diff : Contents \cup {NoContent}, available : BOOLEAN]

\* git.diff and git.patch: of which content, or of none.
Evidence == [diff : Contents \cup {NoContent}, patch : Contents \cup {NoContent}]
NoEvidence == [diff |-> NoContent, patch |-> NoContent]
NoState == [by |-> Nobody, stage |-> "none"]
States == [by : Runners, stage : Stages] \cup {NoState}
NoResult == [written |-> FALSE, success |-> FALSE, verdict |-> "none", trace |-> FALSE,
             available |-> FALSE]
Results == [written : {TRUE}, success : BOOLEAN, verdict : Verdicts \cup {"none"},
            trace : BOOLEAN, available : BOOLEAN] \cup {NoResult}

\* Every artifact write_checksums covers, with the two scratch trees, which it
\* would cover if they were there.
Files == [base : {"none", "partial", "full"},       \* workspace/: copied, and committed
          from : Inputs \cup {NoInputs},            \* the starter it was copied from
          content : Contents \cup {NoContent},
          home : BOOLEAN,                           \* .hermes-home/
          hooks : SUBSET Runners,                   \* tool-sandbox.jsonl: hook records
          cogs : SUBSET Runners,                    \*   and cognitive-isolation records
          exit : ExitStatus,                        \* exit_status.json
          timing : SUBSET {"hermes", "grader"},     \* timing.json
          evidence : Evidence,                      \* git.diff and git.patch
          gws : Contents \cup {NoContent},          \* .grader-workspace/
          graderOut : Verdicts \cup {"none"},       \* grader.stdout.txt
          result : Results,                         \* manifest.json and result.json
          state : States]                           \* state.json

NoFiles == [base |-> "none", from |-> NoInputs, content |-> NoContent, home |-> FALSE,
            hooks |-> {}, cogs |-> {}, exit |-> NoExit, timing |-> {},
            evidence |-> NoEvidence, gws |-> NoContent, graderOut |-> "none",
            result |-> NoResult, state |-> NoState]

Locks == [owner : Runners, written : BOOLEAN]
NoLock == [owner |-> Nobody, written |-> FALSE]

Init ==
    /\ pc = [r \in Runners |-> "idle"]
    /\ mode \in [Runners -> {"fresh", "resume"}]
    /\ inputs \in [Runners -> Inputs]
    /\ mem = [r \in Runners |-> [exit |-> NoExit, timing |-> {}]]
    /\ taken = [r \in Runners |-> [diff |-> NoContent, available |-> FALSE]]
    /\ agent = [r \in Runners |-> "none"]
    /\ code = [r \in Runners |-> "error"]
    /\ strays = {}
    /\ grader = [r \in Runners |-> "none"]
    /\ dir = "absent" /\ request = NoInputs /\ lock = NoLock
    /\ files = NoFiles /\ litter = {} /\ sums = {} /\ mark = "none"
    /\ treeRO = FALSE /\ rootRO = FALSE

Alive(r) == pc[r] \in Running           \* process_is_alive(pid of r)

\* verify_checksums of the runner.  The checksums also cover whose temporary files and
\* private indexes lie about (.name.uuid.tmp, .git-index-uuid).
Digested == <<files, litter>>
Intact == sums = {Digested}
Moves(r, from, to) == pc[r] = from /\ pc' = [pc EXCEPT ![r] = to]

-----------------------------------------------------------------------------
(* run_one up to the lock.  A refusal leaves the directory alone.          *)

\* --resume against a directory that is already sealed.
ReportComplete(r) ==
    /\ mode[r] = "resume" /\ dir = "present" /\ request = inputs[r] /\ mark # "none"
    /\ pc' = [pc EXCEPT ![r] = IF Intact THEN "already" ELSE "refused"]

\* Mutant: no comparison with request.json.
ResumeUnchecked(r) ==
    /\ pc[r] = "idle"
    /\ Overlap \/ \A s \in Runners : ~Alive(s)
    /\ \/ /\ mode[r] = "resume" /\ dir = "present"
          /\ pc' = [pc EXCEPT ![r] = IF mark = "none" THEN "lock" ELSE "already"]
       \/ /\ mode[r] = "fresh" /\ dir = "absent"
          /\ pc' = [pc EXCEPT ![r] = "mkdir"]
    /\ UNCHANGED <<mode, inputs, mem, taken, procVars, dirVars>>

Begin(r) ==
    /\ pc[r] = "idle"
    /\ Overlap \/ \A s \in Runners : ~Alive(s)
    /\ \/ ReportComplete(r)
       \/ /\ mode[r] = "resume" /\ dir = "present" /\ request = inputs[r] /\ mark = "none"
          /\ pc' = [pc EXCEPT ![r] = "lock"]
       \/ /\ mode[r] = "resume" /\ (dir = "absent" \/ request # inputs[r])
          /\ pc' = [pc EXCEPT ![r] = "refused"]
       \/ /\ mode[r] = "fresh" /\ dir = "present"
          /\ pc' = [pc EXCEPT ![r] = "refused"]
       \/ /\ mode[r] = "fresh" /\ dir = "absent"
          /\ pc' = [pc EXCEPT ![r] = "mkdir"]
    /\ UNCHANGED <<mode, inputs, mem, taken, procVars, dirVars>>

\* Mutant: mkdir(exist_ok=True).
MkdirShared(r) ==
    /\ Moves(r, "mkdir", "request") /\ dir' = "present"
    /\ UNCHANGED <<mode, inputs, mem, taken, procVars, request, lock, files, litter,
                   sums, mark, treeRO, rootRO>>

\* run_dir.mkdir is exclusive: of two fresh runners one fails.
Mkdir(r) ==
    /\ \/ Moves(r, "mkdir", "request") /\ dir = "absent" /\ dir' = "present"
       \/ Moves(r, "mkdir", "refused") /\ dir = "present" /\ UNCHANGED dir
    /\ UNCHANGED <<mode, inputs, mem, taken, procVars, request, lock, files, litter,
                   sums, mark, treeRO, rootRO>>

WriteRequest(r) ==
    /\ Moves(r, "request", "lock")
    /\ request' = inputs[r]
    /\ UNCHANGED <<mode, inputs, mem, taken, procVars, dir, lock, files, litter, sums,
                   mark, treeRO, rootRO>>

(* acquire_lock: an exclusive create of an empty file, into which the pid  *)
(* is written afterwards.                                                  *)
AcquireLock(r) ==
    /\ \/ Moves(r, "lock", "writePid") /\ lock = NoLock /\ ~rootRO
          /\ lock' = [owner |-> r, written |-> FALSE]
       \/ /\ lock = NoLock /\ rootRO          \* PermissionError
          /\ Moves(r, "lock", "refused") /\ UNCHANGED lock
       \/ /\ lock # NoLock
          /\ Moves(r, "lock", IF mode[r] = "resume" THEN "readLock" ELSE "refused")
          /\ UNCHANGED lock
    /\ UNCHANGED <<mode, inputs, mem, taken, procVars, dir, request, files, litter,
                   sums, mark, treeRO, rootRO>>

\* Mutant: a lock that is there is never broken.
LockIsFinal(r) ==
    /\ Moves(r, "readLock", "refused")
    /\ UNCHANGED <<mode, inputs, mem, taken, procVars, dirVars>>

\* A lock that names no live pid, an unreadable one included, is broken.
ReadLock(r) ==
    /\ Moves(r, "readLock", IF lock.written /\ Alive(lock.owner)
                            THEN "refused" ELSE "breakLock")
    /\ UNCHANGED <<mode, inputs, mem, taken, procVars, dirVars>>

\* unlink(missing_ok=True) of whatever is at the path now.
BreakLock(r) ==
    /\ \/ Moves(r, "breakLock", "relock") /\ (~rootRO \/ lock = NoLock) /\ lock' = NoLock
       \/ Moves(r, "breakLock", "refused") /\ rootRO /\ lock # NoLock /\ UNCHANGED lock
    /\ UNCHANGED <<mode, inputs, mem, taken, procVars, dir, request, files, litter,
                   sums, mark, treeRO, rootRO>>

RetakeLock(r) ==
    /\ \/ Moves(r, "relock", "writePid") /\ lock = NoLock /\ ~rootRO
          /\ lock' = [owner |-> r, written |-> FALSE]
       \/ Moves(r, "relock", "refused") /\ (lock # NoLock \/ rootRO) /\ UNCHANGED lock
    /\ UNCHANGED <<mode, inputs, mem, taken, procVars, dir, request, files, litter,
                   sums, mark, treeRO, rootRO>>

\* The pid goes to the file that was created, which may have been unlinked since.
WritePid(r) ==
    /\ Moves(r, "writePid", "prepare")
    /\ lock' = IF lock.owner = r THEN [owner |-> r, written |-> TRUE] ELSE lock
    /\ UNCHANGED <<mode, inputs, mem, taken, procVars, dir, request, files, litter,
                   sums, mark, treeRO, rootRO>>

-----------------------------------------------------------------------------
(* The body of run_one.                                                    *)

\* An artifact is rewritten by renaming a new, writable file over it.  (The temporary file
\* is created and renamed, or left behind, in one step: another runner that digests in
\* between digests what goes at once, or what stays as if its writer had stopped before.)
RewriteWith(f, temporaries) ==
    /\ ~rootRO
    /\ files' = f
    /\ litter' = temporaries
    /\ treeRO' = FALSE
    /\ UNCHANGED <<dir, request, lock, sums, mark, rootRO>>

Rewrite(f) ==
    /\ ~rootRO
    /\ files' = f
    /\ treeRO' = FALSE
    /\ UNCHANGED <<dir, request, lock, litter, sums, mark, rootRO>>

Prepare(r) ==
    /\ Moves(r, "prepare", IF files.base = "none" THEN "copy" ELSE "load")
    /\ UNCHANGED <<mode, inputs, mem, taken, procVars, dirVars>>

\* copytree starts by creating the destination and fails if it is there.
CopyStarter(r) ==
    /\ \/ /\ files.base = "none"
          /\ Moves(r, "copy", "baseline")
          /\ Rewrite([files EXCEPT !.base = "partial", !.from = inputs[r],
                                   !.content = Starter])
       \/ /\ files.base # "none"
          /\ Moves(r, "copy", "abort")
          /\ UNCHANGED dirVars
    /\ UNCHANGED <<mode, inputs, mem, taken, procVars>>

\* The rest of the copy, git init, add and commit, and stage "prepared".
Baseline(r) ==
    /\ Moves(r, "baseline", "load")
    /\ Rewrite([files EXCEPT !.base = "full",
                             !.state = [by |-> r, stage |-> "prepared"]])
    /\ UNCHANGED <<mode, inputs, mem, taken, procVars>>

Load(r) ==
    /\ Moves(r, "load", IF files.exit.hermes = NoHermes THEN "home" ELSE "collect")
    /\ mem' = [mem EXCEPT ![r] = [exit |-> files.exit, timing |-> files.timing]]
    /\ UNCHANGED <<mode, inputs, taken, procVars, dirVars>>

\* Mutant: ephemeral_home.mkdir(exist_ok=True).
ShareHome(r) ==
    /\ Moves(r, "home", "launch")
    /\ Rewrite([files EXCEPT !.home = TRUE])
    /\ UNCHANGED <<mode, inputs, mem, taken, procVars>>

\* ephemeral_home.mkdir has no exist_ok.
MakeHome(r) ==
    /\ \/ /\ ~files.home
          /\ Moves(r, "home", "launch")
          /\ Rewrite([files EXCEPT !.home = TRUE])
       \/ /\ files.home
          /\ Moves(r, "home", "abort")
          /\ UNCHANGED dirVars
    /\ UNCHANGED <<mode, inputs, mem, taken, procVars>>

\* execute_timed: Popen, or an OSError recorded as return code 127.
LaunchHermes(r) ==
    /\ \/ Moves(r, "launch", "wait") /\ agent' = [agent EXCEPT ![r] = "launched"]
          /\ UNCHANGED code
       \/ Moves(r, "launch", "reap") /\ code' = [code EXCEPT ![r] = "error"]
          /\ UNCHANGED agent
    /\ ~rootRO
    /\ UNCHANGED <<mode, inputs, mem, taken, strays, grader, dirVars>>

WaitReturns(r) ==
    /\ Moves(r, "wait", "reap") /\ agent[r] = "gone"
    /\ UNCHANGED <<mode, inputs, mem, taken, procVars, dirVars>>

\* Agent a ends by force; its tools, in sessions of their own, may survive.
ForcedEnd(a) ==
    /\ agent' = [agent EXCEPT ![a] = "gone"]
    /\ \/ strays' = strays
       \/ Strays /\ agent[a] = "working" /\ strays' = strays \cup {a}

\* Mutant: wait() without a timeout.
NeverTimesOut(r) == FALSE /\ UNCHANGED vars

\* The wait ran out: the agent's process group is signalled until the agent is gone.
HermesTimeout(r) ==
    /\ pc[r] = "wait" /\ agent[r] \in LiveAgent
    /\ ForcedEnd(r)
    /\ code' = [code EXCEPT ![r] = "timeout"]
    /\ UNCHANGED <<runnerVars, grader, dirVars>>

\* rmtree(ignore_errors=True) removes nothing from a read-only tree.
Removable == ~treeRO /\ ~rootRO

\* The disposable home goes, and its survival is an error.
Reap(r) ==
    /\ \/ /\ Removable
          /\ Moves(r, "reap", "exitHermes")
          /\ files' = [files EXCEPT !.home = FALSE]
          /\ mem' = [mem EXCEPT ![r].exit.hermes = [by |-> r, code |-> code[r]],
                                ![r].timing = @ \cup {"hermes"}]
       \/ /\ ~Removable
          /\ Moves(r, "reap", "abort")
          /\ UNCHANGED <<files, mem>>
    /\ UNCHANGED <<mode, inputs, taken, procVars, dir, request, lock, litter, sums,
                   mark, treeRO, rootRO>>

\* exit_status.json and timing.json are two files, written one after the other.
RecordExit(r, from, to) ==
    /\ Moves(r, from, to)
    /\ Rewrite([files EXCEPT !.exit = mem[r].exit])
    /\ UNCHANGED <<mode, inputs, mem, taken, procVars>>

RecordTiming(r, from, to) ==
    /\ Moves(r, from, to)
    /\ Rewrite([files EXCEPT !.timing = mem[r].timing])
    /\ UNCHANGED <<mode, inputs, mem, taken, procVars>>

\* What is written when the evidence has been taken, or could not be.
Captured(r, evidence, available) ==
    /\ taken' = [taken EXCEPT ![r].available = available]
    /\ RewriteWith([files EXCEPT !.evidence = evidence,
                                 !.state = [by |-> r, stage |-> "evidence_complete"]],
                   litter \ {r})

\* Stage "hermes_complete", the prompt, the status, the private index and the first diff; or
\* empty evidence of what is no Git working tree, or the text of an error.
Collect(r) ==
    /\ \/ /\ Moves(r, "collect", "patch")
          /\ taken' = [taken EXCEPT ![r].diff = files.content]
          /\ RewriteWith([files EXCEPT !.state = [by |-> r, stage |-> "hermes_complete"]],
                         litter \cup {r})
       \/ Moves(r, "collect", "grade") /\ Captured(r, NoEvidence, FALSE)
    /\ UNCHANGED <<mode, inputs, mem, procVars>>

Diffs(r) == [diff |-> taken[r].diff, patch |-> files.content]

\* Mutant: the return codes of git are not looked at.
PatchUnchecked(r) ==
    /\ Moves(r, "patch", "grade")
    /\ Captured(r, Diffs(r), TRUE) \/ Captured(r, NoEvidence, TRUE)
    /\ UNCHANGED <<mode, inputs, mem, procVars>>

\* The second diff; both files, written in place, or the text of an error for both; and the
\* private index goes, unless the directory has become read-only.
Patch(r) ==
    /\ \/ ~treeRO /\ Moves(r, "patch", "grade") /\ Captured(r, Diffs(r), TRUE)
       \/ Moves(r, "patch", "grade") /\ Captured(r, NoEvidence, FALSE)
       \/ /\ rootRO /\ ~treeRO /\ Moves(r, "patch", "abort")
          /\ files' = [files EXCEPT !.evidence = Diffs(r)]
          /\ UNCHANGED <<taken, dir, request, lock, litter, sums, mark, treeRO, rootRO>>
    /\ UNCHANGED <<mode, inputs, mem, procVars>>

\* Graders at work on a copy that is removed under them.
Disturbed == [s \in Runners |-> IF grader[s] = "intact" THEN "hurt" ELSE grader[s]]

\* A grade already recorded is kept; otherwise the grader gets a fresh copy, and
\* opening its stdout truncates the file.
Grade(r) ==
    /\ \/ /\ mem[r].exit.grader = "none"
          /\ Moves(r, "grade", "grading")
          /\ grader' = [Disturbed EXCEPT ![r] = "intact"]
          /\ Rewrite([files EXCEPT !.gws = files.content, !.graderOut = "broken"])
       \/ /\ mem[r].exit.grader # "none"
          /\ Moves(r, "grade", "finish")
          /\ UNCHANGED <<grader, dirVars>>
    /\ UNCHANGED <<mode, inputs, mem, taken, agent, code, strays>>

\* Mutant: no rmtree in the grader's finally clause.
KeepGraderCopy == files

DropGraderCopy ==
    IF Removable THEN [files EXCEPT !.gws = NoContent] ELSE files

\* The grader ended, or its wait ran out and it is ended.
CollectGrade(r) ==
    /\ Moves(r, "grading", "exitGrader")
    /\ \E status \in {"ok", "bad"} :
         /\ status = "ok" => grader[r] = "done"
         /\ mem' = [mem EXCEPT ![r].exit.grader = status,
                               ![r].timing = @ \cup {"grader"}]
    /\ grader' = [Disturbed EXCEPT ![r] = "done"]
    /\ files' = DropGraderCopy
    /\ UNCHANGED <<mode, inputs, taken, agent, code, strays, dir, request, lock, litter,
                   sums, mark, treeRO, rootRO>>

\* Mutant: at least one isolation record instead of exactly one.
SomeAgentTraced == files.hooks # {} /\ files.cogs # {}

\* verify_sandbox_trace: the hook's record comes first, and one agent was built.
TraceVerified == files.hooks # {} /\ \E a \in Runners : files.cogs = {a}

\* Mutants: the grader's "passed" is not looked at; the agent's exit code is not;
\* the agent's timed_out flag is not.
OutcomeOfAnyGrade(r) ==
    [written |-> TRUE, trace |-> TraceVerified, verdict |-> files.graderOut,
     available |-> taken[r].available,
     success |-> /\ mem[r].exit.hermes.code = "ok" /\ TraceVerified
                 /\ mem[r].exit.grader = "ok"]
OutcomeOfAnyExit(r) ==
    [written |-> TRUE, trace |-> TraceVerified, verdict |-> files.graderOut,
     available |-> taken[r].available,
     success |-> TraceVerified /\ mem[r].exit.grader = "ok" /\ files.graderOut = "accept"]
OutcomeOfTimeout(r) ==
    [written |-> TRUE, trace |-> TraceVerified, verdict |-> files.graderOut,
     available |-> taken[r].available,
     success |-> /\ mem[r].exit.hermes.code # "error" /\ TraceVerified
                 /\ mem[r].exit.grader = "ok" /\ files.graderOut = "accept"]

Outcome(r) ==
    LET hermesOK == mem[r].exit.hermes.code = "ok" /\ TraceVerified
        graderOK == mem[r].exit.grader = "ok" /\ files.graderOut \in {"accept", "reject"}
    IN  [written |-> TRUE, trace |-> TraceVerified, verdict |-> files.graderOut,
         available |-> taken[r].available,
         success |-> hermesOK /\ graderOK /\ files.graderOut = "accept"]

\* Manifest, result, schemas, stage "artifacts_complete".
Finish(r) ==
    /\ Moves(r, "finish", "unlock")
    /\ Rewrite([files EXCEPT !.result = Outcome(r),
                             !.state = [by |-> r, stage |-> "artifacts_complete"]])
    /\ UNCHANGED <<mode, inputs, mem, taken, procVars>>

-----------------------------------------------------------------------------
(* Sealing, and the finally clause.                                        *)

\* unlink(missing_ok=True), whoever's lock is there.
Unlock(r) ==
    /\ \/ Moves(r, "unlock", "sums") /\ (~rootRO \/ lock = NoLock) /\ lock' = NoLock
       \/ Moves(r, "unlock", "abort") /\ rootRO /\ lock # NoLock /\ UNCHANGED lock
    /\ UNCHANGED <<mode, inputs, mem, taken, procVars, dir, request, files, litter,
                   sums, mark, treeRO, rootRO>>

WriteChecksums(r) ==
    /\ Moves(r, "sums", "seal") /\ ~rootRO
    /\ sums' = {Digested}
    /\ mark' = IF mark = "match" /\ ~Intact THEN "old" ELSE mark
    /\ treeRO' = FALSE
    /\ UNCHANGED <<mode, inputs, mem, taken, procVars, dir, request, lock, files,
                   litter, rootRO>>

\* Mutant: the final stage is written to state.json after the checksums.
SealThenStamp(r) ==
    /\ Moves(r, "seal", "chmodTree") /\ ~rootRO
    /\ mark' = "match"
    /\ treeRO' = FALSE
    /\ files' = [files EXCEPT !.state = [by |-> r, stage |-> "prepared"]]
    /\ UNCHANGED <<mode, inputs, mem, taken, procVars, dir, request, lock, litter, sums,
                   rootRO>>

\* COMPLETE holds the digest of the checksum file that is there now.
Seal(r) ==
    /\ Moves(r, "seal", "chmodTree") /\ ~rootRO
    /\ mark' = "match"
    /\ treeRO' = FALSE
    /\ UNCHANGED <<mode, inputs, mem, taken, procVars, dir, request, lock, files,
                   litter, sums, rootRO>>

\* make_read_only: everything below the directory, and then the directory.
ChmodTree(r) ==
    /\ Moves(r, "chmodTree", "chmodRoot")
    /\ treeRO' = TRUE
    /\ UNCHANGED <<mode, inputs, mem, taken, procVars, dir, request, lock, files,
                   litter, sums, mark, rootRO>>

ChmodRoot(r) ==
    /\ Moves(r, "chmodRoot", "completed")
    /\ rootRO' = TRUE
    /\ UNCHANGED <<mode, inputs, mem, taken, procVars, dir, request, lock, files,
                   litter, sums, mark, treeRO>>

\* The finally clause of a run that was not finalized.
Abort(r) ==
    /\ Moves(r, "abort", "failed")
    /\ lock' = IF rootRO THEN lock ELSE NoLock
    /\ UNCHANGED <<mode, inputs, mem, taken, procVars, dir, request, files, litter,
                   sums, mark, treeRO, rootRO>>

Step(r) ==
    \/ Mkdir(r) \/ WriteRequest(r)
    \/ AcquireLock(r) \/ ReadLock(r) \/ BreakLock(r) \/ RetakeLock(r) \/ WritePid(r)
    \/ Prepare(r) \/ CopyStarter(r) \/ Baseline(r) \/ Load(r)
    \/ MakeHome(r) \/ LaunchHermes(r) \/ WaitReturns(r) \/ HermesTimeout(r) \/ Reap(r)
    \/ RecordExit(r, "exitHermes", "timingHermes")
    \/ RecordTiming(r, "timingHermes", "collect")
    \/ Collect(r) \/ Patch(r) \/ Grade(r) \/ CollectGrade(r)
    \/ RecordExit(r, "exitGrader", "timingGrader")
    \/ RecordTiming(r, "timingGrader", "finish")
    \/ Finish(r) \/ Unlock(r) \/ WriteChecksums(r) \/ Seal(r)
    \/ ChmodTree(r) \/ ChmodRoot(r) \/ Abort(r)

-----------------------------------------------------------------------------
(* What goes wrong.                                                        *)

\* A write into a sealed directory: PermissionError.
Denied(r) ==
    /\ rootRO /\ pc[r] \in Writes
    /\ pc' = [pc EXCEPT ![r] = "abort"]
    /\ UNCHANGED <<mode, inputs, mem, taken, procVars, dirVars>>

\* A runner that stops may leave a temporary file behind, which nobody removes.
Leaves(r) ==
    pc[r] \in Temporary /\ RewriteWith(files, litter \cup {r})

\* The finally clause of capture_git_evidence.
DropIndex(r) ==
    /\ litter' = IF rootRO THEN litter ELSE litter \ {r}
    /\ UNCHANGED <<files, treeRO>>

\* An exception inside the try (a failed git, a full disk, SIGINT).  Around the agent
\* execute_timed ends its group and run_one removes the home; around the grader
\* the grader is ended and its copy removed.
Raise(r) ==
    /\ pc[r] \in RaiseAt
    /\ pc' = [pc EXCEPT ![r] = "abort"]
    /\ \/ /\ pc[r] = "wait"
          /\ ForcedEnd(r)
          /\ files' = [files EXCEPT !.home = ~Removable]
          /\ UNCHANGED <<grader, litter, treeRO>>
       \/ /\ pc[r] \in {"launch", "reap"}
          /\ \/ files' = [files EXCEPT !.home = ~Removable]
             \/ UNCHANGED files
          /\ UNCHANGED <<agent, strays, grader, litter, treeRO>>
       \/ /\ pc[r] = "grading"
          /\ grader' = [Disturbed EXCEPT ![r] = "done"]
          /\ files' = DropGraderCopy
          /\ UNCHANGED <<agent, strays, litter, treeRO>>
       \/ /\ pc[r] \notin {"wait", "launch", "reap", "grading"}
          /\ \/ Leaves(r)
             \/ pc[r] = "patch" /\ DropIndex(r)
             \/ pc[r] # "patch" /\ UNCHANGED <<files, litter, treeRO>>
          /\ UNCHANGED <<agent, strays, grader>>
    /\ UNCHANGED <<mode, inputs, mem, taken, code, dir, request, lock, sums, mark,
                   rootRO>>

\* SIGKILL, or SIGTERM, which Python does not turn into an exception.
Crash(r) ==
    /\ pc[r] \in CrashAt
    /\ pc' = [pc EXCEPT ![r] = "dead"]
    /\ Leaves(r) \/ UNCHANGED dirVars
    /\ UNCHANGED <<mode, inputs, mem, taken, procVars>>

-----------------------------------------------------------------------------
(* The processes a runner launched, which run whether or not it does.      *)

CanAppend == IF files.hooks = {} THEN ~rootRO ELSE ~treeRO

\* _install of sitecustomize.py ends by recording the hook.
AgentHook(a) ==
    /\ agent[a] = "launched" /\ CanAppend
    /\ agent' = [agent EXCEPT ![a] = "hooked"]
    /\ files' = [files EXCEPT !.hooks = @ \cup {a}]
    /\ UNCHANGED <<runnerVars, code, strays, grader, dir, request, lock, litter, sums,
                   mark, treeRO, rootRO>>

\* isolated_agent_init records the isolation and then builds the agent.
AgentConstruct(a) ==
    /\ agent[a] = "hooked" /\ CanAppend
    /\ agent' = [agent EXCEPT ![a] = "working"]
    /\ files' = [files EXCEPT !.cogs = @ \cup {a}]
    /\ UNCHANGED <<runnerVars, code, strays, grader, dir, request, lock, litter, sums,
                   mark, treeRO, rootRO>>

\* Only an agent that was built ends with return code 0; its foreground tools ended first.
AgentExit(a) ==
    /\ agent[a] \in LiveAgent
    /\ \E c \in {"ok", "error"} :
         /\ c = "ok" => agent[a] = "working"
         /\ code' = [code EXCEPT ![a] = c]
    /\ agent' = [agent EXCEPT ![a] = "gone"]
    /\ UNCHANGED <<runnerVars, strays, grader, dirVars>>

\* An agent's tools change the workspace, a stray one through descriptors it holds.
Edit(a) ==
    /\ agent[a] = "working" \/ a \in strays
    /\ \E c \in Contents : files' = [files EXCEPT !.content = c]
    /\ UNCHANGED <<runnerVars, procVars, dir, request, lock, litter, sums, mark, treeRO,
                   rootRO>>

StrayEnds(a) ==
    /\ a \in strays /\ strays' = strays \ {a}
    /\ UNCHANGED <<runnerVars, agent, code, grader, dirVars>>

\* The grader prints its verdict to the descriptor it was given.
GraderEnds(r) ==
    /\ grader[r] \in {"intact", "hurt"}
    /\ grader' = [grader EXCEPT ![r] = "done"]
    /\ \E v \in Verdicts :
         /\ v = "accept" => grader[r] = "intact" /\ files.gws \in Solved
         /\ v = "reject" => grader[r] = "hurt" \/ files.gws \notin Solved
         /\ files' = [files EXCEPT !.graderOut = v]
    /\ UNCHANGED <<runnerVars, agent, code, strays, dir, request, lock, litter, sums,
                   mark, treeRO, rootRO>>

Environment(r) ==
    \/ AgentHook(r) \/ AgentConstruct(r) \/ AgentExit(r) \/ Edit(r) \/ StrayEnds(r)
    \/ GraderEnds(r)

Next == \E r \in Runners :
    Begin(r) \/ Step(r) \/ Denied(r) \/ Raise(r) \/ Crash(r) \/ Environment(r)

Spec == Init /\ [][Next]_vars

\* A started runner is never suspended for good.  Agents and graders may hang.
RunnersRun == \A r \in Runners : WF_vars(Step(r) \/ Denied(r))

FairSpec == Spec /\ RunnersRun
=============================================================================
