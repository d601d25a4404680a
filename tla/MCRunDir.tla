------------------------------ MODULE MCRunDir ------------------------------
(***************************************************************************)
(* Instances of RunDir for TLC: where runners are killed or fail, how they *)
(* are invoked, and the bounds of each run.                                *)
(***************************************************************************)
EXTENDS RunDirProperties, TLC

CONSTANTS r1, r2, r3

\* A kill while the grader runs leaves it behind, over the next invocation's copy.
NotGrading == Running \ {"grading"}
NoPoints == {}
OnlyInBaseline == {"baseline"}

-----------------------------------------------------------------------------
(* Runners at once.                                                        *)

Symmetric == Permutations(Runners)
KilledInOverlap == {"writePid", "baseline", "wait", "exitHermes", "patch", "unlock"}
FailedInOverlap == {"wait", "baseline"}

\* What a state's future depends on: the mode decides up to the lock, the memory of a
\* runner that has ended is gone, as is the first diff once it is written, and what nobody
\* removes is compared with checksums only.
Essential ==
    <<pc, inputs, procVars, dir, request, lock, files, sums, mark, treeRO, rootRO,
      IF sums = {} THEN {} ELSE litter,
      [r \in Runners |-> IF pc[r] \in {"idle", "mkdir", "request", "lock"}
                         THEN mode[r] ELSE "resume"],
      [r \in Runners |-> IF pc[r] \in InTry THEN mem[r] ELSE <<>>],
      [r \in Runners |-> IF pc[r] = "patch" THEN taken[r]
                         ELSE pc[r] \in InTry /\ taken[r].available]>>

\* Bound: a refused runner has left the directory alone, a timed-out agent is recorded
\* like one that failed, and a grader that ended badly like one that printed nothing.
NobodyRefused ==
    \A r \in Runners : /\ pc[r] # "refused" /\ code[r] # "timeout"
                       /\ mem[r].exit.grader # "bad"

-----------------------------------------------------------------------------
(* Recovery: an operator invokes the runner again and again, as            *)
(* run_campaign.py does, with --resume when the directory is there.        *)

\* Kills and failures that a resume recovers from.  It does not recover from one before
\* request.json is there, in the copy of the starter, while the home is there, between
\* the two telemetry files, while the grader runs, or after COMPLETE.
Recoverable == {"writePid", "prepare", "exitHermes", "patch", "exitGrader", "sums", "seal"}
RecoverableFailure == {"wait", "grading", "unlock"}

\* Bound: the second runner stops in one of these; the third is left alone.
Again == {"patch", "seal", "wait", "unlock"}
MayStop(r) == r = r1 \/ (r = r2 /\ pc[r] \in Again)

Invoke(r) == Begin(r) /\ (mode[r] = "resume" <=> dir = "present")

RecoverInit == Init /\ mode = [r \in Runners |-> IF r = r1 THEN "fresh" ELSE "resume"]

RecoverNext ==
    \E r \in Runners : \/ Invoke(r) \/ Step(r) \/ Environment(r)
                       \/ MayStop(r) /\ (Raise(r) \/ Crash(r))

RecoverSpec ==
    /\ RecoverInit /\ [][RecoverNext]_vars
    /\ RunnersRun /\ \A r \in Runners : WF_vars(Invoke(r))
=============================================================================
