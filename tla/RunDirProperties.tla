-------------------------- MODULE RunDirProperties --------------------------
(***************************************************************************)
(* What a run directory promises: the aggregator's reading of it, and the  *)
(* properties of RunDir that the runs check and RunDirProofs proves.       *)
(***************************************************************************)
EXTENDS RunDir

(* verify_cell of scripts/aggregate.py, on what the directory holds now.   *)
Verified ==
    /\ Intact /\ mark = "match"                        \* verify_checksums
    /\ treeRO /\ rootRO                                \* no writable path
    /\ ~files.home                                     \* no surviving home
    /\ files.result.written
    /\ TraceVerified /\ files.result.trace
    /\ files.timing = {"hermes", "grader"}
    /\ files.exit.hermes # NoHermes /\ files.exit.grader # "none"

\* row: the cell that the leaderboard counts as resolved.
Counted == Verified /\ files.result.success

-----------------------------------------------------------------------------
(* Types.                                                                  *)

\* Every variable keeps its type.
TypeOK ==
    /\ pc \in [Runners -> {"idle"} \cup Running \cup Final]
    /\ mode \in [Runners -> {"fresh", "resume"}]
    /\ inputs \in [Runners -> Inputs]
    /\ mem \in [Runners -> Memory]
    /\ taken \in [Runners -> Taken]
    /\ agent \in [Runners -> {"none", "gone"} \cup LiveAgent]
    /\ code \in [Runners -> Codes]
    /\ strays \subseteq Runners
    /\ grader \in [Runners -> {"none", "intact", "hurt", "done"}]
    /\ dir \in {"absent", "present"}
    /\ request \in Inputs \cup {NoInputs}
    /\ lock \in Locks \cup {NoLock}
    /\ files \in Files
    /\ litter \subseteq Runners
    /\ sums \subseteq Files \X SUBSET Runners
    /\ mark \in {"none", "match", "old"}
    /\ treeRO \in BOOLEAN /\ rootRO \in BOOLEAN

-----------------------------------------------------------------------------
(* Safety.                                                                 *)

\* However many runners are started, killed and resumed over the directory, at most
\* one Hermes process is at work in it: the exclusive creation of the disposable home
\* gives what the lock does not.
AtMostOneAgent ==
    \A r, s \in Runners : agent[r] \in LiveAgent /\ agent[s] \in LiveAgent => r = s

\* A counted cell is the work of one agent from its construction to its own exit with
\* code 0: it was not killed, no other agent was ever built, nothing of it still runs.
SoleAuthor ==
    Counted => \E r \in Runners :
        /\ files.cogs = {r} /\ code[r] = "ok"
        /\ agent[r] = "gone" /\ r \notin strays

\* The exit status sealed with a counted cell is that agent's.
StatusIsAuthors ==
    Counted => \E r \in Runners :
        files.cogs = {r} /\ files.exit.hermes = [by |-> r, code |-> "ok"]

\* The sealed workspace of a counted cell is one the grader passes, although runners copy,
\* grade, interrupt and record over each other.
SolvedIsSealed == Counted => files.content \in Solved

\* If the manifest of a counted cell says that the evidence is available, the diff and the
\* patch, taken one after the other and again at every resume, are both of the sealed
\* workspace.  (With one runner at a time: a runner in another's way can write a diff that it
\* took before the other's agent began.)
EvidenceIsSealed ==
    Counted /\ files.result.available =>
        files.evidence = [diff |-> files.content, patch |-> files.content]

\* What a resume continues was built from the inputs in request.json: the workspace is
\* that starter's and the recorded agent run had that prompt, grader and limits.
ResumeKeepsInputs ==
    /\ files.from # NoInputs => files.from = request
    /\ files.exit.hermes # NoHermes => inputs[files.exit.hermes.by] = request

\* Two live invocations without --resume never both get past the creation of the
\* directory.
OneCreator ==
    \A r, s \in Runners :
        /\ mode[r] = "fresh" /\ pc[r] \in Running \ {"mkdir"}
        /\ mode[s] = "fresh" /\ pc[s] \in Running \ {"mkdir"}
        => r = s

\* Once a completed directory could be verified it holds no home, no grader's copy and no
\* lock, it is a full copy of the starter that was worked on, both processes are recorded,
\* and what it holds of temporary files and private indexes is of runners that were killed or
\* failed: nobody that is at work writes in it.
SealedIsClean ==
    mark = "match" /\ Intact =>
        /\ lock = NoLock /\ ~files.home /\ files.gws = NoContent
        /\ files.base = "full"
        /\ files.exit.hermes # NoHermes /\ files.exit.grader # "none"
        /\ files.timing = {"hermes", "grader"}
        /\ \A r \in litter : pc[r] \in {"dead", "failed"}

\* The completion marker vouches for the artifacts: while it is there they are those
\* that were checksummed.
CompleteIsIntact == mark # "none" => Intact /\ mark = "match"

\* The campaign's view of the directory: it is complete when COMPLETE is there, and sound
\* when that vouches for an agent and a grader that completed.
Cell == INSTANCE RunCell WITH
    status <- IF dir = "absent" THEN "absent" ELSE IF mark = "none" THEN "open"
              ELSE IF rootRO THEN "shut" ELSE "complete",
    working <- \E a \in Runners : agent[a] \in LiveAgent,
    sound <- /\ mark # "none" /\ files.result.trace
             /\ files.exit.hermes.code = "ok" /\ files.exit.grader = "ok"

\* One runner after the other over the directory, killed or failing anywhere, is one
\* cell to the campaign: no agent works in a complete one, and its outcome is final.
IsOneCell == Cell!CellSpec

\* No step undoes a counted cell.
CountedStays == [][Counted => Counted']_vars

-----------------------------------------------------------------------------
(* Liveness.                                                               *)

\* A runner that starts comes to an end, even if the agent and the grader hang.
RunnersEnd == \A r \in Runners : pc[r] \in Running ~> pc[r] \in Final

\* Resumed often enough after crashes, the cell is sealed and read-only.
EventuallySealed == <>(mark = "match" /\ Intact /\ treeRO /\ rootRO)

-----------------------------------------------------------------------------
(* What the documentation says and the code does not do.                   *)

\* "Each run receives a private copy of the starter content ... the runner creates a
\* synthetic private baseline commit inside each workspace" (harness/runner/README.md:38):
\* an agent is at work in a whole copy of the starter, committed.  Refuted: a workspace
\* left half-prepared by a killed runner is taken for a prepared one by --resume.
AgentStartsFromBaseline ==
    \A a \in Runners : agent[a] \in LiveAgent => files.base = "full"
=============================================================================
