----------------------------- MODULE GitEvidence -----------------------------
(***************************************************************************)
(* The Git side of a run in harness/runner/runner.py: the private baseline *)
(* commit prepare_starter_workspace makes, what the agent may do to the    *)
(* workspace and its repository, capture_git_evidence, and the copy handed *)
(* to the grader.                                                          *)
(*                                                                         *)
(* A tree gives each path a content, 0 where there is no file.  A patch is *)
(* the contents of the paths it changes.                                   *)
(* Git itself is external: each command is modelled by what it does to     *)
(* trees and indexes for the arguments the runner passes.  Repositories    *)
(* the agent nests inside the workspace, and what attributes and           *)
(* configuration it sets there make of a diff (text conversions, filters), *)
(* are not modelled.                                                       *)
(***************************************************************************)
EXTENDS Naturals

CONSTANTS Files,        \* the paths a workspace may have
          Ignored,      \* those its .gitignore names
          MaxContent,   \* contents are 1..MaxContent
          Binary,       \* those Git takes for binary
          MaxActs,      \* bound on the agent's acts
          MaxCrashes    \* bound on ends of the runner

ASSUME GitOK ==
    /\ Ignored \subseteq Files /\ MaxContent \in Nat /\ Binary \subseteq 1..MaxContent
    /\ MaxActs \in Nat /\ MaxCrashes \in Nat

VARIABLES
    pc,          \* where run_one is
    starter,     \* the starter's content
    enclosed,    \* whether the runs directory is inside another work tree
    files,       \* the working tree
    repo,        \* its repository: none yet, no commit yet, with a commit, removed
    head, index, \* the tree of HEAD and the index of that repository
    committed,   \* whether the agent has committed
    alt,         \* the paths in the alternate index
    human,       \* the output of the first diff
    evidence,    \* what the capture left behind
    graded,      \* the copy the grader got
    strays,      \* whether processes of the agent outlived it
    recorded,    \* whether exit_status.json has the grader's status
    acts, crashes
fixed == <<starter, enclosed>>
agents == <<files, repo, head, index, committed>>
captures == <<alt, human, evidence>>
vars == <<pc, starter, enclosed, files, repo, head, index, committed, alt, human, evidence,
          graded, strays, recorded, acts, crashes>>

Trees == [Files -> 0..MaxContent]
Paths(tree) == {f \in Files : tree[f] # 0}
Empty == [f \in Files |-> 0]
NoPatch == [f \in {} |-> 0]
Apply(patch, tree) == [f \in Files |-> IF f \in DOMAIN patch THEN patch[f] ELSE tree[f]]
\* A diff without --binary says of a binary file, before or after, only that it differs.
Differs == MaxContent + 1
IsText(tree, patch, f) == {tree[f], patch[f]} \cap Binary = {}
Readable(tree, patch) == [f \in DOMAIN patch |-> IF IsText(tree, patch, f) THEN patch[f] ELSE Differs]
NoEvidence == [available |-> FALSE, of |-> "none", diff |-> NoPatch, patch |-> NoPatch]

Preparing == {"copy", "init", "add", "commit"}
Capturing == {"inside", "status", "readtree", "intent", "diff", "patch"}
After == Capturing \cup {"copied", "graded"}

Init ==
    /\ pc = "copy" /\ starter \in Trees /\ enclosed \in BOOLEAN /\ files = Empty
    /\ repo = "none" /\ head = Empty /\ index = Empty /\ committed = FALSE
    /\ alt = {} /\ human = NoPatch /\ evidence = NoEvidence
    /\ graded = Empty /\ strays = FALSE /\ recorded = FALSE
    /\ acts = 0 /\ crashes = 0

-----------------------------------------------------------------------------
(* prepare_starter_workspace.                                              *)

CopyStarter ==
    /\ pc = "copy" /\ pc' = "init" /\ files' = starter
    /\ UNCHANGED <<fixed, repo, head, index, committed, captures, graded, strays, recorded, acts, crashes>>

GitInit ==
    /\ pc = "init" /\ pc' = "add" /\ repo' = "unborn"
    /\ UNCHANGED <<fixed, files, head, index, committed, captures, graded, strays, recorded, acts, crashes>>

\* git add -f --all: the ignored files as well.
AddAll ==
    /\ pc = "add" /\ pc' = "commit" /\ index' = files
    /\ UNCHANGED <<fixed, files, repo, head, committed, captures, graded, strays, recorded, acts, crashes>>

CommitBaseline ==
    /\ pc = "commit" /\ pc' = "agent" /\ repo' = "born" /\ head' = index
    /\ UNCHANGED <<fixed, files, index, committed, captures, graded, strays, recorded, acts, crashes>>

\* A command that fails ends the run in RuntimeError, before the agent is launched.
PreparationFails ==
    /\ pc \in Preparing \ {"copy"} /\ pc' = "failed"
    /\ UNCHANGED <<fixed, agents, captures, graded, strays, recorded, acts, crashes>>

-----------------------------------------------------------------------------
(* The agent, and what outlives a timed-out one.                           *)

Act ==
    /\ acts < MaxActs /\ acts' = acts + 1
    /\ pc = "agent" \/ (strays /\ pc \in After)
    /\ UNCHANGED <<pc, fixed, captures, graded, strays, recorded, crashes>>

InRepo == repo \in {"unborn", "born"}

Edit(f, content) ==
    Act /\ content # files[f] /\ files' = [files EXCEPT ![f] = content] /\ UNCHANGED <<repo, head, index, committed>>
Stage(f) ==
    Act /\ InRepo /\ index[f] # files[f] /\ index' = [index EXCEPT ![f] = files[f]]
        /\ UNCHANGED <<files, repo, head, committed>>
Commit ==
    /\ Act /\ InRepo /\ index # head /\ head' = index /\ repo' = "born" /\ committed' = TRUE
    /\ UNCHANGED <<files, index>>
ResetHard ==
    /\ Act /\ repo = "born" /\ index' = head
    /\ files' = [f \in Files |-> IF f \in Paths(head) \cup Paths(index) THEN head[f] ELSE files[f]]
    /\ UNCHANGED <<repo, head, committed>>
RemoveRepo ==
    /\ Act /\ InRepo /\ repo' = "gone" /\ head' = Empty /\ index' = Empty
    /\ UNCHANGED <<files, committed>>
Reinit ==
    Act /\ repo = "gone" /\ repo' = "unborn" /\ UNCHANGED <<files, head, index, committed>>

\* The agent ends, or its time does; then processes it detached may live on.
AgentEnds ==
    /\ pc = "agent" /\ pc' = "inside" /\ strays' \in BOOLEAN
    /\ UNCHANGED <<fixed, agents, captures, graded, recorded, acts, crashes>>

-----------------------------------------------------------------------------
(* capture_git_evidence: each Git command runs in whatever repository the  *)
(* workspace is in at that moment.                                         *)

Here == IF InRepo THEN "own" ELSE IF enclosed THEN "outer" ELSE "none"

Captured(next) ==
    /\ pc' = next
    /\ UNCHANGED <<fixed, agents, graded, strays, recorded, acts, crashes>>

NotAWorkTree ==
    /\ pc = "inside" /\ Here = "none"
    /\ Captured("copied") /\ evidence' = NoEvidence /\ UNCHANGED <<alt, human>>

AWorkTree == pc = "inside" /\ Here # "none" /\ Captured("status") /\ UNCHANGED captures

\* git status: its return code is recorded, and decides nothing.
GitStatus == pc = "status" /\ Captured("readtree") /\ UNCHANGED captures

\* git read-tree HEAD into an index of the run's own.  Of the enclosing repository
\* nothing more is said than that it is the wrong one.
ReadTree ==
    /\ pc = "readtree"
    /\ repo = "born" \/ Here = "outer"
    /\ Captured("intent")
    /\ alt' = IF repo = "born" THEN Paths(head) ELSE {}
    /\ UNCHANGED <<human, evidence>>

\* Mutant: git add -N without -f.
IntendUnforced ==
    /\ pc = "intent" /\ Here # "none" /\ Captured("diff")
    /\ alt' = (alt \cap Paths(files)) \cup (Paths(files) \ Ignored)
    /\ UNCHANGED <<human, evidence>>

\* git add -N -f --all: exactly the paths with a file, without their contents.
Intend ==
    /\ pc = "intent" /\ Here # "none" /\ Captured("diff")
    /\ alt' = Paths(files)
    /\ UNCHANGED <<human, evidence>>

\* git diff HEAD compares the paths of HEAD and of the index with the working tree.
Patch == [f \in {g \in Paths(head) \cup alt : files[g] # head[g]} |-> files[f]]
Diffable == repo = "born" \/ Here = "outer"

\* The readable diff, without --binary.
FirstDiff ==
    /\ pc = "diff" /\ Diffable /\ Captured("patch")
    /\ human' = IF Here = "own" THEN Readable(head, Patch) ELSE NoPatch
    /\ UNCHANGED <<alt, evidence>>

\* The patch, with --binary --full-index; now both are written.
SecondDiff ==
    /\ pc = "patch" /\ Diffable /\ Captured("copied")
    /\ evidence' = [available |-> TRUE, of |-> Here, diff |-> human,
                    patch |-> IF Here = "own" THEN Patch ELSE NoPatch]
    /\ alt' = {} /\ UNCHANGED human

\* A command fails: for want of a commit or a repository, or for a reason of its own.
CaptureFails ==
    /\ pc \in {"readtree", "intent", "diff", "patch"}
    /\ Captured("copied")
    /\ evidence' = NoEvidence /\ alt' = {} /\ UNCHANGED human

-----------------------------------------------------------------------------
(* The rest of run_one.                                                    *)

\* copy_grader_workspace and the grader, unless its status is already recorded.
CopyAndGrade ==
    /\ pc = "copied" /\ pc' = "graded"
    /\ graded' = IF recorded THEN graded ELSE files
    /\ recorded' = TRUE
    /\ UNCHANGED <<fixed, agents, captures, strays, acts, crashes>>

Seal ==
    /\ pc = "graded" /\ pc' = "sealed"
    /\ UNCHANGED <<fixed, agents, captures, graded, strays, recorded, acts, crashes>>

\* The runner ends somewhere after the agent's status is recorded, or after the
\* grader's, and is run again with --resume: it captures the evidence again.
Resume ==
    /\ pc \in After /\ crashes < MaxCrashes /\ crashes' = crashes + 1
    /\ pc' = "inside"
    /\ UNCHANGED <<fixed, agents, captures, graded, strays, recorded, acts>>

Run ==
    \/ CopyStarter \/ GitInit \/ AddAll \/ CommitBaseline \/ PreparationFails
    \/ AgentEnds
    \/ NotAWorkTree \/ AWorkTree \/ GitStatus \/ ReadTree \/ Intend \/ FirstDiff \/ SecondDiff
    \/ CaptureFails \/ CopyAndGrade \/ Seal \/ Resume

Next ==
    \/ Run
    \/ \E f \in Files : Stage(f) \/ \E content \in 0..MaxContent : Edit(f, content)
    \/ Commit \/ ResetHard \/ RemoveRepo \/ Reinit

Spec == Init /\ [][Next]_vars

-----------------------------------------------------------------------------
(* Properties.                                                             *)

Patches == UNION {[changed -> 0..MaxContent] : changed \in SUBSET Files}
Diffs == UNION {[changed -> 0..Differs] : changed \in SUBSET Files}

TypeOK ==
    /\ pc \in Preparing \cup After \cup {"agent", "sealed", "failed"}
    /\ starter \in Trees /\ files \in Trees /\ head \in Trees /\ index \in Trees /\ graded \in Trees
    /\ repo \in {"none", "unborn", "born", "gone"}
    /\ alt \subseteq Files /\ human \in Diffs
    /\ evidence.available \in BOOLEAN /\ evidence.of \in {"none", "own", "outer"}
    /\ evidence.available => evidence.of # "none"
    /\ evidence.diff \in Diffs /\ evidence.patch \in Patches
    /\ enclosed \in BOOLEAN /\ committed \in BOOLEAN /\ strays \in BOOLEAN /\ recorded \in BOOLEAN
    /\ acts \in 0..MaxActs /\ crashes \in 0..MaxCrashes

Sealed == pc = "sealed" /\ evidence.available

\* When the agent committed nothing and nothing outlived it, whatever it edited and
\* staged, the patch applied to the starter gives exactly what the grader got: ignored,
\* untracked, binary and deleted files included, and after a resumption.  The readable
\* diff names the same paths and has the same contents for those that are text.
PatchIsExact ==
    Sealed /\ evidence.of = "own" /\ ~strays /\ ~committed =>
        /\ Apply(evidence.patch, starter) = graded
        /\ DOMAIN evidence.diff = DOMAIN evidence.patch
        /\ \A f \in DOMAIN evidence.patch :
               IsText(starter, evidence.patch, f) => evidence.diff[f] = evidence.patch[f]
=============================================================================
