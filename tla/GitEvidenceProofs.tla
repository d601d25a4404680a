------------------------- MODULE GitEvidenceProofs -------------------------
(***************************************************************************)
(* GitEvidence keeps its types, and the sealed patch is exact, for every   *)
(* set of paths and contents, every starter and however long the agent     *)
(* works and the runner is resumed.                                        *)
(***************************************************************************)
EXTENDS GitEvidence, TLAPS

\* What the agent, and what outlives it, can do.
Acts ==
    \/ \E f \in Files : Stage(f) \/ \E content \in 0..MaxContent : Edit(f, content)
    \/ Commit \/ ResetHard \/ RemoveRepo \/ Reinit

LEMMA NextIsRunOrActs == Next <=> Run \/ Acts
BY DEF Next, Acts

-----------------------------------------------------------------------------
(* Trees and patches.                                                      *)

\* A diff is a patch.
LEMMA PatchType ==
    ASSUME TypeOK PROVE Patch \in Patches
<1> DEFINE changed == {g \in Paths(head) \cup alt : files[g] # head[g]}
<1>1. changed \in SUBSET Files
    BY DEF TypeOK, Paths
<1>2. [f \in changed |-> files[f]] \in [changed -> 0..MaxContent]
    BY <1>1 DEF TypeOK, Trees
<1>3. Patch = [f \in changed |-> files[f]]
    BY DEF Patch
<1> QED BY <1>1, <1>2, <1>3 DEF Patches

\* So is what a reader is shown of it.
LEMMA ReadableType ==
    ASSUME TypeOK PROVE Readable(head, Patch) \in Diffs
<1>1. PICK changed \in SUBSET Files : Patch \in [changed -> 0..MaxContent]
    BY PatchType DEF Patches
<1>2. Readable(head, Patch) \in [changed -> 0..Differs]
    BY <1>1, GitOK DEF Readable, Differs
<1> QED BY <1>2 DEF Diffs

LEMMA NoPatchType == NoPatch \in Patches /\ NoPatch \in Diffs
<1>1. NoPatch \in [{} -> 0..MaxContent] /\ NoPatch \in [{} -> 0..Differs]
    BY DEF NoPatch
<1> QED BY <1>1 DEF Patches, Diffs

LEMMA NoEvidenceType ==
    /\ NoEvidence.available = FALSE /\ NoEvidence.of = "none"
    /\ NoEvidence.diff \in Diffs /\ NoEvidence.patch \in Patches
BY NoPatchType DEF NoEvidence

LEMMA EmptyType == Empty \in Trees
BY GitOK DEF Empty, Trees

\* The diff of all paths with a file, applied to HEAD, gives the working tree.
LEMMA PatchApplies ==
    ASSUME TypeOK, alt = Paths(files)
    PROVE  Apply(Patch, head) = files
<1>1. DOMAIN Patch = {g \in Paths(head) \cup Paths(files) : files[g] # head[g]}
    BY DEF Patch
<1>2. ASSUME NEW f \in Files
      PROVE  (IF f \in DOMAIN Patch THEN Patch[f] ELSE head[f]) = files[f]
    <2>1. CASE f \in DOMAIN Patch
        BY <2>1, <1>1 DEF Patch
    <2>2. CASE f \notin DOMAIN Patch
        BY <2>2, <1>1 DEF Paths
    <2> QED BY <2>1, <2>2
<1>3. files = [f \in Files |-> files[f]]
    BY DEF TypeOK, Trees
<1> QED BY <1>2, <1>3 DEF Apply

-----------------------------------------------------------------------------
(* Types.                                                                  *)

LEMMA RunKeepsType ==
    ASSUME TypeOK, Run PROVE TypeOK'
<1> USE DEF TypeOK, fixed, agents, captures, Captured, Preparing, Capturing, After
<1>1. CASE CopyStarter
    BY <1>1 DEF CopyStarter
<1>2. CASE GitInit \/ AddAll \/ CommitBaseline \/ PreparationFails \/ AgentEnds
    BY <1>2 DEF GitInit, AddAll, CommitBaseline, PreparationFails, AgentEnds
<1>3. CASE NotAWorkTree \/ CaptureFails
    BY <1>3, NoEvidenceType DEF NotAWorkTree, CaptureFails
<1>4. CASE AWorkTree \/ GitStatus
    BY <1>4 DEF AWorkTree, GitStatus
<1>5. CASE ReadTree \/ Intend
    BY <1>5 DEF ReadTree, Intend, Paths
<1>6. CASE FirstDiff
    BY <1>6, NoPatchType, ReadableType DEF FirstDiff
<1>7. CASE SecondDiff
    <2>1. Here \in {"own", "outer"}
        BY <1>7 DEF SecondDiff, Diffable, Here, InRepo
    <2> QED BY <1>7, <2>1, NoPatchType, PatchType DEF SecondDiff
<1>8. CASE CopyAndGrade \/ Seal
    BY <1>8 DEF CopyAndGrade, Seal
<1>9. CASE Resume
    BY <1>9, GitOK DEF Resume
<1> QED BY <1>1, <1>2, <1>3, <1>4, <1>5, <1>6, <1>7, <1>8, <1>9 DEF Run

LEMMA ActsKeepType ==
    ASSUME TypeOK, Acts PROVE TypeOK'
<1> USE GitOK DEF TypeOK, Act, fixed, captures, Trees
<1>1. ASSUME NEW f \in Files, Stage(f) PROVE TypeOK'
    BY <1>1 DEF Stage
<1>2. ASSUME NEW f \in Files, NEW content \in 0..MaxContent, Edit(f, content) PROVE TypeOK'
    BY <1>2 DEF Edit
<1>3. CASE Commit
    BY <1>3 DEF Commit
<1>4. CASE ResetHard
    BY <1>4 DEF ResetHard
<1>5. CASE RemoveRepo
    BY <1>5, EmptyType DEF RemoveRepo
<1>6. CASE Reinit
    BY <1>6 DEF Reinit
<1> QED BY <1>1, <1>2, <1>3, <1>4, <1>5, <1>6 DEF Acts

\* Every variable of GitEvidence keeps its type.
THEOREM EvidenceTypes == Spec => []TypeOK
<1>1. Init => TypeOK
    <2> SUFFICES ASSUME Init PROVE TypeOK
        OBVIOUS
    <2>1. 0 \in 0..MaxActs /\ 0 \in 0..MaxCrashes
        BY GitOK
    <2>2. evidence.available = FALSE /\ evidence.of = "none"
            /\ evidence.diff \in Diffs /\ evidence.patch \in Patches
        BY NoEvidenceType DEF Init
    <2>3. files \in Trees /\ head \in Trees /\ index \in Trees /\ graded \in Trees
        BY EmptyType DEF Init
    <2>4. human \in Diffs
        BY NoPatchType DEF Init
    <2> QED BY <2>1, <2>2, <2>3, <2>4 DEF Init, TypeOK, Preparing
<1>2. TypeOK /\ [Next]_vars => TypeOK'
    <2>1. CASE UNCHANGED vars
        BY <2>1 DEF vars, TypeOK
    <2> QED BY <2>1, NextIsRunOrActs, RunKeepsType, ActsKeepType
<1> QED BY <1>1, <1>2, PTL DEF Spec

-----------------------------------------------------------------------------
(* The inductive invariant.                                                *)

\* While the workspace is prepared it is the starter, and so is what will be committed.
Prepared ==
    /\ pc \in Preparing \cup {"agent", "failed"} => ~strays /\ ~recorded
    /\ pc \in Preparing => ~committed /\ repo # "born"
    /\ pc \in {"init", "add", "commit"} => files = starter
    /\ pc = "commit" => index = starter

\* Without a commit of the agent's, HEAD is the baseline wherever there is one.
HeadIsStarter == repo = "born" /\ ~committed => head = starter

\* The alternate index lists every file, and the first diff shows what the second will be.
Listed == pc \in {"diff", "patch"} /\ ~strays => alt = Paths(files)
Repeated == pc = "patch" /\ ~strays /\ repo = "born" => human = Readable(head, Patch)

\* What was captured describes the workspace as it is.
Described ==
    pc \in {"copied", "graded", "sealed"} /\ ~strays /\ ~committed
        /\ evidence.available /\ evidence.of = "own" =>
            /\ evidence.diff = Readable(starter, evidence.patch)
            /\ Apply(evidence.patch, starter) = files

\* So does what the grader got.
Copied ==
    /\ recorded /\ ~strays => graded = files
    /\ pc \in {"graded", "sealed"} => recorded

IInv == Prepared /\ HeadIsStarter /\ Listed /\ Repeated /\ Described /\ Copied

LEMMA InitHolds == Init => IInv
BY DEF Init, IInv, Prepared, HeadIsStarter, Listed, Repeated, Described, Copied, Preparing

\* The runner's steps.
LEMMA RunKeeps ==
    ASSUME TypeOK, IInv, Run PROVE IInv'
<1> USE DEF IInv, fixed, agents, captures, Captured, Preparing, Capturing, After
<1>0. alt = Paths(files) /\ head = starter => Apply(Patch, starter) = files
    BY PatchApplies
<1>1. Prepared'
    BY DEF Prepared, Run, CopyStarter, GitInit, AddAll, CommitBaseline, PreparationFails,
           AgentEnds, NotAWorkTree, AWorkTree, GitStatus, ReadTree, Intend, FirstDiff,
           SecondDiff, CaptureFails, CopyAndGrade, Seal, Resume
<1>2. HeadIsStarter'
    BY DEF Prepared, HeadIsStarter, Run, CopyStarter, GitInit, AddAll, CommitBaseline,
           PreparationFails, AgentEnds, NotAWorkTree, AWorkTree, GitStatus, ReadTree, Intend,
           FirstDiff, SecondDiff, CaptureFails, CopyAndGrade, Seal, Resume
<1>3. Listed'
    BY DEF Listed, Paths, Run, CopyStarter, GitInit, AddAll, CommitBaseline,
           PreparationFails, AgentEnds, NotAWorkTree, AWorkTree, GitStatus, ReadTree, Intend,
           FirstDiff, SecondDiff, CaptureFails, CopyAndGrade, Seal, Resume
<1>4. Repeated'
    <2>1. CASE FirstDiff
        BY <2>1 DEF FirstDiff, Repeated, Readable, IsText, Patch, Paths, Here, InRepo
    <2>2. CASE pc' # "patch"
        BY <2>2 DEF Repeated
    <2> QED BY <2>1, <2>2 DEF Run, CopyStarter, GitInit, AddAll, CommitBaseline,
           PreparationFails, AgentEnds, NotAWorkTree, AWorkTree, GitStatus, ReadTree, Intend,
           SecondDiff, CaptureFails, CopyAndGrade, Seal, Resume
<1>5. Described'
    <2>1. CASE NotAWorkTree \/ CaptureFails
        BY <2>1, NoEvidenceType DEF NotAWorkTree, CaptureFails, Described
    <2>2. CASE SecondDiff
        <3>1. CASE Here = "own" /\ ~strays /\ ~committed
            <4>1. repo = "born"
                BY <2>2, <3>1 DEF SecondDiff, Diffable
            <4>2. human = Readable(head, Patch) /\ alt = Paths(files) /\ head = starter
                BY <2>2, <3>1, <4>1 DEF SecondDiff, Repeated, Listed, HeadIsStarter
            <4>3. Apply(Patch, starter) = files
                BY <1>0, <4>2
            <4>4. evidence'.diff = human /\ evidence'.patch = Patch
                BY <2>2, <3>1 DEF SecondDiff
            <4>5. Apply(evidence'.patch, starter') = Apply(Patch, starter)
                BY <2>2, <4>4 DEF SecondDiff
            <4> QED BY <2>2, <4>2, <4>3, <4>4, <4>5 DEF Described, SecondDiff
        <3>2. CASE ~(Here = "own" /\ ~strays /\ ~committed)
            BY <2>2, <3>2 DEF SecondDiff, Described
        <3> QED BY <3>1, <3>2
    <2>3. CASE CopyAndGrade \/ Seal
        BY <2>3 DEF CopyAndGrade, Seal, Described, Apply
    <2>4. CASE pc' \notin {"copied", "graded", "sealed"}
        BY <2>4 DEF Described
    <2> QED BY <2>1, <2>2, <2>3, <2>4 DEF Run, CopyStarter, GitInit, AddAll, CommitBaseline,
           PreparationFails, AgentEnds, AWorkTree, GitStatus, ReadTree, Intend, FirstDiff,
           Resume
<1>6. Copied'
    BY DEF Prepared, Copied, Run, CopyStarter, GitInit, AddAll, CommitBaseline,
           PreparationFails, AgentEnds, NotAWorkTree, AWorkTree, GitStatus, ReadTree, Intend,
           FirstDiff, SecondDiff, CaptureFails, CopyAndGrade, Seal, Resume
<1> QED BY <1>1, <1>2, <1>3, <1>4, <1>5, <1>6

\* The agent moves neither the program counter nor anything the runner keeps, and once the
\* runner captures, only what outlived the agent moves anything.
LEMMA ActsFrame ==
    ASSUME Acts
    PROVE  /\ pc = "agent" \/ (strays /\ pc \in After)
           /\ UNCHANGED <<pc, starter, alt, human, evidence, graded, strays, recorded>>
<1>1. Act
    BY DEF Acts, Stage, Edit, Commit, ResetHard, RemoveRepo, Reinit
<1>2. pc = "agent" \/ (strays /\ pc \in After)
    BY <1>1 DEF Act
<1>3. UNCHANGED <<pc, starter, alt, human, evidence, graded, strays, recorded>>
    BY <1>1 DEF Act, fixed, captures
<1> QED BY <1>2, <1>3

\* No act but a commit brings another HEAD into being.
LEMMA ActsHead ==
    ASSUME Acts
    PROVE  repo' = "born" /\ ~committed' => repo = "born" /\ ~committed /\ head' = head
BY DEF Acts, Stage, Edit, Commit, ResetHard, RemoveRepo, Reinit

LEMMA ActsKeep ==
    ASSUME TypeOK, IInv, Acts PROVE IInv'
<1>1. Prepared' /\ Listed' /\ Repeated' /\ Described' /\ Copied'
    BY ActsFrame DEF IInv, Prepared, Listed, Repeated, Described, Copied, Preparing,
                     Capturing, After
<1>2. HeadIsStarter'
    BY ActsFrame, ActsHead DEF IInv, HeadIsStarter
<1> QED BY <1>1, <1>2 DEF IInv

LEMMA StutterKeeps ==
    ASSUME IInv, UNCHANGED vars PROVE IInv'
BY DEF IInv, vars, Prepared, HeadIsStarter, Listed, Repeated, Described, Copied, Paths,
       Patch, Apply, Readable, IsText

\* For every starter, however the agent edits and stages, and after any number of
\* resumptions: if it committed nothing and nothing outlived it, the sealed patch, applied
\* to the starter, gives what the grader got, and the diff shows the same of what is text.
THEOREM ExactPatch == Spec => []PatchIsExact
<1>1. TypeOK /\ IInv /\ [Next]_vars => IInv'
    BY NextIsRunOrActs, RunKeeps, ActsKeep, StutterKeeps
<1>2. IInv => PatchIsExact
    BY DEF IInv, Described, Copied, PatchIsExact, Sealed, Readable
<1> QED BY InitHolds, EvidenceTypes, <1>1, <1>2, PTL DEF Spec
=============================================================================
