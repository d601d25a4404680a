----------------------------- MODULE Provenance -----------------------------
(***************************************************************************)
(* What a counted cell was made from.  The inputs of a cell are files that *)
(* anybody may edit; scripts/freeze.py, commit_graders.py,                 *)
(* verify_hermes_runtime.py and build-sandbox record what they are meant   *)
(* to be.  A process of harness/runner/runner.py compares files and        *)
(* records once, in validate_common, and then runs one cell, or in matrix  *)
(* mode a cell per route; run_one reads each input at a point of its own,  *)
(* writes down what it saw in request.json at first and in manifest.json   *)
(* at last, and may be resumed by another process.  verify_cell of         *)
(* scripts/aggregate.py compares the two with the records again.           *)
(*                                                                         *)
(* A file is its version and its digest the same.  One process runs at a   *)
(* time: two on different cells share only what they read, and two on the  *)
(* same cell are RunDir's.                                                 *)
(***************************************************************************)
EXTENDS Naturals, FiniteSets

CONSTANTS Cells, Null,
          Batches,       \* what a process may be given: one cell, or in matrix mode all
          Jobs,          \* --jobs
          MaxVersion,    \* versions are 1..MaxVersion
          MaxChanges, MaxStarts, MaxFaults   \* bounds on edits, processes, kills and failures

ASSUME ProvenanceOK ==
    /\ Batches \subseteq SUBSET Cells /\ Jobs \in Nat \ {0} /\ MaxVersion \in Nat \ {0}
    /\ MaxChanges \in Nat /\ MaxStarts \in Nat /\ MaxFaults \in Nat

Inputs == {"prompt", "starter", "hook"}        \* frozen, and nothing else records them
Recorded == {"grader", "helper", "hermes"}     \* those with a record among the frozen files
Items == Inputs \cup Recorded
Frozen == Inputs \cup {"grader"}               \* helper and Hermes are outside the frozen tree
Digested == Items \ {"hermes"}                 \* what request.json and manifest.json digest
Versions == 1..MaxVersion

VARIABLES
    live,       \* the version of each item now
    recorded,   \* grader-commitments.json, landlock-run.sha256, hermes-runtime-manifest.json
    freeze,     \* freeze-manifest.json: the frozen tree as it was
    summary,    \* proof/freeze-summary.json, where the frozen tree's digest is published
    building,   \* build-sandbox has compiled the helper and not yet digested it
    pc, resume, code,     \* the runner process: its point, --resume and exit code
    at,                   \* how far it is with each cell
    current, read,        \* its request_record, and what it read before the launch
    stage, request, manifest,   \* the run directories
    used,                 \* the versions each cell used, by item (history)
    disturbed,            \* cells with a change while a process was at work on them (history)
    restored,             \* whether an older version of the helper came back (history)
    changes, starts, faults
files == <<live, recorded, freeze, summary, building>>
process == <<pc, resume, code, at, current, read>>
dirs == <<stage, request, manifest>>
history == <<disturbed, restored>>
vars == <<files, process, dirs, used, history, changes, starts, faults>>

\* The frozen tree: the inputs, the graders, and the three records.
Tree == [live |-> [i \in Frozen |-> live[i]], recorded |-> recorded]

Init ==
    /\ live = [i \in Items |-> 1] /\ recorded = [i \in Recorded |-> 1]
    /\ freeze = Tree /\ summary = freeze /\ building = FALSE
    /\ pc = "idle" /\ resume = FALSE /\ code = "none"
    /\ at = [c \in Cells |-> "out"]
    /\ current = [c \in Cells |-> Null] /\ read = [c \in Cells |-> Null]
    /\ stage = [c \in Cells |-> "none"]
    /\ request = [c \in Cells |-> Null] /\ manifest = [c \in Cells |-> Null]
    /\ used = [c \in Cells |-> [i \in Items |-> {}]]
    /\ disturbed = {} /\ restored = FALSE
    /\ changes = 0 /\ starts = 0 /\ faults = 0

-----------------------------------------------------------------------------
(* The files change, and the records are written anew.                     *)

Unfinished == {c \in Cells : at[c] \notin {"out", "over", "failed"}}

Change ==
    /\ changes < MaxChanges /\ changes' = changes + 1
    /\ disturbed' = disturbed \cup Unfinished
    /\ UNCHANGED <<process, dirs, used, starts, faults>>

Edit(i, v) ==
    /\ Change /\ i # "helper" /\ live' = [live EXCEPT ![i] = v]
    /\ UNCHANGED <<recorded, freeze, summary, building, restored>>

\* The compiler's run in build-sandbox, in run-tests and in test-all.  A rebuild in a
\* test is not digested; that of build-sandbox is, next.
Compile(v, digest) ==
    /\ Change /\ ~building /\ building' = digest
    /\ live' = [live EXCEPT !["helper"] = v] /\ restored' = (restored \/ v < live["helper"])
    /\ UNCHANGED <<recorded, freeze, summary>>
DigestHelper ==
    /\ building /\ building' = FALSE
    /\ recorded' = [recorded EXCEPT !["helper"] = live["helper"]]
    /\ disturbed' = disturbed \cup Unfinished
    /\ UNCHANGED <<live, freeze, summary, process, dirs, used, restored, changes, starts, faults>>

\* commit_graders.py create, verify_hermes_runtime.py write.
Record(i) ==
    /\ Change /\ i # "helper" /\ recorded' = [recorded EXCEPT ![i] = live[i]]
    /\ UNCHANGED <<live, freeze, summary, building, restored>>
\* freeze.py write asks for no consistency of the records with what they record.
WriteFreeze ==
    Change /\ freeze' = Tree /\ UNCHANGED <<live, recorded, summary, building, restored>>
Publish ==
    Change /\ summary' = freeze /\ UNCHANGED <<live, recorded, freeze, building, restored>>

-----------------------------------------------------------------------------
(* A runner process: main and validate_common.                             *)

Runs == UNCHANGED <<files, history, changes>>

Start(cells, again) ==
    /\ pc = "idle" /\ starts < MaxStarts /\ starts' = starts + 1
    /\ pc' = "freeze" /\ resume' = again /\ code' = "none"
    /\ at' = [c \in Cells |-> IF c \in cells THEN "queued" ELSE "out"]
    /\ Runs /\ UNCHANGED <<current, read, dirs, used, faults>>

Refused == pc' = "idle" /\ code' = "two" /\ at' = [c \in Cells |-> "out"]
Verify(point, holds, next) ==
    /\ pc = point
    /\ IF holds THEN pc' = next /\ UNCHANGED <<code, at>> ELSE Refused
    /\ Runs /\ UNCHANGED <<resume, current, read, dirs, used, starts, faults>>

\* Mutant: the frozen sources are not verified before a run.
VerifyNoFreeze == Verify("freeze", TRUE, "runtime")

VerifyFreeze == Verify("freeze", freeze = Tree, "runtime")
VerifyRuntime == Verify("runtime", recorded["hermes"] = live["hermes"], "helper")
VerifyHelper == Verify("helper", recorded["helper"] = live["helper"], "run")

\* Workers of the pool; a single run is a matrix of one.
Active == {c \in Cells : at[c] \notin {"out", "queued", "over", "failed"}}

\* run_matrix returns 2 when a cell raised.
End ==
    /\ pc = "run" /\ Unfinished = {} /\ pc' = "idle"
    /\ code' = IF \E c \in Cells : at[c] = "failed" THEN "two" ELSE "zero"
    /\ at' = [c \in Cells |-> "out"]
    /\ Runs /\ UNCHANGED <<resume, current, read, dirs, used, starts, faults>>

-----------------------------------------------------------------------------
(* run_one.                                                                *)

Digests ==
    [items |-> [i \in Digested |-> live[i]], runtime |-> recorded["hermes"], source |-> freeze]

Goes(c, from, to) ==
    /\ pc = "run" /\ at[c] = from /\ at' = [at EXCEPT ![c] = to]
    /\ Runs /\ UNCHANGED <<pc, resume, code, starts, faults>>
Uses(c, items, versions) ==
    used' = [used EXCEPT ![c] = [i \in Items |-> IF i \in items THEN @[i] \cup {versions[i]} ELSE @[i]]]

\* request_record, before anything of the directory is looked at.
Begin(c) ==
    /\ Cardinality(Active) < Jobs
    /\ Goes(c, "queued", "digested") /\ current' = [current EXCEPT ![c] = Digests]
    /\ UNCHANGED <<read, dirs, used>>

\* Mutant: a resumed request is not compared with the first.
ContinuesUnasked(c) == resume /\ stage[c] \notin {"none", "bare", "sealed"}

\* assert_matching_request.
Continues(c) == resume /\ stage[c] \notin {"none", "bare", "sealed"} /\ request[c] = current[c]
Creates(c) == ~resume /\ stage[c] = "none"
AlreadyComplete(c) == resume /\ stage[c] = "sealed" /\ request[c] = current[c]

MakeDirectory(c) ==
    /\ Creates(c) /\ Goes(c, "digested", "made") /\ stage' = [stage EXCEPT ![c] = "bare"]
    /\ UNCHANGED <<current, read, request, manifest, used>>
WriteRequest(c) ==
    /\ Goes(c, "made", "entered")
    /\ request' = [request EXCEPT ![c] = current[c]] /\ stage' = [stage EXCEPT ![c] = "requested"]
    /\ current' = [current EXCEPT ![c] = Null] /\ UNCHANGED <<read, manifest, used>>
Reenter(c) ==
    /\ Continues(c) /\ Goes(c, "digested", "entered")
    /\ current' = [current EXCEPT ![c] = Null] /\ UNCHANGED <<read, dirs, used>>
Leave(c) ==
    /\ AlreadyComplete(c) /\ Goes(c, "digested", "over")
    /\ current' = [current EXCEPT ![c] = Null] /\ UNCHANGED <<read, dirs, used>>
\* Mutant: the first refusal ends the matrix.
RefuseAll(c) ==
    /\ ~Creates(c) /\ ~Continues(c) /\ ~AlreadyComplete(c)
    /\ pc = "run" /\ at[c] = "digested"
    /\ at' = [d \in Cells |-> IF d = c THEN "failed" ELSE IF at[d] = "queued" THEN "out" ELSE at[d]]
    /\ Runs /\ UNCHANGED <<pc, resume, code, starts, faults>>
    /\ current' = [current EXCEPT ![c] = Null] /\ UNCHANGED <<read, dirs, used>>

\* An existing directory without --resume, a missing one with it, other inputs.
Refuse(c) ==
    /\ ~Creates(c) /\ ~Continues(c) /\ ~AlreadyComplete(c)
    /\ Goes(c, "digested", "failed")
    /\ current' = [current EXCEPT ![c] = Null] /\ UNCHANGED <<read, dirs, used>>

\* The starter is copied only into a directory without a workspace.
Prepare(c) ==
    /\ Goes(c, "entered", "prepared")
    /\ IF stage[c] = "requested"
       THEN stage' = [stage EXCEPT ![c] = "prepared"] /\ Uses(c, {"starter"}, live)
       ELSE UNCHANGED <<stage, used>>
    /\ UNCHANGED <<current, read, request, manifest>>

\* The digests for the manifest, and the prompt's text for the command.
Read(c) ==
    /\ Goes(c, "prepared", "read")
    /\ read' = [read EXCEPT ![c] = [i \in {"prompt", "starter", "grader"} |-> live[i]]]
    /\ UNCHANGED <<current, dirs, used>>

\* A home left by a killed process makes mkdir raise.
Launch(c) ==
    /\ stage[c] = "prepared" /\ Goes(c, "read", "launched")
    /\ stage' = [stage EXCEPT ![c] = "home"]
    /\ Uses(c, {"prompt", "hook", "hermes"}, [live EXCEPT !["prompt"] = read[c]["prompt"]])
    /\ UNCHANGED <<current, read, request, manifest>>
HomeExists(c) ==
    /\ stage[c] = "home" /\ Goes(c, "read", "failed")
    /\ read' = [read EXCEPT ![c] = Null] /\ UNCHANGED <<current, dirs, used>>
AlreadyRan(c) ==
    /\ stage[c] \in {"ran", "graded"} /\ Goes(c, "read", "ran") /\ UNCHANGED <<current, read, dirs, used>>

\* sandbox-run compares the helper with its digest at every call, and runs it.  It is
\* itself an input that nothing else records; "hook" stands for both.
HelperIsRecorded == live["helper"] = recorded["helper"]
ToolCall(c) ==
    /\ Goes(c, "launched", "launched") /\ HelperIsRecorded /\ Uses(c, {"hook", "helper"}, live)
    /\ UNCHANGED <<current, read, dirs>>
Return(c) ==
    /\ Goes(c, "launched", "returned") /\ stage' = [stage EXCEPT ![c] = "prepared"]
    /\ UNCHANGED <<current, read, request, manifest, used>>
RecordExit(c) ==
    /\ Goes(c, "returned", "ran") /\ stage' = [stage EXCEPT ![c] = "ran"]
    /\ UNCHANGED <<current, read, request, manifest, used>>

\* prompt.txt is copied, from the prompt file and not from the command, and unless it has
\* been recorded the grader is run, in sandbox-run too.
Grade(c) ==
    /\ Goes(c, "ran", "graded")
    /\ IF stage[c] = "graded" THEN Uses(c, {"prompt"}, live) /\ UNCHANGED stage
       ELSE /\ stage' = [stage EXCEPT ![c] = "graded"]
            /\ Uses(c, {"prompt"} \cup (IF HelperIsRecorded THEN {"grader", "hook", "helper"} ELSE {}), live)
    /\ UNCHANGED <<current, read, request, manifest>>

\* build_manifest: some digests from before the launch, others of now.
ManifestOf(c) ==
    [items |-> [i \in Digested |-> IF i \in {"starter", "grader"} THEN read[c][i] ELSE live[i]],
     runtime |-> recorded["hermes"], source |-> freeze]
Seal(c) ==
    /\ Goes(c, "graded", "over") /\ stage' = [stage EXCEPT ![c] = "sealed"]
    /\ manifest' = [manifest EXCEPT ![c] = ManifestOf(c)]
    /\ read' = [read EXCEPT ![c] = Null] /\ UNCHANGED <<current, request, used>>

-----------------------------------------------------------------------------
(* Failures.                                                               *)

Fault == faults < MaxFaults /\ faults' = faults + 1 /\ Runs

\* run_one raises: the home is removed, and the other cells go on.
Raise(c) ==
    /\ Fault /\ c \in Active /\ at' = [at EXCEPT ![c] = "failed"]
    /\ stage' = [stage EXCEPT ![c] = IF at[c] = "launched" THEN "prepared" ELSE @]
    /\ current' = [current EXCEPT ![c] = Null] /\ read' = [read EXCEPT ![c] = Null]
    /\ UNCHANGED <<pc, resume, code, request, manifest, used, starts>>

\* The process is killed; an agent's home stays.
Kill ==
    /\ Fault /\ pc # "idle" /\ pc' = "idle" /\ at' = [c \in Cells |-> "out"]
    /\ current' = [c \in Cells |-> Null] /\ read' = [c \in Cells |-> Null]
    /\ UNCHANGED <<resume, code, dirs, used, starts>>

-----------------------------------------------------------------------------
RunOne(c) ==
    \/ Begin(c) \/ MakeDirectory(c) \/ WriteRequest(c) \/ Reenter(c) \/ Leave(c) \/ Refuse(c)
    \/ Prepare(c) \/ Read(c) \/ Launch(c) \/ HomeExists(c) \/ AlreadyRan(c)
    \/ Return(c) \/ RecordExit(c) \/ Grade(c) \/ Seal(c)
Main == VerifyFreeze \/ VerifyRuntime \/ VerifyHelper \/ End
FilesChange ==
    \/ \E i \in Items, v \in Versions : Edit(i, v)
    \/ \E v \in Versions, digest \in BOOLEAN : Compile(v, digest)
    \/ \E i \in Recorded : Record(i)
    \/ DigestHelper \/ WriteFreeze \/ Publish
Next ==
    \/ FilesChange /\ files' # files
    \/ \E cells \in Batches, again \in BOOLEAN : Start(cells, again)
    \/ Main \/ Kill
    \/ \E c \in Cells : RunOne(c) \/ ToolCall(c) \/ Raise(c)

Spec == Init /\ [][Next]_vars
FairSpec == Spec /\ WF_vars(Main \/ \E c \in Cells : RunOne(c))
-----------------------------------------------------------------------------
(* verify_cell of the aggregator, as far as it concerns the inputs.        *)

\* Mutant: of the helper only the manifest's digest is compared.
AcceptedByManifest(c) ==
    /\ stage[c] = "sealed"
    /\ \A seen \in {request[c], manifest[c]} :
          /\ seen.source = summary /\ seen.runtime = recorded["hermes"]
          /\ seen.items["grader"] = recorded["grader"]
    /\ manifest[c].items["helper"] = recorded["helper"]

\* No digest of a prompt, a starter, the hook or sandbox-run is compared with anything.
Accepted(c) ==
    /\ stage[c] = "sealed"
    /\ \A seen \in {request[c], manifest[c]} :
          /\ seen.source = summary /\ seen.runtime = recorded["hermes"]
          /\ \A i \in {"grader", "helper"} : seen.items[i] = recorded[i]

-----------------------------------------------------------------------------
(* Properties.                                                             *)

\* Memory and directories hold what a later point reads from them: a request before
\* anything is copied, the digests before the launch, a manifest in what is sealed.
Trees == [live : [Frozen -> Versions], recorded : [Recorded -> Versions]]
Seen == [items : [Digested -> Versions], runtime : Versions, source : Trees]
Reading == {"read", "launched", "returned", "ran", "graded"}
Working == Reading \cup {"entered", "prepared"}
Points == Working \cup {"out", "queued", "digested", "made", "over", "failed"}
Stages == {"none", "bare", "requested", "prepared", "home", "ran", "graded", "sealed"}
Held(c) ==
    /\ at[c] = "made" => stage[c] = "bare"
    /\ at[c] \in Working => stage[c] \notin {"none", "bare", "sealed"}
    /\ at[c] \in {"digested", "made"} => current[c] \in Seen
    /\ at[c] \in Reading => read[c] \in [{"prompt", "starter", "grader"} -> Versions]
    /\ stage[c] \notin {"none", "bare"} => request[c] \in Seen
    /\ stage[c] = "sealed" => manifest[c] \in Seen
TypeOK ==
    /\ live \in [Items -> Versions] /\ recorded \in [Recorded -> Versions]
    /\ freeze \in Trees /\ summary \in Trees /\ building \in BOOLEAN
    /\ pc \in {"idle", "freeze", "runtime", "helper", "run"}
    /\ resume \in BOOLEAN /\ code \in {"none", "zero", "two"}
    /\ at \in [Cells -> Points] /\ stage \in [Cells -> Stages]
    /\ \A part \in {current, read, request, manifest} : DOMAIN part = Cells
    /\ \A c \in Cells : Held(c)
    /\ used \in [Cells -> [Items -> SUBSET Versions]]
    /\ disturbed \subseteq Cells /\ restored \in BOOLEAN
    /\ changes \in 0..MaxChanges /\ starts \in 0..MaxStarts /\ faults \in 0..MaxFaults

\* The versions that a frozen tree stands for.
VersionIn(frozen, i) == IF i \in Frozen THEN frozen.live[i] ELSE frozen.recorded[i]

\* Every input a counted cell used or kept, in all its invocations, is of the version
\* the published digest stands for, and its grader the committed one, whatever was edited,
\* recorded and frozen again before, between and after the invocations.
AcceptedIsFrozen ==
    \A c \in Cells \ disturbed : Accepted(c) =>
        /\ \A i \in Items : used[c][i] \subseteq {VersionIn(summary, i)}
        /\ used[c]["grader"] \subseteq {recorded["grader"]}

\* Conversely no such cell is turned away when its frozen tree is the published one, the
\* records are still of that tree, and the graders in it were those committed to.
FrozenIsAccepted ==
    \A c \in Cells \ disturbed :
        /\ stage[c] = "sealed" /\ request[c].source = summary /\ recorded = summary.recorded
        /\ summary.recorded["grader"] = summary.live["grader"]
        => Accepted(c)

\* Even if files change under a cell, its tool calls and its grader ran in the helper of
\* the recorded digest, unless an earlier helper was brought back.
HelperIsRecordedOne ==
    ~restored => \A c \in Cells : Accepted(c) => used[c]["helper"] \subseteq {recorded["helper"]}

\* A cell that a resumed process can continue is at its end, sealed or failed for a reason
\* of its own, when nothing more happens and the process is not killed, whatever becomes of
\* its siblings: one that raises takes none along.
Continuable(c) ==
    /\ pc = "run" /\ resume /\ at[c] = "queued"
    /\ stage[c] \in {"requested", "prepared", "ran", "graded"} /\ request[c] = Digests
    /\ ~building /\ changes = MaxChanges
SiblingsFinish ==
    \A c \in Cells : Continuable(c) ~>
        \/ stage[c] = "sealed" \/ at[c] = "failed"
        \/ pc = "idle" /\ code = "none"  \* killed
=============================================================================
