-------------------------- MODULE ProvenanceProofs --------------------------
(***************************************************************************)
(* Proofs about Provenance, for any cells, batches and bounds.             *)
(***************************************************************************)
EXTENDS Provenance, TLAPS

-----------------------------------------------------------------------------
(* The invariant.                                                          *)

\* Where a process is with its cells, and what their directories then hold.
Shape ==
    /\ pc = "idle" => \A c \in Cells : at[c] = "out"
    /\ pc \in {"freeze", "runtime", "helper"} => \A c \in Cells : at[c] \in {"out", "queued"}
    /\ \A c \in Cells : stage[c] \in {"none", "bare"} => \A i \in Items : used[c][i] = {}

\* Cells at work, with no change since their process started.
Quiet == Unfinished \ disturbed

\* For such a cell what the process has verified and read is still so.
Agree ==
    \A c \in Quiet :
        /\ pc \in {"runtime", "helper", "run"} => freeze = Tree
        /\ pc \in {"helper", "run"} => recorded["hermes"] = live["hermes"]
        /\ pc = "run" => recorded["helper"] = live["helper"]
        /\ at[c] \in {"digested", "made"} => current[c] = Digests
        /\ at[c] \in Working => request[c] = Digests
        /\ at[c] \in Reading => \A i \in {"prompt", "starter", "grader"} : read[c][i] = live[i]

\* A request's digests are those of its frozen tree.
Consistent(seen) ==
    /\ \A i \in Digested : seen.items[i] = VersionIn(seen.source, i)
    /\ seen.runtime = VersionIn(seen.source, "hermes")

\* A cell never disturbed used what its request stands for, and no more.
Faithful ==
    \A c \in Cells \ disturbed : stage[c] \notin {"none", "bare"} =>
        /\ Consistent(request[c])
        /\ \A i \in Items : used[c][i] \subseteq {VersionIn(request[c].source, i)}
        /\ stage[c] = "sealed" => manifest[c] = request[c]

\* Versions of the helper go up until one is restored.
Rising ==
    ~restored => \A c \in Cells :
        /\ at[c] \in {"digested", "made"} => current[c].items["helper"] <= live["helper"]
        /\ stage[c] \notin {"none", "bare"} =>
              /\ request[c].items["helper"] <= live["helper"]
              /\ \A v \in used[c]["helper"] :
                    request[c].items["helper"] <= v /\ v <= live["helper"]
        /\ stage[c] = "sealed" => \A v \in used[c]["helper"] : v <= manifest[c].items["helper"]

IInv == TypeOK /\ Shape /\ Agree /\ Faithful /\ Rising
-----------------------------------------------------------------------------
(* Types.                                                                  *)

\* What a process digests is a request, and the frozen tree a freeze manifest.
LEMMA DigestsTyped == TypeOK => Tree \in Trees /\ Digests \in Seen
BY DEF TypeOK, Tree, Trees, Digests, Seen, Frozen, Inputs, Recorded, Digested, Items

\* The initial files are of the first version.
LEMMA InitTypes == Init => TypeOK
<1> SUFFICES ASSUME Init PROVE TypeOK
    OBVIOUS
<1>1. live \in [Items -> Versions] /\ recorded \in [Recorded -> Versions]
    BY ProvenanceOK DEF ProvenanceOK, Init, Versions
<1>2. freeze \in Trees /\ summary \in Trees
    BY <1>1 DEF Init, Tree, Trees, Frozen, Inputs, Recorded, Items
<1>3. used \in [Cells -> [Items -> SUBSET Versions]]
    BY DEF Init
<1>4. /\ at = [c \in Cells |-> "out"] /\ stage = [c \in Cells |-> "none"]
      /\ \A c \in Cells : at[c] = "out" /\ stage[c] = "none"
    BY DEF Init
<1>5. /\ building = FALSE /\ pc = "idle" /\ resume = FALSE /\ code = "none"
      /\ disturbed = {} /\ restored = FALSE /\ changes = 0 /\ starts = 0 /\ faults = 0
    BY DEF Init
<1>6. 0 \in 0..MaxChanges /\ 0 \in 0..MaxStarts /\ 0 \in 0..MaxFaults
    BY ProvenanceOK DEF ProvenanceOK
<1>7. \A part \in {current, read, request, manifest} : DOMAIN part = Cells
    BY DEF Init
<1> QED
    BY <1>1, <1>2, <1>3, <1>4, <1>5, <1>6, <1>7 DEF TypeOK, Reading, Working, Points, Stages, Held

\* A change of the files leaves the process and the directories alone.
LEMMA FilesTypes == TypeOK /\ FilesChange => TypeOK'
<1> SUFFICES ASSUME TypeOK, FilesChange PROVE TypeOK'
    OBVIOUS
<1> USE DigestsTyped, ProvenanceOK DEF ProvenanceOK, TypeOK, Held, Change, process, dirs, Unfinished
<1>1. CASE \E i \in Items, v \in Versions : Edit(i, v)
    BY <1>1 DEF Edit
<1>2. CASE \E v \in Versions, digest \in BOOLEAN : Compile(v, digest)
    BY <1>2 DEF Compile, Items, Recorded
<1>3. CASE \E i \in Recorded : Record(i)
    BY <1>3 DEF Record, Items
<1>4. CASE DigestHelper
    BY <1>4 DEF DigestHelper, Items, Recorded
<1>5. CASE WriteFreeze
    BY <1>5 DEF WriteFreeze
<1>6. CASE Publish
    BY <1>6 DEF Publish
<1> QED
    BY <1>1, <1>2, <1>3, <1>4, <1>5, <1>6 DEF FilesChange

\* Starting, verifying, ending and being killed.
LEMMA ProcessTypes ==
    TypeOK /\ ((\E cells \in Batches, again \in BOOLEAN : Start(cells, again)) \/ Main \/ Kill) => TypeOK'
<1> SUFFICES ASSUME TypeOK, (\E cells \in Batches, again \in BOOLEAN : Start(cells, again)) \/ Main \/ Kill
             PROVE TypeOK'
    OBVIOUS
<1> USE ProvenanceOK DEF ProvenanceOK, TypeOK, Runs, files, dirs, history, Reading, Working, Points, Stages, Held
<1>1. CASE \E cells \in Batches, again \in BOOLEAN : Start(cells, again)
    BY <1>1 DEF Start
<1>2. CASE VerifyFreeze \/ VerifyRuntime \/ VerifyHelper
    BY <1>2 DEF VerifyFreeze, VerifyRuntime, VerifyHelper, Verify, Refused
<1>3. CASE End
    BY <1>3 DEF End
<1>4. CASE Kill
    BY <1>4 DEF Kill, Fault
<1> QED
    BY <1>1, <1>2, <1>3, <1>4 DEF Main

\* What a cell uses is of some version.
LEMMA UsesTyped ==
    ASSUME TypeOK, NEW c \in Cells, NEW items, NEW versions,
           \A i \in items \cap Items : versions[i] \in Versions, Uses(c, items, versions)
    PROVE  /\ used' \in [Cells -> [Items -> SUBSET Versions]]
           /\ \A i \in Items :
                 used'[c][i] = IF i \in items THEN used[c][i] \cup {versions[i]} ELSE used[c][i]
           /\ \A d \in Cells \ {c} : used'[d] = used[d]
<1> DEFINE more == [i \in Items |-> IF i \in items THEN used[c][i] \cup {versions[i]} ELSE used[c][i]]
<1>1. used' = [used EXCEPT ![c] = more]
    BY DEF Uses
<1>2. more \in [Items -> SUBSET Versions]
    BY DEF TypeOK
<1>3. used' \in [Cells -> [Items -> SUBSET Versions]]
    BY <1>1, <1>2 DEF TypeOK
<1>4. \A i \in Items : more[i] = IF i \in items THEN used[c][i] \cup {versions[i]} ELSE used[c][i]
    OBVIOUS
<1> HIDE DEF more
<1>5. \A d \in Cells : used'[d] = IF d = c THEN more ELSE used[d]
    BY <1>1 DEF TypeOK
<1> QED
    BY <1>3, <1>4, <1>5

\* A step of run_one on c: the other cells are left as they are.
Step(c) ==
    /\ Runs /\ UNCHANGED <<pc, resume, code, starts>> /\ faults' \in 0..MaxFaults
    /\ at' \in [Cells -> Points] /\ stage' \in [Cells -> Stages]
    /\ \A part \in {current', read', request', manifest'} : DOMAIN part = Cells
    /\ \A d \in Cells \ {c} :
          /\ current'[d] = current[d] /\ read'[d] = read[d]
          /\ request'[d] = request[d] /\ manifest'[d] = manifest[d]
          /\ at'[d] = at[d] /\ stage'[d] = stage[d]
    /\ used' \in [Cells -> [Items -> SUBSET Versions]]
    /\ \A d \in Cells \ {c} : used'[d] = used[d]

LEMMA RunSteps ==
    ASSUME TypeOK, NEW c \in Cells, RunOne(c) \/ ToolCall(c) \/ Raise(c) PROVE Step(c)
<1> USE DEF Goes, dirs, Step, TypeOK, Points, Working, Reading, Stages
<1>0. faults \in 0..MaxFaults
    OBVIOUS
<1>1. CASE Begin(c) \/ Read(c)
    BY <1>1 DEF Begin, Read
<1>2. CASE MakeDirectory(c) \/ WriteRequest(c)
    BY <1>2 DEF MakeDirectory, WriteRequest
<1>3. CASE Reenter(c) \/ Leave(c) \/ Refuse(c)
    BY <1>3 DEF Reenter, Leave, Refuse
<1>4. CASE HomeExists(c) \/ AlreadyRan(c)
    BY <1>4 DEF HomeExists, AlreadyRan
<1>5. CASE Return(c) \/ RecordExit(c) \/ Seal(c)
    BY <1>5 DEF Return, RecordExit, Seal
<1>6. CASE Raise(c)
    BY <1>6, ProvenanceOK DEF Raise, Fault, ProvenanceOK, Active
<1>7. CASE Prepare(c)
  <2>1. Uses(c, {"starter"}, live) \/ UNCHANGED used
      BY <1>7 DEF Prepare
  <2>2. /\ used' \in [Cells -> [Items -> SUBSET Versions]]
        /\ \A d \in Cells \ {c} : used'[d] = used[d]
      BY <2>1, UsesTyped
  <2> QED
      BY <1>7, <2>2 DEF Prepare
<1>8. CASE Launch(c)
  <2>1. /\ live["hook"] \in Versions /\ live["hermes"] \in Versions /\ read[c]["prompt"] \in Versions
        /\ "prompt" \in Items
      BY <1>8 DEF Launch, Items, Inputs, Recorded, Held
  <2> DEFINE given == [live EXCEPT !["prompt"] = read[c]["prompt"]]
  <2>2. \A i \in {"prompt", "hook", "hermes"} \cap Items : given[i] \in Versions
      BY <2>1
  <2>3. Uses(c, {"prompt", "hook", "hermes"}, given)
      BY <1>8 DEF Launch
  <2> HIDE DEF given
  <2>4. /\ used' \in [Cells -> [Items -> SUBSET Versions]]
        /\ \A d \in Cells \ {c} : used'[d] = used[d]
      BY <2>2, <2>3, UsesTyped
  <2> QED
      BY <1>8, <2>4 DEF Launch
<1>9. CASE ToolCall(c)
    BY <1>9, UsesTyped DEF ToolCall
<1>10. CASE Grade(c)
  <2>1. PICK items : Uses(c, items, live)
      BY <1>10 DEF Grade
  <2> QED
      BY <1>10, <2>1, UsesTyped DEF Grade
<1> QED
    BY <1>1, <1>2, <1>3, <1>4, <1>5, <1>6, <1>7, <1>8, <1>9, <1>10 DEF RunOne

LEMMA RunTypes ==
    ASSUME TypeOK, NEW c \in Cells, RunOne(c) \/ ToolCall(c) \/ Raise(c) PROVE TypeOK'
<1>0. Step(c)
    BY RunSteps
<1>1. Held(c)'
  <2> USE DEF Goes, dirs, Held, TypeOK, Reading, Working
  <2>1. CASE Begin(c)
      BY <2>1, DigestsTyped DEF Begin
  <2>2. CASE MakeDirectory(c)
      BY <2>2 DEF MakeDirectory
  <2>10. CASE WriteRequest(c)
    <3>1. request'[c] = current[c] /\ at[c] = "made"
        BY <2>10 DEF WriteRequest
    <3>2. at'[c] = "entered" /\ stage'[c] = "requested"
        BY <2>10 DEF WriteRequest
    <3> QED
        BY <3>1, <3>2
  <2>3. CASE Reenter(c) \/ Leave(c) \/ Refuse(c)
      BY <2>3 DEF Reenter, Leave, Refuse, Continues
  <2>4. CASE HomeExists(c) \/ AlreadyRan(c) \/ ToolCall(c)
      BY <2>4 DEF HomeExists, AlreadyRan, ToolCall
  <2>5. CASE Return(c) \/ RecordExit(c) \/ Prepare(c)
      BY <2>5 DEF Return, RecordExit, Prepare
  <2>6. CASE Launch(c) \/ Grade(c)
      BY <2>6 DEF Launch, Grade
  <2>7. CASE Raise(c)
      BY <2>7 DEF Raise, Active
  <2>8. CASE Read(c)
    <3>1. [i \in {"prompt", "starter", "grader"} |-> live[i]] \in [{"prompt", "starter", "grader"} -> Versions]
        BY DEF Items, Inputs, Recorded
    <3> QED
        BY <2>8, <3>1 DEF Read
  <2>9. CASE Seal(c)
    <3>1. read[c] \in [{"prompt", "starter", "grader"} -> Versions]
        BY <2>9 DEF Seal
    <3>2. [i \in Digested |-> IF i \in {"starter", "grader"} THEN read[c][i] ELSE live[i]]
              \in [Digested -> Versions]
        BY <3>1 DEF Digested
    <3>3. ManifestOf(c) \in Seen
        BY <3>2, DigestsTyped DEF ManifestOf, Seen, Digests
    <3> QED
        BY <2>9, <3>3 DEF Seal
  <2> QED
      BY <2>1, <2>2, <2>3, <2>4, <2>5, <2>6, <2>7, <2>8, <2>9, <2>10 DEF RunOne
<1>2. \A d \in Cells : Held(d)'
    BY <1>0, <1>1 DEF TypeOK, Step, Held
<1> QED
    BY <1>0, <1>2 DEF TypeOK, Step, Runs, files, history

LEMMA TypesNext == TypeOK /\ [Next]_vars => TypeOK'
<1> SUFFICES ASSUME TypeOK, [Next]_vars PROVE TypeOK'
    OBVIOUS
<1>1. CASE UNCHANGED vars
    BY <1>1 DEF vars, files, process, dirs, history, TypeOK, Held
<1> QED
    BY <1>1, FilesTypes, ProcessTypes, RunTypes DEF Next

\* What a process or a directory holds at one point is what later points expect.
THEOREM TypeCorrect == Spec => []TypeOK
BY InitTypes, TypesNext, PTL DEF Spec

-----------------------------------------------------------------------------
(* Shape.                                                                  *)

LEMMA ShapeNext == TypeOK /\ Shape /\ [Next]_vars => Shape'
<1> SUFFICES ASSUME TypeOK, Shape, [Next]_vars PROVE Shape'
    OBVIOUS
<1> USE DEF Shape
<1>1. CASE UNCHANGED vars
    BY <1>1 DEF vars, process, dirs
<1>2. CASE FilesChange
    BY <1>2 DEF FilesChange, Edit, Compile, Record, DigestHelper, WriteFreeze, Publish, Change, process, dirs
<1>3. CASE \E cells \in Batches, again \in BOOLEAN : Start(cells, again)
    BY <1>3 DEF Start, dirs
<1>4. CASE Main
    BY <1>4 DEF Main, VerifyFreeze, VerifyRuntime, VerifyHelper, Verify, Refused, End, dirs
<1>5. CASE Kill
    BY <1>5 DEF Kill, dirs
<1>6. ASSUME NEW c \in Cells, RunOne(c) \/ ToolCall(c) \/ Raise(c) PROVE Shape'
  <2>0. Step(c) /\ Held(c)
      BY <1>6, RunSteps DEF TypeOK
  <2>1. pc = "run"
    <3>1. CASE Raise(c)
        BY <3>1 DEF Raise, Active, TypeOK
    <3>2. CASE RunOne(c) \/ ToolCall(c)
        BY <3>2 DEF RunOne, ToolCall, Goes, Begin, MakeDirectory, WriteRequest, Reenter, Leave, Refuse, Prepare,
            Read, Launch, HomeExists, AlreadyRan, Return, RecordExit, Grade, Seal
    <3> QED
        BY <1>6, <3>1, <3>2
  <2>2. stage'[c] \in {"none", "bare"} => stage[c] \in {"none", "bare"} /\ used'[c] = used[c]
    <3> USE <2>0 DEF Goes, dirs, Held, TypeOK, Working, Reading
    <3>1. CASE Prepare(c) \/ Launch(c) \/ Grade(c)
        BY <3>1 DEF Prepare, Launch, Grade
    <3>2. CASE MakeDirectory(c)
        BY <3>2 DEF MakeDirectory, Creates
    <3>3. CASE Return(c) \/ RecordExit(c) \/ Seal(c) \/ WriteRequest(c)
        BY <3>3 DEF Return, RecordExit, Seal, WriteRequest
    <3>4. CASE Raise(c)
        BY <3>4 DEF Raise, Active
    <3>5. CASE Begin(c) \/ Reenter(c) \/ Leave(c) \/ Refuse(c) \/ Read(c) \/ HomeExists(c) \/ AlreadyRan(c)
        BY <3>5 DEF Begin, Reenter, Leave, Refuse, Read, HomeExists, AlreadyRan
    <3>6. CASE ToolCall(c)
        BY <3>6 DEF ToolCall
    <3> QED
        BY <1>6, <3>1, <3>2, <3>3, <3>4, <3>5, <3>6 DEF RunOne
  <2> QED
      BY <2>0, <2>1, <2>2 DEF Step
<1> QED
    BY <1>1, <1>2, <1>3, <1>4, <1>5, <1>6 DEF Next

-----------------------------------------------------------------------------
(* A process and the files.                                                *)

\* A cell at work belongs to a process past its validation.
LEMMA AtWork ==
    ASSUME TypeOK, Shape, NEW c \in Cells, RunOne(c) \/ ToolCall(c) \/ Raise(c)
    PROVE  pc = "run" /\ c \in Unfinished
<1>1. CASE Raise(c)
    BY <1>1 DEF Raise, Active, Unfinished, Shape, TypeOK
<1>2. CASE RunOne(c) \/ ToolCall(c)
    BY <1>2 DEF RunOne, ToolCall, Goes, Begin, MakeDirectory, WriteRequest, Reenter, Leave, Refuse, Prepare,
        Read, Launch, HomeExists, AlreadyRan, Return, RecordExit, Grade, Seal, Unfinished
<1> QED
    BY <1>1, <1>2

\* Past validation, the files of a quiet cell are those of the frozen tree.
LEMMA QuietVersions ==
    ASSUME TypeOK, Agree, pc = "run", NEW c \in Quiet
    PROVE  /\ \A i \in Items : VersionIn(Digests.source, i) = live[i]
           /\ Consistent(Digests)
<1>1. freeze = Tree /\ recorded["hermes"] = live["hermes"] /\ recorded["helper"] = live["helper"]
    BY DEF Agree, Quiet
<1>2. \A i \in Items : VersionIn(Tree, i) = live[i]
    BY <1>1 DEF VersionIn, Tree, Items, Frozen, Recorded
<1>3. \A i \in Items : VersionIn(Digests.source, i) = live[i]
    BY <1>1, <1>2 DEF Digests
<1>4. \A i \in Digested : Digests.items[i] = live[i] /\ i \in Items
    BY DEF Digests, Digested
<1>5. Digests.runtime = live["hermes"] /\ "hermes" \in Items
    BY <1>1 DEF Digests, Items, Recorded
<1> QED
    BY <1>3, <1>4, <1>5 DEF Consistent

LEMMA AgreeNext == TypeOK /\ Shape /\ Agree /\ [Next]_vars => Agree'
<1> SUFFICES ASSUME TypeOK, Shape, Agree, [Next]_vars PROVE Agree'
    OBVIOUS
<1>1. CASE UNCHANGED vars
    BY <1>1 DEF vars, files, process, dirs, history, Agree, Quiet, Unfinished, Tree, Digests
<1>2. CASE FilesChange
  <2>1. Quiet' = {}
      BY <1>2 DEF FilesChange, Edit, Compile, Record, DigestHelper, WriteFreeze, Publish, Change, process,
          Quiet, Unfinished
  <2> QED
      BY <2>1 DEF Agree
<1>3. CASE \E cells \in Batches, again \in BOOLEAN : Start(cells, again)
    BY <1>3 DEF Start, Agree, Working, Reading, Quiet, Unfinished
<1>4. CASE Main
  <2>1. CASE at' = [c \in Cells |-> "out"]
      BY <2>1 DEF Agree, Quiet, Unfinished
  <2>2. CASE UNCHANGED at
    <3>1. \A c \in Quiet : at[c] = "queued"
        BY <1>4, <2>2 DEF Main, VerifyFreeze, VerifyRuntime, VerifyHelper, Verify, End, Refused, Shape, Quiet, Unfinished
    <3>2. Quiet' = Quiet /\ UNCHANGED <<live, recorded, freeze>>
        BY <1>4, <2>2 DEF Main, VerifyFreeze, VerifyRuntime, VerifyHelper, Verify, End, Runs, files, history,
            Quiet, Unfinished
    <3>3. CASE Quiet = {}
        BY <3>2, <3>3 DEF Agree
    <3>4. ASSUME NEW c \in Quiet
          PROVE  /\ pc' \in {"runtime", "helper", "run"} => freeze = Tree
                 /\ pc' \in {"helper", "run"} => recorded["hermes"] = live["hermes"]
                 /\ pc' = "run" => recorded["helper"] = live["helper"]
        BY <1>4, <2>2, <3>1 DEF Main, VerifyFreeze, VerifyRuntime, VerifyHelper, Verify, End, Refused, Agree,
            Quiet, Unfinished
    <3> QED
        BY <2>2, <3>1, <3>2, <3>4 DEF Agree, Tree, Working, Reading
  <2> QED
      BY <1>4, <2>1, <2>2 DEF Main, VerifyFreeze, VerifyRuntime, VerifyHelper, Verify, End, Refused
<1>5. CASE Kill
    BY <1>5 DEF Kill, Agree, Quiet, Unfinished
<1>6. ASSUME NEW c \in Cells, RunOne(c) \/ ToolCall(c) \/ Raise(c) PROVE Agree'
  <2>1. Step(c) /\ pc = "run" /\ c \in Unfinished
      BY <1>6, RunSteps, AtWork
  <2>2. UNCHANGED <<live, recorded, freeze, disturbed, pc>> /\ Tree' = Tree /\ Digests' = Digests
      BY <2>1 DEF Step, Runs, files, history, Tree, Digests
  <2>3. ASSUME NEW d \in Quiet', d # c
        PROVE  /\ d \in Quiet /\ at'[d] = at[d] /\ current'[d] = current[d]
               /\ request'[d] = request[d] /\ read'[d] = read[d]
      BY <2>1, <2>2, <2>3 DEF Step, Quiet, Unfinished
  <2>4. ASSUME c \in Quiet'
        PROVE  /\ at'[c] \in {"digested", "made"} => current'[c] = Digests
               /\ at'[c] \in Working => request'[c] = Digests
               /\ at'[c] \in Reading => \A i \in {"prompt", "starter", "grader"} : read'[c][i] = live[i]
    <3>1. c \in Quiet
        BY <2>1, <2>2, <2>4 DEF Quiet
    <3>2. /\ at[c] \in {"digested", "made"} => current[c] = Digests
          /\ at[c] \in Working => request[c] = Digests
          /\ at[c] \in Reading => \A i \in {"prompt", "starter", "grader"} : read[c][i] = live[i]
        BY <3>1 DEF Agree
    <3>3. at'[c] \notin {"out", "over", "failed"}
        BY <2>4 DEF Quiet, Unfinished
    <3> USE <3>2, <3>3 DEF Goes, dirs, TypeOK, Working, Reading
    <3>4. CASE Begin(c) \/ MakeDirectory(c)
        BY <3>4 DEF Begin, MakeDirectory
    <3>5. CASE WriteRequest(c)
        BY <3>5 DEF WriteRequest
    <3>6. CASE Reenter(c) \/ Leave(c) \/ Refuse(c)
        BY <3>6 DEF Reenter, Leave, Refuse, Continues
    <3>7. CASE Read(c)
        BY <3>7 DEF Read
    <3>8. CASE Prepare(c) \/ Launch(c) \/ Return(c)
        BY <3>8 DEF Prepare, Launch, Return
    <3>9. CASE HomeExists(c) \/ AlreadyRan(c) \/ ToolCall(c)
        BY <3>9 DEF HomeExists, AlreadyRan, ToolCall
    <3>10. CASE RecordExit(c) \/ Grade(c) \/ Seal(c)
        BY <3>10 DEF RecordExit, Grade, Seal
    <3>11. CASE Raise(c)
        BY <3>11 DEF Raise, Active
    <3> QED
        BY <1>6, <3>4, <3>5, <3>6, <3>7, <3>8, <3>9, <3>10, <3>11 DEF RunOne
  <2>5. ASSUME NEW d \in Quiet'
        PROVE  freeze = Tree /\ recorded["hermes"] = live["hermes"] /\ recorded["helper"] = live["helper"]
    <3>1. d \in Quiet
        BY <2>1, <2>2, <2>3 DEF Quiet
    <3> QED
        BY <2>1, <3>1 DEF Agree
  <2>6. ASSUME NEW d \in Quiet', d # c
        PROVE  /\ at'[d] \in {"digested", "made"} => current'[d] = Digests
               /\ at'[d] \in Working => request'[d] = Digests
               /\ at'[d] \in Reading => \A i \in {"prompt", "starter", "grader"} : read'[d][i] = live[i]
      BY <2>3, <2>6 DEF Agree
  <2> QED
      BY <2>2, <2>4, <2>5, <2>6 DEF Agree
<1> QED
    BY <1>1, <1>2, <1>3, <1>4, <1>5, <1>6 DEF Next

-----------------------------------------------------------------------------
(* What a cell uses.                                                       *)

\* A step of run_one adds versions that are there, or the prompt it read.
LEMMA Adds ==
    ASSUME TypeOK, NEW c \in Cells, RunOne(c) \/ ToolCall(c) \/ Raise(c)
    PROVE  /\ \A i \in Items : used'[c][i] \subseteq used[c][i] \cup
                 {live[i], IF i = "prompt" /\ at[c] = "read" THEN read[c]["prompt"] ELSE live[i]}
           /\ used' # used => at[c] \in Working
<1> USE DEF Goes, dirs, Working, Reading
<1>1. CASE Prepare(c)
  <2>1. Uses(c, {"starter"}, live) \/ UNCHANGED used
      BY <1>1 DEF Prepare
  <2>2. \A i \in {"starter"} \cap Items : live[i] \in Versions
      BY DEF TypeOK
  <2>3. \A i \in Items : used'[c][i] \subseteq used[c][i] \cup {live[i]}
    <3>1. CASE UNCHANGED used
        BY <3>1
    <3>2. CASE Uses(c, {"starter"}, live)
      <4>1. \A i \in Items :
              used'[c][i] = IF i \in {"starter"} THEN used[c][i] \cup {live[i]} ELSE used[c][i]
          BY <2>2, <3>2, UsesTyped
      <4> QED
          BY <4>1
    <3> QED
        BY <2>1, <3>1, <3>2
  <2>4. at[c] = "entered"
      BY <1>1 DEF Prepare
  <2> QED
      BY <2>3, <2>4
<1>2. CASE Launch(c)
  <2> DEFINE given == [live EXCEPT !["prompt"] = read[c]["prompt"]]
             three == {"prompt", "hook", "hermes"}
  <2>1. /\ \A i \in Items : live[i] \in Versions
        /\ read[c]["prompt"] \in Versions
      BY <1>2 DEF Launch, Held, TypeOK
  <2>2. \A i \in Items : given[i] = IF i = "prompt" THEN read[c]["prompt"] ELSE live[i]
      BY DEF TypeOK
  <2>3. Uses(c, three, given) /\ at[c] = "read"
      BY <1>2 DEF Launch
  <2> HIDE DEF given, three
  <2>4. \A i \in three \cap Items : given[i] \in Versions
      BY <2>1, <2>2
  <2>5. \A i \in Items : used'[c][i] = IF i \in three THEN used[c][i] \cup {given[i]} ELSE used[c][i]
      BY <2>3, <2>4, UsesTyped
  <2>6. \A i \in Items : used'[c][i] \subseteq used[c][i] \cup {given[i]}
      BY <2>5
  <2> QED
      BY <2>2, <2>3, <2>6
<1>3. CASE ToolCall(c) \/ Grade(c)
  <2>1. PICK items : Uses(c, items, live)
      BY <1>3 DEF ToolCall, Grade
  <2>2. at[c] \in Working
      BY <1>3 DEF ToolCall, Grade
  <2>3. \A i \in items \cap Items : live[i] \in Versions
      BY DEF TypeOK
  <2>4. \A i \in Items : used'[c][i] = IF i \in items THEN used[c][i] \cup {live[i]} ELSE used[c][i]
      BY <2>1, <2>3, UsesTyped
  <2> QED
      BY <2>2, <2>4
<1>4. CASE UNCHANGED used
    BY <1>4
<1>5. used' = used \/ Prepare(c) \/ Launch(c) \/ ToolCall(c) \/ Grade(c)
    BY DEF RunOne, Begin, MakeDirectory, WriteRequest, Reenter, Leave, Refuse,
        Read, HomeExists, AlreadyRan, Return, RecordExit, Seal, Raise
<1> QED
    BY <1>1, <1>2, <1>3, <1>4, <1>5

\* Only WriteRequest writes a request, only Seal a manifest.
LEMMA Writes ==
    ASSUME TypeOK, NEW c \in Cells, RunOne(c) \/ ToolCall(c) \/ Raise(c)
    PROVE  /\ ~WriteRequest(c) => UNCHANGED request /\
                 (stage'[c] \notin {"none", "bare"} => stage[c] \notin {"none", "bare"})
           /\ ~Seal(c) => UNCHANGED manifest /\ (stage'[c] = "sealed" => stage[c] = "sealed")
<1> USE DEF Goes, dirs, TypeOK, Held, Working, Reading
<1>1. CASE Begin(c) \/ Reenter(c) \/ Leave(c) \/ Refuse(c) \/ Read(c) \/ HomeExists(c) \/ AlreadyRan(c) \/ ToolCall(c)
    BY <1>1 DEF Begin, Reenter, Leave, Refuse, Read, HomeExists, AlreadyRan, ToolCall
<1>2. CASE MakeDirectory(c)
    BY <1>2 DEF MakeDirectory
<1>3. CASE WriteRequest(c)
    BY <1>3 DEF WriteRequest
<1>4. CASE Prepare(c) \/ Launch(c) \/ Grade(c)
    BY <1>4 DEF Prepare, Launch, Grade
<1>5. CASE Return(c) \/ RecordExit(c)
    BY <1>5 DEF Return, RecordExit
<1>6. CASE Seal(c)
    BY <1>6 DEF Seal
<1>7. CASE Raise(c)
    BY <1>7 DEF Raise, Active
<1> QED
    BY <1>1, <1>2, <1>3, <1>4, <1>5, <1>6, <1>7 DEF RunOne

\* The manifest of a cell is what it would digest now, where nothing changed since Read.
LEMMA ManifestNow ==
    ASSUME TypeOK, NEW c \in Cells, Seal(c)
    PROVE  /\ manifest'[c] = ManifestOf(c)
           /\ ManifestOf(c).items["helper"] = live["helper"]
           /\ (\A i \in {"prompt", "starter", "grader"} : read[c][i] = live[i]) => ManifestOf(c) = Digests
<1> DEFINE items == [i \in Digested |-> IF i \in {"starter", "grader"} THEN read[c][i] ELSE live[i]]
<1>1. ManifestOf(c) = [items |-> items, runtime |-> recorded["hermes"], source |-> freeze]
    BY DEF ManifestOf, Digests
<1>2. items["helper"] = live["helper"]
    BY DEF Digested, Items, Recorded
<1>3. (\A i \in {"prompt", "starter", "grader"} : read[c][i] = live[i]) => items = [i \in Digested |-> live[i]]
    OBVIOUS
<1> HIDE DEF items
<1>4. manifest'[c] = ManifestOf(c)
    BY DEF Seal, TypeOK
<1> QED
    BY <1>1, <1>2, <1>3, <1>4 DEF Digests

LEMMA FaithfulNext == TypeOK /\ Shape /\ Agree /\ Faithful /\ [Next]_vars => Faithful'
<1> SUFFICES ASSUME TypeOK, Shape, Agree, Faithful, [Next]_vars PROVE Faithful'
    OBVIOUS
<1>1. CASE UNCHANGED <<dirs, used>> /\ disturbed \subseteq disturbed'
    BY <1>1 DEF dirs, Faithful, Consistent
<1>2. ASSUME NEW c \in Cells, RunOne(c) \/ ToolCall(c) \/ Raise(c) PROVE Faithful'
  <2>1. Step(c) /\ pc = "run" /\ c \in Unfinished /\ disturbed' = disturbed
      BY <1>2, RunSteps, AtWork DEF Step, Runs, history
  <2>2. ASSUME c \notin disturbed, stage'[c] \notin {"none", "bare"}
        PROVE  /\ Consistent(request'[c])
               /\ \A i \in Items : used'[c][i] \subseteq {VersionIn(request'[c].source, i)}
               /\ stage'[c] = "sealed" => manifest'[c] = request'[c]
    <3>1. c \in Quiet
        BY <2>1, <2>2 DEF Quiet
    <3>2. (\A i \in Items : VersionIn(Digests.source, i) = live[i]) /\ Consistent(Digests)
        BY <2>1, <3>1, QuietVersions
    <3>3. CASE WriteRequest(c)
      <4>1. request'[c] = current[c] /\ at[c] = "made" /\ stage'[c] = "requested" /\ used' = used
          BY <3>3 DEF WriteRequest, Goes, TypeOK
      <4>2. current[c] = Digests
          BY <3>1, <4>1 DEF Agree
      <4>3. \A i \in Items : used[c][i] = {}
          BY <4>1 DEF Shape, TypeOK, Held
      <4> QED
          BY <3>2, <4>1, <4>2, <4>3
    <3>4. CASE ~WriteRequest(c)
      <4>1. request' = request /\ stage[c] \notin {"none", "bare"}
          BY <1>2, <2>2, <3>4, Writes
      <4>2. Consistent(request[c]) /\ \A i \in Items : used[c][i] \subseteq {VersionIn(request[c].source, i)}
          BY <2>2, <4>1 DEF Faithful
      <4>3. \A i \in Items : used'[c][i] \subseteq {VersionIn(request[c].source, i)}
        <5>1. CASE used' = used
            BY <4>2, <5>1
        <5>2. CASE used' # used
          <6>1. request[c] = Digests
              BY <1>2, <3>1, <5>2, Adds DEF Agree
          <6>2. at[c] = "read" => read[c]["prompt"] = live["prompt"]
              BY <3>1 DEF Agree, Reading
          <6>3. \A i \in Items : used'[c][i] \subseteq used[c][i] \cup {live[i]}
              BY <1>2, <6>2, Adds
          <6> QED
              BY <3>2, <4>2, <6>1, <6>3
        <5> QED
            BY <5>1, <5>2
      <4>4. stage'[c] = "sealed" => manifest'[c] = request[c]
        <5>1. CASE Seal(c)
          <6>1. at[c] = "graded"
              BY <5>1 DEF Seal, Goes
          <6>2. request[c] = Digests /\ \A i \in {"prompt", "starter", "grader"} : read[c][i] = live[i]
              BY <3>1, <6>1 DEF Agree, Working, Reading
          <6> QED
              BY <5>1, <6>2, ManifestNow
        <5>2. CASE ~Seal(c)
            BY <1>2, <2>2, <4>1, <5>2, Writes DEF Faithful
        <5> QED
            BY <5>1, <5>2
      <4> QED
          BY <4>1, <4>2, <4>3, <4>4
    <3> QED
        BY <3>3, <3>4
  <2>3. ASSUME NEW d \in Cells \ disturbed, d # c, stage'[d] \notin {"none", "bare"}
        PROVE  /\ Consistent(request'[d])
               /\ \A i \in Items : used'[d][i] \subseteq {VersionIn(request'[d].source, i)}
               /\ stage'[d] = "sealed" => manifest'[d] = request'[d]
      BY <2>1, <2>3 DEF Step, Faithful
  <2>4. \A d \in Cells \ disturbed : stage'[d] \notin {"none", "bare"} =>
          /\ Consistent(request'[d])
          /\ \A i \in Items : used'[d][i] \subseteq {VersionIn(request'[d].source, i)}
          /\ stage'[d] = "sealed" => manifest'[d] = request'[d]
      BY <2>2, <2>3
  <2> QED
      BY <2>1, <2>4 DEF Faithful, Consistent
<1>3. CASE UNCHANGED vars \/ FilesChange
    BY <1>1, <1>3 DEF vars, history, FilesChange, Edit, Compile, Record, DigestHelper, WriteFreeze, Publish, Change
<1>4. CASE (\E cells \in Batches, again \in BOOLEAN : Start(cells, again)) \/ Main \/ Kill
    BY <1>1, <1>4 DEF Start, Main, VerifyFreeze, VerifyRuntime, VerifyHelper, Verify, End, Kill, Fault, Runs, history
<1> QED
    BY <1>2, <1>3, <1>4 DEF Next

LEMMA RisingNext == TypeOK /\ Shape /\ Rising /\ [Next]_vars => Rising'
<1> SUFFICES ASSUME TypeOK, Shape, Rising, [Next]_vars, ~restored' PROVE Rising'
    BY DEF Rising
<1>0. Versions \subseteq Nat /\ "helper" \in Items /\ "helper" \in Digested
    BY DEF Versions, Items, Recorded, Digested
<1>1. ASSUME UNCHANGED <<at, current, dirs, used>>, ~restored, live["helper"] <= live'["helper"],
             live'["helper"] \in Versions
      PROVE  Rising'
  <2>1. \A c \in Cells :
          /\ at[c] \in {"digested", "made"} => current[c].items["helper"] \in Nat
          /\ stage[c] \notin {"none", "bare"} => request[c].items["helper"] \in Nat
          /\ \A v \in used[c]["helper"] : v \in Nat
    <3> SUFFICES ASSUME NEW c \in Cells
                 PROVE  /\ at[c] \in {"digested", "made"} => current[c].items["helper"] \in Nat
                        /\ stage[c] \notin {"none", "bare"} => request[c].items["helper"] \in Nat
                        /\ \A v \in used[c]["helper"] : v \in Nat
        OBVIOUS
    <3>1. \A seen \in Seen : seen.items["helper"] \in Nat
        BY <1>0 DEF Seen
    <3>2. at[c] \in {"digested", "made"} => current[c] \in Seen
        BY DEF TypeOK, Held
    <3>3. stage[c] \notin {"none", "bare"} => request[c] \in Seen
        BY DEF TypeOK, Held
    <3>4. used[c]["helper"] \subseteq Versions
        BY <1>0 DEF TypeOK
    <3> QED
        BY <1>0, <3>1, <3>2, <3>3, <3>4
  <2>2. live["helper"] \in Nat /\ live'["helper"] \in Nat
      BY <1>0, <1>1 DEF TypeOK
  <2>3. ASSUME NEW m, m \in Nat, m <= live["helper"] PROVE m <= live'["helper"]
      BY <1>1, <2>2, <2>3
  <2>4. /\ \A c \in Cells : at'[c] = at[c] /\ current'[c] = current[c] /\ stage'[c] = stage[c]
        /\ \A c \in Cells : request'[c] = request[c] /\ manifest'[c] = manifest[c] /\ used'[c] = used[c]
      BY <1>1 DEF dirs
  <2> QED
      BY <1>1, <2>1, <2>3, <2>4 DEF Rising
<1>2. ASSUME NEW c \in Cells, RunOne(c) \/ ToolCall(c) \/ Raise(c) PROVE Rising'
  <2>1. Step(c) /\ ~restored /\ live' = live /\ live["helper"] \in Nat
      BY <1>0, <1>2, RunSteps DEF Step, Runs, history, files, TypeOK
  <2>2. /\ at[c] \in {"digested", "made"} => current[c].items["helper"] <= live["helper"]
        /\ stage[c] \notin {"none", "bare"} =>
              /\ request[c].items["helper"] <= live["helper"]
              /\ \A v \in used[c]["helper"] : request[c].items["helper"] <= v /\ v <= live["helper"]
        /\ stage[c] = "sealed" => \A v \in used[c]["helper"] : v <= manifest[c].items["helper"]
      BY <2>1 DEF Rising
  <2>3. at'[c] \in {"digested", "made"} => current'[c].items["helper"] <= live["helper"]
    <3>1. CASE Begin(c)
      <4>1. current'[c] = Digests
          BY <3>1 DEF Begin, TypeOK
      <4>2. Digests.items["helper"] = live["helper"]
          BY <1>0 DEF Digests
      <4> QED
          BY <2>1, <4>1, <4>2
    <3>2. CASE ~Begin(c)
      <4>1. at'[c] \in {"digested", "made"} => at[c] \in {"digested", "made"} /\ current'[c] = current[c]
          BY <1>2, <3>2 DEF RunOne, ToolCall, Raise, Goes, MakeDirectory, WriteRequest, Reenter, Leave, Refuse,
              Prepare, Read, Launch, HomeExists, AlreadyRan, Return, RecordExit, Grade, Seal, TypeOK
      <4> QED
          BY <2>2, <4>1
    <3> QED
        BY <3>1, <3>2
  <2>4. used'[c]["helper"] \subseteq used[c]["helper"] \cup {live["helper"]}
      BY <1>0, <1>2, Adds
  <2>5. stage'[c] \notin {"none", "bare"} =>
          /\ request'[c].items["helper"] <= live["helper"]
          /\ \A v \in used'[c]["helper"] : request'[c].items["helper"] <= v /\ v <= live["helper"]
    <3>1. CASE WriteRequest(c)
      <4>1. request'[c] = current[c] /\ at[c] = "made" /\ used' = used
          BY <3>1 DEF WriteRequest, Goes, TypeOK
      <4>2. used[c]["helper"] = {}
          BY <1>0, <4>1 DEF Shape, TypeOK, Held
      <4> QED
          BY <2>2, <4>1, <4>2
    <3>2. CASE ~WriteRequest(c)
        BY <1>2, <2>1, <2>2, <2>4, <3>2, Writes
    <3> QED
        BY <3>1, <3>2
  <2>6. stage'[c] = "sealed" => \A v \in used'[c]["helper"] : v <= manifest'[c].items["helper"]
    <3>1. CASE Seal(c)
      <4>1. manifest'[c].items["helper"] = live["helper"] /\ used' = used
          BY <3>1, ManifestNow DEF Seal
      <4>2. at[c] \in Working
          BY <3>1 DEF Seal, Goes, Working, Reading
      <4>3. stage[c] \notin {"none", "bare"}
          BY <4>2 DEF TypeOK, Held
      <4> QED
          BY <2>2, <4>1, <4>3
    <3>2. CASE ~Seal(c)
      <4>1. manifest' = manifest /\ (stage'[c] = "sealed" => stage[c] = "sealed")
          BY <1>2, <3>2, Writes
      <4>2. stage[c] = "sealed" => used' = used
          BY <1>2, Adds DEF TypeOK, Held
      <4> QED
          BY <2>2, <4>1, <4>2
    <3> QED
        BY <3>1, <3>2
  <2>7. ASSUME NEW d \in Cells, d # c
        PROVE  /\ at'[d] \in {"digested", "made"} => current'[d].items["helper"] <= live["helper"]
               /\ stage'[d] \notin {"none", "bare"} =>
                     /\ request'[d].items["helper"] <= live["helper"]
                     /\ \A v \in used'[d]["helper"] :
                           request'[d].items["helper"] <= v /\ v <= live["helper"]
               /\ stage'[d] = "sealed" => \A v \in used'[d]["helper"] : v <= manifest'[d].items["helper"]
      BY <2>1, <2>7 DEF Step, Rising
  <2> QED
      BY <2>1, <2>3, <2>5, <2>6, <2>7 DEF Rising
<1>3. CASE UNCHANGED vars
  <2>1. UNCHANGED <<at, current, dirs, used, live, restored>> /\ ~restored
      BY <1>3 DEF vars, files, process, history
  <2>2. live["helper"] \in Nat /\ live["helper"] \in Versions
      BY <1>0 DEF TypeOK
  <2>3. live["helper"] <= live["helper"]
      BY <2>2
  <2> QED
      BY <1>1, <2>1, <2>2, <2>3
<1>4. CASE FilesChange
  <2>1. UNCHANGED <<at, current, dirs, used>> /\ ~restored
      BY <1>4 DEF FilesChange, Edit, Compile, Record, DigestHelper, WriteFreeze, Publish, Change, process, TypeOK
  <2>2. live["helper"] \in Nat
      BY <1>0 DEF TypeOK
  <2>3. live'["helper"] \in Versions /\ live["helper"] <= live'["helper"]
    <3>1. CASE \E v \in Versions, digest \in BOOLEAN : Compile(v, digest)
      <4>1. PICK v \in Versions : live' = [live EXCEPT !["helper"] = v] /\ ~(v < live["helper"])
          BY <3>1 DEF Compile
      <4>2. live'["helper"] = v
          BY <1>0, <4>1 DEF TypeOK
      <4> QED
          BY <1>0, <2>2, <4>1, <4>2
    <3>2. CASE ~\E v \in Versions, digest \in BOOLEAN : Compile(v, digest)
      <4>1. live'["helper"] = live["helper"]
        <5>1. ASSUME NEW i \in Items, NEW v \in Versions, Edit(i, v) PROVE live'["helper"] = live["helper"]
            BY <1>0, <5>1 DEF Edit, TypeOK
        <5>2. ASSUME UNCHANGED live PROVE live'["helper"] = live["helper"]
            BY <5>2
        <5>3. (\E i \in Items, v \in Versions : Edit(i, v)) \/ UNCHANGED live
            BY <1>4, <3>2 DEF FilesChange, Record, DigestHelper, WriteFreeze, Publish
        <5> QED
            BY <5>1, <5>2, <5>3
      <4> QED
          BY <1>0, <2>2, <4>1 DEF TypeOK
    <3> QED
        BY <3>1, <3>2
  <2> QED
      BY <1>1, <2>1, <2>3
<1>5. CASE (\E cells \in Batches, again \in BOOLEAN : Start(cells, again)) \/ Main \/ Kill
  <2>1. /\ UNCHANGED <<live, restored, dirs, used>>
        /\ \A c \in Cells : at'[c] \in {"digested", "made"} => at[c] \in {"digested", "made"} /\ current' = current
      BY <1>5 DEF Start, Main, VerifyFreeze, VerifyRuntime, VerifyHelper, Verify, Refused, End, Kill, Fault,
          Runs, files, history
  <2> QED
      BY <2>1 DEF Rising, dirs
<1> QED
    BY <1>2, <1>3, <1>4, <1>5 DEF Next

-----------------------------------------------------------------------------
(* The theorems.                                                           *)

LEMMA InitIInv == Init => IInv
<1> SUFFICES ASSUME Init PROVE IInv
    OBVIOUS
<1>1. TypeOK
    BY InitTypes
<1>2. /\ pc = "idle"
      /\ \A c \in Cells : at[c] = "out" /\ stage[c] = "none" /\ \A i \in Items : used[c][i] = {}
    BY DEF Init
<1>3. Shape /\ Faithful
    BY <1>2 DEF Shape, Faithful
<1>4. Agree /\ Rising
    BY <1>2 DEF Agree, Rising, Quiet, Unfinished
<1> QED
    BY <1>1, <1>3, <1>4 DEF IInv

LEMMA NextIInv == IInv /\ [Next]_vars => IInv'
BY TypesNext, ShapeNext, AgreeNext, FaithfulNext, RisingNext DEF IInv

LEMMA Invariant == Spec => []IInv
BY InitIInv, NextIInv, PTL DEF Spec

\* A counted cell, no file of which changed under a process at work on it, used and kept
\* only what the published digest stands for.
THEOREM CountedIsFrozen == Spec => []AcceptedIsFrozen
<1>1. IInv => AcceptedIsFrozen
  <2> SUFFICES ASSUME IInv, NEW c \in Cells \ disturbed, Accepted(c)
               PROVE  /\ \A i \in Items : used[c][i] \subseteq {VersionIn(summary, i)}
                      /\ used[c]["grader"] \subseteq {recorded["grader"]}
      BY DEF AcceptedIsFrozen
  <2>1. stage[c] = "sealed" /\ request[c].source = summary /\ request[c].items["grader"] = recorded["grader"]
      BY DEF Accepted
  <2>2. Consistent(request[c]) /\ \A i \in Items : used[c][i] \subseteq {VersionIn(summary, i)}
      BY <2>1 DEF IInv, Faithful
  <2>3. VersionIn(summary, "grader") = recorded["grader"]
      BY <2>1, <2>2 DEF Consistent, Digested, Items, Recorded
  <2> QED
      BY <2>2, <2>3 DEF Items, Recorded
<1> QED
    BY <1>1, Invariant, PTL

\* And the aggregator turns away no such cell whose frozen tree was published.
THEOREM FrozenIsCounted == Spec => []FrozenIsAccepted
<1>1. IInv => FrozenIsAccepted
  <2> SUFFICES ASSUME IInv, NEW c \in Cells \ disturbed,
                      stage[c] = "sealed", request[c].source = summary, recorded = summary.recorded,
                      summary.recorded["grader"] = summary.live["grader"]
               PROVE  Accepted(c)
      BY DEF FrozenIsAccepted
  <2>1. Consistent(request[c]) /\ manifest[c] = request[c]
      BY DEF IInv, Faithful
  <2>2. /\ VersionIn(summary, "grader") = recorded["grader"]
        /\ VersionIn(summary, "helper") = recorded["helper"]
        /\ VersionIn(summary, "hermes") = recorded["hermes"]
      BY DEF VersionIn, Frozen, Inputs
  <2> QED
      BY <2>1, <2>2 DEF Accepted, Consistent, Digested, Items, Recorded
<1> QED
    BY <1>1, Invariant, PTL

\* Short of a return to an earlier helper, the two digests around a run bound the helper of
\* every one of its tool calls.
THEOREM HelperBound == Spec => []HelperIsRecordedOne
<1>1. IInv => HelperIsRecordedOne
  <2> SUFFICES ASSUME IInv, ~restored, NEW c \in Cells, Accepted(c), NEW v \in used[c]["helper"]
               PROVE  v = recorded["helper"]
      BY DEF HelperIsRecordedOne
  <2>1. /\ stage[c] = "sealed" /\ request[c].items["helper"] = recorded["helper"]
        /\ manifest[c].items["helper"] = recorded["helper"]
      BY DEF Accepted
  <2>2. recorded["helper"] <= v /\ v <= recorded["helper"]
      BY <2>1 DEF IInv, Rising
  <2>3. recorded["helper"] \in Nat /\ v \in Nat
      BY DEF IInv, TypeOK, Versions, Items, Recorded
  <2> QED
      BY <2>2, <2>3
<1> QED
    BY <1>1, Invariant, PTL
=============================================================================
