----------------------------- MODULE SealedTree -----------------------------
(***************************************************************************)
(* The integrity of a finished run directory: write_checksums, COMPLETE    *)
(* and make_read_only of harness/runner/runner.py, and its three readers,  *)
(* the runner's verify_checksums (before it reports already_complete),     *)
(* verify_checksums and verify_cell of scripts/aggregate.py, and           *)
(* scripts/final-environment-scan-v4.py, whose report is kept and compared *)
(* with a rescan before anything is published.                             *)
(*                                                                         *)
(* A tree gives each path an entry.  The marker COMPLETE and the checksum  *)
(* file are not paths but variables.  Symbolic links are what an agent's   *)
(* tools may leave behind (node_modules/.bin); one leads to a path of the  *)
(* tree, to a directory of the run, or to a path outside, where there may  *)
(* be a file, a directory or nothing, and something else at each reading.  *)
(* A digest is the bytes digested, as SHA-256 does not collide; a link is  *)
(* digested by its text, and a file may hold the same bytes.               *)
(***************************************************************************)
EXTENDS Naturals

CONSTANTS Paths,       \* the paths below the run directory
          Reserved,    \* those whose last component is COMPLETE, checksums.sha256 or .runner.lock
          MaxContent,  \* contents are 1..MaxContent
          LinkText,    \* the bytes digested for a link to each target
          MaxEdits,    \* bound on changes after completion
          Stderr,      \* the path of stderr.txt
          Warning,     \* the contents that have the documented warning
          Text,        \* the paths that the scan searches
          Forbidden    \* and the contents it must not find there

Targets == Paths \cup {"outside", "directory"}

ASSUME SealedTreeOK ==
    /\ Reserved \subseteq Paths /\ MaxContent \in Nat \ {0} /\ MaxEdits \in Nat
    /\ Stderr \in Paths \ Reserved /\ Text \subseteq Paths
    /\ LinkText \in [Targets -> Nat \ {0}]
    /\ \A t, u \in Targets : LinkText[t] = LinkText[u] => t = u

VARIABLES
    pc,        \* building, summed, marked or sealed
    tree,      \* the entry at each path
    outside,   \* what is outside: nothing (0), a file of some content, or a folder
    sums,      \* checksums.sha256: a digest for some of the paths
    marker,    \* the checksum file that COMPLETE names
    kept,      \* the tree that was digested (history)
    led,       \* whether outside was a folder then (history)
    observed,  \* what a scan has found and not yet reported: nothing, or one finding
    report,    \* the scan's report: none, or one finding
    edits
scanner == <<observed, report>>
vars == <<pc, tree, outside, sums, marker, kept, led, scanner, edits>>

Absent == [kind |-> "absent", content |-> 0, to |-> "", writable |-> FALSE]
File(content, writable) == [kind |-> "file", content |-> content, to |-> "", writable |-> writable]
Link(to) == [kind |-> "link", content |-> 0, to |-> to, writable |-> FALSE]
Folder == MaxContent + 1
Entries ==
    {Absent} \cup {File(c, w) : c \in 1..MaxContent, w \in BOOLEAN} \cup {Link(t) : t \in Targets}

\* What stat() finds at p: links are followed, to one that leads to a link not further.
Followed(p) ==
    LET entry == tree[p]
        inTree == entry.to \in Paths /\ tree[entry.to].kind = "file"
    IN  IF entry.kind # "link" THEN entry
        ELSE IF inTree THEN tree[entry.to]
        ELSE IF entry.to = "outside" /\ outside \notin {0, Folder} THEN File(outside, TRUE)
        ELSE Absent

\* A link to a directory: as is_dir() finds it now, and not as it was when digested.
LeadsToDir(entry, folder) ==
    entry.kind = "link" /\ (entry.to = "directory" \/ (entry.to = "outside" /\ folder))
IsDir(p) == LeadsToDir(tree[p], outside = Folder)
IsFile(p) == Followed(p).kind = "file"
Exists(p) == IsFile(p) \/ IsDir(p)
Present(p) == tree[p].kind # "absent"

NoSums == [p \in {} |-> 0]

Init ==
    /\ pc = "building" /\ tree = [p \in Paths |-> Absent]
    /\ outside \in 0..Folder
    /\ sums = NoSums /\ marker = NoSums /\ kept = tree /\ led = FALSE
    /\ observed = {} /\ report = {} /\ edits = 0

-----------------------------------------------------------------------------
(* The runner.                                                             *)

\* path_sha256: a link is digested by its target's name, and nothing tells this digest
\* from that of a file of the same bytes.
Bytes(entry) == IF entry.kind = "link" THEN LinkText[entry.to] ELSE entry.content
Digest(p) == Bytes(tree[p])

\* iter_checksum_paths: the reserved names are left out wherever they occur.
ChecksumPaths == {p \in Paths \ Reserved : Present(p) /\ ~IsDir(p)}

Put(p, entry) ==
    /\ pc = "building" /\ entry # tree[p]
    /\ entry.kind = "file" => entry.writable
    /\ tree' = [tree EXCEPT ![p] = entry]
    /\ UNCHANGED <<pc, outside, sums, marker, kept, led, scanner, edits>>

\* Mutant: links are not digested at all.
WriteChecksumsOfFiles ==
    /\ pc = "building" /\ pc' = "summed"
    /\ sums' = [p \in {q \in ChecksumPaths : tree[q].kind = "file"} |-> Digest(p)]
    /\ kept' = tree /\ led' = (outside = Folder) /\ UNCHANGED <<tree, outside, marker, scanner, edits>>

WriteChecksums ==
    /\ pc = "building" /\ pc' = "summed"
    /\ sums' = [p \in ChecksumPaths |-> Digest(p)] /\ kept' = tree /\ led' = (outside = Folder)
    /\ UNCHANGED <<tree, outside, marker, scanner, edits>>

Complete ==
    /\ pc = "summed" /\ pc' = "marked" /\ marker' = sums
    /\ UNCHANGED <<tree, outside, sums, kept, led, scanner, edits>>

ReadOnly(entry) ==
    [kind |-> entry.kind, content |-> entry.content, to |-> entry.to, writable |-> FALSE]

\* make_read_only skips links.
MakeReadOnly ==
    /\ pc = "marked" /\ pc' = "sealed"
    /\ tree' = [p \in Paths |-> ReadOnly(tree[p])]
    /\ UNCHANGED <<outside, sums, marker, kept, led, scanner, edits>>

\* verify_checksums of the runner.  It does not read COMPLETE's digest.
RunnerAccepts ==
    /\ \A p \in DOMAIN sums : Present(p) /\ Digest(p) = sums[p]
    /\ ChecksumPaths = DOMAIN sums

-----------------------------------------------------------------------------
(* The aggregator.                                                         *)

\* read_bytes() follows links.
FollowedDigest(p) == Followed(p).content

\* Mutant: COMPLETE's digest is not compared.
MarkerUnchecked ==
    /\ \A p \in DOMAIN sums : IsFile(p) /\ FollowedDigest(p) = sums[p]
    /\ {p \in Paths \ Reserved : IsFile(p)} = DOMAIN sums

\* verify_checksums of the aggregator: is_file() follows links too.
ChecksumsHold ==
    /\ \A p \in DOMAIN sums : IsFile(p) /\ FollowedDigest(p) = sums[p]
    /\ {p \in Paths \ Reserved : IsFile(p)} = DOMAIN sums
    /\ marker = sums

\* verify_cell goes on to stat() every path, which raises for a link to nothing.
StatRaises == \E p \in Paths : Present(p) /\ ~Exists(p)
SomethingWritable == \E p \in Paths : Followed(p).writable \/ (IsDir(p) /\ tree[p].to = "outside")

Verdict ==
    IF StatRaises THEN "raises"
    ELSE IF ChecksumsHold /\ ~SomethingWritable THEN "accepted" ELSE "rejected"

-----------------------------------------------------------------------------
(* The final environment scan.                                             *)

\* It reads no checksum, and refuses a link wherever it is.
ScanPasses ==
    /\ pc \in {"marked", "sealed"} /\ \A p \in Paths : tree[p].kind # "link"
    /\ tree[Stderr].kind = "file" /\ tree[Stderr].content \in Warning
    /\ \A p \in Text : tree[p].kind = "file" => tree[p].content \notin Forbidden

\* In the report is COMPLETE's digest; the tree, and whether the aggregator would have
\* counted it, are history.
Scan ==
    /\ observed = {} /\ ScanPasses
    /\ observed' = {[complete |-> marker, tree |-> tree, counted |-> Verdict = "accepted"]}
    /\ UNCHANGED <<pc, tree, outside, sums, marker, kept, led, report, edits>>

\* An existing report is not overwritten.
Report ==
    /\ observed # {} /\ observed' = {}
    /\ report' = IF report = {} THEN observed ELSE report
    /\ UNCHANGED <<pc, tree, outside, sums, marker, kept, led, edits>>

\* Mutant: a rescan that passes is enough.
RescanPasses(seen) == ScanPasses

\* --verify.
ScanVerifies(seen) == ScanPasses /\ seen.complete = marker

-----------------------------------------------------------------------------
(* What can happen to a directory that is complete.                        *)

Edit ==
    /\ pc \in {"marked", "sealed"} /\ edits < MaxEdits /\ edits' = edits + 1
    /\ UNCHANGED <<pc, scanner>>

Replace(p, entry) ==
    /\ Edit /\ entry # tree[p] /\ tree' = [tree EXCEPT ![p] = entry]
    /\ UNCHANGED <<outside, sums, marker, kept, led>>

\* Outside the directory: a new content, a folder in the file's place, or nothing.
ChangeOutside(content) ==
    Edit /\ content # outside /\ outside' = content /\ UNCHANGED <<tree, sums, marker, kept, led>>
Redigest ==
    /\ Edit /\ sums' = [p \in ChecksumPaths |-> Digest(p)] /\ sums' # sums
    /\ UNCHANGED <<tree, outside, marker, kept, led>>

\* The directory is sealed anew, by hand or by another run of the cell.
Reseal ==
    /\ Edit /\ sums' = [p \in ChecksumPaths |-> Digest(p)] /\ marker' = sums' /\ kept' = tree
    /\ led' = (outside = Folder) /\ UNCHANGED <<tree, outside>>

Next ==
    \/ \E p \in Paths, entry \in Entries : Put(p, entry) \/ Replace(p, entry)
    \/ WriteChecksums \/ Complete \/ MakeReadOnly
    \/ \E content \in 0..Folder : ChangeOutside(content)
    \/ Redigest \/ Reseal \/ Scan \/ Report

Spec == Init /\ [][Next]_vars

-----------------------------------------------------------------------------
(* Properties.                                                             *)

\* Checksums are of paths below the directory; a finding is of COMPLETE and of a tree.
Trees == [Paths -> Entries]
TypeOK ==
    /\ pc \in {"building", "summed", "marked", "sealed"}
    /\ tree \in Trees /\ kept \in Trees /\ outside \in 0..Folder /\ led \in BOOLEAN
    /\ edits \in 0..MaxEdits
    /\ DOMAIN sums \subseteq Paths \ Reserved /\ DOMAIN marker \subseteq Paths \ Reserved
    /\ \A seen \in observed \cup report : seen.tree \in Trees

SameAs(other, p) ==
    /\ tree[p].kind = other[p].kind /\ tree[p].content = other[p].content /\ tree[p].to = other[p].to
LinkFree == \A p \in Paths : kept[p].kind # "link"

\* A resume finds an untouched complete directory intact, links and all, whatever becomes
\* of the files its links lead to, as long as none of those becomes a directory and no such
\* directory goes away.
LeadsAlike == \A p \in Paths : kept[p].kind = "link" /\ kept[p].to = "outside" => (led <=> outside = Folder)
ResumeAccepts ==
    pc \in {"marked", "sealed"} /\ (\A p \in Paths : SameAs(kept, p)) /\ sums = marker /\ LeadsAlike
        => RunnerAccepts

\* The two verifiers agree on an untouched sealed directory without links.
AggregatorAgrees == pc = "sealed" /\ edits = 0 /\ LinkFree => Verdict = "accepted"

\* What the aggregator counts has the bytes that were digested and no file beside them,
\* after any edits, a recomputation of the checksum file included: where a file was kept,
\* its contents, and where a link was, a file that holds the link's text.
AcceptedIsKept ==
    pc = "sealed" /\ Verdict = "accepted" =>
        \A p \in Paths \ Reserved :
            /\ IsFile(p) <=> kept[p].kind # "absent" /\ ~LeadsToDir(kept[p], led)
            /\ IsFile(p) => Followed(p).content = Bytes(kept[p])

\* Where the final scan's report still verifies and the aggregator counts the run, the
\* run is entry by entry the one that was scanned, if it was countable then: neither
\* reader sees this alone, the scan reads no checksum and the aggregator no report.
ScanBinds ==
    \A seen \in report :
        pc = "sealed" /\ seen.counted /\ ScanVerifies(seen) /\ Verdict = "accepted" =>
            \A p \in Paths \ Reserved : SameAs(seen.tree, p)
=============================================================================
