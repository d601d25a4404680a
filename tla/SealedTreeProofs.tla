-------------------------- MODULE SealedTreeProofs --------------------------
(***************************************************************************)
(* Proofs about SealedTree, for any paths, contents and number of edits.   *)
(*                                                                         *)
(* COMPLETE names the digests of the tree that was kept, and for a finding *)
(* of the scan that the aggregator would have counted those of the tree    *)
(* that was scanned; links apart, such digests determine a tree.           *)
(***************************************************************************)
EXTENDS SealedTree, TLAPS

-----------------------------------------------------------------------------
(* The invariant.                                                          *)

Digestible(t, folder) == {p \in Paths \ Reserved : t[p].kind # "absent" /\ ~LeadsToDir(t[p], folder)}
SumsOf(t, folder) == [p \in Digestible(t, folder) |-> Bytes(t[p])]

\* The digests follow the tree that was kept, until somebody edits them.
Named ==
    /\ pc = "summed" => sums = SumsOf(kept, led)
    /\ pc \in {"marked", "sealed"} => marker = SumsOf(kept, led)

\* Nothing differs without an edit, but for the write bits that sealing removes.
Untouched ==
    /\ pc \in {"building", "summed"} => edits = 0
    /\ edits = 0 /\ pc # "building" => \A p \in Paths : SameAs(kept, p)
    /\ edits = 0 /\ pc \in {"marked", "sealed"} => sums = marker
    /\ edits = 0 /\ pc = "sealed" => \A p \in Paths : ~tree[p].writable

\* A tree of files whose digests these are.
Pins(digests, t) ==
    \A p \in Paths \ Reserved :
        /\ t[p].kind \in {"file", "absent"}
        /\ p \in DOMAIN digests <=> t[p].kind = "file"
        /\ p \in DOMAIN digests => digests[p] = t[p].content

\* What the scan found of a run that the aggregator would have counted.
Found == \A seen \in observed \cup report : seen.counted => Pins(seen.complete, seen.tree)

IInv == TypeOK /\ Named /\ Untouched /\ Found

-----------------------------------------------------------------------------
(* Entries and digests.                                                    *)

\* An entry that is no link leads nowhere, and one that is no file has no content.
LEMMA EntryShapes ==
    ASSUME NEW entry \in Entries
    PROVE  /\ entry.kind \in {"absent", "file", "link"} /\ entry.writable \in BOOLEAN
           /\ entry.kind # "file" => entry.content = 0 /\ ~entry.writable
           /\ entry.kind # "link" => entry.to = ""
           /\ ReadOnly(entry) \in Entries
<1>1. ASSUME entry = Absent
      PROVE  /\ entry.kind = "absent" /\ entry.content = 0 /\ entry.to = ""
             /\ entry.writable = FALSE /\ ReadOnly(entry) = Absent
  <2>1. entry.writable = FALSE
      BY <1>1, Zenon DEF Absent
  <2> QED
      BY <1>1, <2>1 DEF Absent, ReadOnly
<1>2. ASSUME NEW c \in 1..MaxContent, NEW w \in BOOLEAN, entry = File(c, w)
      PROVE  /\ entry.kind = "file" /\ entry.writable = w /\ entry.to = ""
             /\ ReadOnly(entry) = File(c, FALSE)
  <2>1. entry.writable = w
      BY <1>2, Zenon DEF File
  <2> QED
      BY <1>2, <2>1 DEF File, ReadOnly
<1>3. ASSUME NEW t \in Targets, entry = Link(t)
      PROVE  /\ entry.kind = "link" /\ entry.writable = FALSE /\ entry.content = 0
             /\ ReadOnly(entry) = Link(t)
  <2>1. entry.writable = FALSE
      BY <1>3, Zenon DEF Link
  <2> QED
      BY <1>3, <2>1 DEF Link, ReadOnly
<1>4. /\ Absent \in Entries
      /\ \A c \in 1..MaxContent : File(c, FALSE) \in Entries
      /\ \A t \in Targets : Link(t) \in Entries
  <2>1. Absent \in Entries /\ \A t \in Targets : Link(t) \in Entries
      BY DEF Entries
  <2>2. ASSUME NEW c \in 1..MaxContent PROVE File(c, FALSE) \in Entries
    <3>1. \E d \in 1..MaxContent, w \in BOOLEAN : File(c, FALSE) = File(d, w)
        BY Zenon
    <3>2. \A x : (\E d \in 1..MaxContent, w \in BOOLEAN : x = File(d, w)) => x \in Entries
        BY DEF Entries
    <3> QED
        BY <3>1, <3>2
  <2> QED
      BY <2>1, <2>2
<1>5. \/ entry = Absent
      \/ \E c \in 1..MaxContent, w \in BOOLEAN : entry = File(c, w)
      \/ \E t \in Targets : entry = Link(t)
    BY DEF Entries
<1>6. CASE entry = Absent
    BY <1>1, <1>4, <1>6
<1>7. CASE \E c \in 1..MaxContent, w \in BOOLEAN : entry = File(c, w)
    BY <1>2, <1>4, <1>7
<1>8. CASE \E t \in Targets : entry = Link(t)
    BY <1>3, <1>4, <1>8
<1> QED
    BY <1>5, <1>6, <1>7, <1>8

\* WriteChecksums writes the digests of the tree.
LEMMA SumsNow == [p \in ChecksumPaths |-> Digest(p)] = SumsOf(tree, outside = Folder)
BY DEF ChecksumPaths, Present, IsDir, Digest, SumsOf, Digestible

\* A tree that is another's same has its digests, if its links lead to directories alike.
LEMMA SameSums ==
    ASSUME NEW t, NEW folder \in BOOLEAN, \A p \in Paths : SameAs(t, p),
           \A p \in Paths : t[p].kind = "link" /\ t[p].to = "outside" => (folder <=> outside = Folder)
    PROVE  SumsOf(t, folder) = SumsOf(tree, outside = Folder)
<1>1. \A p \in Paths : tree[p].kind = t[p].kind /\ tree[p].content = t[p].content /\ tree[p].to = t[p].to
    BY DEF SameAs
<1>2. Digestible(t, folder) = Digestible(tree, outside = Folder)
  <2>1. \A p \in Paths : LeadsToDir(t[p], folder) <=> LeadsToDir(tree[p], outside = Folder)
      BY <1>1 DEF LeadsToDir
  <2> QED
      BY <1>1, <2>1 DEF Digestible
<1>3. \A p \in Paths : Bytes(t[p]) = Bytes(tree[p])
    BY <1>1 DEF Bytes
<1>4. \A p \in Digestible(tree, outside = Folder) : p \in Paths
    BY DEF Digestible
<1> QED
    BY <1>2, <1>3, <1>4 DEF SumsOf

\* The digests of a scanned tree that the aggregator counts pin it.
LEMMA CountedIsPinned == TypeOK /\ ScanPasses /\ Verdict = "accepted" => Pins(marker, tree)
<1> SUFFICES ASSUME TypeOK, ScanPasses, Verdict = "accepted", NEW p \in Paths \ Reserved
             PROVE  /\ tree[p].kind \in {"file", "absent"}
                    /\ p \in DOMAIN marker <=> tree[p].kind = "file"
                    /\ p \in DOMAIN marker => marker[p] = tree[p].content
    BY DEF Pins
<1>1. ChecksumsHold
    BY DEF Verdict
<1>2. tree[p].kind \in {"file", "absent"}
    BY EntryShapes DEF ScanPasses, TypeOK, Trees
<1>3. Followed(p) = tree[p]
    BY <1>2 DEF Followed
<1>4. marker = sums /\ (p \in DOMAIN sums <=> IsFile(p))
    BY <1>1 DEF ChecksumsHold
<1>5. p \in DOMAIN sums => sums[p] = Followed(p).content
    BY <1>1 DEF ChecksumsHold, FollowedDigest
<1> QED
    BY <1>2, <1>3, <1>4, <1>5 DEF IsFile

-----------------------------------------------------------------------------
(* The invariant holds.                                                    *)

LEMMA InitIInv == Init => IInv
<1> SUFFICES ASSUME Init PROVE IInv
    OBVIOUS
<1>1. TypeOK
  <2>1. tree \in Trees /\ kept = tree
    <3>1. Absent \in Entries
        BY DEF Entries
    <3> QED
        BY <3>1 DEF Init, Trees
  <2>2. DOMAIN sums = {} /\ DOMAIN marker = {}
      BY DEF Init, NoSums
  <2>3. edits \in 0..MaxEdits
      BY SealedTreeOK DEF Init
  <2> QED
      BY <2>1, <2>2, <2>3 DEF Init, TypeOK
<1>2. Named /\ Untouched /\ Found
    BY SealedTreeOK DEF Init, Named, Untouched, Found, SameAs
<1> QED
    BY <1>1, <1>2 DEF IInv

LEMMA NextIInv == IInv /\ [Next]_vars => IInv'
<1> SUFFICES ASSUME IInv, [Next]_vars PROVE IInv'
    OBVIOUS
<1> USE SealedTreeOK
<1>1. TypeOK'
  <2>1. ASSUME NEW p \in Paths, NEW entry \in Entries, Put(p, entry) \/ Replace(p, entry) PROVE TypeOK'
      BY <2>1 DEF IInv, TypeOK, Trees, Put, Replace, Edit, scanner
  <2>2. CASE WriteChecksums
      BY <2>2, SumsNow DEF IInv, TypeOK, WriteChecksums, ChecksumPaths, scanner
  <2>3. CASE Complete
      BY <2>3 DEF IInv, TypeOK, Complete, scanner
  <2>4. CASE MakeReadOnly
    <3>1. tree' \in Trees
        BY <2>4, EntryShapes DEF IInv, TypeOK, Trees, MakeReadOnly
    <3> QED
        BY <2>4, <3>1 DEF IInv, TypeOK, MakeReadOnly, scanner
  <2>5. ASSUME NEW content \in 0..Folder, ChangeOutside(content) PROVE TypeOK'
      BY <2>5 DEF IInv, TypeOK, ChangeOutside, Edit, scanner
  <2>6. CASE Redigest \/ Reseal
    <3>1. led' \in BOOLEAN
        BY <2>6 DEF IInv, TypeOK, Redigest, Reseal
    <3> QED
        BY <2>6, <3>1 DEF IInv, TypeOK, Redigest, Reseal, Edit, ChecksumPaths, scanner
  <2>7. CASE Scan
      BY <2>7 DEF IInv, TypeOK, Scan
  <2>8. CASE Report
      BY <2>8 DEF IInv, TypeOK, Report
  <2>9. CASE UNCHANGED vars
      BY <2>9 DEF IInv, TypeOK, vars, scanner
  <2> QED
      BY <2>1, <2>2, <2>3, <2>4, <2>5, <2>6, <2>7, <2>8, <2>9 DEF Next
<1>2. Named'
  <2>1. CASE WriteChecksums
    <3>1. sums' = SumsOf(tree, outside = Folder) /\ kept' = tree /\ led' = (outside = Folder)
        BY <2>1, SumsNow DEF WriteChecksums
    <3> QED
        BY <2>1, <3>1 DEF WriteChecksums, Named
  <2>2. CASE Reseal
    <3>1. sums' = SumsOf(tree, outside = Folder) /\ marker' = sums' /\ kept' = tree /\ led' = (outside = Folder)
        BY <2>2, SumsNow DEF Reseal
    <3> QED
        BY <2>2, <3>1 DEF Reseal, Edit, Named
  <2>3. CASE Complete \/ MakeReadOnly
      BY <2>3 DEF IInv, Named, Complete, MakeReadOnly
  <2>4. CASE \E p \in Paths, entry \in Entries : Put(p, entry) \/ Replace(p, entry)
      BY <2>4 DEF IInv, Named, Put, Replace, Edit
  <2>5. CASE (\E content \in 0..Folder : ChangeOutside(content)) \/ Redigest
      BY <2>5 DEF IInv, Named, ChangeOutside, Redigest, Edit
  <2>6. CASE Scan \/ Report \/ UNCHANGED vars
      BY <2>6 DEF IInv, Named, Scan, Report, vars
  <2> QED
      BY <2>1, <2>2, <2>3, <2>4, <2>5, <2>6 DEF Next
<1>3. Untouched'
  <2>1. CASE WriteChecksums
      BY <2>1 DEF IInv, Untouched, WriteChecksums, SameAs
  <2>2. CASE Complete
      BY <2>2 DEF IInv, Untouched, Complete, SameAs
  <2>3. CASE MakeReadOnly
    <3>1. ASSUME NEW p \in Paths
          PROVE  /\ tree'[p].kind = tree[p].kind /\ tree'[p].content = tree[p].content
                 /\ tree'[p].to = tree[p].to /\ ~tree'[p].writable
      <4>1. tree'[p] = ReadOnly(tree[p])
          BY <2>3 DEF MakeReadOnly
      <4>2. ~ReadOnly(tree[p]).writable
          BY Zenon DEF ReadOnly
      <4> QED
          BY <4>1, <4>2 DEF ReadOnly
    <3> QED
        BY <2>3, <3>1 DEF IInv, Untouched, MakeReadOnly, SameAs
  <2>4. ASSUME NEW p \in Paths, NEW entry \in Entries, Put(p, entry) PROVE Untouched'
      BY <2>4 DEF IInv, Untouched, Put
  <2>5. CASE /\ pc \in {"marked", "sealed"} /\ pc' = pc /\ edits' = edits + 1
      BY <2>5 DEF IInv, TypeOK, Untouched
  <2>6. CASE Scan \/ Report \/ UNCHANGED vars
      BY <2>6 DEF IInv, Untouched, Scan, Report, vars, SameAs
  <2> QED
      BY <2>1, <2>2, <2>3, <2>4, <2>5, <2>6 DEF Next, Replace, ChangeOutside, Redigest, Reseal, Edit
<1>4. Found'
  <2>1. CASE Scan
    <3>1. ASSUME NEW seen \in observed', seen.counted PROVE Pins(seen.complete, seen.tree)
      <4>1. seen = [complete |-> marker, tree |-> tree, counted |-> Verdict = "accepted"]
          BY <2>1 DEF Scan
      <4>2. seen.complete = marker /\ seen.tree = tree
          BY <4>1
      <4>3. Verdict = "accepted"
          BY <3>1, <4>1, Zenon
      <4> QED
          BY <2>1, <4>2, <4>3, CountedIsPinned DEF IInv, Scan
    <3> QED
        BY <2>1, <3>1 DEF IInv, Found, Scan
  <2>2. CASE Report
      BY <2>2 DEF IInv, Found, Report
  <2>3. CASE UNCHANGED scanner
      BY <2>3 DEF IInv, Found, scanner
  <2> QED
      BY <2>1, <2>2, <2>3 DEF Next, Put, Replace, Edit, WriteChecksums, Complete, MakeReadOnly,
          ChangeOutside, Redigest, Reseal, vars
<1> QED
    BY <1>1, <1>2, <1>3, <1>4 DEF IInv

LEMMA Invariant == Spec => []IInv
BY InitIInv, NextIInv, PTL DEF Spec

-----------------------------------------------------------------------------
(* The theorems.                                                           *)

\* What is kept has the digests that COMPLETE names, so a resume finds it intact while
\* its links lead to directories where they did.
THEOREM ResumeIsIntact == Spec => []ResumeAccepts
<1>1. IInv => ResumeAccepts
  <2> SUFFICES ASSUME IInv, pc \in {"marked", "sealed"}, \A p \in Paths : SameAs(kept, p), sums = marker, LeadsAlike
               PROVE  RunnerAccepts
      BY DEF ResumeAccepts
  <2>1. sums = SumsOf(tree, outside = Folder)
      BY SameSums DEF IInv, TypeOK, Named, LeadsAlike
  <2> QED
      BY <2>1 DEF RunnerAccepts, ChecksumPaths, SumsOf, Digestible, Digest, Present, IsDir
<1> QED
    BY <1>1, Invariant, PTL

\* Without links the aggregator reads what the runner wrote.
THEOREM CountedUntouched == Spec => []AggregatorAgrees
<1>1. IInv => AggregatorAgrees
  <2> SUFFICES ASSUME IInv, pc = "sealed", edits = 0, LinkFree PROVE Verdict = "accepted"
      BY DEF AggregatorAgrees
  <2>1. \A p \in Paths : SameAs(kept, p) /\ ~tree[p].writable
      BY DEF IInv, Untouched
  <2>2. marker = sums /\ sums = SumsOf(tree, outside = Folder)
    <3>1. \A p \in Paths : kept[p].kind = "link" => (led <=> outside = Folder)
        BY DEF LinkFree
    <3> QED
        BY <2>1, <3>1, SameSums DEF IInv, TypeOK, Named, Untouched
  <2>3. \A p \in Paths : tree[p].kind \in {"file", "absent"} /\ tree[p] \in Entries
      BY <2>1, EntryShapes DEF LinkFree, SameAs, IInv, TypeOK, Trees
  <2>4. \A p \in Paths : Followed(p) = tree[p] /\ (IsFile(p) <=> tree[p].kind = "file")
      BY <2>3 DEF Followed, IsFile
  <2>5. ~StatRaises /\ ~SomethingWritable
      BY <2>1, <2>3, <2>4 DEF StatRaises, SomethingWritable, Present, Exists, IsDir, LeadsToDir
  <2>6. DOMAIN sums = {p \in Paths \ Reserved : IsFile(p)}
      BY <2>2, <2>3, <2>4 DEF SumsOf, Digestible, LeadsToDir
  <2>7. \A p \in DOMAIN sums : IsFile(p) /\ FollowedDigest(p) = sums[p]
    <3> SUFFICES ASSUME NEW p \in DOMAIN sums PROVE IsFile(p) /\ FollowedDigest(p) = sums[p]
        OBVIOUS
    <3>1. p \in Paths \ Reserved /\ tree[p].kind = "file" /\ tree[p].to = ""
        BY <2>3, <2>4, <2>6, EntryShapes
    <3>2. sums[p] = tree[p].content
        BY <2>2, <3>1 DEF SumsOf, Digestible, Bytes
    <3> QED
        BY <2>4, <3>1, <3>2 DEF FollowedDigest
  <2> QED
      BY <2>2, <2>5, <2>6, <2>7 DEF Verdict, ChecksumsHold
<1> QED
    BY <1>1, Invariant, PTL

\* The digests that COMPLETE names are those of the kept tree, and the aggregator has
\* compared each file with one and each one with a file.
THEOREM CountedIsKept == Spec => []AcceptedIsKept
<1>1. IInv => AcceptedIsKept
  <2> SUFFICES ASSUME IInv, pc = "sealed", Verdict = "accepted", NEW p \in Paths \ Reserved
               PROVE  /\ IsFile(p) <=> kept[p].kind # "absent" /\ ~LeadsToDir(kept[p], led)
                      /\ IsFile(p) => Followed(p).content = Bytes(kept[p])
      BY DEF AcceptedIsKept
  <2>1. ChecksumsHold /\ sums = SumsOf(kept, led)
      BY DEF Verdict, IInv, Named, ChecksumsHold
  <2>2. IsFile(p) <=> p \in DOMAIN sums
      BY <2>1 DEF ChecksumsHold
  <2>3. p \in DOMAIN sums => sums[p] = Followed(p).content
      BY <2>1 DEF ChecksumsHold, FollowedDigest
  <2>4. /\ p \in DOMAIN sums <=> kept[p].kind # "absent" /\ ~LeadsToDir(kept[p], led)
        /\ p \in DOMAIN sums => sums[p] = Bytes(kept[p])
      BY <2>1 DEF SumsOf, Digestible
  <2> QED
      BY <2>2, <2>3, <2>4
<1> QED
    BY <1>1, Invariant, PTL

\* The finding's COMPLETE and today's are the same, and each pins its tree.
THEOREM CountedIsScanned == Spec => []ScanBinds
<1>1. IInv => ScanBinds
  <2> SUFFICES ASSUME IInv, NEW seen \in report, seen.counted, ScanVerifies(seen), Verdict = "accepted",
                      NEW p \in Paths \ Reserved
               PROVE  SameAs(seen.tree, p)
      BY DEF ScanBinds
  <2>1. Pins(seen.complete, seen.tree) /\ Pins(seen.complete, tree)
      BY CountedIsPinned DEF IInv, Found, ScanVerifies
  <2>2. tree[p] \in Entries /\ seen.tree[p] \in Entries
      BY DEF IInv, TypeOK, Trees
  <2>3. /\ tree[p].kind = seen.tree[p].kind /\ tree[p].kind # "link"
        /\ tree[p].kind = "file" => tree[p].content = seen.tree[p].content
    <3> DEFINE named == seen.complete
    <3>1. /\ tree[p].kind \in {"file", "absent"} /\ seen.tree[p].kind \in {"file", "absent"}
          /\ (p \in DOMAIN named <=> tree[p].kind = "file")
          /\ (p \in DOMAIN named <=> seen.tree[p].kind = "file")
          /\ p \in DOMAIN named => named[p] = tree[p].content
          /\ p \in DOMAIN named => named[p] = seen.tree[p].content
        BY <2>1 DEF Pins
    <3> HIDE DEF named
    <3> QED
        BY <3>1
  <2> QED
      BY <2>2, <2>3, EntryShapes DEF SameAs
<1> QED
    BY <1>1, Invariant, PTL
=============================================================================
