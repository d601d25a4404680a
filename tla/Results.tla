------------------------------ MODULE Results ------------------------------
(***************************************************************************)
(* From the sealed run directories to the published results: main of       *)
(* scripts/aggregate.py, which writes runs.csv and summary.json, of        *)
(* scripts/final-environment-scan-v4.py, which records the sealed          *)
(* directories, and of scripts/postprocess-v4.py, which compares and       *)
(* audits all this and writes the report, the charts and last the manifest *)
(* with everybody's digests.                                               *)
(*                                                                         *)
(* They are run by hand, again and again, and may be ended at any point;   *)
(* Overlap says whether they may run at the same time.  Meanwhile run      *)
(* directories are sealed, archived or damaged and the campaign's records  *)
(* edited.  A file is its content and a digest of a file is the same;      *)
(* half-written files are Null.  An artifact is what the programs make of  *)
(* a directory, with its COMPLETE as complete: a directory that is edited  *)
(* by hand keeps it, and then does not verify.                             *)
(***************************************************************************)
EXTENDS Metrics

CONSTANTS Dirs,         \* the directories below the runs root
          Rank,         \* the place of each in the order of their names
          Identity,     \* the cell each one's manifest names
          Possible,     \* what each may hold: Null, or an artifact
          Overlap,      \* whether the two programs may run at once
          Outputs,      \* the report and the charts
          MaxChanges, MaxStarts  \* bounds on changes of directories and records, and on starts

ASSUME ResultsOK ==
    /\ Overlap \in BOOLEAN /\ MaxChanges \in Nat /\ MaxStarts \in Nat
    /\ Rank \in [Dirs -> Nat] /\ \A d, e \in Dirs : Rank[d] = Rank[e] => d = e

\* COMPLETE names the checksums, and an artifact that verifies is the one they are of.
ASSUME MarkerBinds ==
    \A d \in Dirs : \A found, other \in Possible[d] \ {Null} :
        found.verified /\ other.verified /\ found.complete = other.complete => found = other

VARIABLES
    runs,                           \* what each directory holds now
    records,                        \* suite, incident reports and plan: right, edited or wrong
    scan,                           \* the final scan's report: every directory's COMPLETE
    csv, summary,                   \* results/: runs.csv, summary.json
    outputs, manifest,              \* report.md and the charts, report-manifest.json
    apc, partial, todo, rows, failed, code,   \* the aggregator
    ppc, readSummary, readRows, written,      \* the postprocessor
    changes, starts,
    begun, csvBegun, steady         \* changes before the aggregation, before that of runs.csv,
                                    \* and whether there was none from then to the manifest (history)
inputs == <<runs, records, scan>>
history == <<begun, csvBegun, steady>>
published == <<outputs, manifest>>
aggregator == <<apc, partial, todo, rows, failed, code>>
postprocessor == <<ppc, readSummary, readRows, written>>
vars == <<inputs, csv, summary, published, aggregator, postprocessor, changes, starts, history>>

\* The directory that a planned cell's run key names.
PlannedDirs == {d \in Dirs : Identity[d] \in Plan /\ d = Identity[d]}
Observed == {d \in Dirs : runs[d] # Null}

Init ==
    /\ runs \in {held \in [Dirs -> UNION {Possible[d] : d \in Dirs}] :
                    \A d \in Dirs : held[d] \in Possible[d]}
    /\ records = "right" /\ scan = Null
    /\ csv = Null /\ summary = Null /\ outputs = [o \in Outputs |-> Null] /\ manifest = Null
    /\ apc = "idle" /\ partial = FALSE /\ todo = {} /\ rows = {} /\ failed = FALSE /\ code = Null
    /\ ppc = "idle" /\ readSummary = Null /\ readRows = {} /\ written = {}
    /\ changes = 0 /\ starts = 0 /\ begun = 0 /\ csvBegun = 0 /\ steady = FALSE

-----------------------------------------------------------------------------
(* The run directories, the records and the scan.                          *)

Changing ==
    /\ changes < MaxChanges /\ changes' = changes + 1
    /\ UNCHANGED <<scan, csv, summary, published, aggregator, postprocessor, starts, history>>
Change(d) ==
    /\ Changing /\ UNCHANGED records
    /\ \E held \in Possible[d] \ {runs[d]} : runs' = [runs EXCEPT ![d] = held]

\* Not every edit makes a record wrong: the checks read some of its fields.
ChangeRecords ==
    Changing /\ records' \in {"right", "edited", "wrong"} \ {records} /\ UNCHANGED runs

Idle == apc \in {"idle", "done"} /\ ppc \in {"idle", "done"}

\* The scan counts the directories, and does not ask which they are nor whether they
\* verify; what it reads in each is SealedTree's.  Its report has no more of a directory
\* than the digest of COMPLETE.
Markers == [d \in Observed |-> runs[d].complete]
ScanPasses == Cardinality(Observed) = Cardinality(Plan) /\ \A d \in Observed : runs[d].scannable

Scan ==
    /\ scan = Null /\ (Overlap \/ Idle) /\ ScanPasses
    /\ scan' = Markers
    /\ UNCHANGED <<runs, records, csv, summary, published, aggregator, postprocessor, changes, starts, history>>

-----------------------------------------------------------------------------
(* aggregate.py.                                                           *)

Aggregates == UNCHANGED <<inputs, postprocessor, published, changes, steady>>

StartAggregator ==
    /\ apc \in {"idle", "done"} /\ (Overlap \/ Idle)
    /\ starts < MaxStarts /\ starts' = starts + 1
    /\ partial' \in BOOLEAN
    /\ apc' = IF partial' THEN "list" ELSE "integrity"
    /\ todo' = {} /\ rows' = {} /\ failed' = FALSE /\ code' = Null /\ begun' = changes
    /\ Aggregates /\ UNCHANGED <<csv, summary, csvBegun>>

\* verify_campaign_integrity.py --scope full; on failure what is in results/ stays.
CheckIntegrity ==
    /\ apc = "integrity"
    /\ IF Observed = PlannedDirs /\ \A d \in Observed : runs[d].readable /\ runs[d].verified
       THEN apc' = "list" /\ UNCHANGED code
       ELSE apc' = "done" /\ code' = "one"
    /\ Aggregates /\ UNCHANGED <<csv, summary, partial, todo, rows, failed, starts, begun, csvBegun>>

ListRuns ==
    /\ apc = "list" /\ apc' = "rows" /\ todo' = Observed
    /\ Aggregates /\ UNCHANGED <<csv, summary, partial, rows, failed, code, starts, begun, csvBegun>>

First(d) == d \in todo /\ \A e \in todo : Rank[d] <= Rank[e]

\* Mutant: an artifact that does not verify is no error.
ReadRowUnchecked(d) ==
    /\ apc = "rows" /\ First(d) /\ todo' = todo \ {d}
    /\ IF runs[d] # Null /\ runs[d].readable
       THEN rows' = rows \cup {Row(d, Identity[d], runs[d])} /\ UNCHANGED failed
       ELSE failed' = TRUE /\ UNCHANGED rows
    /\ Aggregates /\ UNCHANGED <<csv, summary, apc, partial, code, starts, begun, csvBegun>>

\* row() of one directory: it raises when something is missing or unreadable, and an
\* artifact that does not verify gives a row and an error.
ReadRow(d) ==
    /\ apc = "rows" /\ First(d) /\ todo' = todo \ {d}
    /\ IF runs[d] # Null /\ runs[d].readable
       THEN rows' = rows \cup {Row(d, Identity[d], runs[d])} /\ failed' = (failed \/ ~runs[d].verified)
       ELSE failed' = TRUE /\ UNCHANGED rows
    /\ Aggregates /\ UNCHANGED <<csv, summary, apc, partial, code, starts, begun, csvBegun>>

Errors ==
    \/ failed
    \/ ~partial /\ Cardinality(rows) # Cardinality(Plan)
    \/ Cardinality({row.identity : row \in rows}) # Cardinality(rows)
Complete == Cardinality(rows) = Cardinality(Plan) /\ ~Errors

\* aggregate() raises before anything is written.
SummaryRaises ==
    /\ apc = "rows" /\ todo = {} /\ MeanRaises(rows)
    /\ apc' = "done" /\ code' = "raised"
    /\ Aggregates /\ UNCHANGED <<csv, summary, partial, todo, rows, failed, starts, begun, csvBegun>>

\* The two files are opened for writing, that is emptied, and then written.
OpenCsv ==
    /\ apc = "rows" /\ todo = {} /\ ~MeanRaises(rows)
    /\ apc' = "csv" /\ csv' = Null
    /\ Aggregates /\ UNCHANGED <<summary, partial, todo, rows, failed, code, starts, begun, csvBegun>>
WriteCsv ==
    /\ apc = "csv" /\ apc' = "open" /\ csv' = rows /\ csvBegun' = begun
    /\ Aggregates /\ UNCHANGED <<summary, partial, todo, rows, failed, code, starts, begun>>
OpenSummary ==
    /\ apc = "open" /\ apc' = "summary" /\ summary' = Null
    /\ Aggregates /\ UNCHANGED <<csv, partial, todo, rows, failed, code, starts, begun, csvBegun>>
WriteSummary ==
    /\ apc = "summary" /\ apc' = "done"
    /\ summary' = [complete |-> Complete, routes |-> Metrics(rows)]
    /\ code' = IF Complete \/ partial THEN "zero" ELSE "one"
    /\ Aggregates /\ UNCHANGED <<csv, partial, todo, rows, failed, starts, begun, csvBegun>>

-----------------------------------------------------------------------------
(* postprocess-v4.py.                                                      *)

Publishes == UNCHANGED <<inputs, csv, summary, aggregator, changes, begun, csvBegun>>

StartPostprocessor ==
    /\ ppc \in {"idle", "done"} /\ (Overlap \/ Idle)
    /\ starts < MaxStarts /\ starts' = starts + 1
    /\ ppc' = "attest" /\ readSummary' = Null /\ readRows' = {} /\ written' = {}
    /\ Publishes /\ UNCHANGED <<published, steady>>

\* Mutant: the scan is repeated, but its report not compared with the recorded one.
AttestScanAsIs ==
    /\ ppc = "attest" /\ scan # Null /\ ScanPasses /\ ppc' = "records"
    /\ Publishes /\ UNCHANGED <<published, readSummary, readRows, written, starts, steady>>

\* The live source freeze, which is Provenance's, and the scan with --verify: it passes
\* again and gives the same report.
AttestScan ==
    /\ ppc = "attest" /\ scan # Null /\ ScanPasses /\ scan = Markers /\ ppc' = "records"
    /\ Publishes /\ UNCHANGED <<published, readSummary, readRows, written, starts, steady>>
AttestRecords ==
    /\ ppc = "records" /\ records # "wrong" /\ ppc' = "load"
    /\ Publishes /\ UNCHANGED <<published, readSummary, readRows, written, starts, steady>>
\* A ValueError, here or in an audit, ends the program.
Refuse ==
    /\ ppc \in {"attest", "records", "load", "audit"} /\ ppc' = "idle"
    /\ Publishes /\ UNCHANGED <<published, readSummary, readRows, written, starts, steady>>

\* Mutant: the rows are counted, and their identities not compared with the plan's.
LoadUnplanned ==
    /\ ppc = "load" /\ summary # Null /\ csv # Null
    /\ summary.complete /\ Cardinality(csv) = Cardinality(Plan) /\ \A row \in csv : Loadable(row)
    /\ ppc' = "audit" /\ readSummary' = summary /\ readRows' = csv
    /\ Publishes /\ UNCHANGED <<published, written, starts, steady>>

\* load_inputs: a complete summary and loadable rows, exactly the planned ones.
Load ==
    /\ ppc = "load" /\ summary # Null /\ csv # Null
    /\ summary.complete /\ Cardinality(csv) = Cardinality(Plan) /\ \A row \in csv : Loadable(row)
    /\ \A row \in csv : row.dir = row.identity
    /\ {row.identity : row \in csv} = Plan
    /\ ppc' = "audit" /\ readSummary' = summary /\ readRows' = csv
    /\ Publishes /\ UNCHANGED <<published, written, starts, steady>>

Audit ==
    /\ ppc = "audit"
    /\ AuditPasses(readSummary.routes, readRows) /\ CoveragePasses(readSummary.routes, readRows)
    /\ ppc' = "outputs"
    /\ Publishes /\ UNCHANGED <<published, readSummary, readRows, written, starts, steady>>

\* atomic_write, of one output after the other.
WriteOutput(o) ==
    /\ ppc = "outputs" /\ o \in Outputs \ written /\ written' = written \cup {o}
    /\ outputs' = [outputs EXCEPT ![o] = [routes |-> Annotated(readSummary.routes, readRows), rows |-> readRows]]
    /\ Publishes /\ UNCHANGED <<manifest, ppc, readSummary, readRows, starts, steady>>

Named == [scan |-> scan, records |-> records, summary |-> summary, csv |-> csv, outputs |-> outputs]

\* Mutant: the manifest is written without waiting for the outputs.
WriteManifestEarly ==
    /\ ppc = "outputs" /\ ppc' = "done"
    /\ manifest' = Named /\ steady' = (csvBegun = changes)
    /\ Publishes /\ UNCHANGED <<outputs, readSummary, readRows, written, starts>>

\* The manifest digests the files as they are now, and not as they were read.
WriteManifest ==
    /\ ppc = "outputs" /\ written = Outputs /\ ppc' = "done"
    /\ manifest' = Named /\ steady' = (csvBegun = changes)
    /\ Publishes /\ UNCHANGED <<outputs, readSummary, readRows, written, starts>>

-----------------------------------------------------------------------------
\* Either program is ended from outside; its files stay as they are.
Killed ==
    \/ /\ apc \notin {"idle", "done"} /\ apc' = "idle"
       /\ Aggregates /\ UNCHANGED <<csv, summary, partial, todo, rows, failed, code, starts, begun, csvBegun>>
    \/ /\ ppc \notin {"idle", "done"} /\ ppc' = "idle"
       /\ Publishes /\ UNCHANGED <<published, readSummary, readRows, written, starts, steady>>

Next ==
    \/ \E d \in Dirs : Change(d) \/ ReadRow(d)
    \/ ChangeRecords \/ Scan
    \/ StartAggregator \/ CheckIntegrity \/ ListRuns
    \/ SummaryRaises \/ OpenCsv \/ WriteCsv \/ OpenSummary \/ WriteSummary
    \/ StartPostprocessor \/ AttestScan \/ AttestRecords \/ Refuse \/ Load \/ Audit
    \/ \E o \in Outputs : WriteOutput(o)
    \/ WriteManifest \/ Killed

Spec == Init /\ [][Next]_vars

-----------------------------------------------------------------------------
(* Properties.                                                             *)

TypeOK ==
    /\ DOMAIN runs = Dirs /\ \A d \in Dirs : runs[d] \in Possible[d]
    /\ apc \in {"idle", "integrity", "list", "rows", "csv", "open", "summary", "done"}
    /\ ppc \in {"idle", "attest", "records", "load", "audit", "outputs", "done"}
    /\ partial \in BOOLEAN /\ failed \in BOOLEAN /\ todo \subseteq Dirs
    /\ code \in {Null, "zero", "one", "raised"}
    /\ \A row \in rows : row.dir \in Dirs \ todo
    /\ \A r1, r2 \in rows : r1.dir = r2.dir => r1 = r2
    /\ written \subseteq Outputs
    /\ changes \in 0..MaxChanges /\ starts \in 0..MaxStarts

\* aggregate.py returns 0 without --allow-partial only if what it read, itself and not
\* through the integrity check before it, is as many cells as planned, distinct and
\* verified, even when directories came, went or broke meanwhile; and they are the
\* planned ones if none did.
ZeroIsExact ==
    apc = "done" /\ code = "zero" /\ ~partial =>
        /\ Cardinality({row.identity : row \in rows}) = Cardinality(Plan)
        /\ Cardinality(rows) = Cardinality(Plan) /\ \A row \in rows : row.verified
        /\ begun = changes => {row.identity : row \in rows} = Plan

\* Nothing is published but the exact plan, cell by cell verified when it was read and
\* with the metrics of those rows, however results/ came about: --allow-partial, a
\* program killed between its two files, an unplanned directory that makes up the number.
PublishedIsPlan ==
    \A o \in Outputs : outputs[o] # Null =>
        /\ {row.identity : row \in outputs[o].rows} = Plan
        /\ \A row \in outputs[o].rows : row.verified
        /\ outputs[o].routes = Annotated(Metrics(outputs[o].rows), outputs[o].rows)

\* A manifest that matches the files beside it belongs to one publication: all outputs
\* are from the summary and the rows it names, whatever was killed on the way.
ManifestBinds ==
    manifest # Null /\ manifest.summary = summary /\ manifest.csv = csv /\ manifest.outputs = outputs =>
        \A o \in Outputs : outputs[o] = [routes |-> Annotated(summary.routes, csv), rows |-> csv]

\* When nothing has changed since the aggregation began, every row published was made of
\* the one verified artifact whose COMPLETE the manifest's scan lists for its directory, and
\* the records it names pass: a scan, an aggregation and a publication in any order, with
\* reruns between them.  That the scan found the directory as it is now is not said: it may
\* have been damaged then and repaired under the same COMPLETE.
PublishedIsScanned ==
    manifest # Null /\ steady =>
        /\ manifest.records # "wrong"
        /\ \A row \in manifest.csv :
              /\ row.dir \in DOMAIN manifest.scan
              /\ \E found \in Possible[row.dir] \ {Null} :
                    /\ found.verified /\ found.complete = manifest.scan[row.dir]
                    /\ row = Row(row.dir, row.identity, found)
=============================================================================
