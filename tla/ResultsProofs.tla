--------------------------- MODULE ResultsProofs ---------------------------
(***************************************************************************)
(* Proofs about Results, for any suite, directories and bounds.            *)
(*                                                                         *)
(* The aggregator's rows are of what it read, and while nothing changes    *)
(* still of what is there; when the programs do not overlap, what the      *)
(* postprocessor has read and attested to stays so until its manifest.     *)
(* The rank behind the 95th percentile, for any number of rows.            *)
(***************************************************************************)
EXTENDS Results, FiniteSetTheorems, TLAPS

-----------------------------------------------------------------------------
(* The invariant.                                                          *)

\* A row is of what its directory holds.
IsOf(row) ==
    /\ row.dir \in Dirs /\ runs[row.dir] # Null
    /\ row = Row(row.dir, row.identity, runs[row.dir])

\* The rows so far, and where they come from.
RowsAreRead ==
    /\ apc \in {"integrity", "list"} => rows = {} /\ todo = {} /\ ~failed
    /\ \A row \in rows : row.identity = Identity[row.dir]
    /\ ~failed => \A row \in rows : row.verified
    /\ begun = changes => \A row \in rows : IsOf(row)

\* What the integrity check found lasts until something changes.
Checked ==
    ~partial /\ begun = changes =>
        /\ apc \in {"list", "rows"} => Observed = PlannedDirs
        /\ apc = "rows" => todo \subseteq PlannedDirs
        /\ \A row \in rows : row.dir \in PlannedDirs

ZeroCounts == apc = "done" /\ code = "zero" /\ ~partial => Complete

\* The files, and the changes since their aggregation began.
Since ==
    /\ changes \in Nat /\ begun \in 0..changes /\ csvBegun \in 0..changes
    /\ csv # Null /\ csvBegun = changes => \A row \in csv : IsOf(row)

\* What has been loaded is the plan, and the metrics are its own once audited.
Loaded ==
    /\ ppc \in {"attest", "records", "load", "audit"} => written = {}
    /\ ppc \in {"audit", "outputs"} =>
          {row.identity : row \in readRows} = Plan /\ \A row \in readRows : row.verified
    /\ ppc = "outputs" => \A route \in Routes : readSummary.routes[route] = RouteMetrics(readRows, route)

\* One program at a time: what was read is what the files hold.
Alone ==
    ~Overlap =>
        /\ apc \in {"idle", "done"} \/ ppc \in {"idle", "done"}
        /\ ppc \in {"audit", "outputs"} => readSummary = summary /\ readRows = csv /\ csv # Null
        /\ ppc = "outputs" => \A o \in written :
              outputs[o] = [routes |-> Annotated(summary.routes, csv), rows |-> csv]
        /\ ppc \in {"records", "load", "audit", "outputs"} /\ csvBegun = changes => scan = Markers
        /\ ppc \in {"load", "audit", "outputs"} /\ csvBegun = changes => records # "wrong"

\* A manifest names one publication.
Bound ==
    ~Overlap /\ manifest # Null => \A o \in Outputs :
        manifest.outputs[o] = [routes |-> Annotated(manifest.summary.routes, manifest.csv),
                               rows |-> manifest.csv]

IInv ==
    /\ TypeOK /\ RowsAreRead /\ Checked /\ ZeroCounts /\ Since /\ Loaded /\ Alone /\ Bound
    /\ DOMAIN outputs = Outputs /\ PublishedIsPlan /\ (~Overlap => PublishedIsScanned)

-----------------------------------------------------------------------------
(* Rows and the plan.                                                      *)

\* A row says whose it is and whether the artifact was verified.
LEMMA RowOf ==
    ASSUME NEW dir, NEW identity, NEW found
    PROVE  /\ Row(dir, identity, found).dir = dir
           /\ Row(dir, identity, found).identity = identity
           /\ Row(dir, identity, found).verified = found.verified
<1>1. Row(dir, identity, found).dir = dir /\ Row(dir, identity, found).identity = identity
    BY DEF Row
<1>2. Row(dir, identity, found).verified = found.verified
    BY Zenon DEF Row
<1> QED
    BY <1>1, <1>2

\* There are finitely many cells in a suite.
LEMMA PlanFinite == IsFiniteSet(Plan)
<1> DEFINE S == Tasks \X ((1..3) \X Routes)
           f == [s \in S |-> <<s[1], s[2][1], s[2][2]>>]
           T == {f[s] : s \in S}
<1>1. IsFiniteSet(S)
  <2>1. IsFiniteSet((1..3) \X Routes)
    <3>1. IsFiniteSet(1..3)
      <4>1. 1 \in Int /\ 3 \in Int
          OBVIOUS
      <4> QED
          BY <4>1, FS_Interval
    <3>2. IsFiniteSet(Routes)
        BY SuiteOK
    <3> QED
        BY <3>1, <3>2, FS_Product
  <2> QED
      BY <2>1, SuiteOK, FS_Product
<1>2. f \in Surjection(S, T)
    BY DEF Surjection
<1>3. IsFiniteSet(T)
    BY <1>1, <1>2, FS_Surjection
<1>4. Plan \subseteq T
  <2>1. ASSUME NEW t \in Tasks, NEW a \in Attempts(t), NEW r \in Routes PROVE <<t, a, r>> \in T
    <3>1. a \in 1..3
        BY DEF Attempts
    <3>2. <<t, <<a, r>>>> \in S /\ f[<<t, <<a, r>>>>] = <<t, a, r>>
        BY <3>1
    <3> QED
        BY <3>2
  <2> HIDE DEF T
  <2> QED
      BY <2>1 DEF Plan
<1> QED
    BY <1>3, <1>4, FS_Subset

-----------------------------------------------------------------------------
(* Initially.                                                              *)

LEMMA InitIInv == Init => IInv
<1> SUFFICES ASSUME Init PROVE IInv
    OBVIOUS
<1>1. DOMAIN runs = Dirs /\ \A d \in Dirs : runs[d] \in Possible[d]
    BY DEF Init
<1>2. TypeOK
  <2>1. /\ partial \in BOOLEAN /\ failed \in BOOLEAN /\ todo \subseteq Dirs /\ rows = {}
        /\ apc = "idle" /\ ppc = "idle" /\ code = Null /\ written = {} /\ changes = 0 /\ starts = 0
      BY DEF Init
  <2> QED
      BY <1>1, <2>1, ResultsOK DEF TypeOK
<1> QED
    BY <1>2 DEF Init, IInv, RowsAreRead, Checked, ZeroCounts, Since, Loaded, Alone, Bound,
        PublishedIsPlan, PublishedIsScanned

-----------------------------------------------------------------------------
(* Every step.                                                             *)

Aggregator ==
    \/ StartAggregator \/ CheckIntegrity \/ ListRuns \/ (\E d \in Dirs : ReadRow(d))
    \/ SummaryRaises \/ OpenCsv \/ WriteCsv \/ OpenSummary \/ WriteSummary
Postprocessor ==
    \/ StartPostprocessor \/ AttestScan \/ AttestRecords \/ Refuse \/ Load \/ Audit
    \/ (\E o \in Outputs : WriteOutput(o)) \/ WriteManifest
Outside == (\E d \in Dirs : Change(d)) \/ ChangeRecords

\* A change is counted, and touches no program's memory.
LEMMA Outsides ==
    TypeOK /\ Outside =>
        /\ UNCHANGED <<scan, csv, summary, published, aggregator, postprocessor, starts, history>>
        /\ changes' = changes + 1 /\ changes' \in 0..MaxChanges
        /\ DOMAIN runs' = Dirs /\ \A d \in Dirs : runs'[d] \in Possible[d]
<1> SUFFICES ASSUME TypeOK, Outside
             PROVE  /\ UNCHANGED <<scan, csv, summary, published, aggregator, postprocessor, starts, history>>
                    /\ changes' = changes + 1 /\ changes' \in 0..MaxChanges
                    /\ DOMAIN runs' = Dirs /\ \A d \in Dirs : runs'[d] \in Possible[d]
    OBVIOUS
<1>1. Changing
    BY DEF Outside, Change, ChangeRecords
<1>2. changes' = changes + 1 /\ changes' \in 0..MaxChanges
    BY <1>1, ResultsOK DEF Changing, TypeOK
<1>3. DOMAIN runs' = Dirs /\ \A d \in Dirs : runs'[d] \in Possible[d]
    BY DEF Outside, Change, ChangeRecords, TypeOK
<1> QED
    BY <1>1, <1>2, <1>3 DEF Changing

\* The aggregator writes neither the inputs nor what is published, and the
\* postprocessor only that.
LEMMA Aggregating == Aggregator => Aggregates
BY DEF Aggregator, StartAggregator, CheckIntegrity, ListRuns, ReadRow, SummaryRaises,
    OpenCsv, WriteCsv, OpenSummary, WriteSummary
LEMMA Publishing == Postprocessor => Publishes
BY DEF Postprocessor, StartPostprocessor, AttestScan, AttestRecords, Refuse, Load, Audit,
    WriteOutput, WriteManifest

\* A row is read of a directory that has not been read.
LEMMA ReadTypes == ASSUME TypeOK, NEW d \in Dirs, ReadRow(d) PROVE TypeOK'
<1>1. CASE runs[d] # Null /\ runs[d].readable
  <2> DEFINE new == Row(d, Identity[d], runs[d])
  <2>1. new.dir = d
      BY RowOf
  <2>2. d \in todo /\ todo' = todo \ {d} /\ rows' = rows \cup {new} /\ failed' \in BOOLEAN
      BY <1>1 DEF ReadRow, First, TypeOK
  <2> HIDE DEF new
  <2>3. \A row \in rows' : row.dir \in Dirs \ todo'
      BY <2>1, <2>2 DEF TypeOK
  <2>4. \A r1, r2 \in rows' : r1.dir = r2.dir => r1 = r2
      BY <2>1, <2>2 DEF TypeOK
  <2> QED
      BY <1>1, <2>2, <2>3, <2>4 DEF ReadRow, TypeOK, Aggregates, inputs, postprocessor
<1>2. CASE ~(runs[d] # Null /\ runs[d].readable)
    BY <1>2 DEF ReadRow, First, TypeOK, Aggregates, inputs, postprocessor
<1> QED
    BY <1>1, <1>2

LEMMA TypesNext == TypeOK /\ RowsAreRead /\ [Next]_vars => TypeOK'
<1> SUFFICES ASSUME TypeOK, RowsAreRead, [Next]_vars PROVE TypeOK'
    OBVIOUS
<1> USE ResultsOK
<1>1. CASE Outside
    BY <1>1, Outsides DEF TypeOK, aggregator, postprocessor
<1>2. CASE StartAggregator
  <2>1. partial' \in BOOLEAN /\ failed' \in BOOLEAN
      BY <1>2 DEF StartAggregator
  <2>2. apc' \in {"list", "integrity"}
      BY <1>2 DEF StartAggregator
  <2>3. /\ todo' = {} /\ rows' = {} /\ code' = Null /\ starts' = starts + 1 /\ starts < MaxStarts
        /\ UNCHANGED <<runs, ppc, written, changes>>
      BY <1>2 DEF StartAggregator, Aggregates, inputs, postprocessor
  <2>4. starts' \in 0..MaxStarts
      BY <2>3 DEF TypeOK
  <2> QED
      BY <2>1, <2>2, <2>3, <2>4 DEF TypeOK
<1>3. CASE ListRuns
    BY <1>3 DEF ListRuns, RowsAreRead, TypeOK, Observed, Aggregates, inputs, postprocessor
<1>4. CASE \E d \in Dirs : ReadRow(d)
    BY <1>4, ReadTypes
<1>5. CASE CheckIntegrity \/ SummaryRaises \/ OpenCsv \/ WriteCsv \/ OpenSummary \/ WriteSummary
    BY <1>5 DEF CheckIntegrity, SummaryRaises, OpenCsv, WriteCsv, OpenSummary, WriteSummary,
        TypeOK, Aggregates, inputs, postprocessor
<1>6. CASE Postprocessor
    BY <1>6 DEF Postprocessor, StartPostprocessor, AttestScan, AttestRecords, Refuse, Load, Audit,
        WriteOutput, WriteManifest, TypeOK, Publishes, inputs, aggregator
<1>7. CASE Scan \/ UNCHANGED vars
    BY <1>7 DEF Scan, vars, TypeOK, inputs, aggregator, postprocessor
<1>8. CASE Killed
    BY <1>8 DEF Killed, TypeOK, Aggregates, Publishes, inputs, aggregator, postprocessor
<1> QED
    BY <1>1, <1>2, <1>3, <1>4, <1>5, <1>6, <1>7, <1>8 DEF Next, Outside, Postprocessor

LEMMA ReadAgain ==
    ASSUME TypeOK, Since, RowsAreRead, Checked, NEW d \in Dirs, ReadRow(d) PROVE RowsAreRead' /\ Checked'
<1> DEFINE new == Row(d, Identity[d], runs[d])
<1>1. /\ new.dir = d /\ new.identity = Identity[d] /\ new.verified = runs[d].verified
    BY RowOf
<1>2. /\ apc = "rows" /\ apc' = "rows" /\ d \in todo /\ todo' = todo \ {d}
      /\ UNCHANGED <<runs, changes, begun, partial>>
    BY DEF ReadRow, First, Aggregates, inputs
<1>3. CASE runs[d] # Null /\ runs[d].readable
  <2>1. rows' = rows \cup {new} /\ failed' = (failed \/ ~runs[d].verified)
      BY <1>3 DEF ReadRow
  <2>2. IsOf(new)
      BY <1>1, <1>3 DEF IsOf
  <2> HIDE DEF new
  <2>3. \A row \in rows' : row.identity = Identity[row.dir]
      BY <1>1, <2>1 DEF RowsAreRead
  <2>4. ~failed' => \A row \in rows' : row.verified
      BY <1>1, <2>1, Zenon DEF RowsAreRead
  <2>5. begun' = changes' => \A row \in rows' : IsOf(row)'
    <3>1. \A row : IsOf(row)' <=> IsOf(row)
        BY <1>2 DEF IsOf
    <3> QED
        BY <1>2, <2>1, <2>2, <3>1, Zenon DEF RowsAreRead
  <2>6. Checked'
      BY <1>1, <1>2, <2>1 DEF Checked, Observed, PlannedDirs
  <2> QED
      BY <1>2, <2>3, <2>4, <2>5, <2>6 DEF RowsAreRead
<1>4. CASE ~(runs[d] # Null /\ runs[d].readable)
  <2>1. rows' = rows /\ failed'
      BY <1>4 DEF ReadRow
  <2> QED
      BY <1>2, <2>1 DEF RowsAreRead, IsOf, Checked, Observed, PlannedDirs
<1> QED
    BY <1>3, <1>4

\* Steps that leave the rows alone, or drop them.
LEMMA RowsNext ==
    TypeOK /\ Since /\ RowsAreRead /\ Checked /\ [Next]_vars => RowsAreRead' /\ Checked'
<1> SUFFICES ASSUME TypeOK, Since, RowsAreRead, Checked, [Next]_vars PROVE RowsAreRead' /\ Checked'
    OBVIOUS
<1>1. CASE Outside
  <2>1. begun' # changes' /\ UNCHANGED <<apc, partial, todo, rows, failed>>
      BY <1>1, Outsides DEF Since, aggregator, history
  <2> QED
      BY <2>1 DEF RowsAreRead, IsOf, Checked
<1>2. CASE \E d \in Dirs : ReadRow(d)
    BY <1>2, ReadAgain
<1>3. CASE StartAggregator
  <2>1. rows' = {} /\ todo' = {} /\ ~failed' /\ apc' \in {"integrity", "list"}
      BY <1>3 DEF StartAggregator
  <2>2. ~partial' => apc' = "integrity"
      BY <1>3 DEF StartAggregator
  <2> QED
      BY <2>1, <2>2 DEF RowsAreRead, IsOf, Checked
<1>4. CASE CheckIntegrity
  <2>1. UNCHANGED <<runs, changes, begun, partial, todo, rows, failed>> /\ apc = "integrity"
      BY <1>4 DEF CheckIntegrity, Aggregates, inputs
  <2>2. (apc' = "list" /\ Observed = PlannedDirs) \/ apc' = "done"
      BY <1>4 DEF CheckIntegrity
  <2> QED
      BY <2>1, <2>2 DEF RowsAreRead, IsOf, Checked, Observed, PlannedDirs
<1>5. CASE ListRuns
  <2>1. UNCHANGED <<runs, changes, begun, partial, rows, failed>> /\ apc = "list"
      BY <1>5 DEF ListRuns, Aggregates, inputs
  <2>2. apc' = "rows" /\ todo' = Observed
      BY <1>5 DEF ListRuns
  <2> QED
      BY <2>1, <2>2 DEF RowsAreRead, IsOf, Checked, Observed, PlannedDirs
<1>6. CASE SummaryRaises \/ OpenCsv \/ WriteCsv \/ OpenSummary \/ WriteSummary
  <2>1. UNCHANGED <<runs, changes, begun, partial, todo, rows, failed>>
      BY <1>6 DEF SummaryRaises, OpenCsv, WriteCsv, OpenSummary, WriteSummary, Aggregates, inputs
  <2>2. apc' \in {"done", "csv", "open", "summary"}
      BY <1>6 DEF SummaryRaises, OpenCsv, WriteCsv, OpenSummary, WriteSummary
  <2> QED
      BY <2>1, <2>2 DEF RowsAreRead, IsOf, Checked
<1>7. CASE Postprocessor \/ Scan \/ UNCHANGED vars
  <2>1. UNCHANGED <<apc, runs, changes, begun, partial, todo, rows, failed>>
      BY <1>7, Publishing DEF Publishes, Scan, vars, inputs, aggregator, history
  <2> QED
      BY <2>1 DEF RowsAreRead, IsOf, Checked, Observed, PlannedDirs
<1>8. CASE Killed
  <2>1. /\ UNCHANGED <<runs, changes, begun, partial, todo, rows, failed>>
        /\ apc' = apc \/ apc' = "idle"
      BY <1>8 DEF Killed, Aggregates, Publishes, inputs, aggregator
  <2> QED
      BY <2>1 DEF RowsAreRead, IsOf, Checked, Observed, PlannedDirs
<1> QED
    BY <1>1, <1>2, <1>3, <1>4, <1>5, <1>6, <1>7, <1>8 DEF Next, Outside, Postprocessor

\* A code of zero is written with the rows it is about.
LEMMA ZeroNext == TypeOK /\ ZeroCounts /\ [Next]_vars => ZeroCounts'
<1> SUFFICES ASSUME TypeOK, ZeroCounts, [Next]_vars PROVE ZeroCounts'
    OBVIOUS
<1>1. CASE WriteSummary
  <2>1. code' = "zero" /\ ~partial => Complete
      BY <1>1 DEF WriteSummary
  <2>2. UNCHANGED <<partial, rows, failed>>
      BY <1>1 DEF WriteSummary
  <2> QED
      BY <2>1, <2>2 DEF ZeroCounts, Complete, Errors
<1>2. CASE CheckIntegrity \/ SummaryRaises
    BY <1>2 DEF CheckIntegrity, SummaryRaises, ZeroCounts
<1>3. CASE \/ StartAggregator \/ ListRuns \/ (\E d \in Dirs : ReadRow(d)) \/ OpenCsv \/ WriteCsv \/ OpenSummary
  <2>1. apc' # "done"
      BY <1>3 DEF StartAggregator, ListRuns, ReadRow, OpenCsv, WriteCsv, OpenSummary
  <2> QED
      BY <2>1 DEF ZeroCounts
<1>4. CASE Outside \/ Postprocessor \/ Scan \/ UNCHANGED vars
  <2>1. UNCHANGED <<apc, code, partial, rows, failed>>
      BY <1>4, Publishing, Outsides DEF Publishes, Scan, vars, aggregator
  <2> QED
      BY <2>1 DEF ZeroCounts, Complete, Errors
<1>5. CASE Killed
  <2>1. UNCHANGED <<code, partial, rows, failed>> /\ (apc' = apc \/ apc' = "idle")
      BY <1>5 DEF Killed, Publishes, aggregator
  <2> QED
      BY <2>1 DEF ZeroCounts, Complete, Errors
<1> QED
    BY <1>1, <1>2, <1>3, <1>4, <1>5 DEF Next, Outside, Postprocessor

LEMMA SinceNext == TypeOK /\ RowsAreRead /\ Since /\ [Next]_vars => Since'
<1> SUFFICES ASSUME TypeOK, RowsAreRead, Since, [Next]_vars PROVE Since'
    OBVIOUS
<1>1. CASE Outside
  <2>1. changes' = changes + 1 /\ UNCHANGED <<csv, begun, csvBegun>>
      BY <1>1, Outsides DEF history
  <2> QED
      BY <2>1 DEF Since, IsOf
<1>2. CASE WriteCsv
  <2>1. csv' = rows /\ csvBegun' = begun /\ UNCHANGED <<begun, changes, runs>>
      BY <1>2 DEF WriteCsv, Aggregates, inputs
  <2> QED
      BY <2>1 DEF Since, IsOf, RowsAreRead
<1>3. CASE OpenCsv
  <2>1. csv' = Null /\ UNCHANGED <<begun, csvBegun, changes>>
      BY <1>3 DEF OpenCsv, Aggregates
  <2> QED
      BY <2>1 DEF Since, IsOf
<1>4. CASE StartAggregator
  <2>1. begun' = changes /\ UNCHANGED <<csv, csvBegun, changes, runs>>
      BY <1>4 DEF StartAggregator, Aggregates, inputs
  <2> QED
      BY <2>1 DEF Since, IsOf
<1>5. CASE CheckIntegrity \/ ListRuns \/ (\E d \in Dirs : ReadRow(d)) \/ SummaryRaises \/ OpenSummary \/ WriteSummary
  <2>1. UNCHANGED <<csv, begun, csvBegun, changes, runs>>
      BY <1>5 DEF CheckIntegrity, ListRuns, ReadRow, SummaryRaises, OpenSummary, WriteSummary, Aggregates, inputs
  <2> QED
      BY <2>1 DEF Since, IsOf
<1>6. CASE Postprocessor \/ Scan \/ Killed \/ UNCHANGED vars
  <2>1. UNCHANGED <<csv, begun, csvBegun, changes, runs>>
      BY <1>6, Publishing DEF Publishes, Aggregates, Scan, Killed, vars, inputs, history
  <2> QED
      BY <2>1 DEF Since, IsOf
<1> QED
    BY <1>1, <1>2, <1>3, <1>4, <1>5, <1>6 DEF Next, Outside, Postprocessor

\* Steps that publish nothing.
Silent ==
    \/ Outside \/ Aggregator \/ Scan \/ Killed \/ UNCHANGED vars
    \/ StartPostprocessor \/ AttestScan \/ AttestRecords \/ Refuse \/ Load \/ Audit

LEMMA Silence == TypeOK /\ Silent => UNCHANGED <<published, steady>>
BY Outsides, Aggregating DEF Silent, Aggregates, Scan, Killed, vars, history, published,
    StartPostprocessor, AttestScan, AttestRecords, Refuse, Load, Audit

LEMMA LoadedNext == TypeOK /\ Loaded /\ [Next]_vars => Loaded'
<1> SUFFICES ASSUME TypeOK, Loaded, [Next]_vars PROVE Loaded'
    OBVIOUS
<1>1. CASE Load
  <2>1. /\ {row.identity : row \in csv} = Plan /\ \A row \in csv : row.verified
        /\ readRows' = csv /\ ppc' = "audit" /\ ppc = "load" /\ written' = written
      BY <1>1 DEF Load, Loadable
  <2> QED
      BY <2>1 DEF Loaded
<1>2. CASE Audit
  <2>1. /\ ppc = "audit" /\ ppc' = "outputs" /\ UNCHANGED <<readSummary, readRows>>
        /\ \A route \in Routes : readSummary.routes[route] = RouteMetrics(readRows, route)
      BY <1>2 DEF Audit, AuditPasses
  <2> QED
      BY <2>1 DEF Loaded
<1>3. CASE \E o \in Outputs : WriteOutput(o)
    BY <1>3 DEF WriteOutput, Loaded
<1>4. CASE StartPostprocessor \/ AttestScan \/ AttestRecords \/ Refuse \/ WriteManifest
  <2>1. /\ ppc' \notin {"audit", "outputs"}
        /\ ppc' \in {"attest", "records", "load"} => written' = {}
      BY <1>4 DEF StartPostprocessor, AttestScan, AttestRecords, Refuse, WriteManifest, Loaded
  <2> QED
      BY <2>1 DEF Loaded
<1>5. CASE Outside \/ Aggregator \/ Scan \/ UNCHANGED vars
  <2>1. UNCHANGED <<ppc, readSummary, readRows, written>>
      BY <1>5, Outsides, Aggregating DEF Aggregates, Scan, vars, postprocessor
  <2> QED
      BY <2>1 DEF Loaded
<1>6. CASE Killed
  <2>1. UNCHANGED <<readSummary, readRows, written>> /\ (ppc' = ppc \/ ppc' = "idle")
      BY <1>6 DEF Killed, Aggregates, postprocessor
  <2> QED
      BY <2>1 DEF Loaded
<1> QED
    BY <1>1, <1>2, <1>3, <1>4, <1>5, <1>6 DEF Next, Outside, Aggregator

\* Each conjunct of Alone is disturbed by other steps; an aggregator's finds no
\* postprocessor at work, and a change is one since the aggregation.
LEMMA AloneNext ==
    TypeOK /\ Since /\ Loaded /\ Alone /\ DOMAIN outputs = Outputs /\ [Next]_vars => Alone'
<1> SUFFICES ASSUME TypeOK, Since, Loaded, Alone, DOMAIN outputs = Outputs, [Next]_vars, ~Overlap PROVE Alone'
    BY DEF Alone
<1>1. CASE Outside
  <2>1. /\ UNCHANGED <<apc, ppc, csv, summary, readSummary, readRows, written, outputs>>
        /\ csvBegun' # changes'
      BY <1>1, Outsides DEF Since, aggregator, postprocessor, history, published
  <2> QED
      BY <2>1 DEF Alone, Markers, Observed
<1>2. CASE Aggregator
  <2>1. ppc \in {"idle", "done"}
      BY <1>2 DEF Alone, Idle, Aggregator, StartAggregator, CheckIntegrity, ListRuns, ReadRow,
          SummaryRaises, OpenCsv, WriteCsv, OpenSummary, WriteSummary
  <2>2. ppc' = ppc
      BY <1>2, Aggregating DEF Aggregates, postprocessor
  <2> QED
      BY <2>1, <2>2 DEF Alone
<1>3. CASE Scan
  <2>1. Idle /\ UNCHANGED <<apc, ppc>>
      BY <1>3 DEF Scan, aggregator, postprocessor
  <2> QED
      BY <2>1 DEF Alone, Idle
<1>4. CASE StartPostprocessor
  <2>1. Idle /\ UNCHANGED apc /\ ppc' = "attest"
      BY <1>4 DEF StartPostprocessor, Publishes, aggregator
  <2> QED
      BY <2>1 DEF Alone, Idle
<1>5. CASE AttestScan \/ AttestRecords \/ Load \/ Audit
  <2>1. UNCHANGED <<apc, csv, summary, csvBegun, changes, scan, runs, records, outputs>>
      BY <1>5 DEF AttestScan, AttestRecords, Load, Audit, Publishes, inputs, aggregator, published
  <2>2. CASE AttestScan
      BY <2>1, <2>2 DEF AttestScan, Alone, Markers, Observed
  <2>3. CASE AttestRecords
      BY <2>1, <2>3 DEF AttestRecords, Alone, Markers, Observed
  <2>4. CASE Load
      BY <2>1, <2>4 DEF Load, Alone, Markers, Observed
  <2>5. CASE Audit
    <3>1. ppc = "audit" /\ ppc' = "outputs" /\ written' = {} /\ UNCHANGED <<readSummary, readRows>>
        BY <2>5 DEF Audit, Loaded
    <3> QED
        BY <2>1, <3>1 DEF Alone, Markers, Observed
  <2> QED
      BY <1>5, <2>2, <2>3, <2>4, <2>5
<1>6. CASE Refuse \/ WriteManifest
  <2>1. ppc' \in {"idle", "done"}
      BY <1>6 DEF Refuse, WriteManifest
  <2> QED
      BY <2>1 DEF Alone, Markers, Observed
<1>7. ASSUME NEW o \in Outputs, WriteOutput(o) PROVE Alone'
  <2> DEFINE new == [routes |-> Annotated(summary.routes, csv), rows |-> csv]
  <2>1. /\ UNCHANGED <<apc, ppc, csv, summary, readSummary, readRows, csvBegun, changes, scan, runs, records>>
        /\ ppc = "outputs" /\ written' = written \cup {o}
      BY <1>7 DEF WriteOutput, Publishes, inputs, aggregator
  <2>2. readSummary = summary /\ readRows = csv
      BY <2>1 DEF Alone, Markers, Observed
  <2>3. outputs' = [outputs EXCEPT ![o] = new]
      BY <1>7, <2>2 DEF WriteOutput
  <2> HIDE DEF new
  <2>4. \A p \in written : p \in Outputs /\ outputs[p] = new
      BY <2>1 DEF new, Alone, TypeOK
  <2>5. \A p \in written' : outputs'[p] = new
      BY <2>1, <2>3, <2>4
  <2> QED
      BY <2>1, <2>5 DEF new, Alone, Markers, Observed
<1>8. CASE Killed
  <2>1. /\ UNCHANGED <<csv, summary, csvBegun, changes, scan, runs, records, outputs, readSummary, readRows, written>>
        /\ \/ apc' = apc /\ ppc' = "idle"
           \/ apc' = "idle" /\ ppc' = ppc
      BY <1>8 DEF Killed, Aggregates, Publishes, inputs, aggregator, postprocessor, published
  <2> QED
      BY <2>1 DEF Alone, Markers, Observed
<1>9. CASE UNCHANGED vars
    BY <1>9 DEF vars, inputs, published, aggregator, postprocessor, history, Alone, Markers, Observed
<1> QED
    BY <1>1, <1>2, <1>3, <1>4, <1>5, <1>6, <1>7, <1>8, <1>9 DEF Next, Outside, Aggregator

\* Only outputs of one summary and its rows are all written.
LEMMA BoundNext == TypeOK /\ Alone /\ Bound /\ [Next]_vars => Bound'
<1> SUFFICES ASSUME TypeOK, Alone, Bound, [Next]_vars, ~Overlap PROVE Bound'
    BY DEF Bound
<1>1. CASE WriteManifest
  <2>1. manifest' = Named /\ ppc = "outputs" /\ written = Outputs
      BY <1>1 DEF WriteManifest
  <2>2. manifest'.outputs = outputs /\ manifest'.summary = summary /\ manifest'.csv = csv
      BY <2>1 DEF Named
  <2> QED
      BY <2>1, <2>2 DEF Alone, Bound
<1>2. CASE Silent \/ \E o \in Outputs : WriteOutput(o)
  <2>1. manifest' = manifest
      BY <1>2, Silence DEF published, WriteOutput
  <2> QED
      BY <2>1 DEF Bound
<1> QED
    BY <1>1, <1>2 DEF Next, Silent, Outside, Aggregator

\* An output is written of rows and metrics that passed the audit.
LEMMA PublishedNext ==
    TypeOK /\ Loaded /\ DOMAIN outputs = Outputs /\ PublishedIsPlan /\ [Next]_vars
        => (DOMAIN outputs = Outputs)' /\ PublishedIsPlan'
<1> SUFFICES ASSUME TypeOK, Loaded, DOMAIN outputs = Outputs, PublishedIsPlan, [Next]_vars
             PROVE  (DOMAIN outputs = Outputs)' /\ PublishedIsPlan'
    OBVIOUS
<1>1. ASSUME NEW o \in Outputs, WriteOutput(o) PROVE (DOMAIN outputs = Outputs)' /\ PublishedIsPlan'
  <2> DEFINE new == [routes |-> Annotated(readSummary.routes, readRows), rows |-> readRows]
  <2>1. outputs' = [outputs EXCEPT ![o] = new] /\ ppc = "outputs"
      BY <1>1 DEF WriteOutput
  <2>2. /\ new.rows = readRows /\ {row.identity : row \in readRows} = Plan
        /\ \A row \in readRows : row.verified
      BY <2>1 DEF Loaded
  <2>3. new.routes = Annotated(Metrics(new.rows), new.rows)
    <3>1. \A route \in Routes : readSummary.routes[route] = Metrics(readRows)[route]
        BY <2>1 DEF Loaded, Metrics
    <3>2. Annotated(readSummary.routes, readRows) = Annotated(Metrics(readRows), readRows)
        BY <3>1 DEF Annotated
    <3> QED
        BY <3>2
  <2> HIDE DEF new
  <2>4. \A p \in Outputs : outputs'[p] = IF p = o THEN new ELSE outputs[p]
      BY <2>1
  <2> QED
      BY <2>1, <2>2, <2>3, <2>4 DEF PublishedIsPlan
<1>2. CASE Silent \/ WriteManifest
  <2>1. outputs' = outputs
      BY <1>2, Silence DEF published, WriteManifest
  <2> QED
      BY <2>1 DEF PublishedIsPlan
<1> QED
    BY <1>1, <1>2 DEF Next, Silent, Outside, Aggregator

\* The manifest's scan lists the COMPLETE of what the rows are of, which is verified.
LEMMA ScannedNext ==
    TypeOK /\ Since /\ Loaded /\ Alone /\ PublishedIsScanned /\ ~Overlap /\ [Next]_vars => PublishedIsScanned'
<1> SUFFICES ASSUME TypeOK, Since, Loaded, Alone, PublishedIsScanned, ~Overlap, [Next]_vars PROVE PublishedIsScanned'
    OBVIOUS
<1>1. CASE WriteManifest
  <2>1. manifest' = Named /\ ppc = "outputs" /\ steady' = (csvBegun = changes)
      BY <1>1 DEF WriteManifest
  <2>2. manifest'.records = records /\ manifest'.csv = csv /\ manifest'.scan = scan
      BY <2>1 DEF Named
  <2>3. steady' => scan = Markers /\ records # "wrong" /\ csv # Null /\ csvBegun = changes
      BY <2>1 DEF Alone
  <2>4. \A row \in csv : row.verified
      BY <2>1 DEF Alone, Loaded
  <2>5. ASSUME steady', NEW row \in csv
        PROVE  /\ row.dir \in DOMAIN scan
               /\ \E found \in Possible[row.dir] \ {Null} :
                     /\ found.verified /\ found.complete = scan[row.dir]
                     /\ row = Row(row.dir, row.identity, found)
    <3> DEFINE found == runs[row.dir]
    <3>1. row.dir \in Dirs /\ found # Null /\ row = Row(row.dir, row.identity, found)
        BY <2>3, <2>5 DEF Since, IsOf
    <3>2. found.verified
      <4>1. Row(row.dir, row.identity, found).verified = found.verified
          BY RowOf
      <4>2. row.verified = found.verified
          BY <3>1, <4>1
      <4> HIDE DEF found
      <4> QED
          BY <2>4, <4>2
    <3>3. found \in Possible[row.dir]
        BY <3>1 DEF TypeOK
    <3>4. row.dir \in DOMAIN scan /\ scan[row.dir] = found.complete
        BY <2>3, <2>5, <3>1 DEF Markers, Observed
    <3> HIDE DEF found
    <3> QED
        BY <3>1, <3>2, <3>3, <3>4
  <2>6. steady' => PublishedIsScanned'
      BY <2>2, <2>3, <2>5 DEF PublishedIsScanned
  <2> QED
      BY <2>6 DEF PublishedIsScanned
<1>2. CASE Silent \/ \E o \in Outputs : WriteOutput(o)
  <2>1. manifest' = manifest /\ steady' = steady
      BY <1>2, Silence DEF published, WriteOutput
  <2> QED
      BY <2>1 DEF PublishedIsScanned
<1> QED
    BY <1>1, <1>2 DEF Next, Silent, Outside, Aggregator

LEMMA NextIInv == IInv /\ [Next]_vars => IInv'
BY TypesNext, RowsNext, ZeroNext, SinceNext, LoadedNext, AloneNext, BoundNext, PublishedNext, ScannedNext
   DEF IInv

LEMMA Invariant == Spec => []IInv
BY InitIInv, NextIInv, PTL DEF Spec

-----------------------------------------------------------------------------
(* The theorems.                                                           *)

\* Every reachable state is well typed: a directory is read at most once.
THEOREM ResultsTypes == Spec => []TypeOK
BY Invariant, PTL DEF IInv

\* As many planned cells as the finite plan has are the plan.
THEOREM ZeroReturned == Spec => []ZeroIsExact
<1>1. IInv => ZeroIsExact
  <2> SUFFICES ASSUME IInv, apc = "done", code = "zero", ~partial PROVE
                 /\ Cardinality({row.identity : row \in rows}) = Cardinality(Plan)
                 /\ Cardinality(rows) = Cardinality(Plan) /\ \A row \in rows : row.verified
                 /\ begun = changes => {row.identity : row \in rows} = Plan
      BY DEF ZeroIsExact
  <2>1. Complete
      BY DEF IInv, ZeroCounts
  <2>2. /\ Cardinality({row.identity : row \in rows}) = Cardinality(Plan)
        /\ Cardinality(rows) = Cardinality(Plan) /\ ~failed
      BY <2>1 DEF Complete, Errors
  <2>3. \A row \in rows : row.verified
      BY <2>2 DEF IInv, RowsAreRead
  <2>4. begun = changes => {row.identity : row \in rows} \subseteq Plan
      BY DEF IInv, RowsAreRead, Checked, PlannedDirs
  <2> QED
      BY <2>2, <2>3, <2>4, PlanFinite, FS_Subset
<1> QED
    BY <1>1, Invariant, PTL

\* What the postprocessor loads is audited before it is written.
THEOREM PublishedPlan == Spec => []PublishedIsPlan
BY Invariant, PTL DEF IInv

\* With one program at a time, a manifest is of the publication it closes.
THEOREM ManifestOfOne == ASSUME ~Overlap PROVE Spec => []ManifestBinds
<1>1. IInv => ManifestBinds
    BY DEF IInv, Bound, ManifestBinds
<1> QED
    BY <1>1, Invariant, PTL

\* With one program at a time, the rows published are of the verified artifacts whose
\* COMPLETE the scan lists.
THEOREM PublishedScanned == ASSUME ~Overlap PROVE Spec => []PublishedIsScanned
<1>1. IInv => PublishedIsScanned
    BY DEF IInv
<1> QED
    BY <1>1, Invariant, PTL

-----------------------------------------------------------------------------
(* The ninety-fifth percentile.                                            *)

\* The smallest rank with 95% of n rows at it or below it.
NearestRank(n) == (n * 95 + 99) \div 100

\* The index int((n - 1) * 0.95), counted from 1, against that rank.
LEMMA RankAndIndex ==
    ASSUME NEW n \in Nat \ {0}
    PROVE  ((n - 1) * 95) \div 100 + 1
             = IF n % 20 \in {0, 1} THEN NearestRank(n) ELSE NearestRank(n) - 1
  <1>1. PICK q \in Nat, r \in 0..19 : n = 20 * q + r
    <2>1. n \div 20 \in Nat /\ n - 20 * (n \div 20) \in 0..19
      OBVIOUS
    <2>2. n = 20 * (n \div 20) + (n - 20 * (n \div 20))
      OBVIOUS
    <2>3. QED
      BY <2>1, <2>2
  <1>2. n % 20 = r
    BY <1>1
  <1>3. NearestRank(n) = 19 * q + r
    BY <1>1 DEF NearestRank
  <1>4. CASE r = 0
    BY <1>1, <1>2, <1>3, <1>4
  <1>5. CASE r > 0
    <2>1. ((n - 1) * 95) \div 100 = 19 * q + (IF r = 1 THEN 0 ELSE r - 2)
      BY <1>1, <1>5
    <2>2. QED
      BY <1>1, <1>2, <1>3, <1>5, <2>1
  <1>6. QED
    BY <1>4, <1>5

\* p95_wall_seconds_nearest_rank of aggregate() is the wall time of the nearest rank of
\* 95% exactly for 20, 40, ... rows or one more, and of the rank below it for all others.
THEOREM P95Rank ==
    ASSUME NEW timed, Cardinality(Timed(timed)) \in Nat \ {0}
    PROVE  LET n == Cardinality(Timed(timed))
           IN  P95(timed) = Ranked(timed, IF n % 20 \in {0, 1} THEN NearestRank(n)
                                         ELSE NearestRank(n) - 1)
  BY RankAndIndex DEF P95

=============================================================================
