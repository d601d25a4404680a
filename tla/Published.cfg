SPECIFICATION Spec
CONSTANTS
    t1 = t1
    t2 = t2
    r1 = r1
    extra = extra
    Null = Null
    Tasks = {t1, t2}
    Repeats = {t1}
    Routes = {r1}
    Dirs <- MCDirs
    Rank <- MCRank
    Identity <- MCIdentity
    Possible <- MCPossible
    Overlap = FALSE
    Outputs = {"report", "charts"}
    MaxChanges = 2
    MaxStarts = 4
INVARIANTS ZeroIsExact PublishedIsPlan ManifestBinds PublishedIsScanned
CHECK_DEADLOCK FALSE
