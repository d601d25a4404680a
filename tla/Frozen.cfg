CONSTANTS
    Cells = {c1, c2}
    Null = Null
    Batches = {{c1, c2}}
    Jobs = 1
    MaxVersion = 2
    MaxChanges = 2
    MaxStarts = 2
    MaxFaults = 1
SPECIFICATION FairSpec
INVARIANTS AcceptedIsFrozen FrozenIsAccepted HelperIsRecordedOne
PROPERTIES SiblingsFinish
CHECK_DEADLOCK FALSE
