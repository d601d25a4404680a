SPECIFICATION Spec
CONSTANTS
    Paths = {"stderr", "work", "nested"}
    LinkText <- MCLinkText
    Reserved = {"nested"}
    MaxContent = 3
    MaxEdits = 2
    Stderr = "stderr"
    Warning = {1}
    Text = {"stderr", "work"}
    Forbidden = {2}
INVARIANTS ResumeAccepts AcceptedIsKept ScanBinds
CHECK_DEADLOCK FALSE
