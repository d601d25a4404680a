SPECIFICATION FilterSpec
CONSTANTS
    UnnamedCalls = {read, execve}
    OtherFlags = {VM, FILES}
INVARIANTS FollowsPolicy
CHECK_DEADLOCK FALSE
