------------------------------ MODULE TimedCall ------------------------------
(***************************************************************************)
(* What a caller of execute_timed (harness/runner/runner.py) relies on:    *)
(* the call comes back, the process it launched is gone by then however    *)
(* the call ends, and an unqualified exit code 0 is that process's own.    *)
(***************************************************************************)
VARIABLES phase,     \* of the call
          child,     \* the launched process, and how it ended
          limit,     \* whether its time ran out
          outcome    \* the status returned
callVars == <<phase, child, limit, outcome>>

Ended == {"zero", "nonzero", "killed"}
Outcomes == {"unlaunched", "zero", "nonzero", "killed", "timeout"}

CallInit == phase = "ready" /\ child = "none" /\ limit = FALSE /\ outcome = "none"

Launch ==
    /\ phase = "ready" /\ phase' = "open" /\ child' = "live"
    /\ UNCHANGED <<limit, outcome>>

NoLaunch ==
    /\ phase = "ready"
    /\ \/ phase' = "returned" /\ outcome' = "unlaunched"
       \/ phase' = "raised" /\ UNCHANGED outcome
    /\ UNCHANGED <<child, limit>>

ChildEnds ==
    /\ child = "live" /\ child' \in Ended
    /\ UNCHANGED <<phase, limit, outcome>>

Expire ==
    /\ phase = "open" /\ limit' = TRUE
    /\ UNCHANGED <<phase, child, outcome>>

\* A time-out is reported as one, whatever the process made of the signal, and within
\* the limit the process ended by itself.
Return ==
    /\ phase = "open" /\ child \in Ended
    /\ limit \/ child # "killed"
    /\ phase' = "returned" /\ outcome' = IF limit THEN "timeout" ELSE child
    /\ UNCHANGED <<child, limit>>

Raise ==
    /\ phase = "open" /\ child \in Ended
    /\ phase' = "raised"
    /\ UNCHANGED <<child, limit, outcome>>

CallNext == Launch \/ NoLaunch \/ ChildEnds \/ Expire \/ Return \/ Raise

CallSpec == CallInit /\ [][CallNext]_callVars

\* The call comes back.
CallEnds == phase = "open" ~> phase \in {"returned", "raised"}
=============================================================================
