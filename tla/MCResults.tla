----------------------------- MODULE MCResults -----------------------------
(***************************************************************************)
(* Results for TLC: two tasks, one of them repeated, one route, and beside *)
(* the four planned directories one of a cell that is not planned.         *)
(***************************************************************************)
EXTENDS Results

CONSTANTS extra, t1, t2, r1

\* What a sealed run may be to the programs: wall seconds, API calls, tokens.
Artifact(complete, success, wall, calls, tokens, status) ==
    [complete |-> complete, scannable |-> TRUE, readable |-> TRUE, verified |-> TRUE,
     success |-> success, wall |-> wall, calls |-> calls, tokens |-> tokens, status |-> status]

Good == Artifact("good", TRUE, 1, 1, 1, "included")
Slow == Artifact("slow", FALSE, 2, 2, 2, "unknown")
NoUsage == Artifact("none", FALSE, 3, Null, Null, "unknown")     \* ensure_usage_file
Unavailable == Artifact("late", TRUE, 2, 1, Null, Null)          \* Hermes without the provider's usage
\* Slow edited by hand into another run's numbers, and into what nothing can read.
Damaged == [Good EXCEPT !.complete = "slow", !.verified = FALSE]
Unreadable == [Damaged EXCEPT !.readable = FALSE, !.scannable = FALSE]

MCDirs == Plan \cup {extra}
MCIdentity == [d \in MCDirs |-> IF d = extra THEN <<t2, 2, r1>> ELSE d]
MCRank == [d \in MCDirs |-> IF d = extra THEN 5 ELSE IF d[1] = t1 THEN d[2] ELSE 4]
MCPossible ==
    [d \in MCDirs |->
        IF d = extra \/ d[2] = 2 THEN {Null, Good}
        ELSE IF d[2] = 3 THEN {Good}
        ELSE IF d[1] = t1 THEN {Slow, NoUsage, Unavailable, Damaged, Unreadable}
        ELSE {NoUsage}]
=============================================================================
