------------------------------ MODULE RunCell ------------------------------
(***************************************************************************)
(* What the campaign relies on of one run directory, the cell of the       *)
(* experiment: it is created once, an agent works in it only before it is  *)
(* complete, and a complete cell keeps its outcome.  run_one of            *)
(* harness/runner/runner.py implements it as long as no two invocations    *)
(* work on the directory at once.                                          *)
(***************************************************************************)
VARIABLES status,    \* absent, open, complete (COMPLETE is there), shut (read-only)
          working,   \* whether an agent is at work in it
          sound      \* whether it is complete and its agent and grader completed
cellVars == <<status, working, sound>>

CellInit == status = "absent" /\ working = FALSE /\ sound = FALSE

CellCreate == status = "absent" /\ status' = "open" /\ UNCHANGED <<working, sound>>

WorkStarts ==
    /\ status = "open" /\ ~working /\ working' = TRUE
    /\ UNCHANGED <<status, sound>>

WorkEnds == working /\ working' = FALSE /\ UNCHANGED <<status, sound>>

CellComplete ==
    /\ status = "open" /\ ~working /\ status' = "complete"
    /\ sound' \in BOOLEAN /\ UNCHANGED working

CellShut == status = "complete" /\ status' = "shut" /\ UNCHANGED <<working, sound>>

\* The operator moves an incomplete directory, in which nothing works, out of the way.
CellArchive ==
    /\ status = "open" /\ ~working /\ status' = "absent"
    /\ UNCHANGED <<working, sound>>

CellNext ==
    \/ CellCreate \/ WorkStarts \/ WorkEnds
    \/ CellComplete \/ CellShut \/ CellArchive

CellSpec == CellInit /\ [][CellNext]_cellVars
=============================================================================
