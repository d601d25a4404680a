----------------------------- MODULE MCCampaign -----------------------------
(***************************************************************************)
(* The instance of Campaign for TLC: a campaign interrupted anywhere and   *)
(* its last driver, and three drivers at once in one directory.            *)
(***************************************************************************)
EXTENDS Campaign, TLC

CONSTANTS k1, x1, d1, d2, d3

\* The one slice that --start-index and --limit select.
OneSlice == {{x1}}

\* What a completed cell may turn out to be: anything for the canary only.
CanaryMayFail == [c \in Cells |-> IF c \in Canary THEN BOOLEAN ELSE {TRUE}]

\* The phases after which a runner that stops leaves different debris behind.
Debris == {"made", "unlocked", "pidless", "working", "recorded", "grading", "sealing"}

\* Only the first driver may be for the canary alone (README.md:184).
CanaryFirst == \A d \in Drivers \ {d1} : selected[d] # Canary

\* The operator's last driver, and whether a driver is over.
Last == d3
Over(d) == driver[d] \in {"idle", "zero", "one", "refused", "killed"}

-----------------------------------------------------------------------------
(* Three drivers for the canary alone, at once: the lock, window by window, *)
(* with runners that stop anywhere and drivers that do not.                *)

Together == selected = [d \in Drivers |-> Canary]

TogetherInit == Init /\ Together /\ resume = [d \in Drivers |-> d # d1]

TogetherNext ==
    /\ Together
    /\ \/ \E d \in Drivers :
            \/ Drive(d)
            \/ \E c \in Canary : Runner(d, c) \/ RunnerKilled(d, c) \/ RunnerFails(d, c)
       \/ \E c \in Canary : AgentEnds(c)

-----------------------------------------------------------------------------
(* The end of a campaign: the last driver has the whole plan and --resume, *)
(* and nothing goes wrong any more.                                        *)

\* No resume gets past a directory without its request, or with a home left in it.
Blocked(c) ==
    /\ status[c] = "open" /\ \A d \in Drivers : phase[d][c] \notin Live
    /\ c \notin identified \/ c \in home

\* The operator starts the last driver when the others and their runners are gone, and
\* has archived what is blocked, as in proof/campaign-20260814-v4/incidents/.
LastMayStart ==
    /\ \A d \in Drivers \ {Last}, c \in Cells : Over(d) /\ phase[d][c] \notin Live
    /\ ~edited /\ \A c \in Cells : ~Blocked(c)

LastNext ==
    /\ ~Together
    /\ \/ \E d \in Drivers \ {Last} :
            \/ driver[Last] = "idle" /\ Drive(d)
            \/ DriverKilled(d)
            \/ \E c \in Cells : Runner(d, c) \/ RunnerKilled(d, c) \/ RunnerFails(d, c)
       \/ driver[Last] = "idle" /\ EditSources
       \/ LastMayStart /\ Preflight(Last)
       \/ Gate(Last) \/ Submit(Last) \/ Report(Last)
       \/ \E c \in Cells : RunItem(Last, c) \/ Runner(Last, c)
       \/ \E c \in Cells : AgentEnds(c) \/ Archive(c)

\* The canary is sealed, by a driver that is gone.
AfterCanary ==
    /\ driver = [d \in Drivers |-> "idle"] /\ queue = [d \in Drivers |-> {}]
    /\ selected \in [Drivers -> {Cells} \cup Slices] /\ resume \in [Drivers -> BOOLEAN]
    /\ phase = [d \in Drivers |-> [c \in Cells |-> "none"]]
    /\ status = [c \in Cells |-> IF c \in Canary THEN "shut" ELSE "absent"]
    /\ sound = [c \in Cells |-> c \in Canary]
    /\ identified = Canary /\ home = {} /\ recorded = Canary /\ agents = {}
    /\ lock = [c \in Cells |-> {}] /\ written = {} /\ slipped = {} /\ edited = FALSE

LastInit == (Init \/ AfterCanary) /\ CanaryFirst /\ selected[Last] = Cells /\ resume[Last]

CampaignSpec ==
    (LastInit \/ TogetherInit) /\ [][LastNext \/ TogetherNext]_vars /\ Progress

=============================================================================
