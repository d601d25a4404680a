----------------------------- MODULE ExecuteTimed -----------------------------
(***************************************************************************)
(* execute_timed of harness/runner/runner.py: one process launched as the  *)
(* leader of a session and process group of its own, awaited for a limited *)
(* time, then signalled.  The leader may launch others, in its group or,   *)
(* like the agent's tools, in sessions of their own.                       *)
(*                                                                         *)
(* The leader is a zombie from its end until wait() or poll() reaps it;    *)
(* only then may its pid, and its group's, be given to somebody else.      *)
(* Deadlines are abstract: a wait with a timeout may expire at any time.   *)
(***************************************************************************)
EXTENDS Naturals

CONSTANTS Others,          \* the processes the leader or its children may launch
          MaxInterrupts    \* bound on exceptions raised into the waiting runner (SIGINT)

\* A second exception, in the finally clause, would leave the leader unreaped.
ASSUME InterruptsOK == MaxInterrupts \in 0..1 /\ "leader" \notin Others

VARIABLES
    pc,          \* the runner in execute_timed
    leader,      \* the launched process, and how it ended
    reaped,      \* whether the runner has waited for it
    others,      \* each other process: unborn, in the group, detached, or dead
    ignores,     \* the processes that ignore SIGTERM ("leader" included)
    timedOut, code, interrupts,
    signalled    \* the signals sent to the group
runner == <<pc, reaped, timedOut, code, interrupts, signalled>>
vars == <<pc, leader, reaped, others, ignores, timedOut, code, interrupts, signalled>>

Ends == {"zero", "nonzero", "killed"}
Waiting == {"wait", "term", "grace", "kill", "reap", "cleanup", "drain"}
Done == {"returned", "raised"}

Init ==
    /\ pc = "ready" /\ leader = "none" /\ reaped = FALSE
    /\ others = [m \in Others |-> "unborn"]
    /\ ignores \in SUBSET (Others \cup {"leader"})
    /\ timedOut = FALSE /\ code = "none" /\ interrupts = 0 /\ signalled = {}

-----------------------------------------------------------------------------
(* The processes.                                                          *)

LeaderExits ==
    /\ leader = "live" /\ leader' \in {"zero", "nonzero"}
    /\ UNCHANGED <<runner, others, ignores>>

Spawn(m) ==
    /\ others[m] = "unborn"
    /\ \/ /\ leader = "live" \/ \E p \in Others : others[p] = "group"
          /\ others' = [others EXCEPT ![m] = "group"]
       \/ /\ leader = "live" \/ \E p \in Others : others[p] \in {"group", "detached"}
          /\ others' = [others EXCEPT ![m] = "detached"]
    /\ UNCHANGED <<runner, leader, ignores>>

OtherEnds(m) ==
    /\ others[m] \in {"group", "detached"} /\ others' = [others EXCEPT ![m] = "dead"]
    /\ UNCHANGED <<runner, leader, ignores>>

\* killpg: everything in the group at this moment, and nothing outside it.
GroupAfter(spared) ==
    [m \in Others |-> IF others[m] = "group" /\ m \notin spared THEN "dead" ELSE others[m]]

\* A leader that handles SIGTERM may choose its exit code, or take its time.
Term ==
    /\ signalled' = signalled \cup {"TERM"}
    /\ others' = GroupAfter(ignores)
    /\ IF leader = "live" /\ "leader" \notin ignores
       THEN leader' \in Ends \cup {"live"} ELSE UNCHANGED leader

\* Mutant: SIGKILL to the leader alone.
KillLeader ==
    /\ signalled' = signalled \cup {"KILL"}
    /\ leader' = IF leader = "live" THEN "killed" ELSE leader
    /\ UNCHANGED others

Kill ==
    /\ signalled' = signalled \cup {"KILL"}
    /\ others' = GroupAfter({})
    /\ leader' = IF leader = "live" THEN "killed" ELSE leader

-----------------------------------------------------------------------------
(* The runner.                                                             *)

\* Opening the two output files comes before the try.
OpenFails ==
    /\ pc = "ready" /\ pc' = "raised"
    /\ UNCHANGED <<leader, reaped, others, ignores, timedOut, code, interrupts, signalled>>

Popen ==
    /\ pc = "ready"
    /\ \/ pc' = "wait" /\ leader' = "live" /\ UNCHANGED code
       \/ pc' = "returned" /\ code' = "unlaunched" /\ UNCHANGED leader    \* OSError
    /\ UNCHANGED <<reaped, others, ignores, timedOut, interrupts, signalled>>

\* A wait that finds the leader ended reaps it.
Reaps(from) ==
    /\ pc = from /\ leader \in Ends
    /\ pc' = "cleanup" /\ reaped' = TRUE /\ code' = leader
    /\ UNCHANGED <<leader, others, ignores, timedOut, interrupts, signalled>>

\* Mutant: timed_out is set only if SIGKILL was needed.
ExpiresUnmarked ==
    /\ pc = "wait" /\ pc' = "term"
    /\ UNCHANGED <<leader, reaped, others, ignores, timedOut, code, interrupts, signalled>>

WaitExpires ==
    /\ pc = "wait" /\ pc' = "term" /\ timedOut' = TRUE
    /\ UNCHANGED <<leader, reaped, others, ignores, code, interrupts, signalled>>

SendTerm ==
    /\ pc = "term" /\ pc' = "grace" /\ Term
    /\ UNCHANGED <<reaped, ignores, timedOut, code, interrupts>>

\* Mutant: the wait after SIGTERM has no timeout.
WaitsForever == FALSE /\ UNCHANGED vars

GraceExpires ==
    /\ pc = "grace" /\ pc' = "kill"
    /\ UNCHANGED <<leader, reaped, others, ignores, timedOut, code, interrupts, signalled>>

SendKill ==
    /\ pc = "kill" /\ pc' = "reap" /\ Kill
    /\ UNCHANGED <<reaped, ignores, timedOut, code, interrupts>>

\* An exception that is not an OSError goes to the finally clause, and out of it.
Interrupt ==
    /\ pc \in Waiting /\ interrupts < MaxInterrupts
    /\ interrupts' = interrupts + 1
    /\ pc' = IF pc \in {"cleanup", "drain"} THEN "raised" ELSE "cleanup"
    /\ UNCHANGED <<leader, reaped, others, ignores, timedOut, code, signalled>>

\* Where the finally clause leads: on, or out with the exception.
Leaves == IF code = "none" THEN "raised" ELSE "returned"

\* Mutant: the finally clause signals the group without polling the leader.
CleanupUnpolled ==
    /\ pc = "cleanup" /\ pc' = "drain" /\ Kill
    /\ UNCHANGED <<reaped, ignores, timedOut, code, interrupts>>

\* The finally clause: poll() reaps a leader that has ended, and one that has not is
\* killed with its group.
Cleanup ==
    /\ pc = "cleanup"
    /\ \/ /\ leader \in Ends
          /\ pc' = Leaves /\ reaped' = TRUE
          /\ UNCHANGED <<leader, others, signalled>>
       \/ /\ leader = "live"
          /\ pc' = "drain" /\ Kill
          /\ UNCHANGED reaped
    /\ UNCHANGED <<ignores, timedOut, code, interrupts>>

Drain ==
    /\ pc = "drain" /\ leader \in Ends
    /\ pc' = Leaves /\ reaped' = TRUE
    /\ UNCHANGED <<leader, others, ignores, timedOut, code, interrupts, signalled>>

Call ==
    \/ OpenFails \/ Popen \/ Reaps("wait") \/ WaitExpires \/ SendTerm
    \/ Reaps("grace") \/ GraceExpires \/ SendKill \/ Reaps("reap")
    \/ Cleanup \/ Drain

Next ==
    \/ Call \/ Interrupt \/ LeaderExits
    \/ \E m \in Others : Spawn(m) \/ OtherEnds(m)

Spec == Init /\ [][Next]_vars

\* A runner that waits is scheduled again, at the latest at its deadline.
FairSpec == Spec /\ WF_vars(Call)

-----------------------------------------------------------------------------
(* Properties.                                                             *)

TypeOK ==
    /\ pc \in {"ready"} \cup Waiting \cup Done
    /\ leader \in {"none", "live"} \cup Ends
    /\ reaped \in BOOLEAN /\ timedOut \in BOOLEAN
    /\ others \in [Others -> {"unborn", "group", "detached", "dead"}]
    /\ ignores \subseteq Others \cup {"leader"}
    /\ code \in {"none", "unlaunched"} \cup Ends
    /\ interrupts \in 0..MaxInterrupts
    /\ signalled \subseteq {"TERM", "KILL"}

\* What the caller reads off the status.
Status == IF pc # "returned" THEN "none" ELSE IF timedOut THEN "timeout" ELSE code

\* The caller's view: the call is open from the launch until it returns or raises.
Promise == INSTANCE TimedCall WITH
    phase <- IF pc \in Waiting THEN "open" ELSE pc,
    child <- leader,
    limit <- timedOut \/ "TERM" \in signalled,
    outcome <- Status

\* execute_timed keeps its promise to run_one, whatever the launched processes do: the
\* leader is gone when it is left, a time-out is reported as one, and any other exit
\* code is the leader's own.
KeepsPromise == Promise!CallSpec

\* execute_timed comes back, whatever ignores SIGTERM.
ComesBack == Promise!CallEnds

\* No signal is ever sent to the group of a leader that was reaped: the group id could
\* be somebody else's by then.
SignalsOwnGroup == [][signalled' # signalled => ~reaped]_vars

\* When execute_timed is left, by return or exception, the leader is not a zombie, and
\* no process that was in its group when SIGKILL was needed still runs.
LeavesNothing ==
    pc \in Done /\ leader # "none" =>
        /\ reaped
        /\ "KILL" \in signalled => \A m \in Others : others[m] # "group"
=============================================================================
