------------------------------ MODULE Campaign ------------------------------
(***************************************************************************)
(* The campaign driver (scripts/run_campaign.py) over all run directories: *)
(* the checks before a campaign, the canary gate, the thread pool and the  *)
(* runner subprocesses, with drivers and runners that are killed.  A       *)
(* runner outlives its driver, and an agent its runner.                    *)
(*                                                                         *)
(* A runner is run_one at the grain of RunCell, with its lock.  The lock   *)
(* does not always exclude: slipped are the cells where a runner met one   *)
(* of its windows.  What two runners do to each other's files in such a    *)
(* cell is RunDir's.                                                       *)
(***************************************************************************)
EXTENDS Naturals, FiniteSets

CONSTANTS Cells,      \* the plan: task x attempt x route
          Canary,     \* attempt 1 of the canary task on every route
          Slices,     \* what --start-index and --limit can select
          Drivers,    \* invocations of the driver
          Jobs,       \* --jobs
          Edits,      \* may somebody edit the frozen sources, and restore them?
          KillDriver, KillRunner,   \* drivers that may be killed, phases a runner may stop in
          Outcomes                  \* what each completed cell may turn out to be

Preparing == {"fresh", "resume", "made"}   \* spawned, with --resume or without; has made it
Looking == {"unlocked", "looked", "stale", "relock"}   \* knows of no COMPLETE, has no lock yet
Locked == {"pidless", "locked", "working", "recorded", "grading"}
Inside == Locked \cup {"released", "sealing"}
Live == Preparing \cup Looking \cup Inside
Ended == {"ok", "bad"}                 \* return code 0, or another
Phases == {"none"} \cup Live \cup Ended
Statuses == {"absent", "open", "complete", "shut"}

ASSUME CampaignOK ==
    /\ Canary \subseteq Cells /\ Slices \subseteq (SUBSET Cells) \ {Canary}
    /\ Jobs \in Nat \ {0} /\ Edits \in BOOLEAN
    /\ KillDriver \subseteq Drivers /\ KillRunner \subseteq Live
    /\ Outcomes \in [Cells -> SUBSET BOOLEAN]

VARIABLES
    driver, selected, resume, queue,   \* each driver: where it is, its arguments, its pool
    phase,                             \* each driver's runner for each cell
    status, sound,                     \* each cell, as in RunCell
    identified, home, recorded,        \* cells with request.json, .hermes-home, an agent's exit
    agents,                            \* cells with an agent at work
    lock, written,                     \* each cell's lock: whose it is; cells with a pid in it
    slipped,                           \* cells where a window of the lock was met (history)
    edited                             \* whether the frozen sources are edited
driverVars == <<driver, selected, resume, queue>>
lockVars == <<lock, written, slipped>>
cellVars == <<status, sound, identified, home, recorded, agents, lockVars>>
vars == <<driverVars, phase, cellVars, edited>>

IsCanary(d) == selected[d] = Canary

Init ==
    /\ driver = [d \in Drivers |-> "idle"]
    /\ selected \in [Drivers -> {Canary, Cells} \cup Slices]
    /\ resume \in [Drivers -> BOOLEAN]
    /\ queue = [d \in Drivers |-> {}]
    /\ phase = [d \in Drivers |-> [c \in Cells |-> "none"]]
    /\ status = [c \in Cells |-> "absent"] /\ sound = [c \in Cells |-> FALSE]
    /\ identified = {} /\ home = {} /\ recorded = {} /\ agents = {}
    /\ lock = [c \in Cells |-> {}] /\ written = {} /\ slipped = {}
    /\ edited = FALSE

-----------------------------------------------------------------------------
(* The driver.                                                             *)

\* The sources, the Hermes runtime and the graders are verified first.
Preflight(d) ==
    /\ driver[d] = "idle"
    /\ driver' = [driver EXCEPT ![d] = IF edited THEN "refused" ELSE
                                       IF IsCanary(d) THEN "submit" ELSE "gate"]
    /\ UNCHANGED <<selected, resume, queue, phase, cellVars, edited>>

\* verify_cell with require_successful_canary.
Eligible(c) == status[c] = "shut" /\ sound[c] /\ c \notin home

\* Mutant: the canaries need not have been successful.
GateOnSeals(d) ==
    /\ driver[d] = "gate"
    /\ driver' = [driver EXCEPT ![d] = IF \A c \in Canary : status[c] = "shut"
                                       THEN "submit" ELSE "refused"]
    /\ UNCHANGED <<selected, resume, queue, phase, cellVars, edited>>

\* verify_campaign_integrity over the canary, beside other planned cells.  The checksums of
\* a cell that two runners shared may not hold.
Gate(d) ==
    /\ driver[d] = "gate"
    /\ \/ (\A c \in Canary : Eligible(c)) /\ driver' = [driver EXCEPT ![d] = "submit"]
       \/ (\E c \in Canary : ~Eligible(c) \/ c \in slipped) /\ driver' = [driver EXCEPT ![d] = "refused"]
    /\ UNCHANGED <<selected, resume, queue, phase, cellVars, edited>>

Submit(d) ==
    /\ driver[d] = "submit"
    /\ driver' = [driver EXCEPT ![d] = "pool"]
    /\ queue' = [queue EXCEPT ![d] = selected[d]]
    /\ UNCHANGED <<selected, resume, phase, cellVars, edited>>

\* The workers of the pool that have a runner.
Busy(d) == Cardinality({c \in Cells : phase[d][c] \in Live})


\* A worker takes an item: --resume is passed if the directory is there now.
RunItem(d, c) ==
    /\ driver[d] = "pool" /\ c \in queue[d] /\ Busy(d) < Jobs
    /\ queue' = [queue EXCEPT ![d] = @ \ {c}]
    /\ phase' = [phase EXCEPT ![d][c] =
                    IF resume[d] /\ status[c] # "absent" THEN "resume" ELSE "fresh"]
    /\ UNCHANGED <<driver, selected, resume, cellVars, edited>>

\* Mutant: it is 0 if any runner's is.
ReportAny(d) ==
    /\ driver[d] = "pool" /\ queue[d] = {} /\ Busy(d) = 0
    /\ driver' = [driver EXCEPT ![d] = IF \E c \in selected[d] : phase[d][c] = "ok"
                                       THEN "zero" ELSE "one"]
    /\ UNCHANGED <<selected, resume, queue, phase, cellVars, edited>>

Report(d) ==
    /\ driver[d] = "pool" /\ queue[d] = {} /\ Busy(d) = 0
    /\ driver' = [driver EXCEPT ![d] = IF \A c \in selected[d] : phase[d][c] = "ok"
                                       THEN "zero" ELSE "one"]
    /\ UNCHANGED <<selected, resume, queue, phase, cellVars, edited>>

-----------------------------------------------------------------------------
(* One runner subprocess: validate_common and run_one.                     *)

Becomes(d, c, from, to) == phase[d][c] = from /\ phase' = [phase EXCEPT ![d][c] = to]

\* Whether another runner of the cell is in one of these phases.
OtherIn(d, c, phases) == \E e \in Drivers \ {d} : phase[e][c] \in phases
Slips(c, condition) == slipped' = IF condition THEN slipped \cup {c} ELSE slipped

\* Nothing is created, replaced or removed in a read-only directory.
Writable(c) == status[c] # "shut"

\* validate_common verifies the sources; a fresh run needs the directory not to exist.
BeginFresh(d, c) ==
    /\ IF ~edited /\ status[c] = "absent"
       THEN Becomes(d, c, "fresh", "made") /\ status' = [status EXCEPT ![c] = "open"]
       ELSE Becomes(d, c, "fresh", "bad") /\ UNCHANGED status
    /\ UNCHANGED <<driverVars, sound, identified, home, recorded, agents, lockVars, edited>>

\* request.json.
Identify(d, c) ==
    /\ Becomes(d, c, "made", "unlocked")
    /\ identified' = identified \cup {c}
    /\ UNCHANGED <<driverVars, status, sound, home, recorded, agents, lockVars, edited>>

\* --resume: a completed directory is reported if its checksums hold, and they do unless
\* two runners shared it; an incomplete one is to be locked.
BeginResume(d, c) ==
    /\ \/ /\ edited \/ c \notin identified
          /\ Becomes(d, c, "resume", "bad")
       \/ /\ ~edited /\ c \in identified /\ status[c] \in {"complete", "shut"}
          /\ \/ Becomes(d, c, "resume", "ok")
             \/ c \in slipped /\ Becomes(d, c, "resume", "bad")
       \/ /\ ~edited /\ c \in identified /\ status[c] = "open"
          /\ Becomes(d, c, "resume", "looked")
    /\ UNCHANGED <<driverVars, cellVars, edited>>

\* The exclusive creation of the lock, still empty.  The window of line 1020: another has
\* released its lock and not written COMPLETE; that of line 572: another has read an older
\* lock, and will unlink this one.
Enter(d, c, from) ==
    /\ lock[c] = {} /\ Writable(c)
    /\ Becomes(d, c, from, "pidless")
    /\ lock' = [lock EXCEPT ![c] = {d}] /\ written' = written \ {c}
    /\ Slips(c, OtherIn(d, c, {"released", "stale"}))
    /\ UNCHANGED <<driverVars, status, sound, identified, home, recorded, agents, edited>>

\* Mutant: whether the pid in the lock is alive is not asked.
FindsAnyStale(d, c) ==
    /\ lock[c] # {} /\ Becomes(d, c, "looked", "stale")
    /\ Slips(c, c \notin written /\ OtherIn(d, c, Locked))
    /\ UNCHANGED <<driverVars, status, sound, identified, home, recorded, agents, lock, written, edited>>

\* A resume takes a lock for stale whose runner is dead, or whose pid is not in it: the
\* window of line 565, if that runner is about to write it.
FindStale(d, c) ==
    /\ lock[c] # {} /\ (c \notin written \/ \A e \in lock[c] : phase[e][c] \notin Live)
    /\ Becomes(d, c, "looked", "stale")
    /\ Slips(c, c \notin written /\ OtherIn(d, c, Locked))
    /\ UNCHANGED <<driverVars, status, sound, identified, home, recorded, agents, lock, written, edited>>

\* acquire_lock raises: a live runner's lock, any lock for a runner that is not resumed,
\* a lock that came after the stale one was unlinked, or a read-only directory.
LockRefused(d, c) ==
    /\ \/ ~Writable(c) /\ phase[d][c] \in Looking
       \/ lock[c] # {} /\ phase[d][c] \in {"unlocked", "relock"}
       \/ c \in written /\ phase[d][c] = "looked" /\ \E e \in lock[c] : phase[e][c] \in Live
    /\ phase' = [phase EXCEPT ![d][c] = "bad"]
    /\ UNCHANGED <<driverVars, cellVars, edited>>

\* The lock is unlinked, whoever's it is by now.
Unlocks(c) == lock' = [lock EXCEPT ![c] = {}] /\ written' = written \ {c}

Break(d, c) ==
    /\ Writable(c) /\ Becomes(d, c, "stale", "relock") /\ Unlocks(c)
    /\ UNCHANGED <<driverVars, status, sound, identified, home, recorded, agents, slipped, edited>>

AcquireLock(d, c) ==
    \/ \E from \in {"unlocked", "looked", "relock"} : Enter(d, c, from)
    \/ FindStale(d, c) \/ LockRefused(d, c) \/ Break(d, c)

\* The pid, into the file that was created, if it is still there.
WritePid(d, c) ==
    /\ Becomes(d, c, "pidless", "locked")
    /\ written' = IF lock[c] = {d} THEN written \cup {c} ELSE written
    /\ UNCHANGED <<driverVars, status, sound, identified, home, recorded, agents, lock, slipped, edited>>

\* An agent that ran is not run again, and one whose home is still there is in the way.
\* (What was recorded is read a moment before: another may have recorded it since.)
Launch(d, c) ==
    /\ Writable(c)
    /\ \/ /\ c \in recorded
          /\ Becomes(d, c, "locked", "grading") /\ UNCHANGED <<home, agents, lock, written>>
       \/ /\ c \notin recorded \/ c \in slipped
          /\ c \notin home /\ Becomes(d, c, "locked", "working")
          /\ home' = home \cup {c} /\ agents' = agents \cup {c} /\ UNCHANGED <<lock, written>>
       \/ /\ c \notin recorded \/ c \in slipped
          /\ c \in home /\ Becomes(d, c, "locked", "bad")
          /\ Unlocks(c) /\ UNCHANGED <<home, agents>>
    /\ UNCHANGED <<driverVars, status, sound, identified, recorded, slipped, edited>>

\* Mutant: the agent has no time limit.
NoLimit(d, c) == FALSE /\ UNCHANGED vars

\* The agent's time limit: its runner ends it.
TimeOut(d, c) ==
    /\ phase[d][c] = "working" /\ c \in agents /\ agents' = agents \ {c}
    /\ UNCHANGED <<driverVars, phase, status, sound, identified, home, recorded, lockVars, edited>>

\* The agent ended and its home is removed; a home that survives is an error.
Reap(d, c) ==
    /\ c \notin agents
    /\ \/ Writable(c) /\ Becomes(d, c, "working", "recorded") /\ home' = home \ {c}
       \/ ~Writable(c) /\ Becomes(d, c, "working", "bad") /\ UNCHANGED home
    /\ UNCHANGED <<driverVars, status, sound, identified, recorded, agents, lockVars, edited>>

Record(d, c) ==
    /\ Writable(c) /\ Becomes(d, c, "recorded", "grading")
    /\ recorded' = recorded \cup {c}
    /\ UNCHANGED <<driverVars, status, sound, identified, home, agents, lockVars, edited>>

\* The grade, the result, and the release of the lock.
Release(d, c) ==
    /\ Writable(c) /\ Becomes(d, c, "grading", "released") /\ Unlocks(c)
    /\ UNCHANGED <<driverVars, status, sound, identified, home, recorded, agents, slipped, edited>>

\* The checksums and COMPLETE.  The window of line 861: another looked for it before, and
\* will not again.
Complete(d, c) ==
    /\ Writable(c) /\ Becomes(d, c, "released", "sealing")
    /\ status' = [status EXCEPT ![c] = "complete"]
    /\ \E s \in Outcomes[c] : sound' = [sound EXCEPT ![c] = s]
    /\ Slips(c, OtherIn(d, c, Looking))
    /\ UNCHANGED <<driverVars, identified, home, recorded, agents, lock, written, edited>>

Shut(d, c) ==
    /\ Becomes(d, c, "sealing", "ok")
    /\ status' = [status EXCEPT ![c] = "shut"]
    /\ UNCHANGED <<driverVars, sound, identified, home, recorded, agents, lockVars, edited>>

\* Another has sealed the directory meanwhile: what is to be written next raises.
Denied(d, c) ==
    /\ ~Writable(c) /\ phase[d][c] \in {"locked", "recorded", "grading", "released"}
    /\ phase' = [phase EXCEPT ![d][c] = "bad"]
    /\ UNCHANGED <<driverVars, cellVars, edited>>

Runner(d, c) ==
    \/ BeginFresh(d, c) \/ Identify(d, c) \/ BeginResume(d, c)
    \/ AcquireLock(d, c) \/ WritePid(d, c)
    \/ Launch(d, c) \/ TimeOut(d, c) \/ Reap(d, c) \/ Record(d, c)
    \/ Release(d, c) \/ Complete(d, c) \/ Shut(d, c) \/ Denied(d, c)

\* Hermes reaches its own end.
AgentEnds(c) ==
    /\ c \in agents /\ agents' = agents \ {c}
    /\ UNCHANGED <<driverVars, phase, status, sound, identified, home, recorded, lockVars, edited>>

-----------------------------------------------------------------------------
(* What goes wrong, and what the operator does.                            *)

\* SIGTERM or SIGKILL to the driver: its threads are gone, its runners are not.
DriverKilled(d) ==
    /\ d \in KillDriver /\ driver[d] \in {"gate", "submit", "pool"}
    /\ driver' = [driver EXCEPT ![d] = "killed"]
    /\ queue' = [queue EXCEPT ![d] = {}]
    /\ UNCHANGED <<selected, resume, phase, cellVars, edited>>

\* A runner is killed: its agent, its home and its lock stay.
RunnerKilled(d, c) ==
    /\ phase[d][c] \in KillRunner
    /\ phase' = [phase EXCEPT ![d][c] = "bad"]
    /\ UNCHANGED <<driverVars, cellVars, edited>>

\* An exception in the body of run_one: the agent is ended and its home removed, and the
\* lock unlinked, as far as the directory can be written.
RunnerFails(d, c) ==
    /\ phase[d][c] \in (KillRunner \cap Inside) \ {"pidless"}
    /\ phase' = [phase EXCEPT ![d][c] = "bad"]
    /\ agents' = IF phase[d][c] = "working" THEN agents \ {c} ELSE agents
    /\ home' = IF phase[d][c] = "working" /\ Writable(c) THEN home \ {c} ELSE home
    /\ IF Writable(c) THEN Unlocks(c) ELSE UNCHANGED <<lock, written>>
    /\ UNCHANGED <<driverVars, status, sound, identified, recorded, slipped, edited>>

\* Somebody edits the sources, or restores them.
EditSources ==
    /\ Edits /\ edited' = ~edited
    /\ UNCHANGED <<driverVars, phase, cellVars>>

\* An incomplete directory nothing works in is moved out of the way.
Archive(c) ==
    /\ status[c] = "open" /\ c \notin agents
    /\ \A d \in Drivers : phase[d][c] \notin Live
    /\ status' = [status EXCEPT ![c] = "absent"]
    /\ identified' = identified \ {c} /\ home' = home \ {c} /\ recorded' = recorded \ {c}
    /\ Unlocks(c) /\ slipped' = slipped \ {c}
    /\ UNCHANGED <<driverVars, phase, sound, agents, edited>>

Drive(d) ==
    \/ Preflight(d) \/ Gate(d) \/ Submit(d) \/ Report(d)
    \/ \E c \in Cells : RunItem(d, c)

Next ==
    \/ \E d \in Drivers :
         \/ Drive(d) \/ DriverKilled(d)
         \/ \E c \in Cells : Runner(d, c) \/ RunnerKilled(d, c) \/ RunnerFails(d, c)
    \/ \E c \in Cells : AgentEnds(c) \/ Archive(c)
    \/ EditSources

Spec == Init /\ [][Next]_vars

\* A driver that has verified what it verifies goes on, and so does a runner.
Progress ==
    /\ \A d \in Drivers : WF_vars(Submit(d)) /\ WF_vars(Report(d))
    /\ \A d \in Drivers, c \in Cells : WF_vars(RunItem(d, c)) /\ WF_vars(Runner(d, c))

FairSpec == Spec /\ Progress

-----------------------------------------------------------------------------
(* Properties.                                                             *)

\* Every variable keeps its type.
TypeOK ==
    /\ driver \in [Drivers -> {"idle", "gate", "submit", "pool", "zero", "one",
                                "refused", "killed"}]
    /\ selected \in [Drivers -> SUBSET Cells] /\ resume \in [Drivers -> BOOLEAN]
    /\ queue \in [Drivers -> SUBSET Cells]
    /\ phase \in [Drivers -> [Cells -> Phases]]
    /\ status \in [Cells -> Statuses] /\ sound \in [Cells -> BOOLEAN]
    /\ identified \subseteq Cells /\ home \subseteq Cells /\ recorded \subseteq Cells
    /\ agents \subseteq Cells /\ edited \in BOOLEAN
    /\ lock \in [Cells -> SUBSET Drivers] /\ written \subseteq Cells /\ slipped \subseteq Cells

\* No cell outside the canary is created, by whatever driver and however late its
\* runner, unless every canary is sealed and successful at that moment.
GateHolds ==
    [][\A c \in Cells \ Canary : status[c] = "absent" /\ status'[c] # "absent"
          => \A k \in Canary : Eligible(k)]_vars

\* A driver that returns 0 leaves every cell it selected complete, and they stay so.
ZeroMeansComplete ==
    \A d \in Drivers : driver[d] = "zero" =>
        \A c \in selected[d] : status[c] \in {"complete", "shut"}

At(c) == INSTANCE RunCell WITH
    status <- status[c], working <- c \in agents, sound <- sound[c]

\* Outside the four windows of the lock, it excludes: however drivers and runners overlap,
\* fail, are killed and are started again, every cell in which none of them was met is a
\* RunCell, with one agent at a time, none in a complete cell, and an outcome that is final.
CellsKeepPromise ==
    [][\A c \in Cells \ slipped : [At(c)!CellNext]_(At(c)!cellVars)]_vars

\* A driver whose pool was filled returns, unless it is killed.
DriversReturn ==
    \A d \in Drivers : driver[d] = "pool" ~> driver[d] \in {"zero", "one", "killed"}
=============================================================================
