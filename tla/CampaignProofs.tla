--------------------------- MODULE CampaignProofs ---------------------------
(***************************************************************************)
(* What the campaign guarantees for every plan, every number of drivers    *)
(* and every --jobs: the canary gate, the driver's return code, and that   *)
(* every cell in which no window of the lock was met is a RunCell.         *)
(*                                                                         *)
(* The gate and the return code need nothing of the lock: COMPLETE is      *)
(* never removed, and a read-only directory takes no new home and no other *)
(* outcome.  For the cells, the invariant says what the lock is worth:     *)
(* outside its windows whoever is past it owns it (Alone).                 *)
(***************************************************************************)
EXTENDS Campaign, TLAPS

\* What holds of a cell whatever its lock does.
Basic(c) ==
    /\ \A d \in Drivers :
          /\ phase[d][c] \in Looking \cup Inside => c \in identified
          /\ phase[d][c] = "made" => status[c] = "open" /\ c \notin identified
          /\ phase[d][c] \in {"sealing", "ok"} => status[c] \in {"complete", "shut"}
    /\ \A d, e \in Drivers : phase[d][c] = "made" /\ phase[e][c] = "made" => d = e
    /\ c \in identified => status[c] # "absent"
    /\ c \in agents => c \in home

\* What holds of a cell in which no window of the lock was met: whoever is past the lock is
\* alone, nobody who holds a lock for stale is mistaken, nobody looks at a directory that
\* is complete by now, and no agent is at work in what is recorded.
Alone(c) ==
    /\ \A d \in Drivers :
          /\ phase[d][c] \in Locked => lock[c] = {d}
          /\ phase[d][c] \in Looking \cup Locked \cup {"released"} => status[c] = "open"
          /\ phase[d][c] \in {"recorded", "grading", "released"} => c \notin agents
    /\ \A d, e \in Drivers :
          /\ phase[d][c] \in Inside /\ phase[e][c] \in Inside => d = e
          /\ phase[d][c] = "stale" => phase[e][c] \notin Locked
    /\ c \in agents => c \notin recorded

CellInv(c) == Basic(c) /\ (c \notin slipped => Alone(c))

\* Whoever may create a cell outside the canary was let past the gate.
Gated ==
    /\ \A d \in Drivers : queue[d] \subseteq selected[d]
    /\ \A d \in Drivers : driver[d] \in {"submit", "pool"} /\ ~IsCanary(d) =>
          \A k \in Canary : Eligible(k)
    /\ \A d \in Drivers, c \in Cells \ Canary : phase[d][c] = "fresh" =>
          \A k \in Canary : Eligible(k)

IInv == TypeOK /\ (\A c \in Cells : CellInv(c)) /\ Gated /\ ZeroMeansComplete

LEMMA InitIInv == Init => IInv
  <1> SUFFICES ASSUME Init PROVE IInv
      OBVIOUS
  <1> USE CampaignOK DEF Init
  <1>0. {Canary, Cells} \cup Slices \subseteq SUBSET Cells
        OBVIOUS
  <1>1. TypeOK
    <2>1. selected \in [Drivers -> SUBSET Cells]
          BY <1>0
    <2>2. QED
          BY <2>1 DEF TypeOK, Phases, Statuses
  <1>2. ASSUME NEW c \in Cells PROVE CellInv(c)
        BY DEF CellInv, Basic, Alone, Looking, Inside, Locked
  <1>3. Gated
        BY DEF Gated
  <1>4. ZeroMeansComplete
        BY DEF ZeroMeansComplete
  <1>5. QED
        BY <1>1, <1>2, <1>3, <1>4 DEF IInv

\* The phases, listed.
LEMMA PhaseSets ==
  /\ {"fresh", "resume", "made", "unlocked", "looked", "stale", "relock", "pidless", "locked",
      "working", "recorded", "grading", "released", "sealing", "ok", "bad"} \subseteq Phases
  /\ {"open", "complete", "shut", "absent"} \subseteq Statuses
  BY DEF Phases, Live, Preparing, Looking, Inside, Locked, Ended, Statuses

\* What a runner's step does to the phases.
Moved(d, c, from, to) ==
    /\ phase[d][c] = from /\ phase'[d][c] = to
    /\ \A e \in Drivers, b \in Cells : e # d \/ b # c => phase'[e][b] = phase[e][b]

LEMMA BecomesMoves ==
  ASSUME TypeOK, NEW d \in Drivers, NEW c \in Cells, NEW from, NEW to, Becomes(d, c, from, to)
  PROVE  Moved(d, c, from, to) /\ (to \in Phases => phase' \in [Drivers -> [Cells -> Phases]])
  BY DEF Becomes, Moved, TypeOK

\* The same for the steps that end a runner at any of several points.
LEMMA EndsMoves ==
  ASSUME TypeOK, NEW d \in Drivers, NEW c \in Cells, phase' = [phase EXCEPT ![d][c] = "bad"]
  PROVE  Moved(d, c, phase[d][c], "bad") /\ phase' \in [Drivers -> [Cells -> Phases]]
  BY PhaseSets DEF Moved, TypeOK

-----------------------------------------------------------------------------
(* Types.                                                                  *)

LEMMA RunnerTypes ==
  ASSUME TypeOK, NEW d \in Drivers, NEW c \in Cells, Runner(d, c)
  PROVE  TypeOK'
  <1> USE PhaseSets DEF driverVars, lockVars
  <1>1. CASE BeginFresh(d, c)
    <2>1. phase' \in [Drivers -> [Cells -> Phases]]
          BY <1>1, BecomesMoves DEF BeginFresh
    <2>2. status' \in [Cells -> Statuses]
          BY <1>1 DEF BeginFresh, TypeOK
    <2>3. QED
          BY <1>1, <2>1, <2>2 DEF BeginFresh, TypeOK
  <1>2. CASE Identify(d, c)
        BY <1>2, BecomesMoves DEF Identify, TypeOK
  <1>3. CASE BeginResume(d, c)
    <2>1. phase' \in [Drivers -> [Cells -> Phases]]
          BY <1>3, BecomesMoves DEF BeginResume
    <2>2. QED
          BY <1>3, <2>1 DEF BeginResume, TypeOK, cellVars
  <1>4. CASE AcquireLock(d, c)
    <2>1. ASSUME NEW from \in {"unlocked", "looked", "relock"}, Enter(d, c, from) PROVE TypeOK'
      <3>1. phase' \in [Drivers -> [Cells -> Phases]]
            BY <2>1, BecomesMoves DEF Enter
      <3>2. lock' \in [Cells -> SUBSET Drivers]
            BY <2>1 DEF Enter, TypeOK
      <3>3. written' \subseteq Cells /\ slipped' \subseteq Cells
            BY <2>1 DEF Enter, Slips, TypeOK
      <3>4. QED
            BY <2>1, <3>1, <3>2, <3>3 DEF Enter, TypeOK
    <2>2. CASE FindStale(d, c)
      <3>1. phase' \in [Drivers -> [Cells -> Phases]]
            BY <2>2, BecomesMoves DEF FindStale
      <3>2. slipped' \subseteq Cells
            BY <2>2 DEF FindStale, Slips, TypeOK
      <3>3. QED
            BY <2>2, <3>1, <3>2 DEF FindStale, TypeOK
    <2>3. CASE LockRefused(d, c)
          BY <2>3, EndsMoves DEF LockRefused, TypeOK, cellVars
    <2>4. CASE Break(d, c)
      <3>1. phase' \in [Drivers -> [Cells -> Phases]]
            BY <2>4, BecomesMoves DEF Break
      <3>2. lock' \in [Cells -> SUBSET Drivers] /\ written' \subseteq Cells
            BY <2>4 DEF Break, Unlocks, TypeOK
      <3>3. QED
            BY <2>4, <3>1, <3>2 DEF Break, TypeOK
    <2>5. QED
          BY <1>4, <2>1, <2>2, <2>3, <2>4 DEF AcquireLock
  <1>5. CASE WritePid(d, c)
    <2>1. phase' \in [Drivers -> [Cells -> Phases]]
          BY <1>5, BecomesMoves DEF WritePid
    <2>2. written' \subseteq Cells
          BY <1>5 DEF WritePid, TypeOK
    <2>3. QED
          BY <1>5, <2>1, <2>2 DEF WritePid, TypeOK
  <1>6. CASE Launch(d, c)
    <2>1. phase' \in [Drivers -> [Cells -> Phases]]
          BY <1>6, BecomesMoves DEF Launch
    <2>2. home' \subseteq Cells /\ agents' \subseteq Cells
          BY <1>6 DEF Launch, TypeOK
    <2>3. lock' \in [Cells -> SUBSET Drivers] /\ written' \subseteq Cells
          BY <1>6 DEF Launch, Unlocks, TypeOK
    <2>4. QED
          BY <1>6, <2>1, <2>2, <2>3 DEF Launch, TypeOK
  <1>7. CASE TimeOut(d, c)
        BY <1>7 DEF TimeOut, TypeOK
  <1>8. CASE Reap(d, c)
    <2>1. phase' \in [Drivers -> [Cells -> Phases]]
          BY <1>8, BecomesMoves DEF Reap
    <2>2. home' \subseteq Cells
          BY <1>8 DEF Reap, TypeOK
    <2>3. QED
          BY <1>8, <2>1, <2>2 DEF Reap, TypeOK
  <1>9. CASE Record(d, c)
        BY <1>9, BecomesMoves DEF Record, TypeOK
  <1>10. CASE Release(d, c)
    <2>1. phase' \in [Drivers -> [Cells -> Phases]]
          BY <1>10, BecomesMoves DEF Release
    <2>2. lock' \in [Cells -> SUBSET Drivers] /\ written' \subseteq Cells
          BY <1>10 DEF Release, Unlocks, TypeOK
    <2>3. QED
          BY <1>10, <2>1, <2>2 DEF Release, TypeOK
  <1>11. CASE Complete(d, c)
    <2>1. phase' \in [Drivers -> [Cells -> Phases]]
          BY <1>11, BecomesMoves DEF Complete
    <2>2. sound' \in [Cells -> BOOLEAN] /\ status' \in [Cells -> Statuses]
      <3>1. PICK s \in Outcomes[c] : sound' = [sound EXCEPT ![c] = s]
            BY <1>11 DEF Complete
      <3>2. s \in BOOLEAN
            BY <3>1, CampaignOK
      <3>3. QED
            BY <1>11, <3>1, <3>2 DEF Complete, TypeOK
    <2>3. slipped' \subseteq Cells
          BY <1>11 DEF Complete, Slips, TypeOK
    <2>4. QED
          BY <1>11, <2>1, <2>2, <2>3 DEF Complete, TypeOK
  <1>12. CASE Shut(d, c)
        BY <1>12, BecomesMoves DEF Shut, TypeOK
  <1>13. CASE Denied(d, c)
        BY <1>13, EndsMoves DEF Denied, TypeOK, cellVars
  <1>14. QED
        BY <1>1, <1>2, <1>3, <1>4, <1>5, <1>6, <1>7, <1>8, <1>9, <1>10, <1>11, <1>12, <1>13 DEF Runner

LEMMA TypeNext == TypeOK /\ [Next]_vars => TypeOK'
  <1> SUFFICES ASSUME TypeOK, [Next]_vars PROVE TypeOK'
      OBVIOUS
  <1> USE PhaseSets DEF driverVars, lockVars
  <1>1. ASSUME NEW d \in Drivers, Preflight(d) PROVE TypeOK'
        BY <1>1 DEF Preflight, cellVars, TypeOK
  <1>2. ASSUME NEW d \in Drivers, Gate(d) PROVE TypeOK'
        BY <1>2 DEF Gate, cellVars, TypeOK
  <1>3. ASSUME NEW d \in Drivers, Submit(d) PROVE TypeOK'
        BY <1>3 DEF Submit, cellVars, TypeOK
  <1>4. ASSUME NEW d \in Drivers, Report(d) PROVE TypeOK'
        BY <1>4 DEF Report, cellVars, TypeOK
  <1>5. ASSUME NEW d \in Drivers, DriverKilled(d) PROVE TypeOK'
        BY <1>5 DEF DriverKilled, cellVars, TypeOK
  <1>6. ASSUME NEW d \in Drivers, NEW c \in Cells, RunItem(d, c) PROVE TypeOK'
        BY <1>6 DEF RunItem, cellVars, TypeOK
  <1>7. ASSUME NEW d \in Drivers, NEW c \in Cells, RunnerKilled(d, c) PROVE TypeOK'
        BY <1>7, EndsMoves DEF RunnerKilled, cellVars, TypeOK
  <1>8. ASSUME NEW d \in Drivers, NEW c \in Cells, RunnerFails(d, c) PROVE TypeOK'
    <2>1. home' \subseteq Cells /\ agents' \subseteq Cells
          BY <1>8 DEF RunnerFails, TypeOK
    <2>2. lock' \in [Cells -> SUBSET Drivers] /\ written' \subseteq Cells
          BY <1>8 DEF RunnerFails, Unlocks, TypeOK
    <2>3. QED
          BY <1>8, <2>1, <2>2, EndsMoves DEF RunnerFails, TypeOK
  <1>9. ASSUME NEW c \in Cells, AgentEnds(c) PROVE TypeOK'
        BY <1>9 DEF AgentEnds, TypeOK
  <1>10. ASSUME NEW c \in Cells, Archive(c) PROVE TypeOK'
    <2>1. lock' \in [Cells -> SUBSET Drivers] /\ written' \subseteq Cells
          BY <1>10 DEF Archive, Unlocks, TypeOK
    <2>2. QED
          BY <1>10, <2>1 DEF Archive, TypeOK
  <1>11. CASE EditSources \/ UNCHANGED vars
        BY <1>11 DEF EditSources, vars, cellVars, TypeOK
  <1>12. QED
        BY RunnerTypes, <1>1, <1>2, <1>3, <1>4, <1>5, <1>6, <1>7, <1>8, <1>9, <1>10, <1>11 DEF Next, Drive

-----------------------------------------------------------------------------
(* One cell.                                                               *)

\* What the invariant of a cell reads of it.
Same(b) ==
    /\ status'[b] = status[b] /\ lock'[b] = lock[b]
    /\ \A e \in Drivers : phase'[e][b] = phase[e][b]
    /\ b \in identified' <=> b \in identified
    /\ b \in home' <=> b \in home
    /\ b \in recorded' <=> b \in recorded
    /\ b \in agents' <=> b \in agents
    /\ b \in slipped' <=> b \in slipped

LEMMA SameKeeps == ASSUME NEW b \in Cells, CellInv(b), Same(b) PROVE CellInv(b)'
  BY DEF CellInv, Basic, Alone, Same

\* The steps that are about one cell leave the others alone.
LEMMA Elsewhere ==
  ASSUME TypeOK, NEW c \in Cells, NEW b \in Cells, b # c,
         \/ \E d \in Drivers : Runner(d, c) \/ RunnerKilled(d, c) \/ RunnerFails(d, c) \/ RunItem(d, c)
         \/ AgentEnds(c) \/ Archive(c)
  PROVE  Same(b)
  <1> USE DEF lockVars, cellVars
  <1>1. ASSUME NEW d \in Drivers, RunItem(d, c) \/ RunnerKilled(d, c) PROVE Same(b)
        BY <1>1 DEF RunItem, RunnerKilled, Same, TypeOK
  <1>2. ASSUME NEW d \in Drivers, RunnerFails(d, c) PROVE Same(b)
        BY <1>2 DEF RunnerFails, Unlocks, Same, TypeOK
  <1>3. CASE AgentEnds(c) \/ Archive(c)
        BY <1>3 DEF AgentEnds, Archive, Unlocks, Same, TypeOK
  <1>4. ASSUME NEW d \in Drivers, AcquireLock(d, c) PROVE Same(b)
    <2>1. ASSUME NEW from, Enter(d, c, from) PROVE Same(b)
          BY <2>1, BecomesMoves DEF Enter, Slips, Same, Moved, TypeOK
    <2>2. CASE FindStale(d, c)
          BY <2>2, BecomesMoves DEF FindStale, Slips, Same, Moved
    <2>3. CASE LockRefused(d, c)
          BY <2>3, EndsMoves DEF LockRefused, Same, Moved
    <2>4. CASE Break(d, c)
          BY <2>4, BecomesMoves DEF Break, Unlocks, Same, Moved, TypeOK
    <2>5. QED
          BY <1>4, <2>1, <2>2, <2>3, <2>4 DEF AcquireLock
  <1>5. ASSUME NEW d \in Drivers, BeginFresh(d, c) \/ Identify(d, c) \/ BeginResume(d, c) \/ WritePid(d, c)
        PROVE Same(b)
        BY <1>5, BecomesMoves DEF BeginFresh, Identify, BeginResume, WritePid, Same, Moved, TypeOK
  <1>6. ASSUME NEW d \in Drivers, Launch(d, c) PROVE Same(b)
        BY <1>6, BecomesMoves DEF Launch, Unlocks, Same, Moved, TypeOK
  <1>7. ASSUME NEW d \in Drivers, TimeOut(d, c) \/ Reap(d, c) \/ Record(d, c) PROVE Same(b)
        BY <1>7, BecomesMoves DEF TimeOut, Reap, Record, Same, Moved, TypeOK
  <1>8. ASSUME NEW d \in Drivers, Release(d, c) PROVE Same(b)
        BY <1>8, BecomesMoves DEF Release, Unlocks, Same, Moved, TypeOK
  <1>9. ASSUME NEW d \in Drivers, Complete(d, c) \/ Shut(d, c) PROVE Same(b)
        BY <1>9, BecomesMoves DEF Complete, Shut, Slips, Same, Moved, TypeOK
  <1>10. ASSUME NEW d \in Drivers, Denied(d, c) PROVE Same(b)
        BY <1>10, EndsMoves DEF Denied, Same, Moved
  <1>11. QED
        BY <1>1, <1>2, <1>3, <1>4, <1>5, <1>6, <1>7, <1>8, <1>9, <1>10 DEF Runner

\* The files of every cell stay as they are.
Still == UNCHANGED <<status, identified, home, recorded, agents, lock, slipped>>

\* A runner that only ends, or moves on within the body, disturbs nothing.
LEMMA QuietStep ==
  ASSUME TypeOK, NEW d \in Drivers, NEW c \in Cells, CellInv(c), NEW from,
         NEW to \in {"bad", "ok", "locked", "looked", "grading"}, Moved(d, c, from, to), Still,
         to = "ok" => status[c] \in {"complete", "shut"},
         to = "locked" => from = "pidless",
         to = "looked" => c \in identified /\ status[c] = "open" /\ from = "resume",
         to = "grading" => from = "locked" /\ c \in recorded
  PROVE  CellInv(c)'
  <1>1. Basic(c)'
        BY DEF Still, CellInv, Basic, Moved, Looking, Inside, Locked
  <1>2. ASSUME c \notin slipped PROVE Alone(c)'
        BY <1>2 DEF Still, CellInv, Basic, Alone, Moved, Looking, Inside, Locked
  <1>3. QED
        BY <1>1, <1>2 DEF Still, CellInv

LEMMA CreateKeeps ==
  ASSUME TypeOK, NEW d \in Drivers, NEW c \in Cells, CellInv(c), BeginFresh(d, c) \/ Identify(d, c)
  PROVE  CellInv(c)'
  <1> USE DEF lockVars
  <1>1. CASE BeginFresh(d, c) /\ ~edited /\ status[c] = "absent"
    <2>1. /\ Moved(d, c, "fresh", "made") /\ status'[c] = "open"
          /\ UNCHANGED <<identified, home, recorded, agents, lock, slipped>>
          BY <1>1, BecomesMoves DEF BeginFresh, TypeOK
    <2>2. Basic(c)'
          BY <1>1, <2>1 DEF CellInv, Basic, Moved, Looking, Inside, Locked
    <2>3. ASSUME c \notin slipped PROVE Alone(c)'
          BY <1>1, <2>1, <2>3 DEF CellInv, Basic, Alone, Moved, Looking, Inside, Locked
    <2>4. QED
          BY <2>1, <2>2, <2>3 DEF CellInv
  <1>2. CASE BeginFresh(d, c) /\ ~(~edited /\ status[c] = "absent")
    <2>1. /\ Moved(d, c, "fresh", "bad")
          /\ Still
          BY <1>2, BecomesMoves DEF Still, BeginFresh
    <2>2. QED
          BY <2>1, QuietStep
  <1>3. CASE Identify(d, c)
    <2>1. /\ Moved(d, c, "made", "unlocked") /\ identified' = identified \cup {c}
          /\ UNCHANGED <<status, home, recorded, agents, lock, slipped>>
          BY <1>3, BecomesMoves DEF Identify
    <2>2. Basic(c)'
          BY <2>1 DEF CellInv, Basic, Moved, Looking, Inside, Locked
    <2>3. ASSUME c \notin slipped PROVE Alone(c)'
          BY <2>1, <2>3 DEF CellInv, Basic, Alone, Moved, Looking, Inside, Locked
    <2>4. QED
          BY <2>1, <2>2, <2>3 DEF CellInv
  <1>4. QED
        BY <1>1, <1>2, <1>3

LEMMA ResumeKeeps ==
  ASSUME TypeOK, NEW d \in Drivers, NEW c \in Cells, CellInv(c), BeginResume(d, c)
  PROVE  CellInv(c)'
  <1>1. Still
        BY DEF Still, BeginResume, cellVars, lockVars
  <1>2. \/ Moved(d, c, "resume", "bad")
        \/ Moved(d, c, "resume", "ok") /\ status[c] \in {"complete", "shut"}
        \/ Moved(d, c, "resume", "looked") /\ c \in identified /\ status[c] = "open"
        BY BecomesMoves DEF BeginResume
  <1>3. QED
        BY <1>1, <1>2, QuietStep

\* The exclusive creation admits no second runner, but through a window.
LEMMA EnterKeeps ==
  ASSUME TypeOK, NEW d \in Drivers, NEW c \in Cells, CellInv(c),
         NEW from \in {"unlocked", "looked", "relock"}, Enter(d, c, from)
  PROVE  CellInv(c)'
  <1>1. /\ Moved(d, c, from, "pidless") /\ lock[c] = {} /\ lock'[c] = {d}
        /\ UNCHANGED <<status, identified, home, recorded, agents>>
        BY BecomesMoves DEF Enter, TypeOK
  <1>2. Basic(c)'
        BY <1>1 DEF CellInv, Basic, Moved, Looking, Inside, Locked
  <1>3. ASSUME c \notin slipped' PROVE Alone(c)'
    <2>1. Alone(c) /\ \A e \in Drivers \ {d} : phase[e][c] \notin {"released", "stale"}
          BY <1>3 DEF Enter, Slips, OtherIn, CellInv
    <2>2. \A e \in Drivers : phase[e][c] \notin Locked
          BY <1>1, <2>1 DEF Alone
    <2>3. status[c] = "open" /\ \A e \in Drivers : phase[e][c] # "sealing"
          BY <1>1, <2>1 DEF Alone, CellInv, Basic, Moved, Looking
    <2>4. \A e \in Drivers \ {d} : phase'[e][c] \notin Inside \cup {"stale"}
          BY <1>1, <2>1, <2>2, <2>3 DEF Moved, Inside
    <2>5. QED
          BY <1>1, <2>1, <2>3, <2>4 DEF Alone, Moved, Looking, Inside, Locked
  <1>4. QED
        BY <1>2, <1>3 DEF CellInv

LEMMA AcquireKeeps ==
  ASSUME TypeOK, NEW d \in Drivers, NEW c \in Cells, CellInv(c), AcquireLock(d, c)
  PROVE  CellInv(c)'
  <1>1. CASE FindStale(d, c)
    <2>1. /\ Moved(d, c, "looked", "stale")
          /\ UNCHANGED <<status, identified, home, recorded, agents, lock>>
          BY <1>1, BecomesMoves DEF FindStale
    <2>2. Basic(c)'
          BY <2>1 DEF CellInv, Basic, Moved, Looking, Inside, Locked
    <2>3. ASSUME c \notin slipped' PROVE Alone(c)'
      <3>1. Alone(c) /\ ~(c \notin written /\ OtherIn(d, c, Locked))
            BY <1>1, <2>3 DEF FindStale, Slips, CellInv
      <3>2. ASSUME NEW e \in Drivers PROVE phase[e][c] \notin Locked
        <4>1. CASE c \notin written
              BY <2>1, <3>1, <4>1 DEF OtherIn, Moved, Locked
        <4>2. CASE \A o \in lock[c] : phase[o][c] \notin Live
              BY <3>1, <4>2 DEF Alone, Live, Inside
        <4>3. QED
              BY <1>1, <4>1, <4>2 DEF FindStale
      <3>3. QED
            BY <2>1, <3>1, <3>2 DEF Alone, Moved, Looking, Inside, Locked
    <2>4. QED
          BY <2>2, <2>3 DEF CellInv
  <1>2. CASE LockRefused(d, c)
    <2>1. /\ Moved(d, c, phase[d][c], "bad")
          /\ Still
          BY <1>2, EndsMoves DEF Still, LockRefused, cellVars, lockVars
    <2>2. QED
          BY <2>1, QuietStep
  <1>3. CASE Break(d, c)
    <2>1. /\ Moved(d, c, "stale", "relock")
          /\ UNCHANGED <<status, identified, home, recorded, agents, slipped>>
          BY <1>3, BecomesMoves DEF Break
    <2>2. Basic(c)'
          BY <2>1 DEF CellInv, Basic, Moved, Looking, Inside, Locked
    <2>3. ASSUME c \notin slipped PROVE Alone(c)'
      <3>1. \A e \in Drivers : phase'[e][c] \notin Locked
            BY <2>1, <2>3 DEF CellInv, Alone, Moved, Locked
      <3>2. QED
            BY <2>1, <2>3, <3>1 DEF CellInv, Alone, Moved, Looking, Inside, Locked
    <2>4. QED
          BY <2>1, <2>2, <2>3 DEF CellInv
  <1>4. QED
        BY <1>1, <1>2, <1>3, EnterKeeps DEF AcquireLock

\* Unlinking the lock takes nobody's away: who unlinks it is alone in the cell.
LEMMA UnlockKeeps ==
  ASSUME TypeOK, NEW d \in Drivers, NEW c \in Cells, CellInv(c),
         NEW from \in Inside \ {"pidless"}, NEW to \in {"bad", "released"}, Moved(d, c, from, to),
         to = "released" => from = "grading",
         UNCHANGED <<status, identified, recorded, slipped>>,
         \/ UNCHANGED <<home, agents>>
         \/ from = "working" /\ agents' = agents \ {c} /\ home' \in {home, home \ {c}}
  PROVE  CellInv(c)'
  <1>1. Basic(c)'
        BY DEF CellInv, Basic, Moved, Looking, Inside, Locked
  <1>2. ASSUME c \notin slipped PROVE Alone(c)'
    <2>1. \A e \in Drivers \ {d} : phase'[e][c] \notin Inside
          BY <1>2 DEF CellInv, Alone, Moved
    <2>2. QED
          BY <1>2, <2>1 DEF CellInv, Alone, Moved, Looking, Inside, Locked
  <1>3. QED
        BY <1>1, <1>2 DEF CellInv

LEMMA LaunchKeeps ==
  ASSUME TypeOK, NEW d \in Drivers, NEW c \in Cells, CellInv(c), Launch(d, c)
  PROVE  CellInv(c)'
  <1> USE DEF lockVars
  <1>1. CASE c \in recorded /\ Becomes(d, c, "locked", "grading") /\ UNCHANGED <<home, agents, lock>>
    <2>1. Moved(d, c, "locked", "grading") /\ Still
          BY <1>1, BecomesMoves DEF Still, Launch
    <2>2. QED
          BY <1>1, <2>1, QuietStep
  <1>2. CASE /\ c \notin recorded \/ c \in slipped
             /\ Becomes(d, c, "locked", "working") /\ UNCHANGED lock
             /\ home' = home \cup {c} /\ agents' = agents \cup {c}
    <2>1. Moved(d, c, "locked", "working") /\ UNCHANGED <<status, identified, recorded, slipped>>
          BY <1>2, BecomesMoves DEF Launch
    <2>2. Basic(c)'
          BY <1>2, <2>1 DEF CellInv, Basic, Moved, Looking, Inside, Locked
    <2>3. ASSUME c \notin slipped PROVE Alone(c)'
      <3>1. \A e \in Drivers \ {d} : phase'[e][c] \notin Inside
            BY <2>1, <2>3 DEF CellInv, Alone, Moved, Inside, Locked
      <3>2. QED
            BY <1>2, <2>1, <2>3, <3>1 DEF CellInv, Alone, Moved, Looking, Inside, Locked
    <2>4. QED
          BY <2>1, <2>2, <2>3 DEF CellInv
  <1>3. CASE Becomes(d, c, "locked", "bad") /\ UNCHANGED <<home, agents>>
    <2>1. Moved(d, c, "locked", "bad") /\ UNCHANGED <<status, identified, recorded, slipped>>
          BY <1>3, BecomesMoves DEF Launch
    <2>2. "locked" \in Inside \ {"pidless"}
          BY DEF Inside, Locked
    <2>3. QED
          BY <1>3, <2>1, <2>2, UnlockKeeps
  <1>4. QED
        BY <1>1, <1>2, <1>3 DEF Launch

LEMMA WorkKeeps ==
  ASSUME TypeOK, NEW d \in Drivers, NEW c \in Cells, CellInv(c),
         TimeOut(d, c) \/ Reap(d, c) \/ Record(d, c)
  PROVE  CellInv(c)'
  <1> USE DEF lockVars
  <1>1. CASE TimeOut(d, c)
    <2>1. agents' = agents \ {c} /\ UNCHANGED <<phase, status, identified, home, recorded, lock, slipped>>
          BY <1>1 DEF TimeOut
    <2>2. QED
          BY <2>1 DEF CellInv, Basic, Alone
  <1>2. CASE Reap(d, c) /\ Writable(c)
    <2>1. /\ Moved(d, c, "working", "recorded") /\ c \notin agents /\ home' = home \ {c}
          /\ UNCHANGED <<status, identified, recorded, agents, lock, slipped>>
          BY <1>2, BecomesMoves DEF Reap
    <2>2. Basic(c)'
          BY <2>1 DEF CellInv, Basic, Moved, Looking, Inside, Locked
    <2>3. ASSUME c \notin slipped PROVE Alone(c)'
          BY <2>1, <2>3 DEF CellInv, Alone, Moved, Looking, Inside, Locked
    <2>4. QED
          BY <2>1, <2>2, <2>3 DEF CellInv
  <1>3. CASE Reap(d, c) /\ ~Writable(c)
    <2>1. /\ Moved(d, c, "working", "bad")
          /\ Still
          BY <1>3, BecomesMoves DEF Still, Reap
    <2>2. QED
          BY <2>1, QuietStep
  <1>4. CASE Record(d, c)
    <2>1. /\ Moved(d, c, "recorded", "grading") /\ recorded' = recorded \cup {c}
          /\ UNCHANGED <<status, identified, home, agents, lock, slipped>>
          BY <1>4, BecomesMoves DEF Record
    <2>2. Basic(c)'
          BY <2>1 DEF CellInv, Basic, Moved, Looking, Inside, Locked
    <2>3. ASSUME c \notin slipped PROVE Alone(c)'
          BY <2>1, <2>3 DEF CellInv, Alone, Moved, Looking, Inside, Locked
    <2>4. QED
          BY <2>1, <2>2, <2>3 DEF CellInv
  <1>5. QED
        BY <1>1, <1>2, <1>3, <1>4

LEMMA SealKeeps ==
  ASSUME TypeOK, NEW d \in Drivers, NEW c \in Cells, CellInv(c), Complete(d, c) \/ Shut(d, c)
  PROVE  CellInv(c)'
  <1> USE DEF lockVars
  <1>1. CASE Complete(d, c)
    <2>1. /\ Moved(d, c, "released", "sealing") /\ status'[c] = "complete"
          /\ UNCHANGED <<identified, home, recorded, agents, lock>>
          BY <1>1, BecomesMoves DEF Complete, TypeOK
    <2>2. Basic(c)'
          BY <2>1 DEF CellInv, Basic, Moved, Looking, Inside, Locked
    <2>3. ASSUME c \notin slipped' PROVE Alone(c)'
      <3>1. Alone(c) /\ \A e \in Drivers \ {d} : phase[e][c] \notin Looking
            BY <1>1, <2>3 DEF Complete, Slips, OtherIn, CellInv
      <3>2. \A e \in Drivers \ {d} : phase[e][c] \notin Inside
            BY <2>1, <3>1 DEF Alone, Moved, Inside
      <3>3. QED
            BY <2>1, <3>1, <3>2 DEF Alone, Moved, Looking, Inside, Locked
    <2>4. QED
          BY <2>2, <2>3 DEF CellInv
  <1>2. CASE Shut(d, c)
    <2>1. /\ Moved(d, c, "sealing", "ok") /\ status'[c] = "shut"
          /\ UNCHANGED <<identified, home, recorded, agents, lock, slipped>>
          BY <1>2, BecomesMoves DEF Shut, TypeOK
    <2>2. Basic(c)'
          BY <2>1 DEF CellInv, Basic, Moved, Looking, Inside, Locked
    <2>3. ASSUME c \notin slipped PROVE Alone(c)'
      <3>1. status[c] # "open"
            BY <2>1 DEF CellInv, Basic, Moved
      <3>2. QED
            BY <2>1, <2>3, <3>1 DEF CellInv, Alone, Moved, Looking, Inside, Locked
    <2>4. QED
          BY <2>1, <2>2, <2>3 DEF CellInv
  <1>3. QED
        BY <1>1, <1>2

LEMMA RunnerKeeps ==
  ASSUME TypeOK, NEW d \in Drivers, NEW c \in Cells, CellInv(c),
         Runner(d, c) \/ RunnerKilled(d, c) \/ RunnerFails(d, c)
  PROVE  CellInv(c)'
  <1> USE DEF lockVars, cellVars
  <1>1. CASE WritePid(d, c)
    <2>1. /\ Moved(d, c, "pidless", "locked")
          /\ Still
          BY <1>1, BecomesMoves DEF Still, WritePid
    <2>2. QED
          BY <2>1, QuietStep
  <1>2. CASE Release(d, c)
    <2>1. /\ Moved(d, c, "grading", "released")
          /\ UNCHANGED <<status, identified, home, recorded, agents, slipped>>
          BY <1>2, BecomesMoves DEF Release
    <2>2. "grading" \in Inside \ {"pidless"}
          BY DEF Inside, Locked
    <2>3. QED
          BY <2>1, <2>2, UnlockKeeps
  <1>3. CASE Denied(d, c) \/ RunnerKilled(d, c)
    <2>1. /\ Moved(d, c, phase[d][c], "bad")
          /\ Still
          BY <1>3, EndsMoves DEF Still, Denied, RunnerKilled
    <2>2. QED
          BY <2>1, QuietStep
  <1>4. CASE RunnerFails(d, c)
    <2>1. /\ Moved(d, c, phase[d][c], "bad") /\ phase[d][c] \in Inside \ {"pidless"}
          /\ UNCHANGED <<status, identified, recorded, slipped>>
          BY <1>4, EndsMoves DEF RunnerFails
    <2>2. \/ UNCHANGED <<home, agents>>
          \/ phase[d][c] = "working" /\ agents' = agents \ {c} /\ home' \in {home, home \ {c}}
          BY <1>4 DEF RunnerFails
    <2>3. QED
          BY <2>1, <2>2, UnlockKeeps
  <1>5. QED
        BY <1>1, <1>2, <1>3, <1>4, CreateKeeps, ResumeKeeps, AcquireKeeps, LaunchKeeps, WorkKeeps,
           SealKeeps DEF Runner

LEMMA CellNextInv ==
  ASSUME TypeOK, \A c \in Cells : CellInv(c), [Next]_vars, NEW b \in Cells
  PROVE  CellInv(b)'
  <1> USE DEF lockVars, cellVars
  <1>1. ASSUME NEW d \in Drivers, NEW c \in Cells, Runner(d, c) \/ RunnerKilled(d, c) \/ RunnerFails(d, c)
        PROVE  CellInv(b)'
        BY <1>1, RunnerKeeps, Elsewhere, SameKeeps
  <1>2. ASSUME NEW d \in Drivers, NEW c \in Cells, RunItem(d, c) PROVE CellInv(b)'
    <2>1. CASE b = c
      <3>1. /\ Moved(d, c, phase[d][c], phase'[d][c]) /\ phase'[d][c] \in {"fresh", "resume"}
            /\ Still
            BY <1>2 DEF Still, RunItem, Moved, TypeOK
      <3>2. Basic(c)'
            BY <3>1 DEF Still, CellInv, Basic, Moved, Looking, Inside, Locked
      <3>3. ASSUME c \notin slipped PROVE Alone(c)'
            BY <3>1, <3>3 DEF Still, CellInv, Alone, Moved, Looking, Inside, Locked
      <3>4. QED
            BY <2>1, <3>1, <3>2, <3>3 DEF Still, CellInv
    <2>2. QED
          BY <1>2, <2>1, Elsewhere, SameKeeps
  <1>3. ASSUME NEW c \in Cells, AgentEnds(c) \/ Archive(c) PROVE CellInv(b)'
    <2>1. CASE b = c /\ AgentEnds(c)
      <3>1. /\ agents' = agents \ {c}
            /\ UNCHANGED <<phase, status, identified, home, recorded, lock, slipped>>
            BY <2>1 DEF AgentEnds
      <3>2. QED
            BY <2>1, <3>1 DEF CellInv, Basic, Alone
    <2>2. CASE b = c /\ Archive(c)
      <3>1. /\ \A d \in Drivers : phase'[d][c] \notin Live
            /\ c \notin agents' /\ c \notin identified' /\ status'[c] = "absent"
            /\ \A d \in Drivers : phase'[d][c] = "ok" => phase[d][c] = "ok"
            /\ status[c] = "open"
            BY <2>2 DEF Archive, TypeOK
      <3>2. Basic(c)'
            BY <3>1 DEF CellInv, Basic, Live, Preparing, Looking, Inside, Locked
      <3>3. Alone(c)'
            BY <3>1 DEF Alone, Live, Looking, Inside, Locked
      <3>4. QED
            BY <2>2, <3>2, <3>3 DEF CellInv
    <2>3. QED
          BY <1>3, <2>1, <2>2, Elsewhere, SameKeeps
  <1>4. ASSUME NEW d \in Drivers, Preflight(d) \/ Gate(d) \/ Submit(d) \/ Report(d) \/ DriverKilled(d)
        PROVE  CellInv(b)'
    <2>1. Same(b)
          BY <1>4 DEF Preflight, Gate, Submit, Report, DriverKilled, Same
    <2>2. QED
          BY <2>1, SameKeeps
  <1>5. CASE EditSources \/ UNCHANGED vars
    <2>1. Same(b)
          BY <1>5 DEF EditSources, vars, Same
    <2>2. QED
          BY <2>1, SameKeeps
  <1>6. QED
        BY <1>1, <1>2, <1>3, <1>4, <1>5 DEF Next, Drive

-----------------------------------------------------------------------------
(* What stays, whatever the lock does.                                     *)

\* A runner's step in the status, the soundness and the home of its cell.
LEMMA RunnerLeaves ==
  ASSUME TypeOK, NEW d \in Drivers, NEW c \in Cells, Runner(d, c) \/ RunnerKilled(d, c) \/ RunnerFails(d, c)
  PROVE  /\ UNCHANGED <<driver, selected, queue>>
         /\ \A b \in Cells : b # c =>
               status'[b] = status[b] /\ sound'[b] = sound[b] /\ (b \in home' <=> b \in home)
         /\ status[c] = "shut" =>
               status'[c] = "shut" /\ sound'[c] = sound[c] /\ (c \in home' => c \in home)
         /\ status[c] = "complete" => status'[c] \in {"complete", "shut"}
  <1> USE DEF driverVars, cellVars, lockVars, Writable
  <1>1. CASE BeginFresh(d, c) \/ Identify(d, c) \/ BeginResume(d, c)
        BY <1>1 DEF BeginFresh, Identify, BeginResume, TypeOK
  <1>2. CASE AcquireLock(d, c) \/ WritePid(d, c)
        BY <1>2 DEF AcquireLock, Enter, FindStale, LockRefused, Break, WritePid, TypeOK
  <1>3. CASE Launch(d, c)
        BY <1>3 DEF Launch, TypeOK
  <1>4. CASE TimeOut(d, c) \/ Reap(d, c) \/ Record(d, c)
        BY <1>4 DEF TimeOut, Reap, Record, TypeOK
  <1>5. CASE Release(d, c) \/ Denied(d, c)
        BY <1>5 DEF Release, Denied, TypeOK
  <1>6. CASE Complete(d, c) \/ Shut(d, c)
        BY <1>6 DEF Complete, Shut, TypeOK
  <1>7. CASE RunnerKilled(d, c) \/ RunnerFails(d, c)
        BY <1>7 DEF RunnerKilled, RunnerFails, TypeOK
  <1>8. QED
        BY <1>1, <1>2, <1>3, <1>4, <1>5, <1>6, <1>7 DEF Runner

\* COMPLETE is never removed, and a read-only directory keeps its outcome and takes no home.
LEMMA CompleteStays ==
  ASSUME TypeOK, [Next]_vars, NEW b \in Cells
  PROVE  /\ status[b] \in {"complete", "shut"} => status'[b] \in {"complete", "shut"}
         /\ status[b] = "shut" =>
               status'[b] = "shut" /\ sound'[b] = sound[b] /\ (b \in home' => b \in home)
  <1> USE DEF cellVars
  <1>1. ASSUME NEW d \in Drivers, Drive(d) \/ DriverKilled(d) PROVE UNCHANGED <<status, sound, home>>
        BY <1>1 DEF Drive, Preflight, Gate, Submit, Report, RunItem, DriverKilled
  <1>2. ASSUME NEW c \in Cells, AgentEnds(c) PROVE UNCHANGED <<status, sound, home>>
        BY <1>2 DEF AgentEnds
  <1>3. ASSUME NEW c \in Cells, Archive(c)
        PROVE  /\ status[c] = "open" /\ UNCHANGED sound /\ home' \subseteq home
               /\ \A a \in Cells \ {c} : status'[a] = status[a]
        BY <1>3 DEF Archive, TypeOK
  <1>4. CASE EditSources \/ UNCHANGED vars
        BY <1>4 DEF EditSources, vars
  <1>5. QED
        BY RunnerLeaves, <1>1, <1>2, <1>3, <1>4 DEF Next

LEMMA EligibleStays ==
  ASSUME TypeOK, [Next]_vars, \A k \in Canary : Eligible(k)
  PROVE  \A k \in Canary : Eligible(k)'
  BY CompleteStays, CampaignOK DEF Eligible

\* No runner's step brings one back to where it was spawned.
LEMMA RunnerNotFresh ==
  ASSUME TypeOK, NEW d \in Drivers, NEW c \in Cells, Runner(d, c) \/ RunnerKilled(d, c) \/ RunnerFails(d, c)
  PROVE  \A e \in Drivers, b \in Cells : phase'[e][b] = "fresh" => phase[e][b] = "fresh"
  <1>1. \/ UNCHANGED phase
        \/ \E from : \E to \in Phases \ {"fresh"} : Moved(d, c, from, to)
    <2> USE PhaseSets
    <2>1. CASE BeginFresh(d, c) \/ Identify(d, c) \/ BeginResume(d, c) \/ WritePid(d, c)
          BY <2>1, BecomesMoves DEF BeginFresh, Identify, BeginResume, WritePid
    <2>2. CASE AcquireLock(d, c)
      <3>1. ASSUME NEW from, Enter(d, c, from) PROVE Moved(d, c, from, "pidless")
            BY <3>1, BecomesMoves DEF Enter
      <3>2. CASE FindStale(d, c) \/ Break(d, c)
            BY <3>2, BecomesMoves DEF FindStale, Break
      <3>3. CASE LockRefused(d, c)
            BY <3>3, EndsMoves DEF LockRefused
      <3>4. QED
            BY <2>2, <3>1, <3>2, <3>3 DEF AcquireLock
    <2>3. CASE Launch(d, c)
          BY <2>3, BecomesMoves DEF Launch
    <2>4. CASE TimeOut(d, c) \/ Reap(d, c) \/ Record(d, c)
          BY <2>4, BecomesMoves DEF TimeOut, Reap, Record
    <2>5. CASE Release(d, c) \/ Complete(d, c) \/ Shut(d, c)
          BY <2>5, BecomesMoves DEF Release, Complete, Shut
    <2>6. CASE Denied(d, c) \/ RunnerKilled(d, c) \/ RunnerFails(d, c)
      <3>1. Moved(d, c, phase[d][c], "bad")
            BY <2>6, EndsMoves DEF Denied, RunnerKilled, RunnerFails
      <3>2. QED
            BY <3>1
    <2>7. QED
          BY <2>1, <2>2, <2>3, <2>4, <2>5, <2>6 DEF Runner
  <1>2. QED
        BY <1>1 DEF Moved

-----------------------------------------------------------------------------
(* The gate and the return code.                                           *)

LEMMA GatedNext == TypeOK /\ Gated /\ [Next]_vars => Gated'
  <1> SUFFICES ASSUME TypeOK, Gated, [Next]_vars PROVE Gated'
      OBVIOUS
  <1> DEFINE Open == \A k \in Canary : Eligible(k)
  <1>0. Open => Open'
        BY EligibleStays
  <1> HIDE DEF Open
  <1>1. ASSUME UNCHANGED <<driver, selected, queue>>,
               \A d \in Drivers, c \in Cells : phase'[d][c] = "fresh" => phase[d][c] = "fresh"
        PROVE  Gated'
    <2>1. ASSUME NEW d \in Drivers, driver'[d] \in {"submit", "pool"}, ~IsCanary(d)' PROVE Open'
          BY <1>0, <1>1, <2>1 DEF Gated, Open, IsCanary
    <2>2. ASSUME NEW d \in Drivers, NEW c \in Cells \ Canary, phase'[d][c] = "fresh" PROVE Open'
          BY <1>0, <1>1, <2>2 DEF Gated, Open
    <2>3. QED
          BY <1>1, <2>1, <2>2 DEF Gated, Open
  <1>2. ASSUME NEW d \in Drivers, UNCHANGED <<selected, phase>>,
               \A e \in Drivers : queue'[e] \subseteq selected[e],
               \A e \in Drivers \ {d} : driver'[e] = driver[e],
               driver'[d] \in {"submit", "pool"} /\ ~IsCanary(d) => Open
        PROVE  Gated'
    <2>1. ASSUME NEW e \in Drivers, driver'[e] \in {"submit", "pool"}, ~IsCanary(e)' PROVE Open'
          BY <1>0, <1>2, <2>1 DEF Gated, Open, IsCanary
    <2>2. ASSUME NEW e \in Drivers, NEW c \in Cells \ Canary, phase'[e][c] = "fresh" PROVE Open'
          BY <1>0, <1>2, <2>2 DEF Gated, Open
    <2>3. QED
          BY <1>2, <2>1, <2>2 DEF Gated, Open
  <1>3. ASSUME NEW d \in Drivers, Drive(d) PROVE Gated'
    <2>1. CASE Preflight(d)
          BY <1>2, <2>1 DEF Preflight, Gated, TypeOK
    <2>2. CASE Gate(d)
          BY <1>2, <2>2 DEF Gate, Gated, TypeOK, Open
    <2>3. CASE Submit(d)
          BY <1>2, <2>3 DEF Submit, Gated, TypeOK, Open
    <2>4. CASE Report(d)
          BY <1>2, <2>4 DEF Report, Gated, TypeOK
    <2>5. ASSUME NEW c \in Cells, RunItem(d, c) PROVE Gated'
      <3>1. /\ driver[d] = "pool" /\ c \in selected[d]
            /\ UNCHANGED <<driver, selected>>
            /\ \A e \in Drivers : queue'[e] \subseteq selected[e]
            /\ \A e \in Drivers, b \in Cells : e # d \/ b # c => phase'[e][b] = phase[e][b]
            BY <2>5 DEF RunItem, Gated, TypeOK
      <3>2. ASSUME NEW e \in Drivers, driver'[e] \in {"submit", "pool"}, ~IsCanary(e)' PROVE Open'
            BY <1>0, <3>1, <3>2 DEF Gated, Open, IsCanary
      <3>3. ASSUME NEW e \in Drivers, NEW b \in Cells \ Canary, phase'[e][b] = "fresh" PROVE Open'
        <4>1. CASE e = d /\ b = c
              BY <1>0, <3>1, <4>1 DEF Gated, Open, IsCanary
        <4>2. CASE e # d \/ b # c
              BY <1>0, <3>1, <3>3, <4>2 DEF Gated, Open
        <4>3. QED
              BY <4>1, <4>2
      <3>4. QED
            BY <3>1, <3>2, <3>3 DEF Gated, Open
    <2>6. QED
          BY <1>3, <2>1, <2>2, <2>3, <2>4, <2>5 DEF Drive
  <1>4. ASSUME NEW d \in Drivers, DriverKilled(d) PROVE Gated'
        BY <1>2, <1>4 DEF DriverKilled, Gated, TypeOK, cellVars
  <1>5. ASSUME NEW d \in Drivers, NEW c \in Cells,
               Runner(d, c) \/ RunnerKilled(d, c) \/ RunnerFails(d, c)
        PROVE  Gated'
        BY <1>1, <1>5, RunnerLeaves, RunnerNotFresh
  <1>6. ASSUME NEW c \in Cells, AgentEnds(c) \/ Archive(c) PROVE Gated'
        BY <1>1, <1>6 DEF AgentEnds, Archive, driverVars
  <1>7. CASE EditSources \/ UNCHANGED vars
        BY <1>1, <1>7 DEF EditSources, vars, driverVars
  <1>8. QED
        BY <1>3, <1>4, <1>5, <1>6, <1>7 DEF Next

LEMMA ZeroNext ==
  ASSUME TypeOK, \A c \in Cells : CellInv(c), ZeroMeansComplete, [Next]_vars
  PROVE  ZeroMeansComplete'
  <1>1. ASSUME UNCHANGED selected,
               \A d \in Drivers : driver'[d] = "zero" =>
                  driver[d] = "zero" \/ \A c \in selected[d] : phase[d][c] = "ok"
        PROVE  ZeroMeansComplete'
    <2> SUFFICES ASSUME NEW d \in Drivers, driver'[d] = "zero", NEW c \in selected[d]
                 PROVE  status'[c] \in {"complete", "shut"}
        BY <1>1 DEF ZeroMeansComplete
    <2>1. c \in Cells
          BY DEF TypeOK
    <2>2. status[c] \in {"complete", "shut"}
          BY <1>1, <2>1 DEF ZeroMeansComplete, CellInv, Basic
    <2>3. QED
          BY <2>1, <2>2, CompleteStays
  <1>2. ASSUME NEW d \in Drivers, Drive(d) PROVE ZeroMeansComplete'
        BY <1>1, <1>2 DEF Drive, Preflight, Gate, Submit, Report, RunItem, TypeOK
  <1>3. ASSUME NEW d \in Drivers, DriverKilled(d) PROVE ZeroMeansComplete'
        BY <1>1, <1>3 DEF DriverKilled, TypeOK
  <1>4. ASSUME NEW d \in Drivers, NEW c \in Cells,
               Runner(d, c) \/ RunnerKilled(d, c) \/ RunnerFails(d, c)
        PROVE  ZeroMeansComplete'
        BY <1>1, <1>4, RunnerLeaves
  <1>5. ASSUME NEW c \in Cells, AgentEnds(c) \/ Archive(c) PROVE ZeroMeansComplete'
        BY <1>1, <1>5 DEF AgentEnds, Archive, driverVars
  <1>6. CASE EditSources \/ UNCHANGED vars
        BY <1>1, <1>6 DEF EditSources, vars, driverVars
  <1>7. QED
        BY <1>2, <1>3, <1>4, <1>5, <1>6 DEF Next

-----------------------------------------------------------------------------
(* The theorems.                                                           *)

\* The variables keep their types, whoever is past the lock of a cell without slips is alone
\* in it, and who may create cells has passed the gate: inductive, and all that the rest needs.
THEOREM CampaignCorrect == Spec => []IInv
  <1>1. IInv /\ [Next]_vars => IInv'
        BY TypeNext, CellNextInv, GatedNext, ZeroNext DEF IInv
  <1>2. QED
        BY InitIInv, <1>1, PTL DEF Spec

\* A driver that returned 0 leaves every cell it selected complete for good.
THEOREM ReturnCode == Spec => []ZeroMeansComplete
  <1>1. IInv => ZeroMeansComplete
        BY DEF IInv
  <1>2. QED
        BY CampaignCorrect, <1>1, PTL

\* The canary gate: whichever driver a runner comes from, and however long it outlives it,
\* it creates no cell outside the canary unless the canaries are sealed and successful.
THEOREM CanaryGate == Spec => GateHolds
  <1> DEFINE Kept == \A c \in Cells \ Canary : status[c] = "absent" /\ status'[c] # "absent"
                        => \A k \in Canary : Eligible(k)
  <1>1. IInv /\ [Next]_vars => [Kept]_vars
    <2> SUFFICES ASSUME IInv, [Next]_vars,
                        NEW b \in Cells \ Canary, status[b] = "absent", status'[b] # "absent"
                 PROVE  \A k \in Canary : Eligible(k)
        OBVIOUS
    <2> USE DEF IInv, cellVars
    <2>1. ASSUME NEW d \in Drivers, Drive(d) \/ DriverKilled(d) PROVE FALSE
          BY <2>1 DEF Drive, Preflight, Gate, Submit, Report, RunItem, DriverKilled
    <2>2. ASSUME NEW d \in Drivers, NEW c \in Cells, Runner(d, c)
          PROVE  \A k \in Canary : Eligible(k)
      <3>1. c = b
            BY <2>2, RunnerLeaves
      <3>2. CASE BeginFresh(d, c)
        <4>1. phase[d][c] = "fresh"
              BY <3>2 DEF BeginFresh, Becomes
        <4>2. QED
              BY <3>1, <4>1 DEF Gated
      <3>3. CASE Complete(d, c) \/ Shut(d, c)
        <4>1. phase[d][c] \in Inside
              BY <3>3 DEF Complete, Shut, Becomes, Inside
        <4>2. QED
              BY <3>1, <4>1 DEF CellInv, Basic
      <3>4. CASE AcquireLock(d, c)
            BY <3>4 DEF AcquireLock, Enter, FindStale, LockRefused, Break
      <3>5. QED
            BY <2>2, <3>2, <3>3, <3>4 DEF Runner, Identify, BeginResume, WritePid, Launch, TimeOut,
               Reap, Record, Release, Denied
    <2>3. ASSUME NEW d \in Drivers, NEW c \in Cells, RunnerKilled(d, c) \/ RunnerFails(d, c) PROVE FALSE
          BY <2>3 DEF RunnerKilled, RunnerFails
    <2>4. ASSUME NEW c \in Cells, AgentEnds(c) \/ Archive(c) PROVE FALSE
          BY <2>4 DEF AgentEnds, Archive, TypeOK
    <2>5. CASE EditSources \/ UNCHANGED vars
          BY <2>5 DEF EditSources, vars
    <2>6. QED
          BY <2>1, <2>2, <2>3, <2>4, <2>5 DEF Next
  <1>2. QED
        BY CampaignCorrect, <1>1, PTL DEF Spec, GateHolds

\* A runner's step in a cell in which no window was met is a step of RunCell, or none of its.
LEMMA RunnerIsCell ==
  ASSUME TypeOK, NEW d \in Drivers, NEW c \in Cells, CellInv(c), c \notin slipped,
         Runner(d, c) \/ RunnerKilled(d, c) \/ RunnerFails(d, c)
  PROVE  [At(c)!CellNext]_(At(c)!cellVars)
  <1> DEFINE Kept == UNCHANGED <<status[c], sound[c]>> /\ (c \in agents') = (c \in agents)
  <1>0. Kept => [At(c)!CellNext]_(At(c)!cellVars)
        BY DEF At!cellVars
  <1> HIDE DEF Kept
  <1> USE DEF driverVars, cellVars
  <1>1. CASE Identify(d, c) \/ BeginResume(d, c) \/ WritePid(d, c) \/ Reap(d, c) \/ Record(d, c)
        BY <1>0, <1>1 DEF Kept, Identify, BeginResume, WritePid, Reap, Record
  <1>2. CASE AcquireLock(d, c) \/ Release(d, c) \/ Denied(d, c) \/ RunnerKilled(d, c)
        BY <1>0, <1>2 DEF Kept, AcquireLock, Enter, FindStale, LockRefused, Break, Release, Denied,
           RunnerKilled
  <1>3. CASE BeginFresh(d, c)
    <2>1. CASE status[c] = "absent" /\ ~edited
          BY <1>3, <2>1 DEF BeginFresh, TypeOK, At!CellNext, At!CellCreate
    <2>2. CASE ~(status[c] = "absent" /\ ~edited)
          BY <1>0, <1>3, <2>2 DEF Kept, BeginFresh
    <2>3. QED
          BY <2>1, <2>2
  <1>4. CASE Launch(d, c)
    <2>1. phase[d][c] = "locked" /\ status[c] = "open"
          BY <1>4 DEF Launch, Becomes, CellInv, Alone, Locked
    <2>2. CASE c \notin home /\ agents' = agents \cup {c}
      <3>1. c \notin agents /\ c \in agents'
            BY <2>2 DEF CellInv, Basic
      <3>2. QED
            BY <1>4, <2>1, <3>1 DEF Launch, At!CellNext, At!WorkStarts
    <2>3. CASE UNCHANGED agents
          BY <1>0, <1>4, <2>3 DEF Kept, Launch
    <2>4. QED
          BY <1>4, <2>2, <2>3 DEF Launch
  <1>5. CASE TimeOut(d, c)
        BY <1>5 DEF TimeOut, At!CellNext, At!WorkEnds
  <1>6. CASE Complete(d, c)
    <2>1. phase[d][c] = "released" /\ status[c] = "open" /\ c \notin agents
          BY <1>6 DEF Complete, Becomes, CellInv, Alone
    <2>2. status'[c] = "complete" /\ sound'[c] \in BOOLEAN /\ UNCHANGED agents
      <3>1. PICK s \in Outcomes[c] : sound' = [sound EXCEPT ![c] = s]
            BY <1>6 DEF Complete
      <3>2. s \in BOOLEAN
            BY <3>1, CampaignOK
      <3>3. QED
            BY <1>6, <3>1, <3>2 DEF Complete, TypeOK
    <2>3. QED
          BY <2>1, <2>2 DEF At!CellNext, At!CellComplete
  <1>7. CASE Shut(d, c)
    <2>1. phase[d][c] = "sealing" /\ status[c] \in {"complete", "shut"}
          BY <1>7 DEF Shut, Becomes, CellInv, Basic
    <2>2. status'[c] = "shut" /\ UNCHANGED <<sound, agents>>
          BY <1>7 DEF Shut, TypeOK
    <2>3. CASE status[c] = "shut"
          BY <1>0, <2>2, <2>3 DEF Kept
    <2>4. QED
          BY <2>1, <2>2, <2>3 DEF At!CellNext, At!CellShut
  <1>8. CASE RunnerFails(d, c)
    <2>1. CASE c \in agents /\ agents' = agents \ {c}
          BY <1>8, <2>1 DEF RunnerFails, At!CellNext, At!WorkEnds
    <2>2. CASE ~(c \in agents /\ agents' = agents \ {c})
          BY <1>0, <1>8, <2>2 DEF Kept, RunnerFails
    <2>3. QED
          BY <2>1, <2>2
  <1>9. QED
        BY <1>1, <1>2, <1>3, <1>4, <1>5, <1>6, <1>7, <1>8 DEF Runner

\* Every cell of the campaign in which no window of the lock was met is a RunCell, the
\* abstract directory that run_one promises.
THEOREM EveryCell == Spec => (\A c \in Cells : At(c)!CellInit) /\ CellsKeepPromise
  <1> DEFINE Kept == \A c \in Cells \ slipped : [At(c)!CellNext]_(At(c)!cellVars)
  <1>1. Init => \A c \in Cells : At(c)!CellInit
        BY DEF Init, At!CellInit
  <1>2. IInv /\ [Next]_vars => [Kept]_vars
    <2> SUFFICES ASSUME IInv, [Next]_vars, NEW b \in Cells \ slipped
                 PROVE  [At(b)!CellNext]_(At(b)!cellVars)
        OBVIOUS
    <2> USE DEF IInv, driverVars, cellVars
    <2> DEFINE Quiet == UNCHANGED <<status[b], sound[b]>> /\ (b \in agents') = (b \in agents)
    <2>0. Quiet => [At(b)!CellNext]_(At(b)!cellVars)
          BY DEF At!cellVars
    <2> HIDE DEF Quiet
    <2>1. ASSUME NEW d \in Drivers, Drive(d) \/ DriverKilled(d) PROVE Quiet
          BY <2>1 DEF Quiet, Drive, Preflight, Gate, Submit, Report, RunItem, DriverKilled
    <2>2. ASSUME NEW d \in Drivers, NEW c \in Cells,
                 Runner(d, c) \/ RunnerKilled(d, c) \/ RunnerFails(d, c)
          PROVE  [At(b)!CellNext]_(At(b)!cellVars)
      <3>1. CASE c = b
            BY <2>2, <3>1, RunnerIsCell
      <3>2. CASE c # b
        <4>1. Same(b) /\ sound'[b] = sound[b]
              BY <2>2, <3>2, Elsewhere, RunnerLeaves
        <4>2. QED
              BY <2>0, <4>1 DEF Quiet, Same
      <3>3. QED
            BY <3>1, <3>2
    <2>3. ASSUME NEW c \in Cells, AgentEnds(c) PROVE [At(b)!CellNext]_(At(b)!cellVars)
      <3>1. CASE c = b
            BY <2>3, <3>1 DEF AgentEnds, At!CellNext, At!WorkEnds
      <3>2. CASE c # b
            BY <2>0, <2>3, <3>2 DEF Quiet, AgentEnds
      <3>3. QED
            BY <3>1, <3>2
    <2>4. ASSUME NEW c \in Cells, Archive(c) PROVE [At(b)!CellNext]_(At(b)!cellVars)
      <3>1. CASE c = b
            BY <2>4, <3>1 DEF Archive, TypeOK, At!CellNext, At!CellArchive
      <3>2. CASE c # b
            BY <2>0, <2>4, <3>2 DEF Quiet, Archive, TypeOK
      <3>3. QED
            BY <3>1, <3>2
    <2>5. CASE EditSources \/ UNCHANGED vars
          BY <2>0, <2>5 DEF Quiet, EditSources, vars
    <2>6. QED
          BY <2>0, <2>1, <2>2, <2>3, <2>4, <2>5 DEF Next
  <1>3. QED
        BY CampaignCorrect, <1>1, <1>2, PTL DEF Spec, CellsKeepPromise
=============================================================================
