-------------------------- MODULE ExecuteTimedProofs --------------------------
(***************************************************************************)
(* execute_timed keeps its promise to run_one: every step of ExecuteTimed  *)
(* is a step of TimedCall or none at all, for any number of processes in   *)
(* the group, whichever of them ignore SIGTERM.                            *)
(***************************************************************************)
EXTENDS ExecuteTimed, TLAPS

USE InterruptsOK DEF InterruptsOK

\* Within the limit nothing was signalled; a code is the code of a leader that was
\* reaped; the finally clause without a code was entered by the one exception.
CallInv ==
    /\ pc = "ready" => leader = "none" /\ ~timedOut /\ signalled = {} /\ code = "none"
    /\ pc \in Waiting => leader # "none" /\ code \in {"none"} \cup Ends
    /\ pc \in {"wait", "term", "grace", "kill", "reap"} => ~reaped /\ code = "none"
    /\ pc = "wait" => ~timedOut /\ leader # "killed" /\ signalled = {}
    /\ pc \in {"term", "grace", "kill", "reap"} => timedOut
    /\ pc \in {"reap", "drain"} => leader \in Ends
    /\ pc = "drain" => ~reaped
    /\ pc \in {"cleanup", "drain"} /\ code = "none" => interrupts = 1 /\ ~reaped
    /\ pc = "drain" => code = "none"
    /\ pc = "returned" => code # "none"
    /\ "TERM" \in signalled => timedOut
    /\ code \in Ends => code = leader /\ reaped /\ (timedOut \/ leader # "killed")
    /\ reaped => leader \in Ends
    /\ pc \in Done /\ leader # "none" => reaped
    /\ "KILL" \in signalled => leader \in Ends /\ \A m \in Others : others[m] # "group"

IInv == TypeOK /\ CallInv

LEMMA InitIInv == Init => IInv
  <1>1. Init => TypeOK
    <2>1. Init => others \in [Others -> {"unborn", "group", "detached", "dead"}]
      BY DEF Init
    <2>2. Init => interrupts \in 0..MaxInterrupts /\ ignores \subseteq Others \cup {"leader"}
      BY DEF Init
    <2>3. Init => reaped \in BOOLEAN /\ timedOut \in BOOLEAN
      BY DEF Init
    <2>4. QED
      BY <2>1, <2>2, <2>3 DEF Init, TypeOK
  <1>2. Init => CallInv
    BY DEF Init, CallInv, Waiting, Done, Ends
  <1>3. QED
    BY <1>1, <1>2 DEF IInv

\* The processes themselves.
LEMMA ProcessIInv ==
    ASSUME IInv, LeaderExits \/ \E m \in Others : Spawn(m) \/ OtherEnds(m)
    PROVE  IInv'
  <1>1. CASE LeaderExits
    BY <1>1 DEF IInv, TypeOK, CallInv, LeaderExits, runner, Waiting, Done, Ends
  <1>2. ASSUME NEW m \in Others, Spawn(m)
        PROVE  IInv'
    BY <1>2 DEF IInv, TypeOK, CallInv, Spawn, runner, Waiting, Done, Ends
  <1>3. ASSUME NEW m \in Others, OtherEnds(m)
        PROVE  IInv'
    BY <1>3 DEF IInv, TypeOK, CallInv, OtherEnds, runner, Waiting, Done, Ends
  <1>4. QED
    BY <1>1, <1>2, <1>3

LEMMA GroupType ==
    ASSUME TypeOK, NEW spared
    PROVE  GroupAfter(spared) \in [Others -> {"unborn", "group", "detached", "dead"}]
  BY DEF TypeOK, GroupAfter

\* After SIGKILL neither the leader nor anything of its group is left.
LEMMA KillEnds ==
    ASSUME IInv, leader # "none", Kill
    PROVE  /\ others' \in [Others -> {"unborn", "group", "detached", "dead"}]
           /\ leader' \in Ends /\ (leader \in Ends => leader' = leader)
           /\ \A m \in Others : others'[m] # "group"
           /\ signalled' = signalled \cup {"KILL"}
  BY GroupType DEF IInv, TypeOK, Kill, GroupAfter, Ends

LEMMA CallIInv ==
    ASSUME IInv, Call \/ Interrupt
    PROVE  IInv'
  <1>1. CASE OpenFails \/ Popen
    <2>1. TypeOK'
      BY <1>1 DEF IInv, TypeOK, OpenFails, Popen, Waiting, Done
    <2>2. /\ pc = "ready" /\ leader = "none" /\ ~timedOut /\ signalled = {}
          /\ code = "none" /\ ~reaped
      BY <1>1 DEF IInv, TypeOK, CallInv, OpenFails, Popen, Ends
    <2>3. ~timedOut' /\ signalled' = {} /\ ~reaped'
      BY <1>1, <2>2 DEF OpenFails, Popen
    <2>4. \/ pc' = "raised" /\ leader' = "none" /\ code' = "none"
          \/ pc' = "returned" /\ leader' = "none" /\ code' = "unlaunched"
          \/ pc' = "wait" /\ leader' = "live" /\ code' = "none"
      BY <1>1, <2>2 DEF OpenFails, Popen
    <2>5. CallInv'
      BY <2>3, <2>4 DEF CallInv, Waiting, Done, Ends
    <2>6. QED
      BY <2>1, <2>5 DEF IInv
  <1>2. ASSUME NEW from \in {"wait", "grace", "reap"}, Reaps(from)
        PROVE  IInv'
    BY <1>2 DEF IInv, TypeOK, CallInv, Reaps, Waiting, Done, Ends
  <1>3. CASE WaitExpires \/ GraceExpires
    <2>1. TypeOK'
      BY <1>3 DEF IInv, TypeOK, WaitExpires, GraceExpires, Waiting
    <2>2. CallInv'
      BY <1>3 DEF IInv, TypeOK, CallInv, WaitExpires, GraceExpires, Waiting, Done, Ends
    <2>3. QED
      BY <2>1, <2>2 DEF IInv
  <1>4. CASE SendTerm
    <2>1. /\ others' \in [Others -> {"unborn", "group", "detached", "dead"}]
          /\ \A m \in Others : others'[m] = "group" => others[m] = "group"
      BY <1>4, GroupType DEF IInv, TypeOK, SendTerm, Term, GroupAfter
    <2>2. leader' \in {"live"} \cup Ends /\ (leader \in Ends => leader' = leader)
      BY <1>4 DEF IInv, TypeOK, CallInv, SendTerm, Term, Waiting, Ends
    <2>3. signalled' = signalled \cup {"TERM"}
      BY <1>4 DEF SendTerm, Term
    <2>4. QED
      BY <1>4, <2>1, <2>2, <2>3 DEF IInv, TypeOK, CallInv, SendTerm, Waiting, Done, Ends
  <1>5. CASE SendKill
    <2>1. leader # "none" /\ Kill
      BY <1>5 DEF IInv, CallInv, SendKill, Waiting
    <2>2. QED
      BY <1>5, <2>1, KillEnds DEF IInv, TypeOK, CallInv, SendKill, Waiting, Done, Ends
  <1>6. CASE Cleanup
    <2>1. CASE leader \in Ends
      BY <1>6, <2>1 DEF IInv, TypeOK, CallInv, Cleanup, Leaves, Waiting, Done, Ends
    <2>2. CASE leader = "live"
      <3>1. Kill /\ pc' = "drain" /\ UNCHANGED reaped
        BY <1>6, <2>2 DEF Cleanup, Ends
      <3>2. QED
        BY <1>6, <2>2, <3>1, KillEnds
           DEF IInv, TypeOK, CallInv, Cleanup, Waiting, Done, Ends
    <2>3. QED
      BY <1>6, <2>1, <2>2 DEF Cleanup
  <1>7. CASE Drain
    BY <1>7 DEF IInv, TypeOK, CallInv, Drain, Leaves, Waiting, Done, Ends
  <1>8. CASE Interrupt
    BY <1>8 DEF IInv, TypeOK, CallInv, Interrupt, Waiting, Done, Ends
  <1>9. QED
    BY <1>1, <1>2, <1>3, <1>4, <1>5, <1>6, <1>7, <1>8 DEF Call

LEMMA NextIInv == IInv /\ [Next]_vars => IInv'
  <1>1. IInv /\ UNCHANGED vars => IInv'
    BY DEF IInv, TypeOK, CallInv, vars
  <1>2. QED
    BY <1>1, ProcessIInv, CallIInv DEF Next

\* Every variable keeps its type, and the invariant of the call holds.
THEOREM CallCorrect == Spec => []IInv
  BY InitIInv, NextIInv, PTL DEF Spec

\* When execute_timed is left its leader is reaped, and a group that was sent SIGKILL is
\* gone.
THEOREM NothingLeft == Spec => []LeavesNothing
  <1>1. IInv => LeavesNothing
    BY DEF IInv, CallInv, LeavesNothing
  <1>2. QED
    BY <1>1, CallCorrect, PTL

\* No signal is sent to a group whose id may have been given away.
THEOREM OwnGroup == Spec => SignalsOwnGroup
  <1>1. IInv /\ [Next]_vars => [signalled' # signalled => ~reaped]_vars
    BY DEF IInv, CallInv, Next, Call, OpenFails, Popen, Reaps, WaitExpires, SendTerm,
           GraceExpires, SendKill, Cleanup, Drain, Interrupt, LeaderExits, Spawn,
           OtherEnds, runner, vars, Ends
  <1>2. QED
    BY <1>1, CallCorrect, PTL DEF Spec, SignalsOwnGroup

-----------------------------------------------------------------------------
(* The refinement.                                                         *)

LEMMA RefinesInit == Init => Promise!CallInit
  BY DEF Init, Promise!CallInit, Status, Waiting

\* A step that leaves the runner where it is shows as the end of the leader, or not at
\* all.
LEMMA RefinesProcess ==
    ASSUME IInv, UNCHANGED runner, leader' = leader \/ (leader = "live" /\ leader' \in Ends)
    PROVE  [Promise!CallNext]_Promise!callVars
  BY DEF runner, Ends, Status, Promise!CallNext, Promise!ChildEnds, Promise!Ended,
         Promise!callVars

LEMMA RefinesStep ==
    ASSUME IInv, Call \/ Interrupt
    PROVE  [Promise!CallNext]_Promise!callVars
  <1>1. CASE OpenFails \/ Popen
    BY <1>1 DEF IInv, CallInv, OpenFails, Popen, Status, Waiting, Promise!CallNext,
                Promise!Launch, Promise!NoLaunch, Promise!callVars
  <1>2. ASSUME NEW from \in {"wait", "grace", "reap"}, Reaps(from)
        PROVE  UNCHANGED Promise!callVars
    BY <1>2 DEF Reaps, Status, Waiting, Promise!callVars
  <1>3. CASE WaitExpires
    BY <1>3 DEF WaitExpires, Status, Waiting, Promise!CallNext, Promise!Expire
  <1>4. CASE GraceExpires
    BY <1>4 DEF GraceExpires, Status, Waiting, Promise!callVars
  <1>5. CASE SendTerm
    <2>1. leader' = leader \/ (leader = "live" /\ leader' \in Ends)
      BY <1>5 DEF SendTerm, Term
    <2>2. QED
      BY <1>5, <2>1 DEF IInv, CallInv, SendTerm, Term, Status, Waiting, Ends,
         Promise!CallNext, Promise!ChildEnds, Promise!Ended, Promise!callVars
  <1>6. CASE SendKill \/ (Cleanup /\ leader = "live")
    <2>1. /\ leader' = leader \/ (leader = "live" /\ leader' \in Ends)
          /\ signalled' = signalled \cup {"KILL"}
      BY <1>6 DEF SendKill, Cleanup, Kill, Ends
    <2>2. /\ pc \in Waiting /\ pc' \in Waiting /\ pc # "returned" /\ pc' # "returned"
          /\ UNCHANGED timedOut
      BY <1>6 DEF SendKill, Cleanup, Waiting, Ends
    <2>3. QED
      BY <2>1, <2>2 DEF Status, Ends, Promise!CallNext, Promise!ChildEnds,
         Promise!Ended, Promise!callVars
  <1>7. CASE Drain \/ (Cleanup /\ leader \in Ends)
    BY <1>7 DEF IInv, TypeOK, CallInv, Drain, Cleanup, Leaves, Status, Waiting, Ends,
       Promise!CallNext, Promise!Return, Promise!Raise, Promise!Ended, Promise!callVars
  <1>8. CASE Interrupt
    BY <1>8 DEF IInv, TypeOK, CallInv, Interrupt, Status, Waiting, Ends,
       Promise!CallNext, Promise!Raise, Promise!Ended, Promise!callVars
  <1>9. QED
    BY <1>1, <1>2, <1>3, <1>4, <1>5, <1>6, <1>7, <1>8 DEF Call, Cleanup

\* execute_timed implements the call that run_one relies on.
THEOREM Implements == Spec => KeepsPromise
  <1>1. IInv /\ [Next]_vars => [Promise!CallNext]_Promise!callVars
    <2>1. CASE LeaderExits \/ \E m \in Others : Spawn(m) \/ OtherEnds(m)
      BY <2>1, RefinesProcess DEF LeaderExits, Spawn, OtherEnds, Ends
    <2>2. CASE UNCHANGED vars
      BY <2>2, RefinesProcess DEF vars, runner
    <2>3. QED
      BY <2>1, <2>2, RefinesStep DEF Next
  <1>2. QED
    BY <1>1, RefinesInit, CallCorrect, PTL DEF Spec, KeepsPromise, Promise!CallSpec
=============================================================================
