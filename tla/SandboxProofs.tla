---------------------------- MODULE SandboxProofs ---------------------------
(***************************************************************************)
(* Theorems about run_checks, for any number of checks, any timeout and    *)
(* any limit of output, whatever the processes of a check do.              *)
(***************************************************************************)
EXTENDS Sandbox, TLAPS

LeaderStates == {"none", "running", "zombie", "reaped"}

\* The parts of TypeOK the argument needs.
Types ==
  /\ leader \in [CheckIds -> LeaderStates]
  /\ clean \in [CheckIds -> BOOLEAN] /\ out \in [CheckIds -> Nat]
  /\ status \in [CheckIds -> {"none", "passed", "failed", "refused", "timeout"}]
  /\ cur \in CheckIds
  /\ pc \in Ended \union {"next", "reading", "waiting"}

\* Only the check at hand may have a running process, and it has no result yet; the checks
\* behind it have neither.
InTurn ==
  /\ \A c \in CheckIds : leader[c] = "running" => c = cur /\ pc \notin {"next", "done"}
  /\ \A c \in CheckIds : c > cur \/ (c = cur /\ pc # "done") => status[c] = "none"
  /\ pc = "waiting" => out[cur] < Limit

IndInv == Types /\ InTurn /\ PassedHasExited

\* Before the first check.
LEMMA InitInv == Init => IndInv
BY SandboxAssumption
   DEF Init, IndInv, Types, InTurn, PassedHasExited, LeaderStates, CheckIds, Ended

\* Ending a group leaves no leader running and nothing else of other checks changed.
LEMMA TerminateFacts ==
  ASSUME Types, NEW c \in CheckIds, TerminateGroup(c)
  PROVE  /\ leader' = [leader EXCEPT ![c] = "reaped"] /\ clean' = clean
BY DEF Types, TerminateGroup, procs

\* Ending a check: the next one, if there is any, is untouched.
LEMMA FinishInv ==
  ASSUME IndInv, NEW result \in {"passed", "failed", "refused", "timeout"}, Finish(result),
         pc \notin Ended, out' = out, clean' = clean,
         leader' = leader \/ leader' = [leader EXCEPT ![cur] = "reaped"],
         leader'[cur] # "running",
         result = "passed" => leader'[cur] = "reaped" /\ clean[cur] /\ out[cur] < Limit
  PROVE  IndInv'
<1> USE SandboxAssumption DEF IndInv, Types, Ended, CheckIds, Finish, LeaderStates
<1>1. Types'
  OBVIOUS
<1>2. InTurn'
  BY DEF InTurn
<1>3. PassedHasExited'
  BY DEF InTurn, PassedHasExited
<1> QED BY <1>1, <1>2, <1>3

\* Every step of the processes, of the worker and of the clock.
LEMMA NextInv == IndInv /\ [Next]_vars => IndInv'
<1> SUFFICES ASSUME IndInv, [Next]_vars PROVE IndInv'
  OBVIOUS
<1> USE SandboxAssumption DEF procs, clock
<1>1. ASSUME NEW c \in CheckIds,
             Fork(c) \/ LeaderCloses(c) \/ LeaderExits(c) \/ ChildCloses(c) \/ Reap(c)
      PROVE  IndInv'
  <2>1. UNCHANGED <<out, status, cur, pc>>
    BY <1>1 DEF Fork, LeaderCloses, LeaderExits, ChildCloses, Reap
  <2>2. UNCHANGED <<leader, clean>> \/ LeaderExits(c) \/ Reap(c)
    BY <1>1 DEF Fork, LeaderCloses, ChildCloses
  <2>3. CASE UNCHANGED <<leader, clean>>
    BY <2>1, <2>3 DEF IndInv, Types, InTurn, PassedHasExited
  <2>4. CASE LeaderExits(c)
    BY <2>1, <2>4 DEF LeaderExits, IndInv, Types, InTurn, PassedHasExited, LeaderStates
  <2>5. CASE Reap(c)
    BY <2>1, <2>5 DEF Reap, IndInv, Types, InTurn, PassedHasExited, LeaderStates
  <2> QED BY <2>2, <2>3, <2>4, <2>5
<1>2. CASE Refuse
  <2>1. pc = "next" /\ Finish("refused") /\ UNCHANGED <<leader, clean, out>>
    BY <1>2 DEF Refuse
  <2>2. cur \in CheckIds /\ leader[cur] # "running" /\ pc \notin Ended
    BY <2>1 DEF IndInv, Types, InTurn, Ended
  <2> QED BY <2>1, <2>2, FinishInv
<1>3. CASE Spawn
  BY <1>3 DEF Spawn, IndInv, Types, InTurn, PassedHasExited, LeaderStates, CheckIds
<1>4. CASE Read
  BY <1>4 DEF Read, IndInv, Types, InTurn, PassedHasExited
<1>5. CASE OverLimit \/ CheckTimeout
  <2>1. PICK result \in {"failed", "timeout"} : TerminateGroup(cur) /\ Finish(result)
    BY <1>5 DEF OverLimit, CheckTimeout
  <2>2. cur \in CheckIds /\ pc \notin Ended /\ out' = out /\ Types
    BY <1>5 DEF OverLimit, CheckTimeout, IndInv, Types, Ended
  <2>3. leader' = [leader EXCEPT ![cur] = "reaped"] /\ clean' = clean
    BY <2>1, <2>2, TerminateFacts
  <2>4. leader'[cur] # "running"
    BY <2>2, <2>3 DEF Types
  <2> QED BY <2>1, <2>2, <2>3, <2>4, FinishInv
<1>6. CASE EndOfOutput
  BY <1>6 DEF EndOfOutput, IndInv, Types, InTurn, PassedHasExited
<1>7. CASE Exit
  <2>1. /\ pc = "waiting" /\ leader[cur] = "reaped" /\ UNCHANGED <<leader, clean, out>>
        /\ Finish(IF clean[cur] THEN "passed" ELSE "failed")
    BY <1>7 DEF Exit
  <2>2. pc \notin Ended /\ out[cur] < Limit
    BY <2>1 DEF IndInv, InTurn, Ended
  <2>3. CASE clean[cur]
    BY <2>1, <2>2, <2>3, FinishInv
  <2>4. CASE ~ clean[cur]
    BY <2>1, <2>2, <2>4, FinishInv
  <2> QED BY <2>3, <2>4
<1>8. CASE JobTimeout
  BY <1>8 DEF JobTimeout, IndInv, Types, InTurn, PassedHasExited, Ended
<1>9. CASE Tick \/ UNCHANGED vars
  BY <1>9 DEF Tick, vars, IndInv, Types, InTurn, PassedHasExited
<1> QED BY <1>1, <1>2, <1>3, <1>4, <1>5, <1>6, <1>7, <1>8, <1>9 DEF Next, Processes, Worker

\* The invariant holds in every behaviour.
THEOREM Inductive == Spec => []IndInv
BY InitInv, NextInv, PTL DEF Spec

\* run_check: passed is the exit code of the check's own process, which has ended, and
\* nothing later takes that back.
THEOREM PassedEnded == Spec => []PassedHasExited
<1>1. IndInv => PassedHasExited
  BY DEF IndInv
<1> QED BY <1>1, Inductive, PTL

\* run_checks: one check's process at a time.
THEOREM OneAtATime == Spec => []OneLeaderAtATime
<1>1. IndInv => OneLeaderAtATime
  BY DEF IndInv, InTurn, OneLeaderAtATime
<1> QED BY <1>1, Inductive, PTL
=============================================================================
