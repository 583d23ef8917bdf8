------------------------------- MODULE Sandbox ------------------------------
(***************************************************************************)
(* run_checks: the checks of a repository, one after the other, each a     *)
(* process in a group of its own whose output is read from a pipe; inside  *)
(* a job that arq cancels at job_timeout.                                  *)
(*                                                                         *)
(* A check's process (the leader) may fork a descendant, which stays in    *)
(* the group and holds the pipe until it exits or closes it.  A process    *)
(* that has exited is a zombie until the event loop reaps it.  Time is     *)
(* counted in ticks; a deadline that has come is acted on before the next  *)
(* tick, two deadlines of one tick in any order.  Both the timeout of a    *)
(* check and that of the job are settings.phase_timeout_sec.               *)
(***************************************************************************)
EXTENDS Naturals

CONSTANTS
  NumChecks,      \* the commands of .ai-agent.yml
  PhaseTimeout,   \* settings.phase_timeout_sec, in ticks
  Limit           \* settings.sandbox_max_output_kb, in chunks

ASSUME SandboxAssumption == {NumChecks, PhaseTimeout, Limit} \subseteq Nat \ {0}

VARIABLES
  leader,      \* "none", "running", "zombie", "reaped"; per check
  child,       \* "none", "running", "gone"
  leaderPipe, childPipe,   \* who holds the write end of the pipe
  clean,       \* the leader exited with code 0
  out,         \* chunks of output read
  status,      \* CheckResult.status, or "none"
  cur,         \* the check run_checks is at
  pc,          \* "next", "reading", "waiting", "done", "cancelled"
  checkLeft, jobLeft

procs == <<leader, child, leaderPipe, childPipe, clean>>
clock == <<checkLeft, jobLeft>>
vars  == <<procs, out, status, cur, pc, clock>>

CheckIds == 1..NumChecks

Ended == {"done", "cancelled"}

Alive(c) == leader[c] = "running" \/ child[c] = "running"

Eof(c) == ~ leaderPipe[c] /\ ~ childPipe[c]

Init ==
  /\ leader = [c \in CheckIds |-> "none"] /\ child = [c \in CheckIds |-> "none"]
  /\ leaderPipe = [c \in CheckIds |-> FALSE] /\ childPipe = [c \in CheckIds |-> FALSE]
  /\ clean = [c \in CheckIds |-> FALSE]
  /\ out = [c \in CheckIds |-> 0] /\ status = [c \in CheckIds |-> "none"]
  /\ cur = 1 /\ pc = "next"
  /\ checkLeft = PhaseTimeout /\ jobLeft = PhaseTimeout
-----------------------------------------------------------------------------
(* What the processes of a check do *)

Fork(c) ==
  /\ leader[c] = "running" /\ child[c] = "none"
  /\ child' = [child EXCEPT ![c] = "running"]
  /\ childPipe' = [childPipe EXCEPT ![c] = leaderPipe[c]]
  /\ UNCHANGED <<leader, leaderPipe, clean, out, status, cur, pc, clock>>

LeaderCloses(c) ==
  /\ leader[c] = "running" /\ leaderPipe[c]
  /\ leaderPipe' = [leaderPipe EXCEPT ![c] = FALSE]
  /\ UNCHANGED <<leader, child, childPipe, clean, out, status, cur, pc, clock>>

LeaderExits(c) ==
  /\ leader[c] = "running"
  /\ leader' = [leader EXCEPT ![c] = "zombie"]
  /\ leaderPipe' = [leaderPipe EXCEPT ![c] = FALSE]
  /\ \E ok \in BOOLEAN : clean' = [clean EXCEPT ![c] = ok]
  /\ UNCHANGED <<child, childPipe, out, status, cur, pc, clock>>

ChildCloses(c) ==
  /\ child[c] = "running"
  /\ childPipe' = [childPipe EXCEPT ![c] = FALSE]
  /\ child' \in {child, [child EXCEPT ![c] = "gone"]}
  /\ UNCHANGED <<leader, leaderPipe, clean, out, status, cur, pc, clock>>

\* asyncio's child watcher collects the exit code.
Reap(c) ==
  /\ leader[c] = "zombie"
  /\ leader' = [leader EXCEPT ![c] = "reaped"]
  /\ UNCHANGED <<child, leaderPipe, childPipe, clean, out, status, cur, pc, clock>>
-----------------------------------------------------------------------------
(* run_check *)

Finish(result) ==
  /\ status' = [status EXCEPT ![cur] = result]
  /\ IF cur = NumChecks THEN pc' = "done" /\ UNCHANGED cur
                        ELSE pc' = "next" /\ cur' = cur + 1

\* create_subprocess_exec fails, or the binary or the environment is refused.
Refuse ==
  /\ pc = "next"
  /\ Finish("refused")
  /\ UNCHANGED <<procs, out, clock>>

Spawn ==
  /\ pc = "next"
  /\ leader' = [leader EXCEPT ![cur] = "running"]
  /\ leaderPipe' = [leaderPipe EXCEPT ![cur] = TRUE]
  /\ pc' = "reading" /\ checkLeft' = PhaseTimeout
  /\ UNCHANGED <<child, childPipe, clean, out, status, cur, jobLeft>>

\* _read_capped stops buffering at the limit.
Read ==
  /\ pc = "reading" /\ ~ Eof(cur) /\ out[cur] < Limit
  /\ out' = [out EXCEPT ![cur] = @ + 1]
  /\ UNCHANGED <<procs, status, cur, pc, clock>>

TerminateNothing(c) == UNCHANGED procs

\* _terminate_group: SIGKILL to the group of the leader; there is no such group to be
\* found by its pid once the leader has been reaped.
TerminateGroup(c) ==
  IF leader[c] = "reaped" THEN UNCHANGED procs
  ELSE /\ leader' = [leader EXCEPT ![c] = "reaped"]
       /\ child' = [child EXCEPT ![c] = IF @ = "running" THEN "gone" ELSE @]
       /\ leaderPipe' = [leaderPipe EXCEPT ![c] = FALSE]
       /\ childPipe' = [childPipe EXCEPT ![c] = FALSE]
       /\ UNCHANGED clean

OverLimit ==
  /\ pc = "reading" /\ out[cur] = Limit
  /\ TerminateGroup(cur)
  /\ Finish("failed")
  /\ UNCHANGED <<out, clock>>

CheckTimeout ==
  /\ pc = "reading" /\ checkLeft = 0
  /\ TerminateGroup(cur)
  /\ Finish("timeout")
  /\ UNCHANGED <<out, clock>>

EndOfOutput ==
  /\ pc = "reading" /\ Eof(cur) /\ out[cur] < Limit
  /\ pc' = "waiting"
  /\ UNCHANGED <<procs, out, status, cur, clock>>

ExitWithoutReap ==
  /\ pc = "waiting"
  /\ Finish(IF clean[cur] \/ leader[cur] = "running" THEN "passed" ELSE "failed")
  /\ UNCHANGED <<procs, out, clock>>

\* proc.wait() has no timeout of its own.
Exit ==
  /\ pc = "waiting" /\ leader[cur] = "reaped"
  /\ Finish(IF clean[cur] THEN "passed" ELSE "failed")
  /\ UNCHANGED <<procs, out, clock>>

JobOnlyBetweenChecks ==
  /\ pc = "next" /\ jobLeft = 0
  /\ pc' = "cancelled"
  /\ UNCHANGED <<procs, out, status, cur, clock>>

\* arq cancels the coroutine: CancelledError is not the TimeoutError run_check handles.
JobTimeout ==
  /\ pc \notin Ended /\ jobLeft = 0
  /\ pc' = "cancelled"
  /\ UNCHANGED <<procs, out, status, cur, clock>>

Tick ==
  /\ pc \notin Ended /\ jobLeft > 0
  /\ pc = "reading" => checkLeft > 0
  /\ jobLeft' = jobLeft - 1
  /\ checkLeft' = IF pc = "reading" THEN checkLeft - 1 ELSE checkLeft
  /\ UNCHANGED <<procs, out, status, cur, pc>>

Processes == \E c \in CheckIds :
  Fork(c) \/ LeaderCloses(c) \/ LeaderExits(c) \/ ChildCloses(c) \/ Reap(c)

Worker ==
  \/ Refuse \/ Spawn \/ Read \/ OverLimit \/ CheckTimeout
  \/ EndOfOutput \/ Exit \/ JobTimeout

Next == Processes \/ Worker \/ Tick

Spec == Init /\ [][Next]_vars /\ WF_vars(Worker \/ Tick)
-----------------------------------------------------------------------------
(* Properties *)

\* The variables have their types; a check's output is buffered up to its limit
\* (_read_capped).
TypeOK ==
  /\ leader \in [CheckIds -> {"none", "running", "zombie", "reaped"}]
  /\ child \in [CheckIds -> {"none", "running", "gone"}]
  /\ leaderPipe \in [CheckIds -> BOOLEAN] /\ childPipe \in [CheckIds -> BOOLEAN]
  /\ clean \in [CheckIds -> BOOLEAN]
  /\ out \in [CheckIds -> 0..Limit]
  /\ status \in [CheckIds -> {"none", "passed", "failed", "refused", "timeout"}]
  /\ cur \in CheckIds
  /\ pc \in Ended \union {"next", "reading", "waiting"}
  /\ checkLeft \in 0..PhaseTimeout /\ jobLeft \in 0..PhaseTimeout

\* A check passes only on the exit code of its own process, which has ended, and with
\* the whole of its output below the limit.  (run_check)
PassedHasExited ==
  \A c \in CheckIds : status[c] = "passed" =>
    leader[c] = "reaped" /\ clean[c] /\ out[c] < Limit

\* Two checks never run their own processes at the same time: what one of them writes
\* to the checkout is there when the next begins.  (run_checks)
OneLeaderAtATime ==
  \A c, d \in CheckIds : leader[c] = "running" /\ leader[d] = "running" => c = d

\* A worker is not held for ever, whatever the processes of a check do: a program that
\* closes its output and runs on is ended by the job's timeout alone.  (job_timeout)
JobEnds == <>(pc \in Ended)

\* After a check was ended, at its timeout or for too much output, nothing of its
\* group is left.  (sandbox_exec.py:96, the docstring of _terminate_group)
TerminatedGroupIsDead ==
  \A c \in CheckIds : status[c] = "timeout" \/ (status[c] = "failed" /\ out[c] = Limit)
                         => ~ Alive(c)

\* A timed-out phase leaves no process of a check behind.
\* (docs/modules/infrastructure.md:62)
CancelLeavesNone == pc = "cancelled" => \A c \in CheckIds : ~ Alive(c)
=============================================================================
