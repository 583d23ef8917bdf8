------------------------------- MODULE SelfFix ------------------------------
(***************************************************************************)
(* Self-repair of merge requests: GitLab's pipeline and note events        *)
(* (gitlab_webhook), the counter of repairs in Redis, and the jobs run_fix *)
(* and run_resolve, several of which may run at once.                      *)
(*                                                                         *)
(* GitLab may deliver an event again.  A merge request is known by its     *)
(* project and its iid; the counter and the task row know only the iid.    *)
(* What the fix loop answers is a free choice (see Coding).                *)
(***************************************************************************)
EXTENDS Naturals, FiniteSets

CONSTANTS
  Tasks, NoTask,   \* tasks; the lookup found none
  Repos, Iids,     \* projects; numbers of merge requests, per project
  MrOf,            \* [Tasks -> Repos \X Iids]: the merge request execute_plan records
  Forks,           \* tasks with a branch in a second project as well
  Events,          \* distinct webhook events, each with
  About,           \*   its merge request
  Kind,            \*   and "pipeline", "ai_fix" or "ai_resolve"
  Deliveries,      \* deliveries of events by GitLab
  MaxFixes,        \* settings.max_ai_fixes
  MaxFlushes,      \* bounds of the model: losses of Redis,
  MaxExpiries,     \*   expiries of the mark of an event,
  MaxReruns        \*   jobs begun again

Mrs == Repos \X Iids

ASSUME SelfFixAssumption ==
  /\ NoTask \notin Tasks /\ Forks \subseteq Tasks
  /\ MrOf \in [Tasks -> Mrs] /\ About \in [Events -> Mrs]
  /\ Kind \in [Events -> {"pipeline", "ai_fix", "ai_resolve"}]
  /\ {MaxFixes, MaxFlushes, MaxExpiries, MaxReruns} \subseteq Nat

VARIABLES
  recorded,    \* tasks whose plan phase has committed mr_iid and source_branch
  seen,        \* Redis: marks of events
  fixes,       \* Redis: the counters
  hpc, ev,     \* each delivery: where its handler is, the event
  count,       \* what INCR returned to it
  job,         \* jobs, one per delivery: where it is
  found,       \* the task a job has found
  fetched,     \* the head it has checked out
  head,        \* number of commits on branch auto-task-t of project r
  commits,     \* repairs committed: job, branch, the head they were made from, and the
               \*   head they were committed onto
  stopped,     \* merge requests with the note that the limit is reached
  told,        \* tasks with a status note in Bitrix24
  flushes, expired, reruns   \* how often Redis was lost, each mark expired, a job was begun again

redis   == <<seen, fixes>>
handler == <<hpc, ev, count>>
jobs    == <<job, found, fetched>>
effects == <<head, commits, stopped, told>>
faults  == <<flushes, expired, reruns>>
vars    == <<recorded, redis, handler, jobs, effects, faults>>

Iid(m) == m[2]

\* Projects where the branch auto-task-t exists.
HasBranch(r, t) == r = MrOf[t][1] \/ t \in Forks

Init ==
  /\ recorded = {} /\ seen = {} /\ fixes = [i \in Iids |-> 0]
  /\ hpc = [d \in Deliveries |-> "none"] /\ ev \in [Deliveries -> Events]
  /\ count = [d \in Deliveries |-> 0]
  /\ job = [d \in Deliveries |-> "none"] /\ found = [d \in Deliveries |-> NoTask]
  /\ fetched = [d \in Deliveries |-> 0]
  /\ head = [b \in Repos \X Tasks |-> 0] /\ commits = {}
  /\ stopped = {} /\ told = {}
  /\ flushes = 0 /\ expired = [e \in Events |-> 0] /\ reruns = 0

\* Delivery, CommitPlan: the task row names its merge request from now on.
Record(t) ==
  /\ t \notin recorded
  /\ recorded' = recorded \union {t}
  /\ UNCHANGED <<redis, handler, jobs, effects, faults>>
-----------------------------------------------------------------------------
(* gitlab_webhook *)

Handle(d, from, to) == hpc[d] = from /\ hpc' = [hpc EXCEPT ![d] = to]

ReceiveUnmarked(d) ==
  /\ Handle(d, "none", "marked")
  /\ seen' = seen \union {ev[d]}
  /\ UNCHANGED <<recorded, fixes, ev, count, jobs, effects, faults>>

Receive(d) ==
  /\ Handle(d, "none", "marked")
  /\ ev[d] \notin seen
  /\ seen' = seen \union {ev[d]}
  /\ UNCHANGED <<recorded, fixes, ev, count, jobs, effects, faults>>

Duplicate(d) ==
  /\ Handle(d, "none", "done")
  /\ ev[d] \in seen
  /\ UNCHANGED <<recorded, redis, ev, count, jobs, effects, faults>>

\* The author of a note is no maintainer of the project.
Ignore(d) ==
  /\ Handle(d, "marked", "done")
  /\ Kind[ev[d]] # "pipeline"
  /\ UNCHANGED <<recorded, redis, ev, count, jobs, effects, faults>>

\* _trigger_self_fix
Count(d) ==
  /\ Handle(d, "marked", "counted")
  /\ Kind[ev[d]] # "ai_resolve"
  /\ fixes' = [fixes EXCEPT ![Iid(About[ev[d]])] = @ + 1]
  /\ count' = [count EXCEPT ![d] = fixes'[Iid(About[ev[d]])]]
  /\ UNCHANGED <<recorded, seen, ev, jobs, effects, faults>>

FixAllowedOnceMore(n) == n <= MaxFixes + 1

\* next_fix_action of the repairs done before this one.
FixAllowed(n) == n - 1 < MaxFixes

Enqueue(d) ==
  /\ Handle(d, "counted", "done")
  /\ FixAllowed(count[d])
  /\ job' = [job EXCEPT ![d] = "queued"]
  /\ UNCHANGED <<recorded, redis, ev, count, found, fetched, effects, faults>>

Stop(d) ==
  /\ Handle(d, "counted", "done")
  /\ ~ FixAllowed(count[d])
  /\ stopped' = stopped \union {About[ev[d]]}
  /\ UNCHANGED <<recorded, redis, ev, count, jobs, head, commits, told, faults>>

EnqueueResolve(d) ==
  /\ Handle(d, "marked", "done")
  /\ Kind[ev[d]] = "ai_resolve"
  /\ job' = [job EXCEPT ![d] = "resolve"]
  /\ UNCHANGED <<recorded, redis, ev, count, found, fetched, effects, faults>>

\* The queue or GitLab cannot be reached: the event has been marked and is not retried.
HandlerFails(d) ==
  /\ hpc[d] \in {"marked", "counted"}
  /\ hpc' = [hpc EXCEPT ![d] = "failed"]
  /\ UNCHANGED <<recorded, redis, ev, count, jobs, effects, faults>>

\* Redis is emptied: its marks and counters are nowhere else.
RedisLost ==
  /\ flushes < MaxFlushes
  /\ flushes' = flushes + 1
  /\ seen' = {} /\ fixes' = [i \in Iids |-> 0]
  /\ UNCHANGED <<recorded, handler, jobs, effects, expired, reruns>>

\* The mark of an event has a time to live, the counter has none.
MarkExpires(e) ==
  /\ e \in seen /\ expired[e] < MaxExpiries
  /\ seen' = seen \ {e}
  /\ expired' = [expired EXCEPT ![e] = @ + 1]
  /\ UNCHANGED <<recorded, fixes, handler, jobs, effects, flushes, reruns>>
-----------------------------------------------------------------------------
(* run_fix, run_resolve *)

Step(d, from, to) == job[d] = from /\ job' = [job EXCEPT ![d] = to]

\* get_task_by_mr: any one of the tasks with this iid, in whatever project.
ByMr(m) == {t \in recorded : Iid(MrOf[t]) = Iid(m)}

FindTask(d) ==
  /\ job[d] = "queued"
  /\ \/ /\ ByMr(About[ev[d]]) = {}
        /\ job' = [job EXCEPT ![d] = "no_task"] /\ UNCHANGED found
     \/ \E t \in ByMr(About[ev[d]]) :
          found' = [found EXCEPT ![d] = t] /\ job' = [job EXCEPT ![d] = "found"]
  /\ UNCHANGED <<recorded, redis, handler, fetched, effects, faults>>

Branch(d) == <<About[ev[d]][1], found[d]>>

\* fetch_archive: GitLab has no archive of a branch that does not exist.
Fetch(d) ==
  /\ job[d] = "found"
  /\ IF HasBranch(About[ev[d]][1], found[d])
     THEN /\ job' = [job EXCEPT ![d] = "fixing"]
          /\ fetched' = [fetched EXCEPT ![d] = head[Branch(d)]]
     ELSE job' = [job EXCEPT ![d] = "failed"] /\ UNCHANGED fetched
  /\ UNCHANGED <<recorded, redis, handler, found, effects, faults>>

\* run_fix_loop has nothing to commit: green already, or given up.
NotFixed(d) ==
  /\ \E status \in {"nothing_to_fix", "unfixed"} : Step(d, "fixing", status)
  /\ told' = told \union {found[d]}
  /\ UNCHANGED <<recorded, redis, handler, found, fetched, head, commits, stopped, faults>>

CommitFix(d) ==
  /\ Step(d, "fixing", "fixed")
  /\ head' = [head EXCEPT ![Branch(d)] = @ + 1]
  /\ commits' = commits \union
       {[job |-> d, branch |-> Branch(d), made |-> fetched[d], onto |-> head[Branch(d)]]}
  /\ UNCHANGED <<recorded, redis, handler, found, fetched, stopped, told, faults>>

TellFixed(d) ==
  /\ Step(d, "fixed", "done")
  /\ told' = told \union {found[d]}
  /\ UNCHANGED <<recorded, redis, handler, found, fetched, head, commits, stopped, faults>>

\* run_conflict_resolution hands every conflict to a human.
Resolve(d) ==
  /\ Step(d, "resolve", "done")
  /\ \/ ByMr(About[ev[d]]) = {} /\ UNCHANGED told
     \/ \E t \in ByMr(About[ev[d]]) : told' = told \union {t}
  /\ UNCHANGED <<recorded, redis, handler, found, fetched, head, commits, stopped, faults>>

JobFailsRetried(d) ==
  /\ job[d] \in {"found", "fixing", "fixed"}
  /\ job' = [job EXCEPT ![d] = "queued"]
  /\ UNCHANGED <<recorded, redis, handler, found, fetched, effects, faults>>

\* An error, or the job's timeout; arq does not retry.
JobFails(d) ==
  /\ job[d] \in {"found", "fixing", "fixed"}
  /\ job' = [job EXCEPT ![d] = "failed"]
  /\ UNCHANGED <<recorded, redis, handler, found, fetched, effects, faults>>

\* The worker dies or is stopped: arq begins the job again.  (After its last note a job
\* changes nothing, so an end there is like one before that note.)
Rerun(d) ==
  /\ job[d] \in {"found", "fixing", "fixed"} /\ reruns < MaxReruns
  /\ job' = [job EXCEPT ![d] = "queued"] /\ found' = [found EXCEPT ![d] = NoTask]
  /\ fetched' = [fetched EXCEPT ![d] = 0]
  /\ reruns' = reruns + 1
  /\ UNCHANGED <<recorded, redis, handler, effects, flushes, expired>>

Next ==
  \/ \E t \in Tasks : Record(t)
  \/ \E d \in Deliveries :
       \/ Receive(d) \/ Duplicate(d) \/ Ignore(d) \/ Count(d) \/ Enqueue(d) \/ Stop(d)
       \/ EnqueueResolve(d) \/ HandlerFails(d)
       \/ FindTask(d) \/ Fetch(d) \/ NotFixed(d) \/ CommitFix(d) \/ TellFixed(d)
       \/ Resolve(d) \/ JobFails(d) \/ Rerun(d)
  \/ RedisLost
  \/ \E e \in Events : MarkExpires(e)

Spec == Init /\ [][Next]_vars
-----------------------------------------------------------------------------
(* Properties *)

HandlerStates == {"none", "marked", "counted", "done", "failed"}
JobStates == {"none", "queued", "resolve", "found", "fixing", "fixed", "done", "failed",
              "no_task", "nothing_to_fix", "unfixed"}

\* A job that checks out or repairs has found its task (run_self_fix).
TypeOK ==
  /\ recorded \subseteq Tasks /\ seen \subseteq Events
  /\ fixes \in [Iids -> Nat] /\ count \in [Deliveries -> Nat]
  /\ hpc \in [Deliveries -> HandlerStates] /\ ev \in [Deliveries -> Events]
  /\ job \in [Deliveries -> JobStates] /\ found \in [Deliveries -> Tasks \union {NoTask}]
  /\ fetched \in [Deliveries -> Nat] /\ head \in [Repos \X Tasks -> Nat]
  /\ commits \subseteq [job : Deliveries, branch : Repos \X Tasks, made : Nat, onto : Nat]
  /\ stopped \subseteq Mrs /\ told \subseteq Tasks
  /\ \A d \in Deliveries : job[d] \in {"found", "fixing", "fixed"} => found[d] \in Tasks
  /\ flushes \in 0..MaxFlushes /\ reruns \in 0..MaxReruns
  /\ expired \in [Events -> 0..MaxExpiries]

\* Deliveries that have led to a run_fix for this number.
FixJobs(i) ==
  {d \in Deliveries : job[d] \notin {"none", "resolve"} /\ count[d] > 0
                        /\ Iid(About[ev[d]]) = i}

\* As long as Redis keeps its counters, never more than MAX_AI_FIXES repairs of a merge
\* request are begun, whatever deliveries race.  (_trigger_self_fix, INCR)
FixesWithinLimit == flushes = 0 => \A i \in Iids : Cardinality(FixJobs(i)) <= MaxFixes

\* Deliveries that were counted as a request for a repair.
Counted(e) == {d \in Deliveries : count[d] > 0 /\ ev[d] = e}

\* Unless Redis is lost, an event delivered several times, also while it is being handled,
\* counts as one repair at most, and as one more whenever its mark has expired in between.
\* (mark_seen, before anything else; the counter outlives the mark)
EventCountsOnce ==
  flushes = 0 => \A e \in Events : Cardinality(Counted(e)) <= 1 + expired[e]

RepairsOf(i) == {c \in commits : Iid(About[ev[c.job]]) = i}

\* The limit bounds what is really pushed: whatever jobs run at once, fail after their
\* commit or are begun again when their worker dies, the commits of repairs for a number
\* exceed MAX_AI_FIXES by the jobs begun again at most.
\* (run_self_fix; an exception is not retried, a dead worker's job is)
RepairsWithinLimit ==
  flushes = 0 => \A i \in Iids : Cardinality(RepairsOf(i)) <= MaxFixes + reruns

\* A repair is committed to the branch of the merge request whose event asked for it.
\* (orchestrator.py:668, the docstring of run_self_fix)
OwnBranch(c) == MrOf[c.branch[2]] = About[ev[c.job]]
FixesStayHome == \A c \in commits : OwnBranch(c)

\* Also when Redis is lost.  (docs/reference/glossary.md:14)
FixesAlwaysWithinLimit == \A i \in Iids : Cardinality(FixJobs(i)) <= MaxFixes

\* A repair is committed on the very head it was made and tested for.
\* (docs/deployment/scaling.md:28, a lock per task)
FixesOnFetchedHead == \A c \in commits : c.made = c.onto
=============================================================================
