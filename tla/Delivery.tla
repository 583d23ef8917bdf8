------------------------------ MODULE Delivery ------------------------------
(***************************************************************************)
(* From the approved /go to the merge requests of one task: the relay of   *)
(* the outbox (drain_outbox, a cron job of every worker), the arq queue,   *)
(* and the plan phase (run_task_phase, execute_plan, run_coding_slice,     *)
(* _apply_gates, finalize_mr) with its effects in GitLab and Bitrix24,     *)
(* while the task may be edited or cancelled and a human may close its     *)
(* merge requests.                                                         *)
(*                                                                         *)
(* The outbox row is there from the start (Briefing, GoApprove).  A drain  *)
(* and a job are each one database transaction; calls to GitLab and        *)
(* Bitrix24 take effect at once and are not undone by a rollback.  arq     *)
(* does not retry a job that raised, and runs again a job whose worker     *)
(* died.                                                                   *)
(***************************************************************************)
EXTENDS Naturals, Sequences, FiniteSets

CONSTANTS
  Drains,          \* overlapping runs of drain_outbox
  NumJobs,         \* bound of the model: plan jobs the queue may get
  RepoList,        \* card.all_repos
  LastIid,         \* the last merge request of each project before the task
  StartupInitsDb,  \* does the worker's start-up initialise its database manager
  NoOne,           \* nobody holds a row lock
  MaxFaults,       \* bound of the model: failures and crashes
  MaxEdits         \* bound of the model: edits of the task

Jobs == 1..NumJobs

Repos == {RepoList[i] : i \in DOMAIN RepoList}

ASSUME DeliveryAssumption ==
  /\ RepoList \in Seq(Repos) /\ RepoList # <<>>
  /\ \A i, k \in DOMAIN RepoList : RepoList[i] = RepoList[k] => i = k
  /\ LastIid \in [Repos -> Nat]
  /\ StartupInitsDb \in BOOLEAN
  /\ IsFiniteSet(Drains) /\ NoOne \notin Drains \union Jobs
  /\ {NumJobs, MaxFaults, MaxEdits} \subseteq Nat

VARIABLES
  outbox, outLock,   \* the row of outbox_event, committed; its row lock
  drain,             \* where each drain is
  task, rowLock,     \* the row of task_state, committed; its row lock
  pc, seen,          \* where each job is; the task row it has read
  results,           \* its result per repository
  work,              \* what it has in hand for the current repository
  runs,              \* how often it was begun
  head,              \* per repository: the commit the branch auto-task-* is at
  mrs,               \* per repository: the merge requests of that branch
  passed,            \* commits that review, red team and scope let through
  summaries,         \* [AI_MR_SUMMARY] comments: the results they tell
  faults

relay  == <<outbox, outLock, drain>>
gitlab == <<head, mrs, passed>>
vars   == <<relay, task, rowLock, pc, seen, results, work, runs, gitlab, summaries, faults>>

NoBranch == [state |-> "absent"]
AtMain   == [state |-> "main"]
Coded(j, v) == [state |-> "coded", job |-> j, run |-> runs[j], verified |-> v]
NoWork   == [verified |-> FALSE, ready |-> FALSE, iid |-> 0]
NoTask   == [ver |-> 0, card |-> 0, mr |-> 0, phase |-> "none", status |-> "none"]

Init ==
  /\ outbox = "pending" /\ outLock = NoOne
  /\ drain = [d \in Drains |-> "idle"]
  /\ task = [ver |-> 1, card |-> 0, mr |-> 0, phase |-> "briefing", status |-> "active"]
  /\ rowLock = NoOne
  /\ pc = [j \in Jobs |-> "none"] /\ seen = [j \in Jobs |-> NoTask]
  /\ results = [j \in Jobs |-> <<>>] /\ work = [j \in Jobs |-> NoWork]
  /\ runs = [j \in Jobs |-> 0]
  /\ head = [r \in Repos |-> NoBranch] /\ mrs = [r \in Repos |-> <<>>]
  /\ passed = {} /\ summaries = {}
  /\ faults = 0
-----------------------------------------------------------------------------
(* drain_outbox *)

DrainStep(d, from, to) == drain[d] = from /\ drain' = [drain EXCEPT ![d] = to]

\* sessionmanager.session() raises when nobody has called sessionmanager.init.
DrainList(d) ==
  /\ StartupInitsDb
  /\ outbox = "pending"
  /\ DrainStep(d, "idle", "listed")
  /\ UNCHANGED <<outbox, outLock, task, rowLock, pc, seen, results, work, runs, gitlab,
                 summaries, faults>>

DrainEnqueue(d) ==
  /\ DrainStep(d, "listed", "enqueued")
  /\ \E j \in Jobs :
       /\ pc[j] = "none" /\ \A k \in Jobs : k < j => pc[k] # "none"
       /\ pc' = [pc EXCEPT ![j] = "queued"]
  /\ UNCHANGED <<outbox, outLock, task, rowLock, seen, results, work, runs, gitlab,
                 summaries, faults>>

MarkFirst(d) ==
  /\ drain[d] \in {"listed", "enqueued"}
  /\ drain' = [drain EXCEPT ![d] = "marked"]
  /\ outLock = NoOne /\ outLock' = d
  /\ UNCHANGED <<outbox, task, rowLock, pc, seen, results, work, runs, gitlab, summaries, faults>>

DrainMark(d) ==
  /\ DrainStep(d, "enqueued", "marked")
  /\ outLock = NoOne /\ outLock' = d
  /\ UNCHANGED <<outbox, task, rowLock, pc, seen, results, work, runs, gitlab, summaries, faults>>

DrainCommit(d) ==
  /\ DrainStep(d, "marked", "idle")
  /\ outbox' = "sent" /\ outLock' = NoOne
  /\ UNCHANGED <<task, rowLock, pc, seen, results, work, runs, gitlab, summaries, faults>>

\* The queue or the database fails, or the worker dies: nothing is marked.
DrainFail(d) ==
  /\ drain[d] # "idle" /\ faults < MaxFaults
  /\ drain' = [drain EXCEPT ![d] = "idle"]
  /\ outLock' = IF outLock = d THEN NoOne ELSE outLock
  /\ faults' = faults + 1
  /\ UNCHANGED <<outbox, task, rowLock, pc, seen, results, work, runs, gitlab, summaries>>
-----------------------------------------------------------------------------
(* execute_plan: one repository after the other *)

Repo(j) == RepoList[Len(results[j]) + 1]
Branch(j) == head[Repo(j)]

\* iids of open merge requests of the branch.
OpenMrs(r) == {LastIid[r] + i : i \in {k \in DOMAIN mrs[r] : mrs[r][k].open}}

Step(j, from, to) == pc[j] = from /\ pc' = [pc EXCEPT ![j] = to]

AfterRepo(j, result) ==
  /\ results' = [results EXCEPT ![j] = Append(@, result)]
  /\ pc' = [pc EXCEPT ![j] = IF Len(results'[j]) = Len(RepoList) THEN "record" ELSE "code"]
  /\ work' = [work EXCEPT ![j] = NoWork]

Load(j) ==
  /\ StartupInitsDb
  /\ Step(j, "queued", "code")
  /\ seen' = [seen EXCEPT ![j] = task]
  /\ runs' = [runs EXCEPT ![j] = @ + 1]
  /\ UNCHANGED <<relay, task, rowLock, results, work, gitlab, summaries, faults>>

\* Checkout, plan, the gate of the plan, generate_changes.
NotCoded(j) ==
  /\ pc[j] = "code"
  /\ \E status \in {"blocked", "needs_human", "self_check_failed"} :
       AfterRepo(j, [status |-> status, iid |-> 0])
  /\ UNCHANGED <<relay, task, rowLock, seen, runs, gitlab, summaries, faults>>

Code(j) ==
  /\ Step(j, "code", "branch?")
  /\ \E v \in BOOLEAN : work' = [work EXCEPT ![j].verified = v]
  /\ UNCHANGED <<relay, task, rowLock, seen, results, runs, gitlab, summaries, faults>>

BranchExists(j) ==
  /\ pc[j] = "branch?"
  /\ pc' = [pc EXCEPT ![j] = IF Branch(j) = NoBranch THEN "branch" ELSE "commit_files"]
  /\ UNCHANGED <<relay, task, rowLock, seen, results, work, runs, gitlab, summaries, faults>>

\* GitLab refuses to create a branch that exists: Raise.
CreateBranch(j) ==
  /\ Step(j, "branch", "commit_files")
  /\ Branch(j) = NoBranch
  /\ head' = [head EXCEPT ![Repo(j)] = AtMain]
  /\ UNCHANGED <<relay, task, rowLock, seen, results, work, runs, mrs, passed, summaries, faults>>

CommitFiles(j) ==
  /\ Step(j, "commit_files", "mr?")
  /\ head' = [head EXCEPT ![Repo(j)] = Coded(j, work[j].verified)]
  /\ UNCHANGED <<relay, task, rowLock, seen, results, work, runs, mrs, passed, summaries, faults>>

FindOpenMr(j) ==
  /\ pc[j] = "mr?"
  /\ IF OpenMrs(Repo(j)) = {}
     THEN pc' = [pc EXCEPT ![j] = "mr"] /\ UNCHANGED work
     ELSE /\ pc' = [pc EXCEPT ![j] = "gates"]
          /\ \E i \in OpenMrs(Repo(j)) : work' = [work EXCEPT ![j].iid = i]
  /\ UNCHANGED <<relay, task, rowLock, seen, results, runs, gitlab, summaries, faults>>

\* GitLab refuses a second open merge request of a branch: Raise.
CreateDraftMr(j) ==
  /\ Step(j, "mr", "gates")
  /\ OpenMrs(Repo(j)) = {}
  /\ mrs' = [mrs EXCEPT ![Repo(j)] = Append(@, [open |-> TRUE, draft |-> TRUE])]
  /\ work' = [work EXCEPT ![j].iid = LastIid[Repo(j)] + Len(mrs'[Repo(j)])]
  /\ UNCHANGED <<relay, task, rowLock, seen, results, runs, head, passed, summaries, faults>>

LetThroughUnverified(j) ==
  /\ passed' = IF work[j].verified THEN passed \union {Coded(j, TRUE)} ELSE passed
  /\ work' = [work EXCEPT ![j].ready = TRUE]

LetThrough(j) ==
  /\ passed' = passed \union {Coded(j, work[j].verified)}
  /\ work' = [work EXCEPT ![j].ready = work[j].verified]

\* Review, red team and scope, about the files this job has generated.
Gates(j) ==
  /\ Step(j, "gates", "finalize")
  /\ LetThrough(j) \/ UNCHANGED <<passed, work>>
  /\ UNCHANGED <<relay, task, rowLock, seen, results, runs, head, mrs, summaries, faults>>

FinalizeMr(j) ==
  /\ pc[j] = "finalize"
  /\ AfterRepo(j, [status |-> "mr_ready", iid |-> work[j].iid])
  /\ mrs' = IF work[j].ready
            THEN [mrs EXCEPT ![Repo(j)][work[j].iid - LastIid[Repo(j)]].draft = FALSE]
            ELSE mrs
  /\ UNCHANGED <<relay, task, rowLock, seen, runs, head, passed, summaries, faults>>
-----------------------------------------------------------------------------
(* execute_plan: its own row, its summary, its commit *)

WithStatus(j, status) == {i \in DOMAIN results[j] : results[j][i].status = status}

FirstReady(j) ==
  results[j][CHOOSE i \in WithStatus(j, "mr_ready") :
               \A k \in WithStatus(j, "mr_ready") : i <= k]

Outcome(j) ==
  CASE WithStatus(j, "mr_ready") # {} -> [mr |-> FirstReady(j).iid, phase |-> "ci"]
    [] WithStatus(j, "mr_ready") = {} /\ WithStatus(j, "blocked") # {} ->
         [mr |-> seen[j].mr, phase |-> "blocked"]
    [] WithStatus(j, "mr_ready") = {} /\ WithStatus(j, "blocked") = {}
         /\ WithStatus(j, "needs_human") # {} -> [mr |-> seen[j].mr, phase |-> "needs_human"]
    [] OTHER -> [mr |-> seen[j].mr, phase |-> seen[j].phase]

\* The flush writes nothing when no attribute has changed.
Dirty(j) == Outcome(j) # [mr |-> seen[j].mr, phase |-> seen[j].phase]

NoVersionCheck(j) == TRUE

Current(j) == seen[j].ver = task.ver

Flush(j) ==
  /\ Step(j, "record", "announce")
  /\ IF Dirty(j) THEN rowLock = NoOne /\ Current(j) /\ rowLock' = j ELSE UNCHANGED rowLock
  /\ UNCHANGED <<relay, task, seen, results, work, runs, gitlab, summaries, faults>>

\* _plan_summary: a line for each repository.
PlanSummary(j) == results[j]

AnnounceNothing(j) ==
  /\ Step(j, "announce", "commit")
  /\ UNCHANGED <<relay, task, rowLock, seen, results, work, runs, gitlab, summaries, faults>>

Announce(j) ==
  /\ Step(j, "announce", "commit")
  /\ summaries' = summaries \union {PlanSummary(j)}
  /\ UNCHANGED <<relay, task, rowLock, seen, results, work, runs, gitlab, faults>>

CommitPlan(j) ==
  /\ Step(j, "commit", "done")
  /\ IF rowLock = j
     THEN /\ task' = [task EXCEPT !.mr = Outcome(j).mr, !.phase = Outcome(j).phase,
                                  !.ver = @ + 1]
          /\ rowLock' = NoOne
     ELSE UNCHANGED <<task, rowLock>>
  /\ UNCHANGED <<relay, seen, results, work, runs, gitlab, summaries, faults>>

Running(j) == pc[j] \notin {"none", "queued", "done", "failed"}

LockKept(j) == rowLock

Unlocked(j) == IF rowLock = j THEN NoOne ELSE rowLock

\* An error the code meets: a stale row, a branch or a merge request that exists.
Raise(j) ==
  /\ \/ pc[j] = "record" /\ Dirty(j) /\ ~ Current(j)
     \/ pc[j] = "branch" /\ Branch(j) # NoBranch
     \/ pc[j] = "mr" /\ OpenMrs(Repo(j)) # {}
     \/ pc[j] = "queued" /\ ~ StartupInitsDb
  /\ pc' = [pc EXCEPT ![j] = "failed"]
  /\ UNCHANGED <<relay, task, rowLock, seen, results, work, runs, gitlab, summaries, faults>>

\* Any other error, job_timeout included; arq does not retry.
Fail(j) ==
  /\ Running(j) /\ faults < MaxFaults
  /\ pc' = [pc EXCEPT ![j] = "failed"]
  /\ rowLock' = Unlocked(j) /\ faults' = faults + 1
  /\ UNCHANGED <<relay, task, seen, results, work, runs, gitlab, summaries>>

\* The worker dies or is restarted: the job is run again from the beginning.
Crash(j) ==
  /\ Running(j) /\ faults < MaxFaults
  /\ pc' = [pc EXCEPT ![j] = "queued"]
  /\ results' = [results EXCEPT ![j] = <<>>] /\ work' = [work EXCEPT ![j] = NoWork]
  /\ rowLock' = Unlocked(j) /\ faults' = faults + 1
  /\ UNCHANGED <<relay, task, seen, runs, gitlab, summaries>>
-----------------------------------------------------------------------------
(* Others *)

\* intake_task for an edited task: the card is another.
Edit ==
  /\ rowLock = NoOne /\ task.card < MaxEdits
  /\ task' = [task EXCEPT !.card = @ + 1, !.ver = @ + 1]
  /\ UNCHANGED <<relay, rowLock, pc, seen, results, work, runs, gitlab, summaries, faults>>

\* cancel_task: the session has ended with APPROVED, so only the status changes.
Cancel ==
  /\ rowLock = NoOne /\ task.status = "active"
  /\ task' = [task EXCEPT !.status = "cancelled", !.ver = @ + 1]
  /\ UNCHANGED <<relay, rowLock, pc, seen, results, work, runs, gitlab, summaries, faults>>

HumanCloses(r) ==
  /\ \E i \in DOMAIN mrs[r] : mrs[r][i].open /\ mrs' = [mrs EXCEPT ![r][i].open = FALSE]
  /\ UNCHANGED <<relay, task, rowLock, pc, seen, results, work, runs, head, passed,
                 summaries, faults>>

DrainSteps(d) == DrainList(d) \/ DrainEnqueue(d) \/ DrainMark(d) \/ DrainCommit(d)

JobSteps(j) ==
  \/ Load(j) \/ NotCoded(j) \/ Code(j) \/ BranchExists(j) \/ CreateBranch(j)
  \/ CommitFiles(j) \/ FindOpenMr(j) \/ CreateDraftMr(j) \/ Gates(j) \/ FinalizeMr(j)
  \/ Flush(j) \/ Announce(j) \/ CommitPlan(j) \/ Raise(j)

Next ==
  \/ \E d \in Drains : DrainSteps(d) \/ DrainFail(d)
  \/ \E j \in Jobs : JobSteps(j) \/ Fail(j) \/ Crash(j)
  \/ Edit \/ Cancel
  \/ \E r \in Repos : HumanCloses(r)

Fairness ==
  /\ \A d \in Drains : WF_vars(DrainSteps(d))
  /\ \A j \in Jobs : WF_vars(JobSteps(j))

Spec == Init /\ [][Next]_vars /\ Fairness
-----------------------------------------------------------------------------
(* Properties *)

\* A job has a result per repository at most, and a branch one open merge request at most
\* (execute_plan; GitLab).
TypeOK ==
  /\ outbox \in {"pending", "sent"} /\ outLock \in Drains \union {NoOne}
  /\ drain \in [Drains -> {"idle", "listed", "enqueued", "marked"}]
  /\ task.ver \in Nat /\ task.card \in 0..MaxEdits /\ task.mr \in Nat
  /\ task.phase \in {"briefing", "ci", "blocked", "needs_human"}
  /\ rowLock \in Jobs \union {NoOne}
  /\ \A j \in Jobs : Len(results[j]) <= Len(RepoList) /\ runs[j] <= 1 + MaxFaults
  /\ \A r \in Repos : Cardinality(OpenMrs(r)) <= 1
  /\ faults \in 0..MaxFaults

Started == {j \in Jobs : runs[j] > 0}

Enqueued == {j \in Jobs : pc[j] # "none"}

\* The start is not lost: an intent that is marked as sent is in the queue, however
\* drains overlap, fail or die.  (drain_outbox)
SentWasEnqueued == outbox = "sent" => Enqueued # {}

\* The intent is enqueued again only for a reason: without a fault, once for each drain
\* that ran at the same time.  (drain_outbox, mark_outbox_sent)
StartsAccountedFor ==
  Cardinality(Enqueued) <= Cardinality(Drains) + faults

\* The task row records a plan made from the card and under the status it holds: a plan
\* whose task was edited or cancelled meanwhile is not recorded.
\* (the version column of task_state)
RecordedPlanIsCurrent ==
  [][task'.mr # task.mr \/ task'.phase # task.phase =>
       \E j \in Jobs : /\ pc[j] = "commit"
                       /\ seen[j].card = task.card /\ seen[j].status = task.status]_vars

\* A merge request the task row names was told to the author before.  (execute_plan)
RecordedIsAnnounced ==
  task.mr # 0 =>
    \E s \in summaries : \E i \in DOMAIN s : s[i].iid = task.mr /\ s[i].status = "mr_ready"

\* The branch of an open merge request that is not a draft is at a commit that was
\* verified and let through by the gates.
GatedHead(r) == \A i \in DOMAIN mrs[r] :
  mrs[r][i].open /\ ~ mrs[r][i].draft => head[r] \in passed /\ head[r].verified

\* As long as the plan phase has been begun once, however it failed.  (_apply_gates)
ReadyOnceIsGated ==
  (Cardinality(Started) <= 1 /\ \A j \in Jobs : runs[j] <= 1)
    => \A r \in Repos : GatedHead(r)

\* The parts of the task row a plan is made from or records, the merge requests the
\* summaries tell of, and what is about to be recorded, with the row it was made from.
Row(t) == [card |-> t.card, status |-> t.status, mr |-> t.mr, phase |-> t.phase]

ToldMrs == UNION {{s[i].iid : i \in {k \in DOMAIN s : s[k].status = "mr_ready"}} : s \in summaries}

Offers ==
  {[from |-> Row(seen[j]), mr |-> Outcome(j).mr, phase |-> Outcome(j).phase] :
     j \in {k \in Jobs : rowLock = k /\ pc[k] = "commit"}}

\* Row locks, versions and transactions make of the jobs what the contract of the delivery
\* allows: recording a plan is one step, on the row it was made from, after it was told.
\* (drain_outbox, execute_plan, the version column of task_state)
Contract ==
  INSTANCE DeliveryContract WITH
    Overlap <- Cardinality(Drains), intent <- outbox, starts <- Cardinality(Enqueued),
    row <- Row(task), told <- ToldMrs, offers <- Offers
RefinesContract == Contract!Spec

\* Every approved task gets to its plan phase.  (drain_outbox; without it the task is
\* approved and nothing ever happens)
PlanStarts == <>(Started # {})

\* Every plan phase that was queued ends.  (execute_plan)
PlanEnds == \A j \in Jobs : pc[j] = "queued" ~> pc[j] \in {"done", "failed"}

\* The plan phase of a task is begun by one job only.  (docs/deployment/scaling.md:28)
NoDoubleStart == Cardinality(Started) <= 1

\* Also after a second run: once no plan phase is under way.
\* (orchestrator.py:552, the docstring of _apply_gates)
ReadyIsGated ==
  (\A j \in Jobs : pc[j] \in {"none", "done", "failed"}) => \A r \in Repos : GatedHead(r)

\* The plan phase of a cancelled task is not begun.  (webhooks.py:260, the docstring of
\* cancel_task)
CancelStopsDelivery ==
  [][\A j \in Jobs : task.status = "cancelled" => runs'[j] = runs[j]]_vars

\* A CI event of any open merge request of a finished plan finds the task.
\* (docs/modules/api-orchestration.md:50)
EveryMrIsFound ==
  \A j \in Jobs, r \in Repos : pc[j] = "done" /\ ~ head[r] \in {NoBranch, AtMain} =>
    \A i \in OpenMrs(r) : task.mr = i
=============================================================================
