--------------------------- MODULE DeliveryProofs ---------------------------
(***************************************************************************)
(* Theorems about the relay of the outbox and the record of the plan, for  *)
(* any number of overlapping drains, jobs, repositories, faults and edits. *)
(***************************************************************************)
EXTENDS Delivery, FiniteSetTheorems, SequenceTheorems, WellFoundedInduction, TLAPS

\* Where a job can be.
Places == {"none", "queued", "code", "branch?", "branch", "commit_files", "mr?", "mr", "gates",
           "finalize", "record", "announce", "commit", "done", "failed"}

\* A drain that has enqueued, or that can no longer list the intent: each answers for one
\* job at most.
Spent == {d \in Drains : drain[d] # "listed" /\ (drain[d] = "idle" => outbox = "sent")}

\* What is marked was enqueued before, and every job has a drain or a fault behind it.
Relayed ==
  /\ drain \in [Drains -> {"idle", "listed", "enqueued", "marked"}]
  /\ pc \in [Jobs -> Places]
  /\ outbox \in {"pending", "sent"} /\ faults \in Nat
  /\ outbox = "sent" \/ (\E d \in Drains : drain[d] \in {"enqueued", "marked"}) => Enqueued # {}
  /\ Cardinality(Enqueued) <= Cardinality(Spent) + faults

\* A version that is current is that of the very row the job has read; the holder of the
\* row lock has found its version current.
Versioned ==
  /\ pc \in [Jobs -> Places]
  /\ DOMAIN task = {"ver", "card", "mr", "phase", "status"} /\ task.ver \in Nat
  /\ seen = [j \in Jobs |-> seen[j]]
  /\ \A j \in Jobs :
       /\ seen[j].ver \in Nat /\ seen[j].ver <= task.ver
       /\ seen[j].ver = task.ver => seen[j] = task
       /\ rowLock = j => Current(j) /\ pc[j] \in {"announce", "commit"}

\* A step of a job from one place to another, where it was not waiting to be queued.
Moves(j) ==
  /\ j \in Jobs /\ pc[j] # "none"
  /\ \E to \in Places \ {"none"} : pc' = [pc EXCEPT ![j] = to]

\* Every action of a job moves it and leaves the relay alone.
LEMMA JobMoves ==
  ASSUME NEW j \in Jobs, JobSteps(j) \/ Fail(j) \/ Crash(j)
  PROVE  /\ Moves(j) /\ UNCHANGED relay
         /\ faults' = faults \/ (faults' = faults + 1 /\ faults < MaxFaults)
<1>1. CASE NotCoded(j) \/ FinalizeMr(j)
  BY <1>1 DEF NotCoded, FinalizeMr, AfterRepo, Moves, Places
<1>2. CASE Load(j) \/ Code(j) \/ CreateBranch(j) \/ CommitFiles(j) \/ CreateDraftMr(j)
             \/ Gates(j) \/ Flush(j) \/ Announce(j) \/ CommitPlan(j)
  BY <1>2 DEF Load, Code, CreateBranch, CommitFiles, CreateDraftMr, Gates, Flush, Announce,
              CommitPlan, Step, Moves, Places
<1>3. CASE BranchExists(j) \/ FindOpenMr(j) \/ Raise(j)
  BY <1>3 DEF BranchExists, FindOpenMr, Raise, Moves, Places
<1>4. CASE Fail(j) \/ Crash(j)
  BY <1>4 DEF Fail, Crash, Running, Moves, Places
<1> QED BY <1>1, <1>2, <1>3, <1>4 DEF JobSteps

\* Jobs and drains are finitely many.
LEMMA Finite ==
  /\ IsFiniteSet(Jobs)
  /\ IsFiniteSet(Enqueued) /\ Cardinality(Enqueued) \in Nat
  /\ IsFiniteSet(Spent) /\ Cardinality(Spent) \in Nat
  /\ Cardinality(Drains) \in Nat /\ Cardinality(Spent) <= Cardinality(Drains)
<1>1. IsFiniteSet(Jobs)
  BY FS_Interval, DeliveryAssumption DEF Jobs
<1>2. Enqueued \in SUBSET Jobs /\ Spent \in SUBSET Drains
  BY DEF Enqueued, Spent
<1> QED BY <1>1, <1>2, FS_Subset, FS_CardinalityType, DeliveryAssumption

\* The relay at the start.
LEMMA RelayedInit == Init => Relayed
<1> SUFFICES ASSUME Init PROVE Relayed
  OBVIOUS
<1>1. Enqueued = {} /\ Cardinality({}) = 0
  BY FS_EmptySet DEF Init, Enqueued
<1> QED BY <1>1, Finite DEF Init, Relayed, Places

\* Every step of the relay, of the jobs and of the others keeps it.
LEMMA RelayedNext == Relayed /\ [Next]_vars => Relayed'
<1> SUFFICES ASSUME Relayed, [Next]_vars PROVE Relayed'
  OBVIOUS
<1> USE DEF Relayed, relay, Places
<1>1. CASE UNCHANGED <<relay, pc, faults>>
  BY <1>1 DEF Enqueued, Spent
<1>2. ASSUME NEW d \in Drains, DrainList(d) PROVE Relayed'
  <2> USE <1>2 DEF DrainList, DrainStep
  <2>1. Spent' = Spent /\ Enqueued' = Enqueued
    BY DEF Spent, Enqueued
  <2> QED BY <2>1
<1>3. ASSUME NEW d \in Drains, DrainEnqueue(d) PROVE Relayed'
  <2> USE <1>3 DEF DrainEnqueue, DrainStep
  <2>1. PICK j \in Jobs : pc[j] = "none" /\ pc' = [pc EXCEPT ![j] = "queued"]
    OBVIOUS
  <2>2. Enqueued' = Enqueued \union {j} /\ j \notin Enqueued
    BY <2>1 DEF Enqueued
  <2>3. Spent' = Spent \union {d} /\ d \notin Spent
    BY DEF Spent
  <2>4. Cardinality(Enqueued') = Cardinality(Enqueued) + 1
    BY <2>2, Finite, FS_AddElement
  <2>5. Cardinality(Spent') = Cardinality(Spent) + 1
    BY <2>3, Finite, FS_AddElement
  <2>6. Cardinality(Enqueued') <= Cardinality(Spent') + faults'
    BY <2>4, <2>5, Finite
  <2> QED BY <2>1, <2>2, <2>6
<1>4. ASSUME NEW d \in Drains, DrainMark(d) PROVE Relayed'
  <2> USE <1>4 DEF DrainMark, DrainStep
  <2>1. Spent' = Spent /\ Enqueued' = Enqueued
    BY DEF Spent, Enqueued
  <2> QED BY <2>1
<1>5. ASSUME NEW d \in Drains, DrainCommit(d) PROVE Relayed'
  <2> USE <1>5 DEF DrainCommit, DrainStep
  <2>1. Spent \subseteq Spent' /\ Spent' \subseteq Drains /\ Enqueued' = Enqueued
    BY DEF Spent, Enqueued
  <2>2. IsFiniteSet(Spent') /\ Cardinality(Spent) <= Cardinality(Spent')
    BY <2>1, FS_Subset, DeliveryAssumption
  <2>3. Cardinality(Spent') \in Nat
    BY <2>2, FS_CardinalityType
  <2> QED BY <2>1, <2>2, <2>3, Finite
<1>6. ASSUME NEW d \in Drains, DrainFail(d) PROVE Relayed'
  <2> USE <1>6 DEF DrainFail
  <2>1. Spent \ {d} \subseteq Spent' /\ Spent' \subseteq Drains /\ Enqueued' = Enqueued
    BY DEF Spent, Enqueued
  <2>2. IsFiniteSet(Spent') /\ Cardinality(Spent \ {d}) <= Cardinality(Spent')
    BY <2>1, FS_Subset, DeliveryAssumption
  <2>3. Cardinality(Spent') \in Nat
    BY <2>2, FS_CardinalityType
  <2>4. /\ Cardinality(Spent \ {d}) = IF d \in Spent THEN Cardinality(Spent) - 1
                                                   ELSE Cardinality(Spent)
        /\ IsFiniteSet(Spent \ {d})
    <3> HIDE DEF Spent, DrainFail, Relayed, relay
    <3> QED BY Finite, FS_RemoveElement
  <2>5. Cardinality(Spent \ {d}) \in Nat
    BY <2>4, FS_CardinalityType
  <2>6. Cardinality(Enqueued') <= Cardinality(Spent') + faults'
    BY <2>1, <2>2, <2>3, <2>4, <2>5, Finite
  <2> QED BY <2>1, <2>6
<1>7. ASSUME NEW j \in Jobs, JobSteps(j) \/ Fail(j) \/ Crash(j) PROVE Relayed'
  <2>1. Moves(j) /\ UNCHANGED relay /\ (faults' = faults \/ faults' = faults + 1)
    BY <1>7, JobMoves
  <2>2. Enqueued' = Enqueued /\ Spent' = Spent
    BY <2>1 DEF Moves, Enqueued, Spent
  <2> QED BY <2>1, <2>2, Finite DEF Moves
<1>8. CASE Edit \/ Cancel \/ \E r \in Repos : HumanCloses(r)
  BY <1>1, <1>8 DEF Edit, Cancel, HumanCloses
<1>9. CASE UNCHANGED vars
  BY <1>1, <1>9 DEF vars
<1> QED BY <1>2, <1>3, <1>4, <1>5, <1>6, <1>7, <1>8, <1>9 DEF Next, DrainSteps

\* enqueue, then mark, then commit: an intent marked as sent is in the queue.
THEOREM NoStartIsLost == Spec => []SentWasEnqueued
<1>1. Relayed => SentWasEnqueued
  BY DEF Relayed, Enqueued, SentWasEnqueued
<1> QED BY <1>1, RelayedInit, RelayedNext, PTL DEF Spec

\* An intent is enqueued once for each drain that ran at the same time and once for each
\* fault: nothing else repeats a start.
THEOREM StartsHaveReasons == Spec => []StartsAccountedFor
<1>1. Relayed => StartsAccountedFor
  BY Finite DEF Relayed, Enqueued, StartsAccountedFor
<1> QED BY <1>1, RelayedInit, RelayedNext, PTL DEF Spec

\* The task row at the start, and what is read before anything was.
LEMMA VersionedInit == Init => Versioned
BY DeliveryAssumption DEF Init, Versioned, NoTask, Current, Places

\* Only a holder of the row lock changes the row of another's version.
LEMMA VersionedNext == Versioned /\ [Next]_vars => Versioned'
<1> SUFFICES ASSUME Versioned, [Next]_vars PROVE Versioned'
  OBVIOUS
<1> USE DeliveryAssumption DEF Versioned, Current, relay, Places
<1>1. CASE UNCHANGED <<pc, task, seen, rowLock>>
  BY <1>1
<1>2. ASSUME NEW d \in Drains, DrainSteps(d) \/ DrainFail(d) PROVE Versioned'
  <2>1. UNCHANGED <<task, seen, rowLock>>
    BY <1>2 DEF DrainSteps, DrainList, DrainEnqueue, DrainMark, DrainCommit, DrainFail
  <2>2. pc' = pc \/ \E j \in Jobs : pc[j] = "none" /\ pc' = [pc EXCEPT ![j] = "queued"]
    BY <1>2 DEF DrainSteps, DrainList, DrainEnqueue, DrainMark, DrainCommit, DrainFail
  <2> QED BY <2>1, <2>2
<1>3. ASSUME NEW j \in Jobs, Load(j) PROVE Versioned'
  BY <1>3 DEF Load, Step
<1>4. ASSUME NEW j \in Jobs,
             NotCoded(j) \/ Code(j) \/ BranchExists(j) \/ CreateBranch(j) \/ CommitFiles(j)
               \/ FindOpenMr(j) \/ CreateDraftMr(j) \/ Gates(j) \/ FinalizeMr(j) \/ Raise(j)
      PROVE  Versioned'
  <2>1. UNCHANGED <<task, seen, rowLock>> /\ pc[j] \notin {"announce", "commit"}
    BY <1>4 DEF NotCoded, Code, BranchExists, CreateBranch, CommitFiles, FindOpenMr,
                CreateDraftMr, Gates, FinalizeMr, Raise, Step
  <2>2. Moves(j)
    BY <1>4, JobMoves DEF JobSteps
  <2> QED BY <2>1, <2>2 DEF Moves
<1>5. ASSUME NEW j \in Jobs, Flush(j) PROVE Versioned'
  BY <1>5 DEF Flush, Step
<1>6. ASSUME NEW j \in Jobs, Announce(j) PROVE Versioned'
  BY <1>6 DEF Announce, Step
<1>7. ASSUME NEW j \in Jobs, CommitPlan(j) PROVE Versioned'
  <2> USE <1>7 DEF CommitPlan, Step
  <2>1. CASE rowLock = j
    <3>1. /\ DOMAIN task' = DOMAIN task /\ task'.ver = task.ver + 1 /\ seen' = seen
          /\ rowLock' \notin Jobs
      BY <2>1
    <3>2. pc' \in [Jobs -> Places]
      OBVIOUS
    <3> QED BY <3>1, <3>2
  <2>2. CASE rowLock # j
    BY <2>2
  <2> QED BY <2>1, <2>2
<1>8. ASSUME NEW j \in Jobs, Fail(j) \/ Crash(j) PROVE Versioned'
  <2>1. Moves(j)
    BY <1>8, JobMoves
  <2>2. UNCHANGED <<task, seen>> /\ rowLock' = IF rowLock = j THEN NoOne ELSE rowLock
    BY <1>8 DEF Fail, Crash, Unlocked
  <2> QED BY <2>1, <2>2 DEF Moves
<1>9. CASE Edit \/ Cancel
  <2>1. /\ DOMAIN task' = DOMAIN task /\ task'.ver = task.ver + 1
        /\ rowLock' \notin Jobs /\ UNCHANGED <<pc, seen>>
    <3>1. CASE Edit
      BY <3>1 DEF Edit
    <3>2. CASE Cancel
      BY <3>2 DEF Cancel
    <3> QED BY <1>9, <3>1, <3>2
  <2> QED BY <2>1
<1>10. CASE (\E r \in Repos : HumanCloses(r)) \/ UNCHANGED vars
  BY <1>1, <1>10 DEF HumanCloses, vars
<1> QED BY <1>2, <1>3, <1>4, <1>5, <1>6, <1>7, <1>8, <1>9, <1>10 DEF Next, JobSteps

\* The version column of task_state: a plan is recorded only on the row it was made from.
THEOREM RecordsWhatItRead == Spec => RecordedPlanIsCurrent
<1> DEFINE Recorded ==
      task'.mr # task.mr \/ task'.phase # task.phase =>
        \E j \in Jobs : /\ pc[j] = "commit"
                        /\ seen[j].card = task.card /\ seen[j].status = task.status
<1>1. Versioned /\ [Next]_vars => [Recorded]_vars
  <2> SUFFICES ASSUME Versioned, Next PROVE Recorded
    OBVIOUS
  <2>1. CASE task' = task
    BY <2>1
  <2>2. CASE Edit \/ Cancel
    BY <2>2 DEF Edit, Cancel, Versioned
  <2>3. ASSUME NEW j \in Jobs, CommitPlan(j) PROVE Recorded
    BY <2>1, <2>3, DeliveryAssumption DEF CommitPlan, Step, Versioned, Current
  <2>4. (\E d \in Drains : DrainSteps(d) \/ DrainFail(d))
          \/ (\E j \in Jobs : (JobSteps(j) \/ Fail(j) \/ Crash(j)) /\ ~ CommitPlan(j))
          \/ (\E r \in Repos : HumanCloses(r)) => task' = task
    BY DEF DrainSteps, DrainList, DrainEnqueue, DrainMark, DrainCommit, DrainFail, JobSteps,
           Load, NotCoded, Code, BranchExists, CreateBranch, CommitFiles, FindOpenMr,
           CreateDraftMr, Gates, FinalizeMr, Flush, Announce, Raise, Fail, Crash, HumanCloses
  <2> QED BY <2>1, <2>2, <2>3, <2>4 DEF Next
<1> QED BY <1>1, VersionedInit, VersionedNext, PTL DEF Spec, RecordedPlanIsCurrent
-----------------------------------------------------------------------------
(* A plan phase that is begun once *)

Result == [status : {"mr_ready", "blocked", "needs_human", "self_check_failed"}, iid : Nat]
Mr == [open : BOOLEAN, draft : BOOLEAN]
Work == [verified : BOOLEAN, ready : BOOLEAN, iid : Nat]

\* The places of a job that works on a repository, and those after its commit of files.
Coding == {"code", "branch?", "branch", "commit_files", "mr?", "mr", "gates", "finalize"}
Pushed == {"mr?", "mr", "gates", "finalize"}

Once == Cardinality(Started) <= 1 /\ \A j \in Jobs : runs[j] <= 1

Drafts(r) == \A i \in DOMAIN mrs[r] : mrs[r][i].draft

\* The types of what a job has in hand and of what GitLab has.
Handy ==
  /\ pc \in [Jobs -> Places] /\ runs \in [Jobs -> Nat]
  /\ results \in [Jobs -> Seq(Result)]
  /\ work \in [Jobs -> Work]
  /\ head = [r \in Repos |-> head[r]] /\ mrs \in [Repos -> Seq(Mr)]
  /\ \A j \in Jobs :
       /\ pc[j] \in {"none", "queued"} => results[j] = <<>> /\ ~ work[j].ready
       /\ pc[j] \in Coding => runs[j] > 0 /\ Len(results[j]) < Len(RepoList)
       /\ pc[j] \in Coding \ {"finalize"} => ~ work[j].ready
  /\ (\A j \in Jobs : runs[j] = 0) => \A r \in Repos : mrs[r] = <<>>

\* The repositories a job has not done have drafts only; on the one it works on, once it
\* has pushed, the branch is at its own commit; and before it finalises the gates have
\* let that commit through.
OnItsWay(j) ==
  pc[j] \in Coding =>
    /\ \A i \in DOMAIN RepoList : i > Len(results[j]) => Drafts(RepoList[i])
    /\ pc[j] \in Pushed => Branch(j) = Coded(j, work[j].verified)
    /\ pc[j] = "finalize" /\ work[j].ready =>
         work[j].verified /\ Coded(j, TRUE) \in passed

Gated ==
  Once => (\A r \in Repos : GatedHead(r)) /\ \A j \in Jobs : OnItsWay(j)

\* The repositories of the list, and the one a job works on.
LEMMA RepoFacts ==
  ASSUME Handy, NEW j \in Jobs, pc[j] \in Coding
  PROVE  /\ Repo(j) \in Repos /\ Len(results[j]) + 1 \in DOMAIN RepoList
         /\ Repo(j) = RepoList[Len(results[j]) + 1]
         /\ \A i \in DOMAIN RepoList : i \in Nat /\ RepoList[i] \in Repos
         /\ \A i \in DOMAIN RepoList : RepoList[i] = Repo(j) => i = Len(results[j]) + 1
         /\ Len(results[j]) \in Nat
<1>1. Len(results[j]) \in Nat /\ Len(results[j]) < Len(RepoList)
  BY DEF Handy
<1>2. DOMAIN RepoList = 1..Len(RepoList) /\ Len(RepoList) \in Nat
  BY DeliveryAssumption
<1> QED BY <1>1, <1>2, DeliveryAssumption DEF Repo, Repos

\* A set of jobs of at most one.
LEMMA AtMostOne ==
  ASSUME NEW S \in SUBSET Jobs, Cardinality(S) <= 1, NEW j \in S, NEW k \in S
  PROVE  j = k
<1>1. IsFiniteSet(S)
  BY Finite, FS_Subset
<1>2. Cardinality(S) = 1 \/ S = {}
  BY <1>1, FS_CardinalityType, FS_EmptySet
<1> QED BY <1>1, <1>2, FS_Singleton

\* The jobs that work on a repository are one.
LEMMA Alone ==
  ASSUME Handy, Once, NEW j \in Jobs, NEW k \in Jobs, pc[j] \in Coding, pc[k] \in Coding
  PROVE  j = k
<1>1. Started \in SUBSET Jobs /\ j \in Started /\ k \in Started
  BY DEF Started, Handy
<1> QED BY <1>1, AtMostOne DEF Once

\* What AfterRepo does to the job.
LEMMA AfterRepoFacts ==
  ASSUME Handy, NEW j \in Jobs, pc[j] \in Coding, NEW x \in Result, AfterRepo(j, x)
  PROVE  /\ pc' \in [Jobs -> Places] /\ pc'[j] \in {"record", "code"}
         /\ results' \in [Jobs -> Seq(Result)]
         /\ work' \in [Jobs -> Work]
         /\ \A k \in Jobs : k # j =>
              pc'[k] = pc[k] /\ results'[k] = results[k] /\ work'[k] = work[k]
         /\ Len(results'[j]) = Len(results[j]) + 1 /\ ~ work'[j].ready
         /\ pc'[j] = "code" => Len(results'[j]) < Len(RepoList)
<1> USE DEF Handy, AfterRepo
<1>1. results'[j] = Append(results[j], x) /\ results[j] \in Seq(Result)
  OBVIOUS
<1>2. results'[j] \in Seq(Result) /\ Len(results'[j]) = Len(results[j]) + 1
  BY <1>1
<1>3. Len(results[j]) \in Nat /\ Len(RepoList) \in Nat
  BY <1>1, DeliveryAssumption
<1>4. NoWork \in Work /\ ~ NoWork.ready
  BY DEF NoWork, Work
<1>5. /\ results' \in [Jobs -> Seq(Result)]
      /\ work' \in [Jobs -> Work]
      /\ \A k \in Jobs : k # j => results'[k] = results[k] /\ work'[k] = work[k]
  BY <1>2, <1>4
<1>6. /\ pc' \in [Jobs -> Places] /\ pc'[j] \in {"record", "code"}
      /\ \A k \in Jobs : k # j => pc'[k] = pc[k]
      /\ pc'[j] = "code" => Len(results'[j]) # Len(RepoList)
  BY DEF Places
<1>7. Len(results[j]) < Len(RepoList)
  OBVIOUS
<1>8. pc'[j] = "code" => Len(results'[j]) < Len(RepoList)
  BY <1>2, <1>3, <1>6, <1>7
<1> QED BY <1>2, <1>4, <1>5, <1>6, <1>8

\* A job that is done with a repository keeps what Handy says of the jobs.
LEMMA AfterRepoHandy ==
  ASSUME Handy, NEW j \in Jobs, pc[j] \in Coding, NEW x \in Result, AfterRepo(j, x),
         UNCHANGED <<runs, head>>, mrs' \in [Repos -> Seq(Mr)]
  PROVE  Handy'
<1>1. /\ pc' \in [Jobs -> Places] /\ pc'[j] \in {"record", "code"}
      /\ results' \in [Jobs -> Seq(Result)]
      /\ work' \in [Jobs -> Work]
      /\ \A k \in Jobs : k # j =>
           pc'[k] = pc[k] /\ results'[k] = results[k] /\ work'[k] = work[k]
      /\ ~ work'[j].ready
      /\ pc'[j] = "code" => Len(results'[j]) < Len(RepoList)
  BY AfterRepoFacts
<1>2. runs[j] > 0 /\ runs[j] \in Nat
  BY DEF Handy
<1>3. ASSUME NEW k \in Jobs
      PROVE  /\ pc'[k] \in {"none", "queued"} => results'[k] = <<>> /\ ~ work'[k].ready
             /\ pc'[k] \in Coding => runs[k] > 0 /\ Len(results'[k]) < Len(RepoList)
             /\ pc'[k] \in Coding \ {"finalize"} => ~ work'[k].ready
  <2>1. CASE k = j
    BY <1>1, <1>2, <2>1 DEF Coding
  <2>2. CASE k # j
    BY <1>1, <2>2 DEF Handy
  <2> QED BY <2>1, <2>2
<1>4. ~ \A k \in Jobs : runs[k] = 0
  BY <1>2
<1> QED BY <1>1, <1>3, <1>4 DEF Handy

\* A merge request that is changed in one place.
LEMMA MrFacts ==
  ASSUME NEW s \in Seq(Mr), NEW i
  PROVE  /\ [s EXCEPT ![i].open = FALSE] \in Seq(Mr)
         /\ [s EXCEPT ![i].draft = FALSE] \in Seq(Mr)
<1>1. CASE i \in DOMAIN s
  <2>1. s[i] \in Mr /\ i \in 1..Len(s)
    BY <1>1
  <2>2. [s[i] EXCEPT !.open = FALSE] \in Mr /\ [s[i] EXCEPT !.draft = FALSE] \in Mr
    BY <2>1 DEF Mr
  <2> QED BY <2>1, <2>2, ExceptSeq
<1>2. CASE i \notin DOMAIN s
  <2>1. s = [x \in DOMAIN s |-> s[x]]
    OBVIOUS
  <2>2. [s EXCEPT ![i].open = FALSE] = s /\ [s EXCEPT ![i].draft = FALSE] = s
    BY <1>2, <2>1
  <2> QED BY <2>2
<1> QED BY <1>1, <1>2

\* A job that takes something into its hands.
LEMMA WorkFacts ==
  ASSUME Handy, NEW j \in Jobs, NEW v \in BOOLEAN, NEW i \in Nat
  PROVE  /\ [work[j] EXCEPT !.verified = v] \in Work
         /\ [work[j] EXCEPT !.iid = i] \in Work
         /\ [work[j] EXCEPT !.ready = work[j].verified] \in Work
         /\ [work[j] EXCEPT !.verified = v].ready = work[j].ready
         /\ [work[j] EXCEPT !.iid = i].ready = work[j].ready
         /\ [work[j] EXCEPT !.iid = i].verified = work[j].verified
         /\ [work[j] EXCEPT !.ready = work[j].verified].verified = work[j].verified
         /\ [work[j] EXCEPT !.ready = work[j].verified].ready = work[j].verified
<1>1. work[j] \in Work
  BY DEF Handy
<1> QED BY <1>1 DEF Work

\* A job that moves on, with the same repository and with work of the same kind.
LEMMA MoveHandy ==
  ASSUME Handy, NEW j \in Jobs, pc[j] \in Coding \ {"finalize"},
         NEW to \in Coding, pc' = [pc EXCEPT ![j] = to],
         NEW w \in Work,
         work' = [work EXCEPT ![j] = w], w.ready => to = "finalize",
         UNCHANGED <<runs, results>>, head' = [r \in Repos |-> head'[r]],
         mrs' \in [Repos -> Seq(Mr)]
  PROVE  Handy'
<1>1. /\ pc' \in [Jobs -> Places] /\ pc'[j] = to
      /\ work' \in [Jobs -> Work] /\ work'[j] = w
      /\ \A k \in Jobs : k # j => pc'[k] = pc[k] /\ work'[k] = work[k]
  BY DEF Handy, Places, Coding
<1>2. runs[j] > 0 /\ runs[j] \in Nat /\ Len(results[j]) < Len(RepoList)
  BY DEF Handy
<1>3. ASSUME NEW k \in Jobs
      PROVE  /\ pc'[k] \in {"none", "queued"} => results'[k] = <<>> /\ ~ work'[k].ready
             /\ pc'[k] \in Coding => runs'[k] > 0 /\ Len(results'[k]) < Len(RepoList)
             /\ pc'[k] \in Coding \ {"finalize"} => ~ work'[k].ready
  <2>1. CASE k = j
    BY <1>1, <1>2, <2>1 DEF Coding
  <2>2. CASE k # j
    BY <1>1, <2>2 DEF Handy
  <2> QED BY <2>1, <2>2
<1>4. /\ runs' \in [Jobs -> Nat] /\ results' \in [Jobs -> Seq(Result)]
      /\ ~ \A k \in Jobs : runs'[k] = 0
  BY <1>2 DEF Handy
<1> QED BY <1>1, <1>3, <1>4 DEF Handy

\* The types at the start.
LEMMA HandyInit == Init => Handy
BY DeliveryAssumption DEF Init, Handy, Places, NoWork, Coding, Mr, Result, Work

\* The types, step by step.
LEMMA HandyNext == Handy /\ [Next]_vars => Handy'
<1> SUFFICES ASSUME Handy, [Next]_vars PROVE Handy'
  OBVIOUS
<1> USE DeliveryAssumption DEF Coding, relay, gitlab
<1>1. CASE UNCHANGED <<pc, runs, results, work, head, mrs>>
  BY <1>1 DEF Handy
<1>2. ASSUME NEW d \in Drains, DrainSteps(d) \/ DrainFail(d) PROVE Handy'
  <2>1. UNCHANGED <<runs, results, work, head, mrs>>
    BY <1>2 DEF DrainSteps, DrainList, DrainEnqueue, DrainMark, DrainCommit, DrainFail
  <2>2. pc' = pc \/ \E j \in Jobs : pc[j] = "none" /\ pc' = [pc EXCEPT ![j] = "queued"]
    BY <1>2 DEF DrainSteps, DrainList, DrainEnqueue, DrainMark, DrainCommit, DrainFail
  <2> QED BY <2>1, <2>2 DEF Handy, Places
<1>3. ASSUME NEW j \in Jobs, Load(j) PROVE Handy'
  <2>1. Len(<<>>) < Len(RepoList) /\ Len(RepoList) \in Nat
    BY DeliveryAssumption
  <2>2. /\ runs' \in [Jobs -> Nat] /\ runs'[j] = runs[j] + 1 /\ runs'[j] > 0
        /\ \A k \in Jobs : k # j => runs'[k] = runs[k]
    BY <1>3 DEF Load, Handy
  <2>3. /\ pc' \in [Jobs -> Places] /\ pc[j] = "queued" /\ pc'[j] = "code"
        /\ \A k \in Jobs : k # j => pc'[k] = pc[k]
        /\ UNCHANGED <<results, work, head, mrs>>
    BY <1>3 DEF Load, Step, Handy, Places
  <2>4. results[j] = <<>> /\ ~ \A k \in Jobs : runs'[k] = 0
    BY <2>2, <2>3 DEF Handy
  <2>5. ~ work[j].ready
    BY <2>3 DEF Handy
  <2>6. ASSUME NEW k \in Jobs
        PROVE  /\ pc'[k] \in {"none", "queued"} => results[k] = <<>> /\ ~ work[k].ready
               /\ pc'[k] \in Coding => runs'[k] > 0 /\ Len(results[k]) < Len(RepoList)
               /\ pc'[k] \in Coding \ {"finalize"} => ~ work[k].ready
    <3>1. CASE k = j
      BY <2>1, <2>2, <2>3, <2>4, <2>5, <3>1
    <3>2. CASE k # j
      BY <2>2, <2>3, <3>2 DEF Handy
    <3> QED BY <3>1, <3>2
  <2>7. /\ results \in [Jobs -> Seq(Result)] /\ mrs \in [Repos -> Seq(Mr)]
        /\ work \in [Jobs -> Work]
        /\ head = [r \in Repos |-> head[r]]
    BY DEF Handy
  <2> QED BY <2>2, <2>3, <2>4, <2>6, <2>7 DEF Handy
<1>4. ASSUME NEW j \in Jobs, NotCoded(j) PROVE Handy'
  <2>1. pc[j] = "code" /\ UNCHANGED <<runs, head, mrs>>
    BY <1>4 DEF NotCoded
  <2>2. PICK x \in Result : AfterRepo(j, x)
    BY <1>4 DEF NotCoded, Result
  <2>3. mrs \in [Repos -> Seq(Mr)]
    BY DEF Handy
  <2> QED BY <2>1, <2>2, <2>3, AfterRepoHandy
<1>5. ASSUME NEW j \in Jobs, FinalizeMr(j) PROVE Handy'
  <2> USE <1>5 DEF FinalizeMr
  <2>1. pc[j] = "finalize" /\ UNCHANGED <<runs, head>> /\ Repo(j) \in Repos
    BY RepoFacts
  <2>2. PICK x \in Result : AfterRepo(j, x)
    BY DEF Result, Handy, Work
  <2>3. mrs' \in [Repos -> Seq(Mr)]
    <3>1. mrs[Repo(j)] \in Seq(Mr)
      BY <2>1 DEF Handy
    <3> DEFINE n == work[j].iid - LastIid[Repo(j)]
    <3>2. [mrs[Repo(j)] EXCEPT ![n].draft = FALSE] \in Seq(Mr)
      BY <3>1, MrFacts
    <3> QED BY <2>1, <3>2 DEF Handy
  <2> QED BY <2>1, <2>2, <2>3, AfterRepoHandy
<1>6. ASSUME NEW j \in Jobs, CreateDraftMr(j) PROVE Handy'
  <2> USE <1>6 DEF CreateDraftMr, Step
  <2> DEFINE new == [open |-> TRUE, draft |-> TRUE]
             i == LastIid[Repo(j)] + Len(mrs'[Repo(j)])
  <2>1. Repo(j) \in Repos
    BY RepoFacts
  <2>2. mrs[Repo(j)] \in Seq(Mr) /\ Append(mrs[Repo(j)], new) \in Seq(Mr)
    BY <2>1 DEF Handy, Mr
  <2>3. mrs' \in [Repos -> Seq(Mr)] /\ mrs'[Repo(j)] \in Seq(Mr)
    BY <2>1, <2>2 DEF Handy
  <2>4. i \in Nat
    BY <2>1, <2>3
  <2>5. work' = [work EXCEPT ![j] = [work[j] EXCEPT !.iid = i]] /\ UNCHANGED <<runs, results, head>>
    OBVIOUS
  <2>6. head' = [r \in Repos |-> head'[r]] /\ pc' = [pc EXCEPT ![j] = "gates"] /\ ~ work[j].ready
    BY DEF Handy
  <2>7. PICK w \in Work : work' = [work EXCEPT ![j] = w] /\ ~ w.ready
    <3>1. [work[j] EXCEPT !.iid = i] \in Work /\ [work[j] EXCEPT !.iid = i].ready = work[j].ready
      BY <2>4, WorkFacts
    <3> HIDE DEF CreateDraftMr, i
    <3> QED BY <2>5, <2>6, <3>1
  <2>8. pc[j] \in Coding \ {"finalize"} /\ "gates" \in Coding
    OBVIOUS
  <2> HIDE DeliveryAssumption DEF CreateDraftMr, Step, Coding, relay, gitlab, i, new
  <2> QED BY <2>3, <2>5, <2>6, <2>7, <2>8, MoveHandy
<1>7. ASSUME NEW j \in Jobs,
             Code(j) \/ BranchExists(j) \/ CreateBranch(j) \/ CommitFiles(j) \/ FindOpenMr(j)
               \/ Gates(j)
      PROVE  Handy'
  <2>1. pc[j] \in Coding \ {"finalize"} /\ ~ work[j].ready /\ UNCHANGED <<runs, results, mrs>>
    BY <1>7 DEF Code, BranchExists, CreateBranch, CommitFiles, FindOpenMr, Gates, Step, Handy
  <2>2. mrs' \in [Repos -> Seq(Mr)] /\ head' = [r \in Repos |-> head'[r]]
    BY <1>7 DEF Code, BranchExists, CreateBranch, CommitFiles, FindOpenMr, Gates, Handy
  <2>3. \E to \in Coding :
          pc' = [pc EXCEPT ![j] = to] /\ (work' = work \/ to = "finalize" \/ ~ Gates(j))
    BY <1>7 DEF Code, BranchExists, CreateBranch, CommitFiles, FindOpenMr, Gates, Step
  <2>4. work[j] \in Work
        /\ work = [work EXCEPT ![j] = work[j]]
    BY DEF Handy
  <2> HIDE DeliveryAssumption DEF Coding, relay, gitlab
  <2>5. CASE work' = work
    <3>1. PICK to \in Coding : pc' = [pc EXCEPT ![j] = to]
      BY <2>3
    <3>2. work' = [work EXCEPT ![j] = work[j]]
      BY <2>4, <2>5
    <3> QED BY <2>1, <2>2, <2>4, <3>1, <3>2, MoveHandy
  <2>6. CASE \E v \in BOOLEAN : work' = [work EXCEPT ![j] = [work[j] EXCEPT !.verified = v]]
    <3>1. PICK to \in Coding : pc' = [pc EXCEPT ![j] = to]
      BY <2>3
    <3>2. PICK w \in Work : work' = [work EXCEPT ![j] = w] /\ w.ready = work[j].ready
      BY <2>6, WorkFacts
    <3> QED BY <2>1, <2>2, <3>1, <3>2, MoveHandy
  <2>7. CASE \E i \in Nat : work' = [work EXCEPT ![j] = [work[j] EXCEPT !.iid = i]]
    <3>1. PICK to \in Coding : pc' = [pc EXCEPT ![j] = to]
      BY <2>3
    <3>2. PICK w \in Work : work' = [work EXCEPT ![j] = w] /\ w.ready = work[j].ready
      BY <2>7, WorkFacts
    <3> QED BY <2>1, <2>2, <3>1, <3>2, MoveHandy
  <2>8. CASE work' = [work EXCEPT ![j] = [work[j] EXCEPT !.ready = work[j].verified]] /\ Gates(j)
    <3>1. pc' = [pc EXCEPT ![j] = "finalize"] /\ "finalize" \in Coding
      BY <2>8 DEF Gates, Step, Coding
    <3>2. PICK w \in Work : work' = [work EXCEPT ![j] = w]
      BY <2>8, WorkFacts
    <3> QED BY <2>1, <2>2, <3>1, <3>2, MoveHandy
  <2>9. CASE Code(j) \/ BranchExists(j) \/ CreateBranch(j) \/ CommitFiles(j)
    BY <2>5, <2>6, <2>9 DEF Code, BranchExists, CreateBranch, CommitFiles
  <2>10. CASE FindOpenMr(j)
    <3>1. Repo(j) \in Repos
      BY <2>1, RepoFacts
    <3>2. OpenMrs(Repo(j)) \subseteq Nat
      <4>1. mrs[Repo(j)] \in Seq(Mr) /\ LastIid[Repo(j)] \in Nat
        BY <3>1, DeliveryAssumption DEF Handy
      <4> QED BY <4>1 DEF OpenMrs
    <3>3. work' = work \/ \E i \in OpenMrs(Repo(j)) : work' = [work EXCEPT ![j].iid = i]
      BY <2>10 DEF FindOpenMr
    <3> QED BY <2>5, <2>7, <3>2, <3>3
  <2>11. CASE Gates(j)
    BY <2>5, <2>8, <2>11 DEF Gates, LetThrough
  <2> QED BY ONLY <1>7, <2>9, <2>10, <2>11
<1>11. ASSUME NEW j \in Jobs, Flush(j) \/ Announce(j) \/ CommitPlan(j) \/ Raise(j) \/ Fail(j)
       PROVE  Handy'
  <2>1. /\ UNCHANGED <<runs, results, work, head, mrs>> /\ pc[j] # "none"
        /\ \E to \in {"announce", "commit", "done", "failed"} : pc' = [pc EXCEPT ![j] = to]
    BY <1>11 DEF Flush, Announce, CommitPlan, Raise, Fail, Running, Step
  <2> QED BY <2>1 DEF Handy, Places
<1>12. ASSUME NEW j \in Jobs, Crash(j) PROVE Handy'
  <2>1. NoWork \in Work /\ ~ NoWork.ready /\ <<>> \in Seq(Result)
    BY DEF NoWork, Work
  <2> QED BY <1>12, <2>1 DEF Crash, Handy, Places
<1>13. CASE \E r \in Repos : HumanCloses(r)
  <2>0. PICK r \in Repos : HumanCloses(r)
    BY <1>13
  <2>1. PICK i \in DOMAIN mrs[r] : mrs' = [mrs EXCEPT ![r][i].open = FALSE]
    BY <2>0 DEF HumanCloses
  <2>2. mrs[r] \in Seq(Mr) /\ [mrs[r] EXCEPT ![i].open = FALSE] \in Seq(Mr)
    <3>1. mrs[r] \in Seq(Mr)
      BY DEF Handy
    <3> QED BY <3>1, MrFacts
  <2>4. mrs[r] # <<>>
    BY <2>1
  <2>3. mrs' \in [Repos -> Seq(Mr)]
    BY <2>1, <2>2 DEF Handy
  <2> QED BY <2>0, <2>4, <2>3 DEF HumanCloses, Handy
<1>14. CASE Edit \/ Cancel \/ UNCHANGED vars
  BY <1>1, <1>14 DEF Edit, Cancel, vars
<1> QED BY <1>2, <1>3, <1>4, <1>5, <1>6, <1>7, <1>11, <1>12, <1>13, <1>14
        DEF Next, JobSteps

\* What was begun stays begun.
LEMMA OnceBefore == Handy /\ [Next]_vars /\ Once' => Once
<1> SUFFICES ASSUME Handy, [Next]_vars, Once' PROVE Once
  OBVIOUS
<1>1. runs' = runs \/ \E j \in Jobs : runs' = [runs EXCEPT ![j] = @ + 1]
  BY DEF Next, vars, DrainSteps, DrainList, DrainEnqueue, DrainMark, DrainCommit, DrainFail,
         JobSteps, Load, NotCoded, Code, BranchExists, CreateBranch, CommitFiles, FindOpenMr,
         CreateDraftMr, Gates, FinalizeMr, Flush, Announce, CommitPlan, Raise, Fail, Crash,
         Edit, Cancel, HumanCloses
<1>2. runs \in [Jobs -> Nat] /\ \A j \in Jobs : runs[j] <= runs'[j] /\ runs'[j] \in Nat
  <2>1. runs \in [Jobs -> Nat]
    BY DEF Handy
  <2>2. CASE runs' = runs
    BY <2>1, <2>2
  <2>3. ASSUME NEW j \in Jobs, runs' = [runs EXCEPT ![j] = @ + 1]
        PROVE  \A k \in Jobs : runs[k] <= runs'[k] /\ runs'[k] \in Nat
    BY <2>1, <2>3
  <2> QED BY <1>1, <2>1, <2>2, <2>3
<1>3. Started \subseteq Started' /\ Started' \subseteq Jobs /\ \A j \in Jobs : runs[j] <= 1
  BY <1>2 DEF Started, Once
<1>4. IsFiniteSet(Started') /\ IsFiniteSet(Started) /\ Cardinality(Started) <= Cardinality(Started')
  BY <1>3, Finite, FS_Subset
<1>5. Cardinality(Started) \in Nat /\ Cardinality(Started') \in Nat
  BY <1>4, FS_CardinalityType
<1> QED BY <1>3, <1>4, <1>5 DEF Once

\* A repository that an action leaves alone stays gated.
LEMMA GatedElsewhere ==
  ASSUME NEW r \in Repos, GatedHead(r), head'[r] = head[r], mrs'[r] = mrs[r],
         passed \subseteq passed'
  PROVE  GatedHead(r)'
BY DEF GatedHead

\* No merge request is opened before a job was begun.
LEMMA GatedInit == Init => Gated
BY DEF Init, Gated, GatedHead, OnItsWay, Coding

\* Every step, as long as the plan phase was begun once.
LEMMA GatedNext == Handy /\ Gated /\ [Next]_vars => Gated'
<1> SUFFICES ASSUME Handy, Gated, [Next]_vars, Once'
             PROVE  (\A r \in Repos : GatedHead(r)') /\ \A j \in Jobs : OnItsWay(j)'
  BY DEF Gated
<1>1. Once /\ (\A r \in Repos : GatedHead(r)) /\ \A j \in Jobs : OnItsWay(j)
  BY OnceBefore DEF Gated
<1> USE DEF relay, gitlab
<1> DEFINE Kept == (\A r \in Repos : GatedHead(r)') /\ \A j \in Jobs : OnItsWay(j)'
<1>2. CASE UNCHANGED <<runs, results, work, head, mrs, passed>>
           /\ \A j \in Jobs : pc'[j] \in Coding => pc'[j] = pc[j]
  <2>1. \A r \in Repos : GatedHead(r)'
    BY <1>1, <1>2 DEF GatedHead
  <2>2. ASSUME NEW j \in Jobs PROVE OnItsWay(j)'
    BY <1>1, <1>2 DEF OnItsWay, Drafts, Branch, Repo, Coded
  <2> QED BY <2>1, <2>2
<1>3. ASSUME NEW d \in Drains, DrainSteps(d) \/ DrainFail(d) PROVE Kept
  <2>1. UNCHANGED <<runs, results, work, head, mrs, passed>>
    BY <1>3 DEF DrainSteps, DrainList, DrainEnqueue, DrainMark, DrainCommit, DrainFail
  <2>2. pc' = pc \/ \E j \in Jobs : pc' = [pc EXCEPT ![j] = "queued"]
    BY <1>3 DEF DrainSteps, DrainList, DrainEnqueue, DrainMark, DrainCommit, DrainFail
  <2>3. \A j \in Jobs : pc'[j] \in Coding => pc'[j] = pc[j]
    BY <2>2 DEF Handy, Coding
  <2> QED BY <1>2, <2>1, <2>3
<1>4. CASE Edit \/ Cancel \/ UNCHANGED vars
  BY <1>2, <1>4 DEF Edit, Cancel, vars
<1>5. ASSUME NEW j \in Jobs,
             Flush(j) \/ Announce(j) \/ CommitPlan(j) \/ Raise(j) \/ Fail(j) PROVE Kept
  <2>1. /\ UNCHANGED <<runs, results, work, head, mrs, passed>>
        /\ \E to \in {"announce", "commit", "done", "failed"} : pc' = [pc EXCEPT ![j] = to]
    BY <1>5 DEF Flush, Announce, CommitPlan, Raise, Fail, Running, Step
  <2>2. \A k \in Jobs : pc'[k] \in Coding => pc'[k] = pc[k]
    BY <2>1 DEF Handy, Coding
  <2> QED BY <1>2, <2>1, <2>2
<1>6. ASSUME NEW j \in Jobs, Crash(j) PROVE Kept
  <2>1. \A r \in Repos : GatedHead(r)'
    BY <1>1, <1>6 DEF Crash, GatedHead
  <2>2. ASSUME NEW k \in Jobs PROVE OnItsWay(k)'
    BY <1>1, <1>6 DEF Crash, OnItsWay, Drafts, Branch, Repo, Coded, Handy, Coding
  <2> QED BY <2>1, <2>2
<1>7. CASE \E r \in Repos : HumanCloses(r)
  <2>1. PICK r \in Repos : HumanCloses(r)
    BY <1>7
  <2>2. PICK i \in DOMAIN mrs[r] : mrs' = [mrs EXCEPT ![r][i].open = FALSE]
    BY <2>1 DEF HumanCloses
  <2>3. UNCHANGED <<pc, runs, results, work, head, passed>>
    BY <2>1 DEF HumanCloses
  <2>4. mrs[r] \in Seq(Mr) /\ mrs \in [Repos -> Seq(Mr)]
    BY DEF Handy
  <2>5. ASSUME NEW q \in Repos, NEW k \in DOMAIN mrs'[q]
        PROVE  /\ k \in DOMAIN mrs[q]
               /\ mrs[q][k].draft => mrs'[q][k].draft
               /\ mrs'[q][k].open => mrs[q][k].open
    BY <2>2, <2>4 DEF Mr
  <2>6. ASSUME NEW q \in Repos PROVE GatedHead(q)'
    <3>1. GatedHead(q)
      BY <1>1
    <3> QED BY <2>3, <2>5, <3>1 DEF GatedHead
  <2>7. \A q \in Repos : Drafts(q) => Drafts(q)'
    BY <2>5 DEF Drafts
  <2>8. \A k \in DOMAIN RepoList : RepoList[k] \in Repos
    BY DEF Repos
  <2>9. ASSUME NEW k \in Jobs PROVE OnItsWay(k)'
    BY <1>1, <2>3, <2>7, <2>8 DEF OnItsWay, Branch, Repo, Coded
  <2> QED BY <2>6, <2>9
<1>8. ASSUME NEW j \in Jobs, Load(j) PROVE Kept
  <2>1. /\ runs' = [runs EXCEPT ![j] = @ + 1] /\ pc' = [pc EXCEPT ![j] = "code"]
        /\ UNCHANGED <<results, work, head, mrs, passed>>
    BY <1>8 DEF Load, Step
  <2>2. runs[j] = 0
    BY <2>1 DEF Once, Handy
  <2>3. \A k \in Jobs : runs[k] = 0
    <3> SUFFICES ASSUME NEW k \in Jobs, runs[k] # 0 PROVE FALSE
      OBVIOUS
    <3>1. Started' \in SUBSET Jobs /\ j \in Started' /\ k \in Started' /\ k # j
      BY <2>1, <2>2 DEF Started, Handy
    <3> QED BY <3>1, AtMostOne DEF Once
  <2>4. \A r \in Repos : mrs'[r] = <<>>
    BY <2>1, <2>3 DEF Handy
  <2>5. \A r \in Repos : GatedHead(r)' /\ Drafts(r)'
    BY <2>4 DEF GatedHead, Drafts
  <2>6. \A k \in Jobs : pc'[k] \in Coding => k = j
    BY <2>1, <2>3 DEF Handy
  <2>7. pc'[j] = "code" /\ "code" \notin Pushed \union {"finalize"}
    BY <2>1 DEF Handy, Pushed
  <2>8. \A i \in DOMAIN RepoList : RepoList[i] \in Repos
    BY DEF Repos
  <2> QED BY <2>5, <2>6, <2>7, <2>8 DEF OnItsWay
\* From here on: the job that moves is the only one that works on a repository.
<1>9. ASSUME NEW j \in Jobs, pc[j] \in Coding, NEW k \in Jobs, k # j, Moves(j), UNCHANGED runs
      PROVE  OnItsWay(k)'
  <2>1. pc[k] \notin Coding /\ pc'[k] = pc[k]
    BY <1>1, <1>9, Alone DEF Moves, Handy
  <2> QED BY <2>1 DEF OnItsWay
<1>10. ASSUME NEW j \in Jobs,
              NotCoded(j) \/ Code(j) \/ BranchExists(j) \/ FindOpenMr(j) \/ Gates(j)
       PROVE  Kept
  <2>1. UNCHANGED <<runs, head, mrs>> /\ passed \subseteq passed' /\ pc[j] \in Coding /\ Moves(j)
    <3>1. Moves(j)
      BY <1>10, JobMoves DEF JobSteps
    <3> QED BY <1>10, <3>1 DEF NotCoded, Code, BranchExists, FindOpenMr, Gates, LetThrough, Step, Coding
  <2>2. \A r \in Repos : GatedHead(r)'
    BY <1>1, <2>1 DEF GatedHead
  <2>3. OnItsWay(j)
    BY <1>1
  <2>4. OnItsWay(j)'
    <3>1. CASE NotCoded(j)
      <4>1. pc[j] = "code" /\ \E x \in Result : AfterRepo(j, x)
        BY <3>1 DEF NotCoded, Result
      <4>2. pc'[j] \in {"record", "code"} /\ Len(results'[j]) = Len(results[j]) + 1
        BY <2>1, <4>1, AfterRepoFacts
      <4>3. \A i \in DOMAIN RepoList : i > Len(results[j]) + 1 => i > Len(results[j])
        BY <2>1, RepoFacts
      <4>4. \A r : Drafts(r) => Drafts(r)'
        BY <2>1 DEF Drafts
      <4>5. pc'[j] \notin Pushed
        BY <4>2 DEF Pushed
      <4> QED BY <2>1, <2>3, <4>2, <4>3, <4>4, <4>5 DEF OnItsWay, Pushed
    <3>2. CASE Code(j) \/ BranchExists(j)
      <4>1. results' = results /\ \E to \in {"branch?", "branch", "commit_files"} : pc' = [pc EXCEPT ![j] = to]
        BY <3>2 DEF Code, BranchExists, Step
      <4>2. pc'[j] \notin Pushed
        BY <4>1 DEF Handy, Pushed
      <4> QED BY <2>1, <2>3, <4>1, <4>2 DEF OnItsWay, Drafts, Pushed
    <3>3. CASE FindOpenMr(j)
      <4>1. /\ results' = results /\ pc[j] = "mr?"
            /\ \E to \in {"mr", "gates"} : pc' = [pc EXCEPT ![j] = to]
            /\ work' = work \/ \E i : work' = [work EXCEPT ![j].iid = i]
        BY <3>3 DEF FindOpenMr
      <4>2. work'[j].verified = work[j].verified
        BY <4>1 DEF Handy, Work
      <4>3. pc'[j] # "finalize"
        BY <4>1 DEF Handy
      <4> QED BY <2>1, <2>3, <4>1, <4>2, <4>3 DEF OnItsWay, Drafts, Pushed, Branch, Repo, Coded
    <3>4. CASE Gates(j)
      <4>1. /\ results' = results /\ pc[j] = "gates" /\ pc'[j] = "finalize"
            /\ LetThrough(j) \/ UNCHANGED <<passed, work>>
        BY <3>4 DEF Gates, Step, Handy
      <4>2. work'[j].verified = work[j].verified
        BY <4>1 DEF LetThrough, Handy, Work
      <4>3. work'[j].ready => work'[j].verified /\ Coded(j, TRUE)' \in passed'
        <5>1. CASE UNCHANGED <<passed, work>>
          BY <4>1, <5>1 DEF Handy, Coding
        <5>2. CASE LetThrough(j)
          <6>1. work[j] \in Work /\ work'[j].ready = work[j].verified
            BY <5>2 DEF LetThrough, Handy, Work
          <6>2. work[j].verified => Coded(j, work[j].verified) = Coded(j, TRUE)
            BY <6>1 DEF Work
          <6> QED BY <2>1, <4>2, <5>2, <6>1, <6>2 DEF LetThrough, Coded
        <5> QED BY <4>1, <5>1, <5>2
      <4> QED BY <2>1, <2>3, <4>1, <4>2, <4>3 DEF OnItsWay, Drafts, Pushed, Branch, Repo, Coded
    <3> QED BY <1>10, <3>1, <3>2, <3>3, <3>4
  <2> QED BY <1>9, <2>1, <2>2, <2>4
\* The repository the job works on has drafts only until the job finalises it.
<1>11. ASSUME NEW j \in Jobs, CreateBranch(j) \/ CommitFiles(j) \/ CreateDraftMr(j) PROVE Kept
  <2>1. /\ UNCHANGED <<runs, results, passed>> /\ pc[j] \in Coding /\ Moves(j)
        /\ work'[j].verified = work[j].verified
    <3>1. Moves(j)
      BY <1>11, JobMoves DEF JobSteps
    <3> QED BY <1>11, <3>1 DEF CreateBranch, CommitFiles, CreateDraftMr, Step, Coding, Handy, Work
  <2>0. PICK q \in Repos : q = Repo(j)
    BY <2>1, RepoFacts
  <2>2. OnItsWay(j) /\ Drafts(q)
    <3>1. /\ Len(results[j]) + 1 \in DOMAIN RepoList /\ RepoList[Len(results[j]) + 1] = q
          /\ Len(results[j]) + 1 > Len(results[j])
      BY <2>0, <2>1, RepoFacts
    <3> QED BY <1>1, <2>1, <3>1 DEF OnItsWay
  <2>3. \A r \in Repos : r # q => mrs'[r] = mrs[r] /\ head'[r] = head[r]
    BY <1>11, <2>0 DEF CreateBranch, CommitFiles, CreateDraftMr, Handy
  <2>4. mrs'[q] = mrs[q]
          \/ mrs'[q] = Append(mrs[q], [open |-> TRUE, draft |-> TRUE])
    BY <1>11, <2>0 DEF CreateBranch, CommitFiles, CreateDraftMr, Handy
  <2>5. Drafts(q)'
    <3>1. mrs[q] \in Seq(Mr)
      BY DEF Handy
    <3>2. CASE mrs'[q] = mrs[q]
      BY <2>2, <3>2 DEF Drafts
    <3>3. CASE mrs'[q] = Append(mrs[q], [open |-> TRUE, draft |-> TRUE])
      BY <2>2, <3>1, <3>3 DEF Drafts
    <3> QED BY <2>4, <3>2, <3>3
  <2>6. \A r \in Repos : Drafts(r) => Drafts(r)'
    BY <2>3, <2>5 DEF Drafts
  <2>7. \A r \in Repos : GatedHead(r)'
    BY <1>1, <2>1, <2>3, <2>5, GatedElsewhere DEF GatedHead, Drafts
  <2>8. \A i \in DOMAIN RepoList : RepoList[i] \in Repos
    BY DEF Repos
  <2>9. pc'[j] \in Pushed => Branch(j)' = Coded(j, work[j].verified)'
    <3>1. CASE CreateBranch(j)
      BY <3>1 DEF CreateBranch, Step, Handy, Pushed
    <3>2. CASE CommitFiles(j)
      BY <2>0, <2>1, <2>2, <3>2 DEF CommitFiles, Handy, Branch, Repo, Coded
    <3>3. CASE CreateDraftMr(j)
      <4>1. pc[j] \in Pushed /\ head' = head
        BY <3>3 DEF CreateDraftMr, Step, Pushed
      <4> QED BY <2>1, <2>2, <4>1 DEF OnItsWay, Branch, Repo, Coded
    <3> QED BY <1>11, <3>1, <3>2, <3>3
  <2>10. pc'[j] # "finalize"
    BY <1>11 DEF CreateBranch, CommitFiles, CreateDraftMr, Step, Handy
  <2>11. OnItsWay(j)'
    BY <2>1, <2>2, <2>6, <2>8, <2>9, <2>10 DEF OnItsWay
  <2> QED BY <1>9, <2>1, <2>7, <2>11
<1>12. ASSUME NEW j \in Jobs, FinalizeMr(j) PROVE Kept
  <2> USE <1>12 DEF FinalizeMr
  <2>1. /\ UNCHANGED <<runs, head, passed>> /\ pc[j] = "finalize" /\ pc[j] \in Coding /\ Moves(j)
    BY JobMoves DEF JobSteps, Coding
  <2>0. PICK q \in Repos : q = Repo(j)
    BY <2>1, RepoFacts
  <2>2. OnItsWay(j)
    BY <1>1
  <2>3. \A r \in Repos : r # q => mrs'[r] = mrs[r]
    BY <2>0 DEF Handy
  <2>4. GatedHead(q)'
    <3>1. CASE work[j].ready
      <4>1. Branch(j) = Coded(j, work[j].verified) /\ work[j].verified /\ Coded(j, TRUE) \in passed
        BY <2>1, <2>2, <3>1 DEF OnItsWay, Pushed
      <4>2. work[j].verified = TRUE
        BY <4>1 DEF Handy, Work
      <4>3. head[q] \in passed /\ head[q].verified
        BY <2>0, <4>1, <4>2 DEF Branch, Coded
      <4>4. head'[q] \in passed' /\ head'[q].verified
        BY <2>1, <4>3
      <4> HIDE DEF FinalizeMr
      <4>5. \A r : head'[r] \in passed' /\ head'[r].verified => GatedHead(r)'
        BY DEF GatedHead
      <4> QED BY <4>4, <4>5
    <3>2. CASE ~ work[j].ready
      BY <1>1, <2>1, <3>2 DEF GatedHead
    <3> QED BY <3>1, <3>2
  <2>5. \A r \in Repos : GatedHead(r)'
    BY <1>1, <2>1, <2>3, <2>4, GatedElsewhere
  <2>6. PICK x \in Result : AfterRepo(j, x)
    BY DEF Result, Handy, Work
  <2>7. pc'[j] \in {"record", "code"} /\ Len(results'[j]) = Len(results[j]) + 1
    BY <2>1, <2>6, AfterRepoFacts
  <2>8. pc'[j] \notin Pushed /\ pc'[j] # "finalize"
    BY <2>7 DEF Pushed
  <2>9. ASSUME NEW i \in DOMAIN RepoList, i > Len(results[j]) + 1 PROVE Drafts(RepoList[i])'
    <3>1. /\ i > Len(results[j]) /\ RepoList[i] \in Repos /\ RepoList[i] # q
      BY <2>0, <2>1, <2>9, RepoFacts
    <3>2. Drafts(RepoList[i]) /\ mrs'[RepoList[i]] = mrs[RepoList[i]]
      BY <2>1, <2>2, <2>3, <3>1 DEF OnItsWay
    <3> QED BY <3>2 DEF Drafts
  <2>10. OnItsWay(j)'
    BY <2>7, <2>8, <2>9 DEF OnItsWay
  <2> QED BY <1>9, <2>1, <2>5, <2>10
<1> QED BY <1>3, <1>4, <1>5, <1>6, <1>7, <1>8, <1>10, <1>11, <1>12 DEF Next, JobSteps

\* A plan phase that is begun once, however it fails, leaves no merge request Ready whose
\* branch is at a commit that was not verified and let through by the gates.
THEOREM ReadyIsGatedOnce == Spec => []ReadyOnceIsGated
<1>1. Gated => ReadyOnceIsGated
  BY DEF Gated, Once, ReadyOnceIsGated
<1> QED BY <1>1, HandyInit, HandyNext, GatedInit, GatedNext, PTL DEF Spec
-----------------------------------------------------------------------------
(* What the task row names *)

\* Some comment tells of merge request m that it is ready.
Told(m) ==
  m # 0 => \E s \in summaries : \E i \in DOMAIN s : s[i].iid = m /\ s[i].status = "mr_ready"

\* What is stored was told, so what a job has read was; who commits has told its results.
Announced ==
  /\ Told(task.mr)
  /\ \A j \in Jobs : Told(seen[j].mr)
  /\ \A j \in Jobs : pc[j] = "commit" => results[j] \in summaries

\* A set of numbers has a least one.
LEMMA Least ==
  ASSUME NEW S \in SUBSET Nat, S # {}
  PROVE  \E i \in S : \A k \in S : i <= k
<1>1. PICK i \in S : \A k \in S : ~ (<<k, i>> \in OpToRel(<, Nat))
  BY NatLessThanWellFounded, WFMin
<1>2. \A k \in S : ~ (k < i)
  BY <1>1 DEF OpToRel
<1> QED BY <1>2

\* The merge request of a plan is one of its results, or the one the job has read.
LEMMA OutcomeMr ==
  ASSUME Handy, NEW j \in Jobs
  PROVE  \/ Outcome(j).mr = seen[j].mr
         \/ \E i \in DOMAIN results[j] :
              results[j][i].iid = Outcome(j).mr /\ results[j][i].status = "mr_ready"
<1> DEFINE S == WithStatus(j, "mr_ready")
<1>1. CASE S = {}
  BY <1>1 DEF Outcome
<1>2. CASE S # {}
  <2>1. S \in SUBSET Nat /\ \A i \in S : i \in DOMAIN results[j] /\ results[j][i].status = "mr_ready"
    BY DEF WithStatus, Handy
  <2>2. \E i \in S : \A k \in S : i <= k
    <3> HIDE DEF S
    <3> QED BY <1>2, <2>1, Least
  <2>3. PICK i \in S : FirstReady(j) = results[j][i]
    BY <2>2 DEF FirstReady
  <2>4. Outcome(j).mr = FirstReady(j).iid
    BY <1>2 DEF Outcome
  <2> QED BY <2>1, <2>3, <2>4
<1> QED BY <1>1, <1>2

LEMMA AnnouncedInit == Init => Announced
BY DEF Init, Announced, Told, NoTask

\* A step that stores nothing new and brings no job to its commit.
LEMMA AnnouncedStays ==
  ASSUME Announced, UNCHANGED <<seen, summaries>>, task'.mr = task.mr,
         \A j \in Jobs : pc'[j] = "commit" => pc[j] = "commit" /\ results'[j] = results[j]
  PROVE  Announced'
BY DEF Announced, Told

LEMMA AnnouncedNext == Handy /\ Versioned /\ Announced /\ [Next]_vars => Announced'
<1> SUFFICES ASSUME Handy, Versioned, Announced, [Next]_vars PROVE Announced'
  OBVIOUS
<1>1. ASSUME NEW d \in Drains, DrainSteps(d) \/ DrainFail(d) PROVE Announced'
  <2>1. UNCHANGED <<task, seen, results, summaries>>
        /\ (pc' = pc \/ \E j \in Jobs : pc' = [pc EXCEPT ![j] = "queued"])
    BY <1>1 DEF DrainSteps, DrainList, DrainEnqueue, DrainMark, DrainCommit, DrainFail
  <2> QED BY <2>1, AnnouncedStays DEF Handy
<1>2. ASSUME NEW j \in Jobs, Load(j) PROVE Announced'
  <2>1. /\ UNCHANGED <<task, results, summaries>> /\ pc' = [pc EXCEPT ![j] = "code"]
        /\ seen' = [seen EXCEPT ![j] = task]
    BY <1>2 DEF Load, Step
  <2>2. \A k \in Jobs : seen'[k] = seen[k] \/ seen'[k] = task
    BY <2>1 DEF Versioned
  <2>3. \A k \in Jobs : pc'[k] = "commit" => pc[k] = "commit"
    BY <2>1 DEF Handy
  <2> QED BY <2>1, <2>2, <2>3 DEF Announced, Told
<1>3. ASSUME NEW j \in Jobs, NotCoded(j) \/ FinalizeMr(j) PROVE Announced'
  <2>1. UNCHANGED <<task, seen, summaries>> /\ pc[j] \in {"code", "finalize"}
    BY <1>3 DEF NotCoded, FinalizeMr
  <2>2. PICK x \in Result : AfterRepo(j, x)
    BY <1>3 DEF NotCoded, FinalizeMr, Result, Handy, Work
  <2>3. pc'[j] # "commit" /\ \A k \in Jobs : k # j => pc'[k] = pc[k] /\ results'[k] = results[k]
    BY <2>1, <2>2, AfterRepoFacts DEF Coding
  <2> QED BY <2>1, <2>3, AnnouncedStays
<1>4. ASSUME NEW j \in Jobs,
             Code(j) \/ BranchExists(j) \/ CreateBranch(j) \/ CommitFiles(j) \/ FindOpenMr(j)
               \/ CreateDraftMr(j) \/ Gates(j) \/ Flush(j) \/ Raise(j) \/ Fail(j) \/ Crash(j)
      PROVE  Announced'
  <2>1. UNCHANGED <<task, seen, summaries>>
        /\ \E to \in Places \ {"commit"} : pc' = [pc EXCEPT ![j] = to]
    BY <1>4 DEF Code, BranchExists, CreateBranch, CommitFiles, FindOpenMr, CreateDraftMr, Gates,
                Flush, Raise, Fail, Crash, Step, Places
  <2>2. results' = results \/ results' = [results EXCEPT ![j] = <<>>]
    BY <1>4 DEF Code, BranchExists, CreateBranch, CommitFiles, FindOpenMr, CreateDraftMr, Gates,
                Flush, Raise, Fail, Crash
  <2>3. \A k \in Jobs : pc'[k] = "commit" => k # j /\ pc[k] = "commit"
    BY <2>1 DEF Handy
  <2>4. \A k \in Jobs : k # j => results'[k] = results[k]
    BY <2>2 DEF Handy
  <2> QED BY <2>1, <2>3, <2>4, AnnouncedStays
<1>5. ASSUME NEW j \in Jobs, Announce(j) PROVE Announced'
  <2>1. /\ UNCHANGED <<task, seen, results>> /\ pc' = [pc EXCEPT ![j] = "commit"]
        /\ summaries' = summaries \union {results[j]}
    BY <1>5 DEF Announce, Step, PlanSummary
  <2>2. \A k \in Jobs : pc'[k] = "commit" => k = j \/ pc[k] = "commit"
    BY <2>1 DEF Handy
  <2> QED BY <2>1, <2>2 DEF Announced, Told
<1>6. ASSUME NEW j \in Jobs, CommitPlan(j) PROVE Announced'
  <2>1. /\ UNCHANGED <<seen, results, summaries>> /\ pc[j] = "commit"
        /\ pc' = [pc EXCEPT ![j] = "done"]
        /\ task'.mr = task.mr \/ task'.mr = Outcome(j).mr
    BY <1>6 DEF CommitPlan, Step, Versioned
  <2>2. results[j] \in summaries /\ Told(seen[j].mr)
    BY <2>1 DEF Announced
  <2>3. Told(Outcome(j).mr)
    BY <2>2, OutcomeMr DEF Told
  <2>4. \A k \in Jobs : pc'[k] = "commit" => pc[k] = "commit"
    BY <2>1 DEF Handy
  <2> QED BY <2>1, <2>3, <2>4 DEF Announced, Told
<1>7. CASE Edit \/ Cancel
  BY <1>7, AnnouncedStays DEF Edit, Cancel, Versioned
<1>8. CASE (\E r \in Repos : HumanCloses(r)) \/ UNCHANGED vars
  BY <1>8, AnnouncedStays DEF HumanCloses, vars
<1> QED BY <1>1, <1>2, <1>3, <1>4, <1>5, <1>6, <1>7, <1>8 DEF Next, JobSteps

\* The commit of a plan comes after its summary, so a merge request the row names was told,
\* whichever of several jobs recorded it and whatever failed.
THEOREM RecordsWhatItTold == Spec => []RecordedIsAnnounced
<1>1. Announced => RecordedIsAnnounced
  BY DEF Announced, Told, RecordedIsAnnounced
<1> QED BY <1>1, AnnouncedInit, AnnouncedNext, HandyInit, HandyNext, VersionedInit,
           VersionedNext, PTL DEF Spec
-----------------------------------------------------------------------------
(* The contract of the delivery *)

\* The holder of the row lock has something to record.
Holding == \A j \in Jobs : rowLock = j => Dirty(j)

\* What a job is about to record depends on its results and on the row it has read.
LEMMA OutcomeStays ==
  ASSUME NEW j \in Jobs, seen'[j] = seen[j], results'[j] = results[j]
  PROVE  Outcome(j)' = Outcome(j) /\ (Dirty(j)' <=> Dirty(j))
<1>1. \A status : WithStatus(j, status)' = WithStatus(j, status)
  BY DEF WithStatus
<1>2. FirstReady(j)' = FirstReady(j)
  <2> DEFINE First(S) == CHOOSE i \in S : \A k \in S : i <= k
  <2>1. /\ FirstReady(j) = results[j][First(WithStatus(j, "mr_ready"))]
        /\ FirstReady(j)' = results'[j][First(WithStatus(j, "mr_ready")')]
    BY DEF FirstReady
  <2>2. WithStatus(j, "mr_ready")' = WithStatus(j, "mr_ready")
    BY <1>1
  <2> HIDE DEF First
  <2> QED BY <2>1, <2>2
<1>3. Outcome(j)' = Outcome(j)
  BY <1>1, <1>2 DEF Outcome
<1> QED BY <1>3 DEF Dirty

\* While a job keeps the row lock it only goes from the summary to the commit.
LEMMA HolderStays ==
  ASSUME Handy, Versioned, [Next]_vars, NEW k \in Jobs, rowLock = k, rowLock' = k
  PROVE  /\ seen'[k] = seen[k] /\ results'[k] = results[k]
         /\ pc'[k] = pc[k] \/ Announce(k)
<1>0. pc[k] \in {"announce", "commit"} /\ k # NoOne
  BY DeliveryAssumption DEF Versioned
<1>1. ASSUME NEW d \in Drains, DrainSteps(d) \/ DrainFail(d)
      PROVE  seen' = seen /\ results' = results /\ pc'[k] = pc[k]
  <2>1. UNCHANGED <<seen, results>>
        /\ (pc' = pc \/ \E j \in Jobs : pc[j] = "none" /\ pc' = [pc EXCEPT ![j] = "queued"])
    BY <1>1 DEF DrainSteps, DrainList, DrainEnqueue, DrainMark, DrainCommit, DrainFail
  <2> QED BY <1>0, <2>1 DEF Handy
<1>2. ASSUME NEW j \in Jobs, JobSteps(j) \/ Fail(j) \/ Crash(j), j # k
      PROVE  seen'[k] = seen[k] /\ results'[k] = results[k] /\ pc'[k] = pc[k]
  <2>1. pc'[k] = pc[k]
    BY <1>2, JobMoves DEF Moves, Handy
  <2>2. seen' = seen \/ seen' = [seen EXCEPT ![j] = task]
    BY <1>2 DEF JobSteps, Load, NotCoded, Code, BranchExists, CreateBranch, CommitFiles,
                FindOpenMr, CreateDraftMr, Gates, FinalizeMr, Flush, Announce, CommitPlan, Raise,
                Fail, Crash
  <2>3. results' = results \/ \E x : results' = [results EXCEPT ![j] = x]
    BY <1>2 DEF JobSteps, Load, NotCoded, Code, BranchExists, CreateBranch, CommitFiles,
                FindOpenMr, CreateDraftMr, Gates, FinalizeMr, Flush, Announce, CommitPlan, Raise,
                Fail, Crash, AfterRepo
  <2> QED BY <1>2, <2>1, <2>2, <2>3 DEF Handy, Versioned
<1>3. CASE JobSteps(k) \/ Fail(k) \/ Crash(k)
  <2>1. Announce(k)
    BY <1>0, <1>3 DEF JobSteps, Load, NotCoded, Code, BranchExists, CreateBranch, CommitFiles,
                FindOpenMr, CreateDraftMr, Gates, FinalizeMr, Flush, CommitPlan, Raise,
                Fail, Crash, Step, Unlocked
  <2> QED BY <2>1 DEF Announce
<1>4. CASE Edit \/ Cancel \/ (\E r \in Repos : HumanCloses(r)) \/ UNCHANGED vars
  BY <1>4 DEF Edit, Cancel, HumanCloses, vars
<1> QED BY <1>1, <1>2, <1>3, <1>4 DEF Next

LEMMA HoldingInit == Init => Holding
BY DeliveryAssumption DEF Init, Holding

LEMMA HoldingNext == Handy /\ Versioned /\ Holding /\ [Next]_vars => Holding'
<1> SUFFICES ASSUME Handy, Versioned, Holding, [Next]_vars, NEW j \in Jobs, rowLock' = j
             PROVE  Dirty(j)'
  BY DEF Holding
<1>1. CASE rowLock = j
  BY <1>1, HolderStays, OutcomeStays DEF Holding
<1>2. CASE rowLock # j
  <2>1. Flush(j) /\ Dirty(j)
    BY <1>2, DeliveryAssumption
       DEF Next, DrainSteps, DrainList, DrainEnqueue, DrainMark, DrainCommit, DrainFail, JobSteps,
           Load, NotCoded, Code, BranchExists, CreateBranch, CommitFiles, FindOpenMr,
           CreateDraftMr, Gates, FinalizeMr, Flush, Announce, CommitPlan, Raise, Fail, Crash,
           Unlocked, Edit, Cancel, HumanCloses, vars
  <2> QED BY <2>1, OutcomeStays DEF Flush
<1> QED BY <1>1, <1>2

\* The plan of a job, as it offers it.
Offer(j) == [from |-> Row(seen[j]), mr |-> Outcome(j).mr, phase |-> Outcome(j).phase]

\* What is offered is the offer of the holder of the row lock, once it is at its commit.
LEMMA OffersAre ==
  /\ \A j \in Jobs : rowLock = j /\ pc[j] = "commit" => Offers = {Offer(j)}
  /\ (\A j \in Jobs : rowLock = j => pc[j] # "commit") => Offers = {}
BY DEF Offers, Offer

\* The contract sees nothing of a step that keeps the holder where it is, or that begins or
\* ends before the commit.
LEMMA OffersStay ==
  ASSUME Handy, Versioned, [Next]_vars, rowLock' = rowLock, \A j \in Jobs : ~ Announce(j)
  PROVE  Offers' = Offers
<1>1. ASSUME NEW j \in Jobs, rowLock = j
      PROVE  Offer(j)' = Offer(j) /\ pc'[j] = pc[j]
  <2>1. seen'[j] = seen[j] /\ results'[j] = results[j] /\ pc'[j] = pc[j]
    BY <1>1, HolderStays
  <2> QED BY <2>1, OutcomeStays DEF Offer, Row
<1>2. (\A j \in Jobs : rowLock' = j /\ pc'[j] = "commit" => Offers' = {Offer(j)'})
        /\ ((\A j \in Jobs : rowLock' = j => pc'[j] # "commit") => Offers' = {})
  BY DEF Offers, Offer
<1>3. CASE \E j \in Jobs : rowLock = j /\ pc[j] = "commit"
  BY <1>1, <1>2, <1>3, OffersAre
<1>4. CASE \A j \in Jobs : rowLock = j => pc[j] # "commit"
  BY <1>1, <1>2, <1>4, OffersAre
<1> QED BY <1>3, <1>4

\* What the holder of the row lock offers names a merge request of its results, or leaves
\* the one of the row it has read.
LEMMA OfferNames ==
  ASSUME Handy, Holding, NEW j \in Jobs, rowLock = j, NEW mset,
         {results[j][i].iid : i \in WithStatus(j, "mr_ready")} \subseteq mset
  PROVE  Contract!Names(Offer(j), mset)
<1> DEFINE S == WithStatus(j, "mr_ready")
<1>1. CASE S = {}
  <2>1. Outcome(j).mr = seen[j].mr
    BY <1>1 DEF Outcome
  <2>2. Outcome(j).phase # "ci"
    BY <1>1 DEF Outcome, Holding, Dirty
  <2> QED BY <2>1, <2>2 DEF Contract!Names, Offer, Row
<1>2. CASE S # {}
  <2>1. S \in SUBSET Nat /\ \A i \in S : i \in DOMAIN results[j] /\ results[j][i].status = "mr_ready"
    BY DEF WithStatus, Handy
  <2>2. \E i \in S : \A k \in S : i <= k
    <3> HIDE DEF S
    <3> QED BY <1>2, <2>1, Least
  <2>3. PICK i \in S : FirstReady(j) = results[j][i]
    BY <2>2 DEF FirstReady
  <2>4. Outcome(j) = [mr |-> results[j][i].iid, phase |-> "ci"]
    BY <1>2, <2>3 DEF Outcome
  <2>5. results[j][i].iid \in mset
    OBVIOUS
  <2> QED BY <2>4, <2>5 DEF Contract!Names, Offer
<1> QED BY <1>1, <1>2

\* Some job was enqueued.
LEMMA SomeStart ==
  ASSUME Enqueued # {}
  PROVE  Cardinality(Enqueued) > 0
BY Finite, FS_EmptySet

\* The steps of the relay: to enqueue, to mark, or to fail.
LEMMA RelayKeepsContract ==
  ASSUME Relayed, Handy, Versioned, [Next]_vars, NEW d \in Drains, DrainSteps(d) \/ DrainFail(d)
  PROVE  [Contract!Next]_(Contract!vars)
<1>1. UNCHANGED <<task, rowLock, summaries>>
  BY DEF DrainSteps, DrainList, DrainEnqueue, DrainMark, DrainCommit, DrainFail
<1>2. pc' = pc \/ DrainEnqueue(d)
  BY DEF DrainSteps, DrainList, DrainMark, DrainCommit, DrainFail
<1>3. \A j \in Jobs : ~ Announce(j)
  BY <1>2 DEF Announce, Step, DrainEnqueue, Handy
<1>4. Offers' = Offers /\ Row(task)' = Row(task) /\ ToldMrs' = ToldMrs
  BY <1>1, <1>3, OffersStay DEF Row, ToldMrs
<1>5. CASE DrainList(d) \/ DrainMark(d)
  <2>1. Enqueued' = Enqueued /\ UNCHANGED <<outbox, faults>>
    BY <1>5 DEF DrainList, DrainMark, Enqueued
  <2> QED BY <1>4, <2>1 DEF Contract!vars
<1>6. CASE DrainEnqueue(d)
  <2>1. PICK j \in Jobs : pc[j] = "none" /\ pc' = [pc EXCEPT ![j] = "queued"]
    BY <1>6 DEF DrainEnqueue
  <2>2. Enqueued' = Enqueued \union {j} /\ j \notin Enqueued
    BY <2>1 DEF Enqueued, Handy
  <2>3. Cardinality(Enqueued') = Cardinality(Enqueued) + 1
    BY <2>2, Finite, FS_AddElement
  <2>4. UNCHANGED <<outbox, faults>> /\ faults \in Nat
    BY <1>6 DEF DrainEnqueue, Relayed
  <2>5. Cardinality(Enqueued') <= Cardinality(Drains) + faults
    <3>1. Relayed'
      BY RelayedNext
    <3>2. Spent' \in SUBSET Drains
      BY DEF Spent
    <3>3. Cardinality(Spent') <= Cardinality(Drains) /\ Cardinality(Spent') \in Nat
      BY <3>2, FS_Subset, FS_CardinalityType, DeliveryAssumption
    <3> QED BY <2>3, <2>4, <3>1, <3>3, Finite DEF Relayed
  <2> QED BY <1>4, <2>3, <2>4, <2>5, Finite DEF Contract!Next, Contract!Enqueue
<1>7. CASE DrainCommit(d)
  <2>1. Enqueued' = Enqueued /\ outbox' = "sent" /\ faults' = faults
    BY <1>7 DEF DrainCommit, Enqueued
  <2>2. Enqueued # {}
    BY <1>7 DEF DrainCommit, DrainStep, Relayed
  <2> QED BY <1>4, <2>1, <2>2, SomeStart DEF Contract!Next, Contract!Mark
<1>8. CASE DrainFail(d)
  <2>1. Enqueued' = Enqueued /\ outbox' = outbox /\ faults' = faults + 1
    BY <1>8 DEF DrainFail, Enqueued
  <2> QED BY <1>4, <2>1 DEF Contract!Next, Contract!Fault
<1> QED BY <1>5, <1>6, <1>7, <1>8 DEF DrainSteps

\* The steps of a job: to tell, to record, to fail, and all the others, which nobody sees.
LEMMA JobKeepsContract ==
  ASSUME Handy, Versioned, Holding, Announced, [Next]_vars,
         NEW j \in Jobs, JobSteps(j) \/ Fail(j) \/ Crash(j)
  PROVE  [Contract!Next]_(Contract!vars)
<1>1. Moves(j) /\ outbox' = outbox
  BY JobMoves DEF relay
<1>2. Enqueued' = Enqueued /\ Enqueued # {}
  BY <1>1 DEF Moves, Enqueued, Handy
<1>3. CASE Announce(j)
  <2>1. /\ UNCHANGED <<task, rowLock, seen, results, faults>> /\ pc[j] = "announce"
        /\ pc' = [pc EXCEPT ![j] = "commit"] /\ summaries' = summaries \union {results[j]}
    BY <1>3 DEF Announce, Step, PlanSummary
  <2>2. Row(task)' = Row(task) /\ ToldMrs \subseteq ToldMrs'
    BY <2>1 DEF Row, ToldMrs
  <2>3. ASSUME NEW k \in Jobs, rowLock' = k, pc'[k] = "commit"
        PROVE  Offers' = {Offer(k)'} /\ Contract!Names(Offer(k)', ToldMrs')
    <3>1. Offers' = {Offer(k)'}
      BY <2>3 DEF Offers, Offer
    <3>2. results'[k] \in summaries'
      BY <2>1, <2>3 DEF Announced, Handy
    <3>3. {results[k][i].iid : i \in WithStatus(k, "mr_ready")} \subseteq ToldMrs'
      BY <2>1, <3>2 DEF WithStatus, ToldMrs
    <3>4. Contract!Names(Offer(k), ToldMrs')
      BY <2>1, <2>3, <3>3, OfferNames
    <3>5. Offer(k)' = Offer(k)
      BY <2>1, OutcomeStays DEF Offer, Row
    <3> QED BY <3>1, <3>4, <3>5
  <2>4. (\A k \in Jobs : rowLock' = k => pc'[k] # "commit") => Offers' = {}
    BY DEF Offers
  <2>5. Offers' = {} \/ (\E o \in Offers' : Offers' = {o} /\ Contract!Names(o, ToldMrs'))
    BY <2>3, <2>4
  <2> QED BY <1>1, <1>2, <2>1, <2>2, <2>5, SomeStart DEF Contract!Next, Contract!Tell
<1>4. CASE CommitPlan(j) /\ rowLock = j
  <2>1. /\ UNCHANGED <<summaries, faults>> /\ pc[j] = "commit"
        /\ task' = [task EXCEPT !.mr = Outcome(j).mr, !.phase = Outcome(j).phase, !.ver = @ + 1]
        /\ rowLock' = NoOne
    BY <1>4 DEF CommitPlan, Step
  <2>2. Offers = {Offer(j)} /\ Offer(j).from = Row(task)
    BY <1>4, <2>1, OffersAre DEF Versioned, Current, Offer
  <2>3. Row(task)' = [Row(task) EXCEPT !.mr = Offer(j).mr, !.phase = Offer(j).phase]
    <3>1. /\ task'.card = task.card /\ task'.status = task.status
          /\ task'.mr = Outcome(j).mr /\ task'.phase = Outcome(j).phase
      <4>1. DOMAIN task = {"ver", "card", "mr", "phase", "status"}
        BY DEF Versioned
      <4> QED BY <2>1, <4>1
    <3> DEFINE fields == {"card", "status", "mr", "phase"}
               old == Row(task)
               new == Row(task)'
               plan == Offer(j)
               changed == [old EXCEPT !.mr = plan.mr, !.phase = plan.phase]
    <3>2. plan.mr = Outcome(j).mr /\ plan.phase = Outcome(j).phase
      BY DEF Offer
    <3>3. DOMAIN old = fields /\ old.card = task.card /\ old.status = task.status
      BY DEF Row
    <3>4. /\ new.card = task'.card /\ new.status = task'.status
          /\ new.mr = task'.mr /\ new.phase = task'.phase
      BY DEF Row
    <3>5. new = [f \in fields |-> new[f]]
      BY DEF Row
    <3> HIDE DEF old, new, plan
    <3>6. \A f \in fields : new[f] = changed[f]
      BY ONLY <3>1, <3>2, <3>3, <3>4
    <3>7. changed = [f \in fields |-> changed[f]]
      BY ONLY <3>3
    <3> HIDE DEF changed
    <3>8. new = changed
      BY ONLY <3>5, <3>6, <3>7
    <3> QED BY <3>8 DEF old, new, plan, changed
  <2>4. Offers' = {}
    BY <2>1, DeliveryAssumption DEF Offers
  <2>5. ToldMrs' = ToldMrs
    BY <2>1 DEF ToldMrs
  <2> QED BY <1>1, <1>2, <2>1, <2>2, <2>3, <2>4, <2>5 DEF Contract!Next, Contract!Record
<1>5. CASE Fail(j) \/ Crash(j)
  <2>1. /\ UNCHANGED <<task, summaries>> /\ faults' = faults + 1
        /\ rowLock' = IF rowLock = j THEN NoOne ELSE rowLock
        /\ Running(j) /\ pc' \in {[pc EXCEPT ![j] = "failed"], [pc EXCEPT ![j] = "queued"]}
    BY <1>5 DEF Fail, Crash, Unlocked
  <2>2. \A k \in Jobs : ~ Announce(k)
    BY <2>1, DeliveryAssumption DEF Announce, Handy, Step
  <2>3. Offers' \in {Offers, {}}
    <3>1. CASE rowLock = j
      BY <2>1, <3>1, DeliveryAssumption DEF Offers
    <3>2. CASE rowLock # j
      BY <2>1, <2>2, <3>2, OffersStay
    <3> QED BY <3>1, <3>2
  <2>4. Row(task)' = Row(task) /\ ToldMrs' = ToldMrs
    BY <2>1 DEF Row, ToldMrs
  <2> QED BY <1>1, <1>2, <2>1, <2>3, <2>4 DEF Contract!Next, Contract!Fault
<1>6. CASE JobSteps(j) /\ ~ Announce(j) /\ ~ (CommitPlan(j) /\ rowLock = j)
  <2>1. UNCHANGED <<task, summaries, faults>>
    BY <1>6 DEF JobSteps, Load, NotCoded, Code, BranchExists, CreateBranch, CommitFiles,
                FindOpenMr, CreateDraftMr, Gates, FinalizeMr, Flush, CommitPlan, Raise
  <2>2. Offers' = Offers
    <3>1. CASE rowLock' = rowLock
      <4>1. \A k \in Jobs : k # j => ~ Announce(k)
        BY <1>1 DEF Announce, Step, Moves, Handy
      <4> QED BY <1>6, <3>1, <4>1, OffersStay
    <3>2. CASE rowLock' # rowLock
      <4>1. rowLock = NoOne /\ rowLock' = j /\ pc' = [pc EXCEPT ![j] = "announce"]
        BY <1>6, <3>2 DEF JobSteps, Load, NotCoded, Code, BranchExists, CreateBranch,
             CommitFiles, FindOpenMr, CreateDraftMr, Gates, FinalizeMr, Flush, CommitPlan,
             Raise, Step
      <4>2. Offers = {} /\ Offers' = {}
        BY <4>1, DeliveryAssumption DEF Offers, Handy
      <4> QED BY <4>2
    <3> QED BY <3>1, <3>2
  <2>3. Row(task)' = Row(task) /\ ToldMrs' = ToldMrs
    BY <2>1 DEF Row, ToldMrs
  <2> QED BY <1>1, <1>2, <2>1, <2>2, <2>3 DEF Contract!vars
<1> QED BY <1>3, <1>4, <1>5, <1>6

\* The steps of the others.
LEMMA OthersKeepContract ==
  ASSUME Handy, Versioned, [Next]_vars,
         Edit \/ Cancel \/ (\E r \in Repos : HumanCloses(r)) \/ UNCHANGED vars
  PROVE  [Contract!Next]_(Contract!vars)
<1>1. UNCHANGED <<outbox, rowLock, pc, summaries, faults>>
  BY DEF Edit, Cancel, HumanCloses, vars, relay
<1>2. Enqueued' = Enqueued /\ ToldMrs' = ToldMrs
  BY <1>1 DEF Enqueued, ToldMrs
<1>3. Offers' = Offers
  <2>1. \A j \in Jobs : ~ Announce(j)
    BY <1>1 DEF Announce, Step, Handy
  <2> QED BY <1>1, <2>1, OffersStay
<1>4. CASE Edit
  <2>1. Row(task)' = [Row(task) EXCEPT !.card = @ + 1]
    BY <1>4 DEF Edit, Row, Versioned
  <2> QED BY <1>1, <1>2, <1>3, <2>1 DEF Contract!Next, Contract!Edit
<1>5. CASE Cancel
  <2>1. Row(task)' = [Row(task) EXCEPT !.status = "cancelled"]
    BY <1>5 DEF Cancel, Row, Versioned
  <2> QED BY <1>1, <1>2, <1>3, <2>1 DEF Contract!Next, Contract!Cancel
<1>6. CASE (\E r \in Repos : HumanCloses(r)) \/ UNCHANGED vars
  <2>1. Row(task)' = Row(task)
    BY <1>6 DEF HumanCloses, vars, Row
  <2> QED BY <1>1, <1>2, <1>3, <2>1 DEF Contract!vars
<1> QED BY <1>4, <1>5, <1>6

\* Drains, jobs, edits and cancels, however they interleave, fail and die, do what the
\* contract of the delivery allows.
THEOREM KeepsContract == Spec => RefinesContract
<1>1. Init => Contract!Init
  <2> SUFFICES ASSUME Init PROVE Contract!Init
    OBVIOUS
  <2>1. Enqueued = {} /\ ToldMrs = {} /\ Offers = {}
    BY DeliveryAssumption DEF Init, Enqueued, ToldMrs, Offers
  <2>2. Row(task) = [card |-> 0, status |-> "active", mr |-> 0, phase |-> "briefing"]
    BY DEF Init, Row
  <2> QED BY <2>1, <2>2, FS_EmptySet DEF Init, Contract!Init
<1>2. Relayed /\ Handy /\ Versioned /\ Holding /\ Announced /\ [Next]_vars
        => [Contract!Next]_(Contract!vars)
  BY RelayKeepsContract, JobKeepsContract, OthersKeepContract DEF Next
<1> QED BY <1>1, <1>2, RelayedInit, RelayedNext, HandyInit, HandyNext, VersionedInit,
           VersionedNext, HoldingInit, HoldingNext, AnnouncedInit, AnnouncedNext, PTL
        DEF Spec, RefinesContract, Contract!Spec
-----------------------------------------------------------------------------
(* The end of a plan phase.  That a job is at last done needs fairness;    *)
(* that it can only go on for so long does not.                            *)

\* The steps a job has left from a place, for the repository it is at.
ToGo(place) ==
  CASE place = "queued"       -> 10
    [] place = "code"         -> 9
    [] place = "branch?"      -> 8
    [] place = "branch"       -> 7
    [] place = "commit_files" -> 6
    [] place = "mr?"          -> 5
    [] place = "mr"           -> 4
    [] place = "gates"        -> 3
    [] place = "finalize"     -> 2
    [] place = "record"       -> 3
    [] place = "announce"     -> 2
    [] place = "commit"       -> 1
    [] OTHER                  -> 0

\* ... and for those that follow.
Left(j) == 10 * (Len(RepoList) - Len(results[j])) + ToGo(pc[j])

Shrinks(j) == Left(j) \in Nat /\ Left(j)' \in Nat /\ Left(j)' < Left(j)

\* A job has no more results than repositories.
Counted == \A j \in Jobs : Len(results[j]) <= Len(RepoList)

\* A step of a job from one place to another, with the results it has.
LEMMA MoveShrinks ==
  ASSUME Handy, Counted, NEW j \in Jobs, NEW to \in Places,
         pc' = [pc EXCEPT ![j] = to], results' = results, ToGo(to) < ToGo(pc[j])
  PROVE  Shrinks(j)
<1>1. Len(RepoList) \in Nat /\ Len(results[j]) \in Nat /\ Len(results[j]) <= Len(RepoList)
  BY DeliveryAssumption DEF Handy, Counted
<1>2. pc'[j] = to /\ results'[j] = results[j]
  BY DEF Handy
<1>3. \A place : ToGo(place) \in Nat
  BY DEF ToGo
<1> DEFINE n == ToGo(pc[j])
           m == ToGo(to)
<1>4. n \in Nat /\ m \in Nat /\ m < n
  BY <1>3
<1>5. Left(j) = 10 * (Len(RepoList) - Len(results[j])) + n
  BY DEF Left
<1>6. Left(j)' = 10 * (Len(RepoList) - Len(results[j])) + m
  BY <1>2 DEF Left
<1> HIDE DEF n, m
<1> QED BY <1>1, <1>4, <1>5, <1>6 DEF Shrinks

\* One more result is ten steps less, whatever the place that follows.
LEMMA ResultShrinks ==
  ASSUME Handy, Counted, NEW j \in Jobs, pc[j] \in {"code", "finalize"},
         NEW x \in Result, AfterRepo(j, x)
  PROVE  Shrinks(j) /\ Len(results'[j]) <= Len(RepoList)
<1>1. /\ Len(RepoList) \in Nat /\ Len(results[j]) \in Nat /\ Len(results[j]) < Len(RepoList)
      /\ pc[j] \in Coding
  BY DeliveryAssumption DEF Handy, Coding
<1>2. Len(results'[j]) = Len(results[j]) + 1
  BY <1>1, AfterRepoFacts
<1>3. pc'[j] = IF Len(results'[j]) = Len(RepoList) THEN "record" ELSE "code"
  BY DEF AfterRepo, Handy
<1> DEFINE n == ToGo(pc[j])
           m == ToGo(pc'[j])
<1>4. n \in Nat /\ n >= 2 /\ m \in Nat /\ m <= 9
  BY <1>3 DEF ToGo
<1>5. Left(j) = 10 * (Len(RepoList) - Len(results[j])) + n
  BY DEF Left
<1>6. Left(j)' = 10 * (Len(RepoList) - (Len(results[j]) + 1)) + m
  BY <1>2 DEF Left
<1> HIDE DEF n, m
<1> QED BY <1>1, <1>2, <1>4, <1>5, <1>6 DEF Shrinks

\* The steps of a job shorten what it has left.
LEMMA JobShrinks ==
  ASSUME Handy, Counted, NEW j \in Jobs, JobSteps(j)
  PROVE  Shrinks(j)
<1>1. CASE NotCoded(j) \/ FinalizeMr(j)
  <2>1. pc[j] \in {"code", "finalize"}
    BY <1>1 DEF NotCoded, FinalizeMr
  <2>2. PICK x \in Result : AfterRepo(j, x)
    BY <1>1 DEF NotCoded, FinalizeMr, Result, Handy, Work
  <2> QED BY <2>1, <2>2, ResultShrinks
<1>2. CASE Load(j) \/ Code(j) \/ CreateBranch(j) \/ CommitFiles(j) \/ CreateDraftMr(j)
             \/ Gates(j) \/ Flush(j) \/ Announce(j) \/ CommitPlan(j)
  <2>1. results' = results /\ \E to \in Places :
          pc' = [pc EXCEPT ![j] = to] /\ ToGo(to) < ToGo(pc[j])
    BY <1>2 DEF Load, Code, CreateBranch, CommitFiles, CreateDraftMr, Gates, Flush, Announce,
                CommitPlan, Step, Places, ToGo
  <2> QED BY <2>1, MoveShrinks
<1>3. CASE BranchExists(j) \/ FindOpenMr(j) \/ Raise(j)
  <2>1. results' = results /\ \E to \in Places :
          pc' = [pc EXCEPT ![j] = to] /\ ToGo(to) < ToGo(pc[j])
    BY <1>3 DEF BranchExists, FindOpenMr, Raise, Places, ToGo
  <2> QED BY <2>1, MoveShrinks
<1> QED BY <1>1, <1>2, <1>3 DEF JobSteps

\* The others leave a job that was enqueued where it is.
LEMMA OthersLeave ==
  ASSUME Handy, [Next]_vars, NEW j \in Jobs, ~ (JobSteps(j) \/ Fail(j) \/ Crash(j))
  PROVE  results'[j] = results[j] /\ (pc[j] # "none" => pc'[j] = pc[j])
<1>1. ASSUME NEW d \in Drains, DrainSteps(d) \/ DrainFail(d)
      PROVE  results' = results
             /\ (pc' = pc \/ \E k \in Jobs : pc[k] = "none" /\ pc' = [pc EXCEPT ![k] = "queued"])
  BY <1>1 DEF DrainSteps, DrainList, DrainEnqueue, DrainMark, DrainCommit, DrainFail
<1>2. ASSUME NEW k \in Jobs, JobSteps(k) \/ Fail(k) \/ Crash(k)
      PROVE  results'[j] = results[j] /\ pc'[j] = pc[j]
  <2>1. pc'[j] = pc[j]
    BY <1>2, JobMoves DEF Moves, Handy
  <2>2. results' = results \/ \E x : results' = [results EXCEPT ![k] = x]
    BY <1>2 DEF JobSteps, Load, NotCoded, Code, BranchExists, CreateBranch, CommitFiles,
                FindOpenMr, CreateDraftMr, Gates, FinalizeMr, Flush, Announce, CommitPlan, Raise,
                Fail, Crash, AfterRepo
  <2> QED BY <1>2, <2>1, <2>2 DEF Handy
<1>3. CASE Edit \/ Cancel \/ (\E r \in Repos : HumanCloses(r)) \/ UNCHANGED vars
  BY <1>3 DEF Edit, Cancel, HumanCloses, vars
<1> QED BY <1>1, <1>2, <1>3 DEF Next, Handy

LEMMA CountedInit == Init => Counted
BY DeliveryAssumption DEF Init, Counted

LEMMA CountedNext == Handy /\ Counted /\ [Next]_vars => Counted'
<1> SUFFICES ASSUME Handy, Counted, [Next]_vars, NEW j \in Jobs
             PROVE  Len(results'[j]) <= Len(RepoList)
  BY DEF Counted
<1>1. CASE NotCoded(j) \/ FinalizeMr(j)
  <2>1. pc[j] \in {"code", "finalize"}
    BY <1>1 DEF NotCoded, FinalizeMr
  <2>2. PICK x \in Result : AfterRepo(j, x)
    BY <1>1 DEF NotCoded, FinalizeMr, Result, Handy, Work
  <2> QED BY <2>1, <2>2, ResultShrinks
<1>2. CASE JobSteps(j) /\ ~ NotCoded(j) /\ ~ FinalizeMr(j)
  <2>1. results' = results
    BY <1>2 DEF JobSteps, Load, Code, BranchExists, CreateBranch, CommitFiles, FindOpenMr,
                CreateDraftMr, Gates, Flush, Announce, CommitPlan, Raise
  <2> QED BY <2>1 DEF Counted
<1>3. CASE Fail(j) \/ Crash(j)
  <2>1. results'[j] \in {results[j], <<>>}
    BY <1>3 DEF Fail, Crash, Handy
  <2> QED BY <2>1, DeliveryAssumption DEF Counted
<1>4. CASE ~ (JobSteps(j) \/ Fail(j) \/ Crash(j))
  BY <1>4, OthersLeave DEF Counted
<1> QED BY <1>1, <1>2, <1>3, <1>4

\* Between two faults a queued job has a number of steps left that only shrinks, over any
\* list of repositories and whatever the other jobs do: a plan phase cannot go on for ever.
\* (execute_plan; arq runs a job again only when its worker died)
THEOREM PhaseShrinks ==
  Spec => [][\A j \in Jobs : pc[j] # "none" =>
               \/ pc'[j] = pc[j] /\ results'[j] = results[j]
               \/ Shrinks(j)
               \/ faults' = faults + 1]_vars
<1>1. Handy /\ Counted /\ [Next]_vars =>
        [\A j \in Jobs : pc[j] # "none" =>
           \/ pc'[j] = pc[j] /\ results'[j] = results[j]
           \/ Shrinks(j)
           \/ faults' = faults + 1]_vars
  <2> SUFFICES ASSUME Handy, Counted, [Next]_vars, NEW j \in Jobs, pc[j] # "none"
               PROVE  \/ pc'[j] = pc[j] /\ results'[j] = results[j]
                      \/ Shrinks(j)
                      \/ faults' = faults + 1
    OBVIOUS
  <2>1. CASE JobSteps(j)
    BY <2>1, JobShrinks
  <2>2. CASE Fail(j) \/ Crash(j)
    BY <2>2 DEF Fail, Crash
  <2>3. CASE ~ (JobSteps(j) \/ Fail(j) \/ Crash(j))
    BY <2>3, OthersLeave
  <2> QED BY <2>1, <2>2, <2>3
<1> QED BY <1>1, HandyInit, HandyNext, CountedInit, CountedNext, PTL DEF Spec
=============================================================================
