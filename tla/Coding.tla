------------------------------- MODULE Coding -------------------------------
(***************************************************************************)
(* The two coding loops: generate_changes, which writes the code of a      *)
(* plan, and run_fix_loop, which repairs an existing branch; with what     *)
(* their callers do with the result (run_coding_slice commits it and opens *)
(* a merge request, run_self_fix commits it).                              *)
(*                                                                         *)
(* A tree is a function from paths to contents.  What the language model   *)
(* answers and what a check reports are free choices.  `checkout' is the   *)
(* directory the checks run in.  `branch' is what GitLab has, which need   *)
(* not be the tree that was fetched: a plan is made on an archive of       *)
(* fork_base_branch and committed to auto-task-*, which an earlier run may *)
(* have left or which is made from a base that has moved; and others may   *)
(* commit while a loop runs.  A check that is not configured, blank, or    *)
(* not allowed to run is not in `enabled'.                                 *)
(***************************************************************************)
EXTENDS Naturals, FiniteSets

CONSTANTS
  Paths, Unsafe,    \* paths of the repository; those is_safe_repo_path refuses
  Texts, Blank,     \* contents of files; the empty one
  NoFile,           \* a path with no file
  Original,         \* the tree the loop has fetched
  Heads,            \* trees that others, or an earlier run, may leave on the branch
  Checks,           \* lint, typecheck, test
  MaxIterations     \* settings.max_code_iterations

Trees == [Paths -> Texts \union {NoFile}]

ASSUME TreesAssumption ==
  /\ Unsafe \subseteq Paths
  /\ Blank \in Texts /\ NoFile \notin Texts
  /\ Original \in Trees /\ Heads \subseteq Trees
ASSUME IterationsAssumption == MaxIterations \in Nat \ {0}

VARIABLES
  loop,       \* "generate" or "fix"
  planned,    \* paths the plan creates or updates
  doomed,     \* paths the plan deletes
  enabled,    \* the checks that have a command
  checkout,   \* the working tree
  files,      \* the latest answer: a function on some paths
  attempt,    \* iterations begun
  results,    \* status of each check in the latest run
  tested,     \* the working tree of the latest run
  verified,   \* CodingResult.verified
  branch,     \* the tree of auto-task-*, or of the base while it does not exist
  pc

plan == <<loop, planned, doomed, enabled>>
vars == <<plan, checkout, files, attempt, results, tested, verified, branch, pc>>

Answers == UNION {[P -> Texts] : P \in SUBSET Paths}

NoAnswer == [p \in {} |-> Blank]

Statuses == {"passed", "failed", "timeout", "refused"}

Results == UNION {[C -> Statuses] : C \in SUBSET Checks}

\* A tree with some files replaced.
Overlay(tree, new) == [p \in Paths |-> IF p \in DOMAIN new THEN new[p] ELSE tree[p]]

OnlySafe(answer) == [p \in DOMAIN answer \ Unsafe |-> answer[p]]
-----------------------------------------------------------------------------
(* Checks of an answer, and of a run *)

IssuesWithoutMissing(answer) ==
  \/ ~ (DOMAIN answer \subseteq planned)
  \/ \E p \in DOMAIN answer : answer[p] = Blank
  \/ DOMAIN answer \intersect Unsafe # {}

UnusableIfEmpty(answer) == DOMAIN answer = {}

\* self_check: the answer covers the plan, and nothing in it is unplanned, empty or unsafe.
Issues(answer) ==
  \/ DOMAIN answer # planned
  \/ \E p \in DOMAIN answer : answer[p] = Blank
  \/ DOMAIN answer \intersect Unsafe # {}

\* The fix loop has no plan to compare the answer with.
Unusable(answer) == DOMAIN answer = {} \/ DOMAIN answer \intersect Unsafe # {}

Rejected(answer) == IF loop = "generate" THEN Issues(answer) ELSE Unusable(answer)

Runnable == {c \in DOMAIN results : results[c] # "refused"}
Failing  == {c \in DOMAIN results : results[c] \in {"failed", "timeout"}}
Passing  == {c \in DOMAIN results : results[c] = "passed"}

VerdictWithoutRun == TRUE

\* After a repair the fix loop does not ask whether a check could run at all.
Verdict == (loop = "fix" /\ attempt > 0) \/ Runnable # {}
-----------------------------------------------------------------------------
(* The loops *)

Init ==
  /\ loop \in {"generate", "fix"}
  /\ planned \in SUBSET (Paths \ Unsafe)
  /\ doomed \in SUBSET {p \in Paths \ Unsafe : Original[p] # NoFile}
  /\ loop = "fix" => planned = {} /\ doomed = {}
  /\ enabled \in SUBSET Checks
  /\ checkout = Original /\ tested = Original
  /\ branch \in {Original} \union (IF loop = "generate" THEN Heads ELSE {})
  /\ files = NoAnswer /\ results = [c \in {} |-> "passed"]
  /\ attempt = 0 /\ verified = FALSE
  /\ pc = IF loop = "generate" THEN "ask" ELSE "run"

AskOnceMore ==
  /\ pc = "ask" /\ attempt <= MaxIterations
  /\ files' \in Answers
  /\ attempt' = attempt + 1
  /\ pc' = "answered"
  /\ UNCHANGED <<plan, checkout, results, tested, verified, branch>>

Ask ==
  /\ pc = "ask" /\ attempt < MaxIterations
  /\ files' \in Answers
  /\ attempt' = attempt + 1
  /\ pc' = "answered"
  /\ UNCHANGED <<plan, checkout, results, tested, verified, branch>>

SelfCheckIsFree ==
  /\ pc = "answered" /\ Rejected(files)
  /\ pc' = "ask" /\ attempt' = attempt - 1
  /\ UNCHANGED <<plan, checkout, files, results, tested, verified, branch>>

SelfCheckFails ==
  /\ pc = "answered" /\ Rejected(files)
  /\ pc' = "ask"
  /\ UNCHANGED <<plan, checkout, files, attempt, results, tested, verified, branch>>

WriteFiles ==
  /\ pc = "answered" /\ ~ Rejected(files)
  /\ checkout' = Overlay(checkout, OnlySafe(files))
  /\ pc' = "run"
  /\ UNCHANGED <<plan, files, attempt, results, tested, verified, branch>>

RunChecks ==
  /\ pc = "run"
  /\ results' \in [enabled -> Statuses]
  /\ tested' = checkout
  /\ pc' = "judge"
  /\ UNCHANGED <<plan, checkout, files, attempt, verified, branch>>

Accept ==
  /\ pc = "judge" /\ Failing = {}
  /\ verified' = Verdict
  /\ pc' = "accepted"
  /\ UNCHANGED <<plan, checkout, files, attempt, results, tested, branch>>

Feedback ==
  /\ pc = "judge" /\ Failing # {}
  /\ pc' = "ask"
  /\ UNCHANGED <<plan, checkout, files, attempt, results, tested, verified, branch>>

\* The limit is reached: the result has issues whatever the last answer was.
GiveUp ==
  /\ pc = "ask" /\ attempt = MaxIterations
  /\ pc' = "given_up"
  /\ UNCHANGED <<plan, checkout, files, attempt, results, tested, verified, branch>>
-----------------------------------------------------------------------------
(* The callers *)

\* run_coding_slice commits every result without issues, run_self_fix only
\* files of a verified one.
ToCommit == loop = "fix" => verified /\ DOMAIN files # {}

Ended == {"given_up", "committed", "refused", "discarded"}

\* GitLab: an "update" of a path the branch does not have is refused.
Updatable == \A p \in DOMAIN files : branch[p] # NoFile

Commit ==
  /\ pc = "accepted" /\ ToCommit /\ Updatable
  /\ branch' = Overlay(branch, files)
  /\ pc' = "committed"
  /\ UNCHANGED <<plan, checkout, files, attempt, results, tested, verified>>

CommitRefused ==
  /\ pc = "accepted" /\ ToCommit /\ ~ Updatable
  /\ pc' = "refused"
  /\ UNCHANGED <<plan, checkout, files, attempt, results, tested, verified, branch>>

Discard ==
  /\ pc = "accepted" /\ ~ ToCommit
  /\ pc' = "discarded"
  /\ UNCHANGED <<plan, checkout, files, attempt, results, tested, verified, branch>>

\* Another run or repair commits to the branch, or the base it will be made from moves.
BranchMoves ==
  /\ pc \notin Ended
  /\ branch' \in Heads
  /\ UNCHANGED <<plan, checkout, files, attempt, results, tested, verified, pc>>

Step ==
  \/ Ask \/ SelfCheckFails \/ WriteFiles \/ RunChecks
  \/ Accept \/ Feedback \/ GiveUp
  \/ Commit \/ CommitRefused \/ Discard

Next == Step \/ BranchMoves

\* A loop is run on by its job, whatever others do to the branch.
Spec == Init /\ [][Next]_vars /\ WF_vars(Step)
-----------------------------------------------------------------------------
(* Properties *)

\* The variables have their types; no loop goes on after max_code_iterations answers.
TypeOK ==
  /\ loop \in {"generate", "fix"}
  /\ planned \subseteq Paths /\ doomed \subseteq Paths
  /\ enabled \subseteq Checks
  /\ checkout \in Trees /\ tested \in Trees /\ branch \in Trees
  /\ files \in Answers
  /\ attempt \in 0..MaxIterations
  /\ results \in Results
  /\ verified \in BOOLEAN
  /\ pc \in Ended \union {"ask", "answered", "run", "judge", "accepted"}

\* The checks of the last run saw the fetched tree with the committed files, nothing else.
SawJustTheFiles == tested = Overlay(Original, files)

\* The code of a plan is committed file by file as its last run saw it, no check of that
\* run failed or timed out, and nothing that earlier attempts left in the checkout helped
\* it: without those leftovers, on the tree that was fetched, it is what was tested.
\* What else is on the branch is another matter.  (generate_changes)
GeneratedFilesAreTested ==
  loop = "generate" /\ pc = "committed" =>
    /\ Failing = {} /\ \A p \in planned : branch[p] = tested[p]
    /\ SawJustTheFiles

\* A repair commits nothing the green run has not seen, and, when the first answer was
\* good, that run has seen nothing but the fetched branch with these files, whoever
\* has moved the branch meanwhile.  (run_fix_loop)
FixedFilesAreTested ==
  loop = "fix" /\ pc = "committed" =>
    /\ Failing = {} /\ \A p \in DOMAIN files : branch[p] = tested[p]
    /\ attempt = 1 => SawJustTheFiles

\* A generated result that calls itself verified has a check that passed on the
\* committed tree.  (generate_changes: verified=bool(runnable))
GeneratedVerifiedRan ==
  loop = "generate" /\ pc = "committed" /\ verified => Passing # {}

\* A loop changes the branch, wherever others have moved it, only in safe paths, and, for
\* a plan, only in paths the plan creates or updates and never to a blank file.
\* (self_check, and the fix loop's own check)
BranchStaysInBounds ==
  [][Step => \A p \in Paths : branch'[p] # branch[p] =>
       /\ p \notin Unsafe
       /\ loop = "generate" => p \in planned /\ branch'[p] # Blank]_vars

\* Each loop ends, with a result or with a hand-over to a human, however often the
\* model answers nonsense or a check fails.  (the two for loops)
LoopEnds == <>(pc \in Ended)

\* What is committed as verified is what was tested, on a branch nobody else has moved.
\* (coding.py:5, the loop makes the merge request verified, not guessed)
CommittedTreeIsTested ==
  pc = "committed" /\ verified => branch = tested

\* Also of a repair: verified means that checks ran and passed.
\* (coding.py:41, the comment at CodingResult.verified)
VerifiedMeansPassed ==
  pc = "committed" /\ verified => Passing # {}

\* A plan may create files: what the loop has accepted reaches the branch.
\* (docs/architecture/contracts.md:9, action create|update|delete)
CreatedFilesAreCommitted == pc # "refused"

\* A plan may delete files: once its code is committed they are gone.
\* (docs/architecture/contracts.md:9, action create|update|delete)
DeletionsAreCommitted ==
  pc = "committed" => \A p \in doomed \ planned : branch[p] = NoFile
=============================================================================
