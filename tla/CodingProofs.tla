---------------------------- MODULE CodingProofs ----------------------------
(***************************************************************************)
(* Theorems about the coding loops, for every repository, plan, set of     *)
(* checks and number of iterations.  What makes a generated merge request  *)
(* verified is Covered: once an answer has passed self_check it covers     *)
(* exactly the planned paths, so nothing an earlier attempt wrote is left  *)
(* visible in the checkout.  None of it depends on where others have moved *)
(* the branch.                                                             *)
(***************************************************************************)
EXTENDS Coding, TLAPS

Written == {"run", "judge", "accepted", "committed"}

\* An answer that has been written has only safe paths.
SafeAnswer == pc \in Written => DOMAIN files \intersect Unsafe = {}

\* A written answer of generate_changes covers the plan; outside the plan the checkout
\* is untouched, inside it is the answer.
Covered ==
  loop = "generate" =>
    /\ \A p \in Paths \ planned : checkout[p] = Original[p]
    /\ pc \in Written =>
         /\ DOMAIN files = planned
         /\ \A p \in planned : checkout[p] = files[p] /\ files[p] # Blank

\* The last run saw the checkout of the result, and nothing in it failed.
Judged ==
  /\ pc \in {"judge", "accepted", "committed"} => tested = checkout
  /\ pc \in {"accepted", "committed"} => Failing = {} /\ (verified => Verdict)

\* The files of the result are on the branch.
Branched == pc = "committed" => \A p \in DOMAIN files : branch[p] = files[p]

IndInv ==
  /\ TypeOK
  /\ planned \intersect Unsafe = {}
  /\ SafeAnswer
  /\ Covered
  /\ Judged
  /\ Branched

\* Replacing files gives a tree, with the new contents at their paths.
LEMMA OverlayFacts ==
  ASSUME NEW tree \in Trees, NEW new \in Answers
  PROVE  /\ Overlay(tree, new) \in Trees
         /\ \A p \in Paths : Overlay(tree, new)[p] =
                               IF p \in DOMAIN new THEN new[p] ELSE tree[p]
BY DEF Overlay, Trees, Answers

\* The unsafe paths of an answer are dropped again before it is written.
LEMMA OnlySafeFacts ==
  ASSUME NEW answer \in Answers
  PROVE  /\ OnlySafe(answer) \in Answers
         /\ DOMAIN OnlySafe(answer) = DOMAIN answer \ Unsafe
         /\ \A p \in DOMAIN answer \ Unsafe : OnlySafe(answer)[p] = answer[p]
<1>1. PICK P \in SUBSET Paths : answer \in [P -> Texts]
  BY DEF Answers
<1>2. OnlySafe(answer) \in [P \ Unsafe -> Texts] /\ P \ Unsafe \in SUBSET Paths
  BY <1>1 DEF OnlySafe
<1> QED BY <1>1, <1>2 DEF OnlySafe, Answers

\* The start of a loop satisfies the invariant.
LEMMA InitInv == Init => IndInv
<1> SUFFICES ASSUME Init PROVE IndInv
  OBVIOUS
<1> USE TreesAssumption, IterationsAssumption DEF Init
<1>1. files \in Answers /\ DOMAIN files = {}
  <2>1. files = NoAnswer
    OBVIOUS
  <2>2. NoAnswer \in [{} -> Texts] /\ {} \in SUBSET Paths
    BY DEF NoAnswer
  <2> QED BY ONLY <2>1, <2>2 DEF Answers
<1>2. results \in Results
  <2>1. results \in [{} -> Statuses]
    OBVIOUS
  <2> QED BY <2>1 DEF Results
<1>3. TypeOK
  <2>1. planned \subseteq Paths /\ doomed \subseteq Paths /\ enabled \subseteq Checks
    OBVIOUS
  <2>2. checkout \in Trees /\ tested \in Trees /\ branch \in Trees
    OBVIOUS
  <2>3. attempt \in 0..MaxIterations
    OBVIOUS
  <2>5. verified \in BOOLEAN
    <3>1. verified = FALSE
      OBVIOUS
    <3> QED BY ONLY <3>1
  <2>4. pc \in {"ask", "run"} /\ loop \in {"generate", "fix"}
    OBVIOUS
  <2> HIDE TreesAssumption, IterationsAssumption DEF Init
  <2> QED BY <1>1, <1>2, <2>1, <2>2, <2>3, <2>4, <2>5 DEF TypeOK
<1>4. SafeAnswer /\ Judged /\ Branched
  BY <1>1 DEF SafeAnswer, Judged, Branched, Written
<1>5. Covered
  BY DEF Covered, Written
<1> QED BY <1>3, <1>4, <1>5 DEF IndInv

\* Every step of a loop and of its caller keeps the invariant.
LEMMA NextInv == IndInv /\ [Next]_vars => IndInv'
<1> SUFFICES ASSUME IndInv, [Next]_vars PROVE IndInv'
  OBVIOUS
<1> USE TreesAssumption, IterationsAssumption
<1> USE DEF IndInv, plan
<1>1. CASE Ask
  <2>1. attempt' \in 0..MaxIterations
    BY <1>1 DEF Ask, TypeOK
  <2> QED BY <1>1, <2>1 DEF Ask, TypeOK, Ended, SafeAnswer, Covered, Judged, Branched, Written
<1>2. CASE SelfCheckFails
  BY <1>2 DEF SelfCheckFails, TypeOK, Ended, SafeAnswer, Covered, Judged, Branched, Written
<1>3. CASE WriteFiles
  <2> USE <1>3 DEF WriteFiles
  <2> DEFINE safe == OnlySafe(files)
  <2>1. DOMAIN files \intersect Unsafe = {}
    BY DEF Rejected, Issues, Unusable, TypeOK
  <2>2. /\ safe \in Answers /\ DOMAIN safe = DOMAIN files
        /\ \A p \in DOMAIN files : safe[p] = files[p]
    BY <2>1, OnlySafeFacts DEF TypeOK
  <2>3. /\ checkout' \in Trees
        /\ \A p \in Paths : checkout'[p] = IF p \in DOMAIN files THEN files[p] ELSE checkout[p]
    <3>1. checkout \in Trees /\ files \in Answers /\ checkout' = Overlay(checkout, safe)
      BY DEF TypeOK
    <3>2. \A p \in Paths : Overlay(checkout, safe)[p] =
                             IF p \in DOMAIN safe THEN safe[p] ELSE checkout[p]
      BY <2>2, <3>1, OverlayFacts
    <3> QED BY <2>2, <3>1, <3>2, OverlayFacts
  <2>4. loop = "generate" => DOMAIN files = planned /\ \A p \in DOMAIN files : files[p] # Blank
    BY DEF Rejected, Issues
  <2>5. TypeOK'
    BY <2>3 DEF TypeOK, Ended
  <2>6. Covered'
    BY <2>3, <2>4 DEF Covered, Written, TypeOK
  <2> QED BY <2>1, <2>5, <2>6 DEF SafeAnswer, Judged, Branched, Written
<1>4. CASE RunChecks
  <2>1. results' \in Results
    BY <1>4 DEF RunChecks, TypeOK, Results
  <2> QED BY <1>4, <2>1
        DEF RunChecks, TypeOK, Ended, SafeAnswer, Covered, Judged, Branched, Written
<1>5. CASE Accept
  <2>1. verified' \in BOOLEAN
    BY <1>5 DEF Accept, Verdict
  <2>2. Judged'
    BY <1>5 DEF Accept, Judged, Failing, Verdict, Runnable
  <2> QED BY <1>5, <2>1, <2>2 DEF Accept, TypeOK, Ended, SafeAnswer, Covered, Branched, Written
<1>6. CASE Feedback
  BY <1>6 DEF Feedback, TypeOK, Ended, SafeAnswer, Covered, Judged, Branched, Written
<1>7. CASE GiveUp
  BY <1>7 DEF GiveUp, TypeOK, Ended, SafeAnswer, Covered, Judged, Branched, Written
<1>8. CASE Commit
  <2> USE <1>8 DEF Commit
  <2>1. branch' \in Trees /\ \A p \in DOMAIN files : branch'[p] = files[p]
    BY OverlayFacts DEF TypeOK, Answers
  <2>2. Judged'
    BY DEF Judged, Failing, Verdict, Runnable
  <2>3. Branched'
    BY <2>1 DEF Branched
  <2> QED BY <2>1, <2>2, <2>3 DEF TypeOK, Ended, SafeAnswer, Covered, Written
<1>9. CASE CommitRefused
  BY <1>9 DEF CommitRefused, TypeOK, Ended, SafeAnswer, Covered, Judged, Branched, Written
<1>10. CASE Discard
  BY <1>10 DEF Discard, TypeOK, Ended, SafeAnswer, Covered, Judged, Branched, Written
<1>11. CASE UNCHANGED vars
  BY <1>11 DEF vars, TypeOK, Ended, SafeAnswer, Covered, Judged, Branched, Written,
               Failing, Verdict, Runnable
<1>12. CASE BranchMoves
  BY <1>12 DEF BranchMoves, TypeOK, Ended, SafeAnswer, Covered, Judged, Branched, Written,
               Failing, Verdict, Runnable
<1> QED BY <1>1, <1>2, <1>3, <1>4, <1>5, <1>6, <1>7, <1>8, <1>9, <1>10, <1>11, <1>12
        DEF Next, Step

\* The invariant holds in every behaviour of the loops.
THEOREM Inductive == Spec => []IndInv
BY InitInv, NextInv, PTL DEF Spec

\* Every variable has its type: trees stay trees, attempts within MAX_CODE_ITERATIONS.
THEOREM TypeCorrect == Spec => []TypeOK
<1>1. IndInv => TypeOK
  BY DEF IndInv
<1> QED BY <1>1, Inductive, PTL

\* generate_changes: what is committed is what the checks ran on, on nothing but the
\* fetched tree, and none failed.
THEOREM CommitsWhatWasTested == Spec => []GeneratedFilesAreTested
<1>1. IndInv => GeneratedFilesAreTested
  <2> SUFFICES ASSUME IndInv, loop = "generate", pc = "committed"
               PROVE  /\ Failing = {} /\ \A p \in planned : branch[p] = tested[p]
                      /\ tested = Overlay(Original, files)
    BY DEF GeneratedFilesAreTested, SawJustTheFiles
  <2>1. tested = checkout /\ Failing = {}
    BY DEF IndInv, Judged
  <2>2. \A p \in planned : branch[p] = files[p] /\ checkout[p] = files[p]
    BY DEF IndInv, Branched, Covered, Written
  <2>3. \A p \in Paths : Overlay(Original, files)[p] = checkout[p]
    BY TreesAssumption, OverlayFacts DEF IndInv, Covered, Written, TypeOK
  <2>4. Overlay(Original, files) \in Trees /\ checkout \in Trees
    BY TreesAssumption, OverlayFacts DEF IndInv, TypeOK
  <2>5. Overlay(Original, files) = checkout
    BY <2>3, <2>4 DEF Trees
  <2> QED BY <2>1, <2>2, <2>5
<1> QED BY <1>1, Inductive, PTL

\* generate_changes: verified=bool(runnable) together with no failing check means that
\* some check passed.
THEOREM VerifiedRan == Spec => []GeneratedVerifiedRan
<1>1. IndInv => GeneratedVerifiedRan
  <2> SUFFICES ASSUME IndInv, loop = "generate", pc = "committed", verified
               PROVE  Passing # {}
    BY DEF GeneratedVerifiedRan
  <2>1. Failing = {} /\ Runnable # {}
    BY DEF IndInv, Judged, Verdict
  <2>2. \A c \in DOMAIN results : results[c] \in Statuses
    BY DEF IndInv, TypeOK, Results
  <2>3. PICK c \in DOMAIN results : results[c] # "refused"
    BY <2>1 DEF Runnable
  <2>4. results[c] = "passed"
    BY <2>1, <2>2, <2>3 DEF Failing, Statuses
  <2> QED BY <2>4 DEF Passing
<1> QED BY <1>1, Inductive, PTL

\* self_check and the fix loop's own check: a loop changes the branch only where it may.
THEOREM InBounds == Spec => BranchStaysInBounds
<1>1. IndInv /\ [Next]_vars =>
        [Step => \A p \in Paths : branch'[p] # branch[p] =>
           /\ p \notin Unsafe
           /\ loop = "generate" => p \in planned /\ branch'[p] # Blank]_vars
  <2> SUFFICES ASSUME IndInv, Step, NEW p \in Paths, branch'[p] # branch[p]
               PROVE  p \notin Unsafe /\ (loop = "generate" => p \in planned /\ branch'[p] # Blank)
    OBVIOUS
  <2>1. Commit
    BY DEF Step, Ask, SelfCheckFails, WriteFiles, RunChecks, Accept, Feedback, GiveUp,
           CommitRefused, Discard
  <2>2. p \in DOMAIN files /\ branch'[p] = files[p]
    BY <2>1, OverlayFacts DEF Commit, IndInv, TypeOK
  <2> QED BY <2>1, <2>2 DEF Commit, IndInv, SafeAnswer, Covered, Written
<1> QED BY <1>1, Inductive, PTL DEF Spec, BranchStaysInBounds

\* A written answer of the fix loop is in the checkout, and while the first answer is the
\* only one there is nothing else in it.
Repaired ==
  loop = "fix" =>
    /\ pc = "answered" => attempt # 0
    /\ attempt = 0 => checkout = Original /\ files = NoAnswer
    /\ attempt = 1 /\ pc = "answered" => checkout = Original
    /\ attempt = 1 /\ pc \in Written => checkout = Overlay(Original, files)
    /\ pc \in Written => \A p \in DOMAIN files : checkout[p] = files[p]

\* Every step keeps what is known of a repair: only an answer changes the files, only
\* WriteFiles the checkout.
LEMMA RepairedInv == IndInv /\ Repaired /\ [Next]_vars => Repaired'
<1> SUFFICES ASSUME IndInv, Repaired, [Next]_vars PROVE Repaired'
  OBVIOUS
<1>0. attempt \in Nat
  BY IterationsAssumption DEF IndInv, TypeOK
<1> USE DEF plan
<1>1. CASE Ask
  BY <1>0, <1>1 DEF Ask, Repaired, Written
<1>2. CASE WriteFiles
  <2> USE <1>2 DEF WriteFiles
  <2>1. files \in Answers /\ checkout \in Trees /\ DOMAIN files \intersect Unsafe = {}
    BY DEF Rejected, Issues, Unusable, IndInv, TypeOK
  <2>2. OnlySafe(files) = files
    BY <2>1, OnlySafeFacts DEF OnlySafe, Answers
  <2>3. \A p \in DOMAIN files : checkout'[p] = files[p]
    BY <2>1, <2>2, OverlayFacts DEF Answers
  <2> QED BY <2>2, <2>3 DEF Repaired, Written
<1>3. CASE SelfCheckFails \/ RunChecks \/ Accept \/ Feedback \/ GiveUp
           \/ Commit \/ CommitRefused \/ Discard \/ BranchMoves \/ UNCHANGED vars
  BY <1>3 DEF SelfCheckFails, RunChecks, Accept, Feedback, GiveUp, Commit, CommitRefused,
              Discard, BranchMoves, vars, Repaired, Written
<1> QED BY <1>1, <1>2, <1>3 DEF Next, Step

\* run_fix_loop: what a repair commits was in the tree of the green run, and after one
\* answer there was nothing else in it but the fetched branch.
THEOREM RepairIsTested == Spec => []FixedFilesAreTested
<1>1. Init => Repaired
  BY DEF Init, Repaired, Written, NoAnswer
<1>2. IndInv /\ Repaired => FixedFilesAreTested
  <2> SUFFICES ASSUME IndInv, Repaired, loop = "fix", pc = "committed"
               PROVE  /\ Failing = {} /\ \A p \in DOMAIN files : branch[p] = tested[p]
                      /\ attempt = 1 => tested = Overlay(Original, files)
    BY DEF FixedFilesAreTested, SawJustTheFiles
  <2>1. tested = checkout /\ Failing = {}
    BY DEF IndInv, Judged
  <2>2. \A p \in DOMAIN files : branch[p] = files[p] /\ checkout[p] = files[p]
    BY DEF IndInv, Branched, Repaired, Written
  <2>3. attempt = 1 => checkout = Overlay(Original, files)
    BY DEF Repaired, Written
  <2> QED BY <2>1, <2>2, <2>3
<1> QED BY <1>1, <1>2, Inductive, RepairedInv, PTL DEF Spec

\* The steps a loop has left: four for each answer it may still ask for, and those from
\* its place.
Left ==
  4 * (MaxIterations - attempt) +
    CASE pc = "answered" -> 5
      [] pc = "run"      -> 4
      [] pc = "judge"    -> 3
      [] pc = "ask"      -> 2
      [] pc = "accepted" -> 1
      [] OTHER           -> 0

Shrinks == Left \in Nat /\ Left' \in Nat /\ Left' < Left

\* Every step of a loop and its caller shortens what is left, and others, who move the
\* branch, change none of it: a failed self-check has used up an attempt as a failed
\* run has, so no loop goes on for ever.  (the two for loops)
THEOREM LoopShrinks == Spec => [][Shrinks \/ BranchMoves]_vars
<1>1. TypeOK /\ [Next]_vars => [Shrinks \/ BranchMoves]_vars
  <2> SUFFICES ASSUME TypeOK, Step PROVE Shrinks
    BY DEF Next
  <2>1. attempt \in 0..MaxIterations /\ MaxIterations \in Nat
    BY IterationsAssumption DEF TypeOK
  <2>2. CASE Ask
    BY <2>1, <2>2 DEF Ask, Left, Shrinks
  <2>3. CASE SelfCheckFails \/ WriteFiles \/ RunChecks \/ Accept \/ Feedback \/ GiveUp
    BY <2>1, <2>3 DEF SelfCheckFails, WriteFiles, RunChecks, Accept, Feedback, GiveUp, Left, Shrinks
  <2>4. CASE Commit \/ CommitRefused \/ Discard
    BY <2>1, <2>4 DEF Commit, CommitRefused, Discard, Left, Shrinks
  <2> QED BY <2>2, <2>3, <2>4 DEF Step
<1> QED BY <1>1, TypeCorrect, PTL DEF Spec
=============================================================================
