------------------------------- MODULE Gates -------------------------------
(***************************************************************************)
(* What has to agree before the agent hands a change of one repository to  *)
(* its reviewer: /go, the risk classifier and the gate of the plan, the    *)
(* budget of the diff, the independent review and the red team, and the    *)
(* flip from Draft to Ready; and the self-fix that may follow.             *)
(*                                                                         *)
(* A text is the set of trigger words found in it.  What the models answer *)
(* is a free choice; an answer that does not parse counts as NEED_HUMAN.   *)
(* How the code is generated is module Coding, how the merge request is    *)
(* opened module Delivery.                                                 *)
(***************************************************************************)
EXTENDS Integers, FiniteSets

CONSTANTS
  HighWords, BlockedWords, RedTeamWords,  \* the trigger lists of risk.py and redteam.py
  Types, CodeTypes,                       \* task types; feature, bugfix, refactor
  Areas, HighAreas, LowAreas,             \* affected areas; the sensitive ones; docs
  Sizes,                                  \* numbers of changes, and of changed lines
  MaxFilesLow, MaxFilesMedium, MaxDiffLines,
  HighRiskRequiresMaintainer,             \* settings.high_risk_go_requires_maintainer
  Users, NoUser, Author, Reviewer,        \* of the task
  Approvers, Maintainers,                 \* settings.ai_go_approvers; by GitLab's roles
  MaxFixes                                \* bound of the model: fixes of the branch

INSTANCE GoAuth

Words == HighWords \union BlockedWords \union RedTeamWords

ASSUME GatesAssumption ==
  /\ CodeTypes \subseteq Types
  /\ HighAreas \subseteq Areas /\ LowAreas \subseteq Areas
  /\ Sizes \subseteq Nat
  /\ {MaxFilesLow, MaxFilesMedium, MaxDiffLines, MaxFixes} \subseteq Nat
  /\ MaxFilesLow <= MaxFilesMedium
  /\ HighRiskRequiresMaintainer \in BOOLEAN

RiskLevels == {"low", "medium", "high", "blocked"}

Rank == [low |-> 0, medium |-> 1, high |-> 2, blocked |-> 3]

\* The fields of TaskCard the gates read; `words' of all its texts, areas included.
Cards == [type : Types, words : SUBSET Words, areas : SUBSET Areas, hint : RiskLevels,
          security : BOOLEAN]

\* The entries of a plan: how many, and the words of their paths.
Plans == [entries : Sizes, words : SUBSET Words]

DocImpacts == {"yes", "no"}

\* `excused': the answer came with a doc_skip_reason.
RiskGates == [level : RiskLevels, redTeam : BOOLEAN, human : BOOLEAN, docs : DocImpacts,
              excused : BOOLEAN]

Verdicts == {"PASS", "PASS_WITH_NOTES", "FAIL", "NEED_HUMAN"}

\* A verdict, and whether a comment or finding of severity high or worse comes with it.
Reviews == [verdict : Verdicts, severe : BOOLEAN]

NotReviewed == [verdict |-> "none", severe |-> FALSE]
NotDecided == [authorized |-> FALSE, rule |-> "none", decision |-> "none", highRisk |-> FALSE]
NoGate == [level |-> "none"]
NoPlan == [entries |-> 0, words |-> {}]

VARIABLES
  card,             \* TaskState.card_snapshot
  go,               \* the decision of the last /go
  plan, gate,       \* the changes of the plan; RiskPlanGate
  verified,         \* CodingResult.verified
  files, lines,     \* what the branch changes
  review, redTeam,  \* the two verdicts
  mr,               \* "none", "draft", "ready"
  fixes,            \* commits of self-fix
  pc

vars == <<card, go, plan, gate, verified, files, lines, review, redTeam, mr, fixes, pc>>

Init ==
  /\ card \in Cards
  /\ go = NotDecided /\ plan = NoPlan /\ gate = NoGate
  /\ verified = FALSE /\ files = 0 /\ lines = 0
  /\ review = NotReviewed /\ redTeam = NotReviewed
  /\ mr = "none" /\ fixes = 0
  /\ pc = "briefed"
-----------------------------------------------------------------------------
(* The classifier *)

\* _max, over all the signals.
Highest(S) ==
  IF "blocked" \in S THEN "blocked"
  ELSE IF "high" \in S THEN "high"
  ELSE IF "medium" \in S THEN "medium" ELSE "low"

Severe(level) == level \in {"high", "blocked"}

Haystack(c, p) == c.words \union p.words

BaseLevel(c) ==
  IF c.type \notin CodeTypes \/ (c.areas # {} /\ c.areas \subseteq LowAreas)
  THEN "low" ELSE "medium"

HintWins(c, p) ==
  IF c.hint # "low" THEN c.hint
  ELSE Highest({BaseLevel(c), IF Haystack(c, p) \intersect HighWords # {} THEN "high" ELSE "low"})

ContentLevel(c, p) ==
  Highest(
    {BaseLevel(c), c.hint,
     IF \/ c.security
        \/ Haystack(c, p) \intersect HighWords # {}
        \/ c.areas \intersect HighAreas # {}
     THEN "high" ELSE "low",
     IF Haystack(c, p) \intersect BlockedWords # {} THEN "blocked" ELSE "low"})

NeverTooLarge(p) == IF p.entries > MaxFilesLow THEN "medium" ELSE "low"

SizeLevel(p) ==
  IF p.entries > MaxFilesMedium THEN "high"
  ELSE IF p.entries > MaxFilesLow THEN "medium" ELSE "low"

RiskLevel(c, p) == Highest({ContentLevel(c, p), SizeLevel(p)})

HumanIfHigh(c, p) == RiskLevel(c, p) = "high"

NeedsHuman(c, p) ==
  \/ Severe(ContentLevel(c, p))
  \/ p.entries > MaxFilesMedium
  \/ RiskLevel(c, p) = "high"

NeedsRedTeam(c, p) == Severe(RiskLevel(c, p))
-----------------------------------------------------------------------------
(* The /go, the plan and the code *)

GoContext(user) ==
  [user |-> user, author |-> Author, reviewer |-> Reviewer, assignee |-> NoUser,
   approvers |-> Approvers, maintainer |-> user \in Maintainers]

\* Nothing writes TaskState.risk_level: `task.risk_level or "low"' is "low".
RecordedRisk == "low"

Go ==
  /\ pc = "briefed"
  /\ \E user \in Users : go' = Authorize(GoContext(user), RecordedRisk, HighRiskRequiresMaintainer)
  /\ pc' = IF go'.authorized THEN "approved" ELSE "briefed"
  /\ UNCHANGED <<card, plan, gate, verified, files, lines, review, redTeam, mr, fixes>>

AnyImpact(impact) == TRUE

\* The contract refuses a doc_impact that is neither yes nor no.
Admitted(impact) == impact \in DocImpacts

\* A skip of the documentation counts only with a reason.
Docs(impact, excused) == IF impact = "no" /\ ~ excused THEN "yes" ELSE impact

\* explore_and_plan, and the validator of RiskPlanGate.
Explore ==
  /\ pc = "approved"
  /\ \E p \in Plans, impact \in DocImpacts \union {"other"}, excused \in BOOLEAN :
       /\ Admitted(impact)
       /\ plan' = p
       /\ gate' = [level   |-> RiskLevel(card, p),
                   redTeam |-> NeedsRedTeam(card, p) \/ RiskLevel(card, p) = "high",
                   human   |-> NeedsHuman(card, p) \/ RiskLevel(card, p) = "high",
                   docs    |-> Docs(impact, excused),
                   excused |-> excused]
  /\ pc' = "planned"
  /\ UNCHANGED <<card, go, verified, files, lines, review, redTeam, mr, fixes>>

\* PlanError (no JSON, an unsafe path), or a value the contract refuses: the job ends.
PlanRefused ==
  /\ pc = "approved" /\ pc' = "failed"
  /\ UNCHANGED <<card, go, plan, gate, verified, files, lines, review, redTeam, mr, fixes>>

PlanGate ==
  /\ pc = "planned"
  /\ pc' = IF gate.level = "blocked" THEN "blocked"
           ELSE IF gate.human \/ gate.redTeam THEN "needs_human" ELSE "coding"
  /\ UNCHANGED <<card, go, plan, gate, verified, files, lines, review, redTeam, mr, fixes>>

SelfCheckFailed ==
  /\ pc = "coding" /\ pc' = "failed"
  /\ UNCHANGED <<card, go, plan, gate, verified, files, lines, review, redTeam, mr, fixes>>

\* The files of the result are those of the plan, whose entries may repeat one.
Code ==
  /\ pc = "coding" /\ pc' = "coded"
  /\ verified' \in BOOLEAN
  /\ files' \in {n \in Sizes : n <= plan.entries}
  /\ lines' \in Sizes
  /\ mr' = "draft"
  /\ UNCHANGED <<card, go, plan, gate, review, redTeam, fixes>>
-----------------------------------------------------------------------------
(* The review, the red team and the flip *)

\* merge_blocked of both contracts.
MergeBlocked(r) == r.verdict \in {"FAIL", "NEED_HUMAN"} \/ r.severe

RedTeamByRisk(c, g, p) == g.redTeam \/ Severe(g.level)

RedTeamRequired(c, g, p) ==
  g.redTeam \/ Severe(g.level) \/ Haystack(c, p) \intersect RedTeamWords # {}

\* review_diff, then red_team_review if it is required.
ReviewDiff ==
  /\ pc = "coded" /\ pc' = "reviewed"
  /\ review' \in Reviews
  /\ IF RedTeamRequired(card, gate, plan) THEN redTeam' \in Reviews
     ELSE redTeam' = NotReviewed
  /\ UNCHANGED <<card, go, plan, gate, verified, files, lines, mr, fixes>>

\* The model cannot be reached: the job ends, the merge request stays.
ReviewFails ==
  /\ pc = "coded" /\ pc' = "failed"
  /\ UNCHANGED <<card, go, plan, gate, verified, files, lines, review, redTeam, mr, fixes>>

WithinBudget == lines <= MaxDiffLines /\ files <= MaxFilesMedium

Finalize ==
  /\ pc = "reviewed" /\ pc' = "finalized"
  /\ mr' = IF /\ verified
              /\ ~ MergeBlocked(review)
              /\ ~ MergeBlocked(redTeam)
              /\ WithinBudget
           THEN "ready" ELSE "draft"
  /\ UNCHANGED <<card, go, plan, gate, verified, files, lines, review, redTeam, fixes>>

\* run_self_fix, on a failed pipeline or @ai fix: once the checks pass, whatever the
\* model changed is committed.
SelfFix ==
  /\ pc = "finalized" /\ fixes < MaxFixes
  /\ files' \in Sizes /\ lines' \in Sizes
  /\ fixes' = fixes + 1
  /\ UNCHANGED <<card, go, plan, gate, verified, review, redTeam, mr, pc>>

Next ==
  \/ Go \/ Explore \/ PlanRefused \/ PlanGate \/ SelfCheckFailed \/ Code
  \/ ReviewDiff \/ ReviewFails \/ Finalize \/ SelfFix

Spec == Init /\ [][Next]_vars
-----------------------------------------------------------------------------
(* Properties *)

Pcs == {"briefed", "approved", "planned", "blocked", "needs_human", "coding", "coded",
        "reviewed", "finalized", "failed"}

\* The variables have their types (contracts.py, go_authorizer.py).
TypeOK ==
  /\ card \in Cards
  /\ go \in {NotDecided} \union
       [authorized : BOOLEAN, rule : Rules \union {"insufficient_rights"},
        decision : {"authorized", "rejected"}, highRisk : BOOLEAN]
  /\ plan \in Plans \union {NoPlan} /\ gate \in RiskGates \union {NoGate}
  /\ verified \in BOOLEAN /\ files \in Nat /\ lines \in Nat
  /\ review \in Reviews \union {NotReviewed} /\ redTeam \in Reviews \union {NotReviewed}
  /\ mr \in {"none", "draft", "ready"} /\ fixes \in 0..MaxFixes
  /\ pc \in Pcs

\* A merge request is opened only for an authorised task with nothing high-risk about
\* it: not the card, not the plan's paths, not its size; and only if the documentation
\* is planned or excused (run_coding_slice after classify_risk and explore_and_plan).
OnlyHarmlessIsCoded ==
  mr # "none" =>
    /\ go.authorized
    /\ ~ card.security /\ ~ Severe(card.hint)
    /\ card.areas \intersect HighAreas = {}
    /\ Haystack(card, plan) \intersect (HighWords \union BlockedWords) = {}
    /\ plan.entries <= MaxFilesMedium
    /\ gate.docs = "no" => gate.excused

\* The three ways a gate says "not alone" agree, though classify_risk sets one of them
\* before the limits on files and the contract overrides two of them.
SevereIsForPeople ==
  gate # NoGate => gate.human = Severe(gate.level) /\ gate.redTeam = Severe(gate.level)

\* A merge request that leaves Draft has green checks, two opinions that do not object
\* (the second wherever a word of the red team's list occurs), and a diff that was
\* within the budget when the gates were run (_apply_gates).
ReadyWasAgreed ==
  (mr = "ready" /\ fixes = 0) =>
    /\ verified
    /\ review.verdict \in {"PASS", "PASS_WITH_NOTES"} /\ ~ review.severe
    /\ Haystack(card, plan) \intersect RedTeamWords # {} =>
         redTeam.verdict \in {"PASS", "PASS_WITH_NOTES"} /\ ~ redTeam.severe
    /\ lines <= MaxDiffLines /\ files <= MaxFilesMedium

\* One more word, a higher hint, a security flag or a longer plan never lowers the
\* level of the gate (classify_risk).
SignalsOnlyRaise ==
  gate # NoGate =>
    LET AtLeast(c, p) == Rank[RiskLevel(c, p)] >= Rank[gate.level]
    IN  /\ \A w \in Words :
             /\ AtLeast([card EXCEPT !.words = @ \union {w}], plan)
             /\ AtLeast(card, [plan EXCEPT !.words = @ \union {w}])
        /\ \A h \in RiskLevels : Rank[h] >= Rank[card.hint] =>
             AtLeast([card EXCEPT !.hint = h], plan)
        /\ AtLeast([card EXCEPT !.security = TRUE], plan)
        /\ \A n \in Sizes : n >= plan.entries => AtLeast(card, [plan EXCEPT !.entries = n])

\* A task that is high-risk by its card alone starts only by a reviewer or maintainer
\* (handle_go; docs/modules/briefing.md).
HighRiskGoIsStrong ==
  (pc = "approved" /\ HighRiskRequiresMaintainer /\ ContentLevel(card, NoPlan) = "high") =>
    go.rule \in HighRiskRules

\* What is offered to the reviewer stays within the budget of the diff
\* (run_self_fix; docs/overview/principles.md).
ReadyStaysInBudget == mr = "ready" => WithinBudget
=============================================================================
