------------------------------- MODULE GoAuth -------------------------------
(***************************************************************************)
(* The pure decision of app/go_authorizer.py: may this user close the      *)
(* briefing with /go, and by which rule.  A context is the record the code *)
(* calls GoContext; NoUser stands for an empty or unknown user id.         *)
(***************************************************************************)
EXTENDS Naturals

CONSTANTS Users, NoUser

ASSUME NoUserAssumption == NoUser \notin Users

\* _RULE_PRIORITY: the strongest matching rule wins.
RulePriority ==
  <<"maintainer", "reviewer", "responsible_user", "creator", "ai_go_approvers">>

Rules == {RulePriority[i] : i \in 1..5}

\* _HIGH_RISK_RULES: the rules that suffice for a high-risk task.
HighRiskRules == {"maintainer", "reviewer"}

\* _matched_rules: an empty user matches nothing, and neither does an empty role.
MatchedRules(ctx) ==
  IF ctx.user = NoUser THEN {}
  ELSE {r \in Rules :
          \/ r = "maintainer" /\ ctx.maintainer
          \/ r = "reviewer" /\ ctx.user = ctx.reviewer
          \/ r = "responsible_user" /\ ctx.user = ctx.assignee
          \/ r = "creator" /\ ctx.user = ctx.author
          \/ r = "ai_go_approvers" /\ ctx.user \in ctx.approvers}

\* The first rule of the priority order that matched.
StrongestRule(matched) ==
  LET first == CHOOSE i \in 1..5 :
                 /\ RulePriority[i] \in matched
                 /\ \A j \in 1..(i - 1) : RulePriority[j] \notin matched
  IN  IF matched = {} THEN "insufficient_rights" ELSE RulePriority[first]

\* authorize: on a high-risk task somebody stronger than the creator is needed;
\* the rule is kept in the decision even when it was not enough.
Authorize(ctx, risk, highRiskRequiresMaintainer) ==
  LET matched == MatchedRules(ctx)
      highRisk == risk = "high" /\ highRiskRequiresMaintainer
      ok == matched # {} /\ (highRisk => matched \intersect HighRiskRules # {})
  IN  [authorized |-> ok,
       rule       |-> StrongestRule(matched),
       decision   |-> IF ok THEN "authorized" ELSE "rejected",
       highRisk   |-> highRisk]
=============================================================================
