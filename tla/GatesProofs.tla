---------------------------- MODULE GatesProofs ----------------------------
(***************************************************************************)
(* Theorems about the gates, for every list of trigger words, every area,  *)
(* every limit and every size.  The gate keeps what the classifier says of *)
(* the card and the plan (GateIsComputed), and what follows the gate keeps *)
(* to what it allowed (Allowed, Agreed).                                   *)
(***************************************************************************)
EXTENDS Gates, TLAPS

\* The gate is the classification of this card and this plan.
GateIsComputed ==
  gate # NoGate =>
    /\ plan \in Plans
    /\ gate.level = RiskLevel(card, plan)
    /\ gate.human = Severe(gate.level)
    /\ gate.redTeam = Severe(gate.level)
    /\ gate.docs = "no" => gate.excused

\* Nothing is begun before the /go, and nothing coded that the gate refused.
Allowed ==
  /\ pc # "briefed" => go.authorized
  /\ pc = "planned" => gate # NoGate
  /\ pc \in {"coding", "coded", "reviewed", "finalized"} \/ mr # "none" =>
       go.authorized /\ gate # NoGate /\ ~ Severe(gate.level)

\* What the two opinions are when the flip is decided.
Agreed ==
  /\ mr = "ready" => pc = "finalized"
  /\ mr # "none" => pc \in {"coded", "reviewed", "finalized", "failed"}
  /\ pc = "reviewed" =>
       /\ review \in Reviews
       /\ Haystack(card, plan) \intersect RedTeamWords # {} => redTeam \in Reviews
  /\ ReadyWasAgreed

IndInv == TypeOK /\ GateIsComputed /\ Allowed /\ Agreed

\* The highest of some levels is one of them, and none of them is above it.
LEMMA HighestFacts ==
  ASSUME NEW S \in SUBSET RiskLevels, S # {}
  PROVE  /\ Highest(S) \in S
         /\ \A l \in S : Rank[l] <= Rank[Highest(S)]
<1>1. /\ Rank["low"] = 0 /\ Rank["medium"] = 1
      /\ Rank["high"] = 2 /\ Rank["blocked"] = 3
  BY DEF Rank
<1>2. \A l \in S : l \in {"low", "medium", "high", "blocked"}
  BY DEF RiskLevels
<1>3. CASE "blocked" \in S
  BY <1>1, <1>2, <1>3 DEF Highest
<1>4. CASE "blocked" \notin S /\ "high" \in S
  BY <1>1, <1>2, <1>4 DEF Highest
<1>5. CASE "blocked" \notin S /\ "high" \notin S /\ "medium" \in S
  BY <1>1, <1>2, <1>5 DEF Highest
<1>6. CASE "blocked" \notin S /\ "high" \notin S /\ "medium" \notin S
  <2>1. Highest(S) = "low"
    BY <1>6 DEF Highest
  <2>2. \A l \in S : l = "low"
    BY <1>2, <1>6
  <2> QED BY <2>1, <2>2, <1>1
<1> QED BY <1>3, <1>4, <1>5, <1>6

\* A set that dominates another has the higher level.
LEMMA HighestIsMonotone ==
  ASSUME NEW S \in SUBSET RiskLevels, S # {}, NEW T \in SUBSET RiskLevels,
         \A l \in S : \E k \in T : Rank[l] <= Rank[k]
  PROVE  Rank[Highest(T)] >= Rank[Highest(S)]
<1>1. PICK k \in T : Rank[Highest(S)] <= Rank[k]
  BY HighestFacts
<1>2. Rank[k] <= Rank[Highest(T)]
  BY HighestFacts, <1>1
<1>3. \A l \in RiskLevels : Rank[l] \in Nat
  BY DEF RiskLevels, Rank
<1>4. Highest(S) \in RiskLevels /\ Highest(T) \in RiskLevels
  BY HighestFacts, <1>1
<1> QED BY <1>1, <1>2, <1>3, <1>4

\* The signals of a card and a plan, as one set of levels.
Signals(c, p) ==
  {BaseLevel(c), c.hint,
   IF \/ c.security
      \/ Haystack(c, p) \intersect HighWords # {}
      \/ c.areas \intersect HighAreas # {}
   THEN "high" ELSE "low",
   IF Haystack(c, p) \intersect BlockedWords # {} THEN "blocked" ELSE "low"}

\* Both levels are levels.
LEMMA Levels ==
  ASSUME NEW c \in Cards, NEW p \in Plans \union {NoPlan}
  PROVE  /\ Signals(c, p) \in SUBSET RiskLevels
         /\ ContentLevel(c, p) = Highest(Signals(c, p))
         /\ ContentLevel(c, p) \in RiskLevels
         /\ SizeLevel(p) \in RiskLevels
         /\ RiskLevel(c, p) \in RiskLevels
<1>1. Signals(c, p) \in SUBSET RiskLevels
  BY DEF Signals, BaseLevel, Cards, RiskLevels
<1>2. ContentLevel(c, p) = Highest(Signals(c, p))
  BY DEF ContentLevel, Signals
<1>3. Highest(Signals(c, p)) \in RiskLevels
  BY DEF Highest, RiskLevels
<1>4. SizeLevel(p) \in RiskLevels
  BY DEF SizeLevel, RiskLevels
<1>5. RiskLevel(c, p) \in RiskLevels
  BY DEF RiskLevel, Highest, RiskLevels
<1> QED BY <1>1, <1>2, <1>3, <1>4, <1>5

\* The level of a plan is severe exactly when one of its two parts is.
LEMMA SevereParts ==
  ASSUME NEW c \in Cards, NEW p \in Plans \union {NoPlan}
  PROVE  Severe(RiskLevel(c, p)) <=> Severe(ContentLevel(c, p)) \/ Severe(SizeLevel(p))
<1>1. ContentLevel(c, p) \in RiskLevels /\ SizeLevel(p) \in RiskLevels
  BY Levels
<1> QED BY <1>1 DEF RiskLevel, Highest, Severe, RiskLevels

\* A card and a plan that are not severe have none of the signals.
LEMMA Harmless ==
  ASSUME NEW c \in Cards, NEW p \in Plans, ~ Severe(RiskLevel(c, p))
  PROVE  /\ ~ c.security /\ ~ Severe(c.hint)
         /\ c.areas \intersect HighAreas = {}
         /\ Haystack(c, p) \intersect (HighWords \union BlockedWords) = {}
         /\ p.entries <= MaxFilesMedium
<1>1. ~ Severe(ContentLevel(c, p)) /\ ~ Severe(SizeLevel(p))
  BY SevereParts
<1>2. p.entries \in Nat /\ MaxFilesMedium \in Nat
  BY GatesAssumption DEF Plans
<1>3. p.entries <= MaxFilesMedium
  BY <1>1, <1>2 DEF SizeLevel, Severe
<1>4. ContentLevel(c, p) \notin {"high", "blocked"}
  BY <1>1 DEF Severe
<1>5. "high" \notin Signals(c, p) /\ "blocked" \notin Signals(c, p)
  BY <1>4, Levels DEF Highest
<1>6. ~ Severe(c.hint)
  BY <1>5 DEF Signals, Severe
<1>7. /\ ~ c.security /\ c.areas \intersect HighAreas = {}
      /\ Haystack(c, p) \intersect HighWords = {}
  BY <1>5 DEF Signals
<1>8. Haystack(c, p) \intersect BlockedWords = {}
  BY <1>5 DEF Signals
<1> QED BY <1>3, <1>6, <1>7, <1>8

\* The gate explore_and_plan builds is the classification, and its flags agree.
LEMMA Computed ==
  ASSUME NEW c \in Cards, NEW p \in Plans
  PROVE  /\ (NeedsHuman(c, p) \/ RiskLevel(c, p) = "high") = Severe(RiskLevel(c, p))
         /\ (NeedsRedTeam(c, p) \/ RiskLevel(c, p) = "high") = Severe(RiskLevel(c, p))
<1>1. Severe(RiskLevel(c, p)) <=> Severe(ContentLevel(c, p)) \/ Severe(SizeLevel(p))
  BY SevereParts
<1>2. p.entries > MaxFilesMedium => Severe(SizeLevel(p))
  BY DEF SizeLevel, Severe
<1>3. RiskLevel(c, p) = "high" => Severe(RiskLevel(c, p))
  BY DEF Severe
<1>4. NeedsHuman(c, p) => Severe(RiskLevel(c, p))
  BY <1>1, <1>2, <1>3 DEF NeedsHuman
<1>5. Severe(RiskLevel(c, p)) => NeedsHuman(c, p)
  <2>1. SUFFICES ASSUME Severe(SizeLevel(p)), ~ Severe(ContentLevel(c, p)) PROVE NeedsHuman(c, p)
    BY <1>1 DEF NeedsHuman
  <2>2. p.entries > MaxFilesMedium
    BY <2>1 DEF SizeLevel, Severe
  <2> QED BY <2>2 DEF NeedsHuman
<1>6. NeedsRedTeam(c, p) = Severe(RiskLevel(c, p))
  BY DEF NeedsRedTeam
<1>7. NeedsHuman(c, p) \in BOOLEAN /\ Severe(RiskLevel(c, p)) \in BOOLEAN
  BY DEF NeedsHuman, Severe
<1> QED BY <1>3, <1>4, <1>5, <1>6, <1>7

\* authorize returns a decision.
LEMMA Decided ==
  ASSUME NEW ctx, NEW risk
  PROVE  Authorize(ctx, risk, HighRiskRequiresMaintainer) \in
           [authorized : BOOLEAN, rule : Rules \union {"insufficient_rights"},
            decision : {"authorized", "rejected"}, highRisk : BOOLEAN]
<1> DEFINE matched == MatchedRules(ctx)
<1>1. matched \subseteq Rules
  BY DEF MatchedRules
<1>2. StrongestRule(matched) \in Rules \union {"insufficient_rights"}
  <2>1. CASE matched = {}
    BY <2>1 DEF StrongestRule
  <2>2. CASE matched # {}
    <3> DEFINE Strongest(i) == /\ RulePriority[i] \in matched
                               /\ \A j \in 1..(i - 1) : RulePriority[j] \notin matched
    <3>1. \E i \in 1..5 : RulePriority[i] \in matched
      BY <1>1, <2>2 DEF Rules
    <3>2. \E i \in 1..5 : Strongest(i)
      <4> HIDE DEF matched
      <4>1. CASE RulePriority[1] \in matched
        BY <4>1
      <4>2. CASE RulePriority[1] \notin matched /\ RulePriority[2] \in matched
        BY <4>2, \A j \in 1..(2 - 1) : j = 1
      <4>3. CASE /\ RulePriority[1] \notin matched /\ RulePriority[2] \notin matched
                 /\ RulePriority[3] \in matched
        BY <4>3, \A j \in 1..(3 - 1) : j = 1 \/ j = 2
      <4>4. CASE /\ RulePriority[1] \notin matched /\ RulePriority[2] \notin matched
                 /\ RulePriority[3] \notin matched /\ RulePriority[4] \in matched
        BY <4>4, \A j \in 1..(4 - 1) : j = 1 \/ j = 2 \/ j = 3
      <4>5. CASE /\ RulePriority[1] \notin matched /\ RulePriority[2] \notin matched
                 /\ RulePriority[3] \notin matched /\ RulePriority[4] \notin matched
                 /\ RulePriority[5] \in matched
        BY <4>5, \A j \in 1..(5 - 1) : j = 1 \/ j = 2 \/ j = 3 \/ j = 4
      <4> QED BY <3>1, <4>1, <4>2, <4>3, <4>4, <4>5
    <3>3. Strongest(CHOOSE i \in 1..5 : Strongest(i)) /\ (CHOOSE i \in 1..5 : Strongest(i)) \in 1..5
      BY <3>2
    <3>4. StrongestRule(matched) = RulePriority[CHOOSE i \in 1..5 : Strongest(i)]
      BY <2>2 DEF StrongestRule
    <3> QED BY <3>3, <3>4, <1>1
  <2> QED BY <2>1, <2>2
<1> QED BY <1>2 DEF Authorize

\* Every step keeps the inductive invariant, in three parts.
THEOREM Inductive == Spec => []IndInv
<1>1. Init => IndInv
  <2> SUFFICES ASSUME Init PROVE IndInv
    OBVIOUS
  <2>1. TypeOK
    <3>1. 0 \in 0..MaxFixes
      BY GatesAssumption
    <3> QED BY <3>1 DEF Init, TypeOK, Pcs
  <2>2. GateIsComputed /\ Allowed /\ Agreed
    BY DEF Init, GateIsComputed, Allowed, Agreed, ReadyWasAgreed
  <2> QED BY <2>1, <2>2 DEF IndInv
<1>2. IndInv /\ [Next]_vars => IndInv'
  <2> SUFFICES ASSUME IndInv, [Next]_vars PROVE IndInv'
    OBVIOUS
  <2> USE DEF IndInv
  <2>1. CASE Go
    <3>1. TypeOK'
      <4>1. PICK user \in Users :
              go' = Authorize(GoContext(user), RecordedRisk, HighRiskRequiresMaintainer)
        BY <2>1 DEF Go
      <4>2. go' \in [authorized : BOOLEAN, rule : Rules \union {"insufficient_rights"},
                     decision : {"authorized", "rejected"}, highRisk : BOOLEAN]
        BY <4>1, Decided
      <4> QED BY <2>1, <4>2 DEF Go, TypeOK, Pcs
    <3>2. GateIsComputed'
      BY <2>1 DEF Go, GateIsComputed
    <3>3. Allowed'
      BY <2>1 DEF Go, Allowed, Agreed
    <3>4. Agreed'
      BY <2>1 DEF Go, Agreed, ReadyWasAgreed
    <3> QED BY <3>1, <3>2, <3>3, <3>4
  <2>2. CASE Explore
    <3>1. PICK p \in Plans, impact \in DocImpacts \union {"other"}, excused \in BOOLEAN :
            /\ Admitted(impact)
            /\ plan' = p
            /\ gate' = [level   |-> RiskLevel(card, p),
                        redTeam |-> NeedsRedTeam(card, p) \/ RiskLevel(card, p) = "high",
                        human   |-> NeedsHuman(card, p) \/ RiskLevel(card, p) = "high",
                        docs    |-> Docs(impact, excused),
                        excused |-> excused]
      BY <2>2 DEF Explore
    <3>2. card \in Cards /\ card' = card
      BY <2>2 DEF Explore, TypeOK
    <3>3. RiskLevel(card, p) \in RiskLevels
      BY <3>2, Levels
    <3>4. Docs(impact, excused) \in DocImpacts /\ (Docs(impact, excused) = "no" => excused)
      BY <3>1 DEF Admitted, Docs, DocImpacts
    <3>5. gate' = [level |-> RiskLevel(card, p), redTeam |-> Severe(RiskLevel(card, p)),
                   human |-> Severe(RiskLevel(card, p)), docs |-> Docs(impact, excused),
                   excused |-> excused]
      BY <3>1, <3>2, Computed
    <3>6. Severe(RiskLevel(card, p)) \in BOOLEAN
      BY DEF Severe
    <3>7. gate' \in RiskGates
      BY <3>3, <3>4, <3>5, <3>6 DEF RiskGates
    <3>8. TypeOK'
      BY <2>2, <3>1, <3>7 DEF Explore, TypeOK, Pcs
    <3>9. GateIsComputed'
      BY <3>1, <3>2, <3>4, <3>5 DEF GateIsComputed
    <3>10. gate' # NoGate
      BY <3>3, <3>5 DEF NoGate, RiskLevels
    <3>11. mr = "none"
      BY <2>2 DEF Explore, Agreed
    <3>12. Allowed'
      BY <2>2, <3>10, <3>11 DEF Explore, Allowed
    <3>13. Agreed'
      BY <2>2, <3>11 DEF Explore, Agreed, ReadyWasAgreed
    <3> QED BY <3>8, <3>9, <3>12, <3>13
  <2>3. CASE PlanRefused
    BY <2>3 DEF PlanRefused, TypeOK, Pcs, GateIsComputed, Allowed, Agreed, ReadyWasAgreed
  <2>4. CASE PlanGate
    <3>1. gate # NoGate /\ go.authorized
      BY <2>4 DEF PlanGate, Allowed
    <3>2. pc' = "coding" => ~ Severe(gate.level)
      BY <2>4, <3>1 DEF PlanGate, GateIsComputed, Severe
    <3>3. TypeOK' /\ GateIsComputed'
      BY <2>4 DEF PlanGate, TypeOK, Pcs, GateIsComputed
    <3>4. Allowed'
      BY <2>4, <3>1, <3>2 DEF PlanGate, Allowed
    <3>5. Agreed'
      BY <2>4 DEF PlanGate, Agreed, ReadyWasAgreed
    <3> QED BY <3>3, <3>4, <3>5
  <2>5. CASE SelfCheckFailed
    BY <2>5 DEF SelfCheckFailed, TypeOK, Pcs, GateIsComputed, Allowed, Agreed, ReadyWasAgreed
  <2>6. CASE Code
    <3>1. TypeOK'
      BY <2>6, GatesAssumption DEF Code, TypeOK, Pcs
    <3>2. GateIsComputed' /\ Allowed' /\ Agreed'
      BY <2>6 DEF Code, GateIsComputed, Allowed, Agreed, ReadyWasAgreed
    <3> QED BY <3>1, <3>2
  <2>7. CASE ReviewDiff
    <3>1. TypeOK'
      BY <2>7 DEF ReviewDiff, TypeOK, Pcs
    <3>2. GateIsComputed' /\ Allowed'
      BY <2>7 DEF ReviewDiff, GateIsComputed, Allowed
    <3>3. mr # "ready" /\ mr' = mr
      BY <2>7 DEF ReviewDiff, Agreed
    <3>4. Haystack(card, plan) \intersect RedTeamWords # {} => redTeam' \in Reviews
      BY <2>7 DEF ReviewDiff, RedTeamRequired
    <3>5. Agreed'
      BY <2>7, <3>3, <3>4 DEF ReviewDiff, Agreed, ReadyWasAgreed, Haystack
    <3> QED BY <3>1, <3>2, <3>5
  <2>8. CASE ReviewFails
    <3>1. TypeOK' /\ GateIsComputed'
      BY <2>8 DEF ReviewFails, TypeOK, Pcs, GateIsComputed
    <3>2. Allowed' /\ Agreed'
      BY <2>8 DEF ReviewFails, Allowed, Agreed, ReadyWasAgreed
    <3> QED BY <3>1, <3>2
  <2>9. CASE Finalize
    <3>1. TypeOK'
      BY <2>9 DEF Finalize, TypeOK, Pcs
    <3>2. GateIsComputed' /\ Allowed'
      BY <2>9 DEF Finalize, GateIsComputed, Allowed
    <3>3. mr' = "ready" =>
            verified /\ ~ MergeBlocked(review) /\ ~ MergeBlocked(redTeam) /\ WithinBudget
      BY <2>9 DEF Finalize
    <3>4. \A r \in Reviews : ~ MergeBlocked(r) =>
            r.verdict \in {"PASS", "PASS_WITH_NOTES"} /\ ~ r.severe
      BY DEF Reviews, Verdicts, MergeBlocked
    <3>5. review \in Reviews /\ (Haystack(card, plan) \intersect RedTeamWords # {} => redTeam \in Reviews)
      BY <2>9 DEF Finalize, Agreed
    <3>6. ReadyWasAgreed'
      BY <2>9, <3>3, <3>4, <3>5 DEF Finalize, ReadyWasAgreed, WithinBudget, Haystack
    <3>7. Agreed'
      BY <2>9, <3>6 DEF Finalize, Agreed
    <3> QED BY <3>1, <3>2, <3>7
  <2>10. CASE SelfFix
    <3>1. TypeOK'
      BY <2>10, GatesAssumption DEF SelfFix, TypeOK, Pcs
    <3>2. GateIsComputed' /\ Allowed'
      BY <2>10 DEF SelfFix, GateIsComputed, Allowed
    <3>3. fixes' # 0
      BY <2>10 DEF SelfFix, TypeOK
    <3>4. Agreed'
      BY <2>10, <3>3 DEF SelfFix, Agreed, ReadyWasAgreed
    <3> QED BY <3>1, <3>2, <3>4
  <2>11. CASE UNCHANGED vars
    BY <2>11 DEF vars, TypeOK, GateIsComputed, Allowed, Agreed, ReadyWasAgreed, Haystack
  <2> QED BY <2>1, <2>2, <2>3, <2>4, <2>5, <2>6, <2>7, <2>8, <2>9, <2>10, <2>11 DEF Next
<1> QED BY <1>1, <1>2, PTL DEF Spec

\* The variables keep their types, whatever the limits and the trigger lists are.
THEOREM TypeCorrect == Spec => []TypeOK
<1>1. IndInv => TypeOK
  BY DEF IndInv
<1> QED BY <1>1, Inductive, PTL

\* What the classifier calls high-risk or blocked never gets a merge request.
THEOREM HarmlessIsCoded == Spec => []OnlyHarmlessIsCoded
<1>1. IndInv => OnlyHarmlessIsCoded
  <2> SUFFICES ASSUME IndInv, mr # "none"
               PROVE  /\ go.authorized
                      /\ ~ card.security /\ ~ Severe(card.hint)
                      /\ card.areas \intersect HighAreas = {}
                      /\ Haystack(card, plan) \intersect (HighWords \union BlockedWords) = {}
                      /\ plan.entries <= MaxFilesMedium
                      /\ gate.docs = "no" => gate.excused
    BY DEF OnlyHarmlessIsCoded
  <2>1. go.authorized /\ gate # NoGate /\ ~ Severe(gate.level)
    BY DEF IndInv, Allowed
  <2>2. /\ plan \in Plans /\ card \in Cards
        /\ gate.level = RiskLevel(card, plan)
        /\ gate.docs = "no" => gate.excused
    BY <2>1 DEF IndInv, GateIsComputed, TypeOK
  <2> QED BY <2>1, <2>2, Harmless
<1> QED BY <1>1, Inductive, PTL

\* The three refusals of a gate agree.
THEOREM RefusalsAgree == Spec => []SevereIsForPeople
<1>1. IndInv => SevereIsForPeople
  BY DEF IndInv, GateIsComputed, SevereIsForPeople
<1> QED BY <1>1, Inductive, PTL

\* Ready follows from green checks, two opinions and the budget.
THEOREM AgreedReady == Spec => []ReadyWasAgreed
<1>1. IndInv => ReadyWasAgreed
  BY DEF IndInv, Agreed
<1> QED BY <1>1, Inductive, PTL

\* More signals on the same card and plan, for any two of either.
LEMMA MoreSignals ==
  ASSUME NEW c \in Cards, NEW d \in Cards, NEW p \in Plans, NEW q \in Plans,
         d.type = c.type, d.areas = c.areas, c.words \subseteq d.words,
         c.security => d.security, Rank[c.hint] <= Rank[d.hint],
         p.words \subseteq q.words, p.entries <= q.entries
  PROVE  Rank[RiskLevel(d, q)] >= Rank[RiskLevel(c, p)]
<1>1. /\ Rank["low"] = 0 /\ Rank["medium"] = 1
      /\ Rank["high"] = 2 /\ Rank["blocked"] = 3
  BY DEF Rank
<1>2. Haystack(c, p) \subseteq Haystack(d, q)
  BY DEF Haystack
<1>3. BaseLevel(d) = BaseLevel(c)
  BY DEF BaseLevel
<1>4. \A l \in Signals(c, p) : \E k \in Signals(d, q) : Rank[l] <= Rank[k]
  <2> SUFFICES ASSUME NEW l \in Signals(c, p)
               PROVE  \E k \in Signals(d, q) : Rank[l] <= Rank[k]
    OBVIOUS
  <2>0. BaseLevel(d) \in Signals(d, q) /\ d.hint \in Signals(d, q)
    BY DEF Signals
  <2>1. CASE l = BaseLevel(c)
    BY <2>0, <2>1, <1>1, <1>3 DEF BaseLevel
  <2>2. CASE l = c.hint
    BY <2>0, <2>2
  <2>3. Rank[BaseLevel(d)] >= 0
    BY <1>1 DEF BaseLevel
  <2>4. CASE l = "low"
    BY <2>0, <2>3, <2>4, <1>1
  <2>5. CASE l = "high" /\ (c.security \/ Haystack(c, p) \intersect HighWords # {}
                               \/ c.areas \intersect HighAreas # {})
    <3>1. "high" \in Signals(d, q)
      <4>1. \/ d.security \/ Haystack(d, q) \intersect HighWords # {}
            \/ d.areas \intersect HighAreas # {}
        BY <2>5, <1>2
      <4> QED BY <4>1 DEF Signals
    <3> QED BY <3>1, <2>5, <1>1
  <2>6. CASE l = "blocked" /\ Haystack(c, p) \intersect BlockedWords # {}
    <3>1. Haystack(d, q) \intersect BlockedWords # {}
      BY <2>6, <1>2
    <3>2. "blocked" \in Signals(d, q)
      BY <3>1 DEF Signals
    <3> QED BY <3>2, <2>6, <1>1
  <2> QED BY <2>1, <2>2, <2>4, <2>5, <2>6 DEF Signals
<1>5. Rank[ContentLevel(d, q)] >= Rank[ContentLevel(c, p)]
  <2>1. Signals(c, p) # {} /\ Signals(d, q) # {}
    BY DEF Signals
  <2>2. /\ Signals(c, p) \in SUBSET RiskLevels /\ Signals(d, q) \in SUBSET RiskLevels
        /\ ContentLevel(c, p) = Highest(Signals(c, p))
        /\ ContentLevel(d, q) = Highest(Signals(d, q))
    BY Levels
  <2> QED BY <1>4, <2>1, <2>2, HighestIsMonotone
<1>6. Rank[SizeLevel(q)] >= Rank[SizeLevel(p)]
  <2>1. /\ p.entries \in Nat /\ q.entries \in Nat
        /\ MaxFilesLow \in Nat /\ MaxFilesMedium \in Nat /\ MaxFilesLow <= MaxFilesMedium
    BY GatesAssumption DEF Plans
  <2> QED BY <2>1, <1>1 DEF SizeLevel
<1>7. /\ {ContentLevel(c, p), SizeLevel(p)} \in SUBSET RiskLevels
      /\ {ContentLevel(d, q), SizeLevel(q)} \in SUBSET RiskLevels
  BY Levels
<1>8. \A l \in {ContentLevel(c, p), SizeLevel(p)} :
        \E k \in {ContentLevel(d, q), SizeLevel(q)} : Rank[l] <= Rank[k]
  BY <1>5, <1>6
<1> QED BY <1>7, <1>8, HighestIsMonotone DEF RiskLevel

\* No signal lowers the level of a gate.
THEOREM RiskIsMonotone == Spec => []SignalsOnlyRaise
<1>1. IndInv => SignalsOnlyRaise
  <2> SUFFICES ASSUME IndInv, gate # NoGate PROVE SignalsOnlyRaise
    BY DEF SignalsOnlyRaise
  <2>1. card \in Cards /\ plan \in Plans /\ gate.level = RiskLevel(card, plan)
    BY DEF IndInv, TypeOK, GateIsComputed
  <2>2. \A l \in RiskLevels : Rank[l] \in Nat
    BY DEF RiskLevels, Rank
  <2>3. plan.entries \in Nat /\ card.hint \in RiskLevels
    BY <2>1, GatesAssumption DEF Plans, Cards
  <2>4. ASSUME NEW w \in Words
        PROVE  /\ Rank[RiskLevel([card EXCEPT !.words = @ \union {w}], plan)] >= Rank[gate.level]
               /\ Rank[RiskLevel(card, [plan EXCEPT !.words = @ \union {w}])] >= Rank[gate.level]
    <3>1. /\ [card EXCEPT !.words = @ \union {w}] \in Cards
          /\ [plan EXCEPT !.words = @ \union {w}] \in Plans
      BY <2>1, <2>4 DEF Cards, Plans
    <3>2. Rank[RiskLevel([card EXCEPT !.words = @ \union {w}], plan)] >= Rank[gate.level]
      <4> DEFINE d == [card EXCEPT !.words = @ \union {w}]
      <4>1. /\ d.type = card.type /\ d.areas = card.areas /\ card.words \subseteq d.words
            /\ d.security = card.security /\ d.hint = card.hint
        BY <2>1 DEF Cards
      <4>2. d \in Cards
        BY <3>1
      <4> HIDE DEF d
      <4>3. Rank[RiskLevel(d, plan)] >= Rank[gate.level]
        BY <2>1, <2>2, <2>3, <4>1, <4>2, MoreSignals
      <4> QED BY <4>3 DEF d
    <3>3. Rank[RiskLevel(card, [plan EXCEPT !.words = @ \union {w}])] >= Rank[gate.level]
      <4> DEFINE q == [plan EXCEPT !.words = @ \union {w}]
      <4>1. plan.words \subseteq q.words /\ q.entries = plan.entries /\ q \in Plans
        BY <2>1, <3>1 DEF Plans
      <4> HIDE DEF q
      <4>2. Rank[RiskLevel(card, q)] >= Rank[gate.level]
        BY <2>1, <2>2, <2>3, <4>1, MoreSignals
      <4> QED BY <4>2 DEF q
    <3> QED BY <3>2, <3>3
  <2>5. ASSUME NEW h \in RiskLevels, Rank[h] >= Rank[card.hint]
        PROVE  Rank[RiskLevel([card EXCEPT !.hint = h], plan)] >= Rank[gate.level]
    <3> DEFINE d == [card EXCEPT !.hint = h]
    <3>1. /\ d \in Cards /\ d.type = card.type /\ d.areas = card.areas
          /\ d.words = card.words /\ d.security = card.security /\ d.hint = h
      BY <2>1 DEF Cards
    <3> HIDE DEF d
    <3>2. Rank[card.hint] <= Rank[d.hint]
      BY <2>2, <2>3, <2>5, <3>1
    <3>3. Rank[RiskLevel(d, plan)] >= Rank[gate.level]
      BY <2>1, <2>3, <3>1, <3>2, MoreSignals
    <3> QED BY <3>3 DEF d
  <2>6. Rank[RiskLevel([card EXCEPT !.security = TRUE], plan)] >= Rank[gate.level]
    <3> DEFINE d == [card EXCEPT !.security = TRUE]
    <3>1. /\ d \in Cards /\ d.type = card.type /\ d.areas = card.areas
          /\ d.words = card.words /\ d.security /\ d.hint = card.hint
      BY <2>1 DEF Cards
    <3> HIDE DEF d
    <3>2. Rank[RiskLevel(d, plan)] >= Rank[gate.level]
      BY <2>1, <2>2, <2>3, <3>1, MoreSignals
    <3> QED BY <3>2 DEF d
  <2>7. ASSUME NEW n \in Sizes, n >= plan.entries
        PROVE  Rank[RiskLevel(card, [plan EXCEPT !.entries = n])] >= Rank[gate.level]
    <3> DEFINE q == [plan EXCEPT !.entries = n]
    <3>1. q \in Plans /\ q.words = plan.words /\ q.entries = n
      BY <2>1 DEF Plans
    <3>2. n \in Nat
      BY GatesAssumption
    <3> HIDE DEF q
    <3>3. Rank[RiskLevel(card, q)] >= Rank[gate.level]
      BY <2>1, <2>2, <2>3, <2>7, <3>1, <3>2, MoreSignals
    <3> QED BY <3>3 DEF q
  <2> QED BY <2>4, <2>5, <2>6, <2>7 DEF SignalsOnlyRaise
<1> QED BY <1>1, Inductive, PTL
=============================================================================
