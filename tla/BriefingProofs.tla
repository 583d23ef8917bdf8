--------------------------- MODULE BriefingProofs ---------------------------
(***************************************************************************)
(* What module Briefing keeps for any number of handlers, fields, rounds   *)
(* and /go comments.  The inductive invariant says who holds the lock of   *)
(* the session row, what that handler is about to commit, and that a row   *)
(* read earlier is the committed one as long as its version is.            *)
(***************************************************************************)
EXTENDS Briefing, TLAPS

\* The states a session row is ever committed in.
CommittedStates ==
  {"ABSENT", "WAITING_ANSWERS", "READY_FOR_GO", "APPROVED", "BLOCKED_MANUAL", "CANCELLED"}

\* A waiting row waits for its latest round.
WaitsForLatest(row) ==
  row.state = "WAITING_ANSWERS" => row.active = row.rounds /\ row.rounds > 0

SessionOK ==
  /\ session.state \in CommittedStates
  /\ WaitsForLatest(session)
  /\ session.state = "ABSENT" => session = NoSession

\* A row read without its lock is the committed row or has an older version.
ReadOK(p) ==
  pc[p] \in {"an_loaded", "go_authz"} =>
    /\ ses[p].ver <= session.ver
    /\ ses[p].ver = session.ver => ses[p] = session

\* What the handler that ends in Commit does to the committed session.
Moves(p) ==
  /\ WaitsForLatest(ses[p])
  /\ \/ /\ session.state = "ABSENT"
        /\ \/ ses[p].state = "READY_FOR_GO" /\ ses[p].rounds = 0
           \/ ses[p].state = "WAITING_ANSWERS" /\ ses[p].rounds = 1
     \/ /\ session.state = "WAITING_ANSWERS"
        /\ \/ ses[p].state = "READY_FOR_GO" /\ ses[p].rounds = session.rounds
           \/ /\ ses[p].state = "BLOCKED_MANUAL" /\ ses[p].rounds = session.rounds
              /\ session.rounds >= MaxRounds
           \/ ses[p].state = "WAITING_ANSWERS" /\ ses[p].rounds = session.rounds + 1

Answering == {"an_flushed", "an_task", "an_merged"}

\* Who holds the lock of the session row, and what is committed while it is held.
HoldOK(p) ==
  /\ rowLock["session"] = p =>
       pc[p] \in Answering \union {"commit", "ca_task"} /\ ses[p].ver > session.ver
  /\ pc[p] \in Answering =>
       /\ rowLock["session"] = p
       /\ session.state = "WAITING_ANSWERS"
       /\ ses[p].state = "COMPLETENESS_CHECK" /\ ses[p].rounds = session.rounds
  /\ pc[p] = "commit" => rowLock["session"] = p /\ Moves(p)
  /\ pc[p] = "ca_task" /\ rowLock["session"] = p =>
       IsActive(session) /\ ses[p].state = "CANCELLED" /\ ses[p].rounds = session.rounds

\* A /go handler has a comment.
HandlerOK(p) ==
  ReadOK(p) /\ HoldOK(p) /\ (pc[p] \in GoSteps => goc[p] \in Comments)

IndInv ==
  /\ TypeOK
  /\ SessionOK
  /\ \A p \in Procs : HandlerOK(p)
  /\ SingleStart
-----------------------------------------------------------------------------
(* Lemmas about the operators of the model *)

\* The rule of a decision is one of the five, or that there is none.
LEMMA StrongestRuleType ==
  ASSUME NEW matched \in SUBSET Rules
  PROVE  StrongestRule(matched) \in Rules \union {"insufficient_rights"}
<1> DEFINE First(i) == /\ RulePriority[i] \in matched
                       /\ \A j \in 1..(i - 1) : RulePriority[j] \notin matched
<1>1. CASE matched = {}
  BY <1>1 DEF StrongestRule
<1>2. CASE matched # {}
  <2>1. \E i \in 1..5 : RulePriority[i] \in matched
    BY <1>2 DEF Rules
  <2>2. \E i \in 1..5 : First(i)
    <3>1. CASE RulePriority[1] \in matched
      BY <3>1
    <3>2. CASE RulePriority[1] \notin matched /\ RulePriority[2] \in matched
      BY <3>2
    <3>3. CASE (\A j \in 1..2 : RulePriority[j] \notin matched) /\ RulePriority[3] \in matched
      BY <3>3
    <3>4. CASE (\A j \in 1..3 : RulePriority[j] \notin matched) /\ RulePriority[4] \in matched
      BY <3>4
    <3>5. CASE (\A j \in 1..4 : RulePriority[j] \notin matched) /\ RulePriority[5] \in matched
      BY <3>5
    <3> QED
      BY <2>1, <3>1, <3>2, <3>3, <3>4, <3>5
  <2>3. (CHOOSE i \in 1..5 : First(i)) \in 1..5
    BY <2>2
  <2> HIDE DEF First
  <2>4. StrongestRule(matched) = RulePriority[CHOOSE i \in 1..5 : First(i)]
    BY <1>2 DEF StrongestRule, First
  <2> QED
    BY <2>3, <2>4 DEF Rules
<1> QED
  BY <1>1, <1>2

\* A decision is authorised or rejected, never both, and names its rule.
LEMMA DecisionType ==
  ASSUME NEW ctx, NEW risk, NEW req
  PROVE  /\ Authorize(ctx, risk, req).authorized \in BOOLEAN
         /\ Authorize(ctx, risk, req).decision \in {"authorized", "rejected"}
         /\ Authorize(ctx, risk, req).rule \in Rules \union {"insufficient_rights"}
<1>1. MatchedRules(ctx) \in SUBSET Rules
  BY DEF MatchedRules
<1>2. StrongestRule(MatchedRules(ctx)) \in Rules \union {"insufficient_rights"}
  BY <1>1, StrongestRuleType
<1> QED
  BY <1>2 DEF Authorize
-----------------------------------------------------------------------------
(* Type correctness *)

\* A handler that ends leaves well-typed locals and locks.
LEMMA EndType ==
  ASSUME TypeOK, NEW p \in Procs, End(p)
  PROVE  /\ rowLock' \in [LockedRows -> Procs \union {NoProc}]
         /\ pc' \in [Procs -> PcValues]
         /\ ses' \in [Procs -> SessionRows]
         /\ tsk' \in [Procs -> TaskRows]
         /\ raw' \in [Procs -> SUBSET Fields]
         /\ ans' \in [Procs -> SUBSET Answers]
         /\ goc' \in [Procs -> Comments \union {NoComment}]
         /\ jobs' \in 0..MaxJobs
<1>1. NoSession \in SessionRows
  BY BoundsAssumption DEF NoSession, SessionRows
<1>2. NoTask \in TaskRows
  BY DEF NoTask, TaskRows, Cards
<1> QED
  BY <1>1, <1>2 DEF TypeOK, End, ReleasedLocks, PcValues

\* A transition of a row, and one that opens a round, is a row again.
LEMMA TransitionType ==
  ASSUME NEW row \in SessionRows, NEW path, path[Len(path)] \in AllStates
  PROVE  /\ Transition(row, path) \in SessionRows
         /\ Transition(row, path).state = path[Len(path)]
         /\ Transition(row, path).rounds = row.rounds
         /\ Transition(row, path).ver = row.ver + 1
         /\ row.rounds < MaxRounds =>
              /\ WithRound(row, path) \in SessionRows
              /\ WithRound(row, path).state = path[Len(path)]
              /\ WithRound(row, path).rounds = row.rounds + 1
              /\ WithRound(row, path).active = row.rounds + 1
              /\ WithRound(row, path).ver = row.ver + 1
<1> DEFINE last == path[Len(path)]
           next == Transition(row, path)
<1>1. next = [row EXCEPT !.state = last,
                         !.active = IF last = "WAITING_ANSWERS" THEN row.active ELSE 0,
                         !.ver = row.ver + 1]
  BY DEF Transition
<1>2. /\ next \in SessionRows /\ next.state = last
      /\ next.rounds = row.rounds /\ next.ver = row.ver + 1
  <2> HIDE DEF last, next
  <2>1. last \in AllStates
    BY DEF last
  <2>2. next = [state |-> last, rounds |-> row.rounds,
                active |-> IF last = "WAITING_ANSWERS" THEN row.active ELSE 0,
                ver |-> row.ver + 1]
    BY <1>1 DEF SessionRows
  <2> QED
    BY <2>1, <2>2, BoundsAssumption DEF SessionRows
<1>3. ASSUME row.rounds < MaxRounds
      PROVE  /\ WithRound(row, path) \in SessionRows
             /\ WithRound(row, path).state = last
             /\ WithRound(row, path).rounds = row.rounds + 1
             /\ WithRound(row, path).active = row.rounds + 1
             /\ WithRound(row, path).ver = row.ver + 1
  <2>1. WithRound(row, path)
          = [next EXCEPT !.rounds = row.rounds + 1, !.active = row.rounds + 1]
    BY DEF WithRound
  <2>2. row.rounds + 1 \in 0..MaxRounds
    BY <1>3, BoundsAssumption DEF SessionRows
  <2> HIDE DEF last, next
  <2> QED
    BY <1>2, <2>1, <2>2 DEF SessionRows
<1> QED
  BY <1>2, <1>3

\* The rows a handler starts from.
LEMMA RowTypes ==
  /\ NoSession \in SessionRows
  /\ NewSession \in SessionRows /\ NewSession.rounds = 0 /\ NewSession.ver = 0
  /\ NoTask \in TaskRows
  /\ \A filled \in SUBSET Fields : NativeCard(filled) \in Cards
  /\ \A card, answers : MergedCards(card, answers) \subseteq Cards
<1>1. NoSession \in SessionRows
  BY BoundsAssumption DEF NoSession, SessionRows
<1>2. NewSession \in SessionRows /\ NewSession.rounds = 0 /\ NewSession.ver = 0
  BY BoundsAssumption DEF NewSession, NoSession, SessionRows, AllStates
<1>3. NoTask \in TaskRows
  BY DEF NoTask, TaskRows, Cards
<1>4. \A filled \in SUBSET Fields : NativeCard(filled) \in Cards
  BY DEF NativeCard, Cards
<1>5. \A card, answers : MergedCards(card, answers) \subseteq Cards
  BY DEF MergedCards
<1> QED
  BY <1>1, <1>2, <1>3, <1>4, <1>5

\* The updates of a task row give task rows.
LEMMA TaskRowUpdates ==
  ASSUME NEW row \in TaskRows, NEW card \in Cards, NEW rev \in BOOLEAN
  PROVE  /\ [row EXCEPT !.there = TRUE, !.card = card, !.reviewer = rev] \in TaskRows
         /\ [row EXCEPT !.card = card, !.ver = row.ver + 1] \in TaskRows
         /\ [row EXCEPT !.cancelled = TRUE, !.ver = row.ver + 1] \in TaskRows
         /\ [row EXCEPT !.ver = row.ver + 1] \in TaskRows
<1>1. row.ver + 1 \in Nat
  BY DEF TaskRows
<1> QED
  BY <1>1, Zenon DEF TaskRows

\* Posting a round counts one more comment for it.
LEMMA PostType ==
  ASSUME posted \in [Rounds -> Nat], NEW n, PostRound(n)
  PROVE  posted' \in [Rounds -> Nat]
<1>1. CASE n \in Rounds
  BY <1>1 DEF PostRound
<1>2. CASE n \notin Rounds
  <2>1. posted' = posted
    BY <1>2 DEF PostRound
  <2> QED
    BY <2>1
<1> QED
  BY <1>1, <1>2

\* The paths the handlers walk end in states of the automaton.
LEMMA PathEnds ==
  /\ \A s, t : <<s, t>>[Len(<<s, t>>)] = t
  /\ \A s, t, u : <<s, t, u>>[Len(<<s, t, u>>)] = u
  /\ {"COMPLETENESS_CHECK", "READY_FOR_GO", "WAITING_ANSWERS", "BLOCKED_MANUAL", "CANCELLED",
       "APPROVED"} \subseteq AllStates
BY DEF AllStates

\* What a path of one transition does to a row.
LEMMA OneStepPath ==
  ASSUME NEW row \in SessionRows, NEW s, NEW u \in AllStates
  PROVE  /\ Transition(row, <<s, u>>).state = u
         /\ Transition(row, <<s, u>>).rounds = row.rounds
         /\ Transition(row, <<s, u>>).ver = row.ver + 1
         /\ row.rounds < MaxRounds =>
              /\ WithRound(row, <<s, u>>).state = u
              /\ WithRound(row, <<s, u>>).rounds = row.rounds + 1
              /\ WithRound(row, <<s, u>>).active = row.rounds + 1
              /\ WithRound(row, <<s, u>>).ver = row.ver + 1
<1> DEFINE path == <<s, u>>
<1>1. path[Len(path)] = u
  BY PathEnds
<1> HIDE DEF path
<1>2. path[Len(path)] \in AllStates
  BY <1>1
<1>3. /\ Transition(row, path).state = u
      /\ Transition(row, path).rounds = row.rounds
      /\ Transition(row, path).ver = row.ver + 1
      /\ row.rounds < MaxRounds =>
           /\ WithRound(row, path).state = u
           /\ WithRound(row, path).rounds = row.rounds + 1
           /\ WithRound(row, path).active = row.rounds + 1
           /\ WithRound(row, path).ver = row.ver + 1
  BY <1>1, <1>2, TransitionType
<1> QED
  BY <1>3 DEF path

\* What a path of two transitions does to a row.
LEMMA TwoStepPath ==
  ASSUME NEW row \in SessionRows, NEW s, NEW t, NEW u \in AllStates
  PROVE  /\ Transition(row, <<s, t, u>>).state = u
         /\ Transition(row, <<s, t, u>>).rounds = row.rounds
         /\ Transition(row, <<s, t, u>>).ver = row.ver + 1
         /\ row.rounds < MaxRounds =>
              /\ WithRound(row, <<s, t, u>>).state = u
              /\ WithRound(row, <<s, t, u>>).rounds = row.rounds + 1
              /\ WithRound(row, <<s, t, u>>).active = row.rounds + 1
              /\ WithRound(row, <<s, t, u>>).ver = row.ver + 1
<1> DEFINE path == <<s, t, u>>
<1>1. path[Len(path)] = u
  BY PathEnds
<1> HIDE DEF path
<1>2. path[Len(path)] \in AllStates
  BY <1>1
<1>3. /\ Transition(row, path).state = u
      /\ Transition(row, path).rounds = row.rounds
      /\ Transition(row, path).ver = row.ver + 1
      /\ row.rounds < MaxRounds =>
           /\ WithRound(row, path).state = u
           /\ WithRound(row, path).rounds = row.rounds + 1
           /\ WithRound(row, path).active = row.rounds + 1
           /\ WithRound(row, path).ver = row.ver + 1
  BY <1>1, <1>2, TransitionType
<1> QED
  BY <1>3 DEF path

\* Every step keeps the types.
LEMMA TypeStep ==
  ASSUME IndInv, Next
  PROVE  TypeOK'
<1> TypeOK
  BY DEF IndInv
<1>1. CASE LockExpire
  BY <1>1 DEF LockExpire, db, locals, TypeOK
<1> SUFFICES ASSUME NEW p \in Procs, Start(p) \/ Step(p) \/ Abort(p) \/ Crash(p)
             PROVE  TypeOK'
  BY <1>1 DEF Next
<1>2. CASE IntakeFetch(p)
  BY <1>2, BoundsAssumption DEF IntakeFetch, Begin, db, outside, TypeOK, PcValues
<1>3. CASE IntakeInvalid(p)
  BY <1>3, EndType DEF IntakeInvalid, PostNote, db, TypeOK, PcValues
<1>4. CASE IntakeSave(p)
  <2> DEFINE saved == [task EXCEPT !.there = TRUE, !.card = NativeCard(raw[p]),
                                  !.reviewer = ReviewerField \in raw[p]]
  <2>1. raw[p] \in SUBSET Fields /\ NativeCard(raw[p]) \in Cards
    BY RowTypes DEF TypeOK
  <2>2. saved \in TaskRows
    <3>1. task \in TaskRows /\ (ReviewerField \in raw[p]) \in BOOLEAN
      BY DEF TypeOK
    <3> QED
      BY <2>1, <3>1, TaskRowUpdates, Zenon
  <2>3. [saved EXCEPT !.ver = saved.ver + 1] \in TaskRows
    <3> HIDE DEF saved
    <3> QED  BY <2>1, <2>2, TaskRowUpdates
  <2>4. tsk' = [tsk EXCEPT ![p] = task] \/ tsk' = [tsk EXCEPT ![p] = [saved EXCEPT !.ver = saved.ver + 1]]
    BY <1>4 DEF IntakeSave
  <2>5. tsk' \in [Procs -> TaskRows]
    <3> HIDE DEF saved
    <3> QED  BY <2>3, <2>4 DEF TypeOK
  <2>6. rowLock' \in [LockedRows -> Procs \union {NoProc}] /\ pc' \in [Procs -> PcValues]
    BY <1>4 DEF IntakeSave, Goto, Lock, LockedRows, TypeOK, PcValues
  <2> QED
    BY <1>4, <2>5, <2>6 DEF IntakeSave, Goto, db, outside, TypeOK, PcValues
<1>5. CASE IntakeStarted(p)
  BY <1>5, EndType DEF IntakeStarted, PublishTask, outside, TypeOK, PcValues
<1>6. CASE IntakeClash(p)
  BY <1>6, EndType DEF IntakeClash, db, outside, TypeOK, PcValues
<1>7. CASE IntakeReady(p)
  <2>1. Transition(NewSession, <<"NEW", "COMPLETENESS_CHECK", "READY_FOR_GO">>) \in SessionRows
    BY RowTypes, PathEnds, TransitionType
  <2> QED
    BY <1>7, <2>1 DEF IntakeReady, NoBriefing, Goto, Lock, LockedRows, PostNote, db, TypeOK, PcValues
<1>8. CASE IntakeRound(p)
  <2>1. WithRound(NewSession, <<"NEW", "QUESTIONS_GENERATED", "WAITING_ANSWERS">>) \in SessionRows
    <3>1. NewSession.rounds < MaxRounds
      BY RowTypes, BoundsAssumption
    <3> QED
      BY <3>1, RowTypes, PathEnds, TransitionType
  <2> QED
    BY <1>8, <2>1, PostType DEF IntakeRound, NoBriefing, Goto, Lock, LockedRows, db, TypeOK, PcValues
<1>9. CASE AnsLoad(p)
  <2>1. session.active \in Rounds
    BY <1>9 DEF AnsLoad, IndInv, SessionOK, WaitsForLatest, TypeOK, SessionRows, Rounds
  <2>2. asked[session.active] \in SUBSET Fields
    BY <2>1 DEF TypeOK
  <2>3. PICK fs \in SUBSET Fields : \E last \in fs : \E text \in Texts :
          ans' = [ans EXCEPT ![p] = Reply(session.active, fs, last, text)]
    BY <1>9, <2>2 DEF AnsLoad
  <2>4. \A last \in fs : \A text \in Texts : Reply(session.active, fs, last, text) \subseteq Answers
    <3> SUFFICES ASSUME NEW last \in fs, NEW text \in Texts, NEW f \in fs
                 PROVE  <<session.active, f, IF f = last THEN text ELSE "answer">> \in Answers
      BY DEF Reply
    <3>1. (IF f = last THEN text ELSE "answer") \in Texts /\ f \in Fields
      BY DEF Texts
    <3> QED
      BY <2>1, <3>1 DEF Answers
  <2>5. ans' \in [Procs -> SUBSET Answers]
    BY <2>3, <2>4 DEF TypeOK
  <2> QED
    BY <1>9, <2>5, BoundsAssumption DEF AnsLoad, Begin, db, outside, TypeOK, PcValues
<1>10. CASE AnsFlush(p)
  <2>1. Transition(ses[p], <<"WAITING_ANSWERS", "ANSWERS_RECEIVED", "COMPLETENESS_CHECK">>) \in SessionRows
    BY PathEnds, TransitionType DEF TypeOK
  <2> QED
    BY <1>10, <2>1 DEF AnsFlush, Goto, Lock, LockedRows, db, outside, TypeOK, PcValues
<1>11. CASE AnsStale(p)
  BY <1>11, EndType DEF AnsStale, db, outside, TypeOK, PcValues
<1>12. CASE AnsLoadTask(p)
  BY <1>12 DEF AnsLoadTask, Goto, db, outside, TypeOK, PcValues
<1>13. CASE AnsMerge(p)
  <2>1. PICK merged \in MergedCards(tsk[p].card, AnswersSoFar(p)) :
          tsk' = [tsk EXCEPT ![p].card = merged, ![p].ver = tsk[p].ver + 1]
    BY <1>13 DEF AnsMerge
  <2>2. merged \in Cards
    BY <2>1, RowTypes
  <2>3. [tsk[p] EXCEPT !.card = merged, !.ver = tsk[p].ver + 1] \in TaskRows
    BY <2>2, TaskRowUpdates DEF TypeOK
  <2>4. tsk' = [tsk EXCEPT ![p] = [tsk[p] EXCEPT !.card = merged, !.ver = tsk[p].ver + 1]]
    BY <2>1 DEF TypeOK
  <2>5. tsk' \in [Procs -> TaskRows]
    BY <2>3, <2>4 DEF TypeOK
  <2> QED
    BY <1>13, <2>5 DEF AnsMerge, Goto, Lock, LockedRows, db, outside, TypeOK, PcValues
<1>u. CASE AnsUnchanged(p)
  BY <1>u DEF AnsUnchanged, Goto, db, outside, TypeOK, PcValues
<1>14. CASE AnsTaskStale(p)
  BY <1>14, EndType DEF AnsTaskStale, db, outside, TypeOK, PcValues
<1>15. CASE AnsReady(p)
  <2>1. Transition(ses[p], <<"COMPLETENESS_CHECK", "READY_FOR_GO">>) \in SessionRows
    BY PathEnds, TransitionType DEF TypeOK
  <2> QED
    BY <1>15, <2>1 DEF AnsReady, Goto, PostNote, db, TypeOK, PcValues
<1>16. CASE AnsBlocked(p)
  <2>1. Transition(ses[p], <<"COMPLETENESS_CHECK", "BLOCKED_MANUAL">>) \in SessionRows
    BY PathEnds, TransitionType DEF TypeOK
  <2> QED
    BY <1>16, <2>1 DEF AnsBlocked, Goto, PostNote, db, TypeOK, PcValues
<1>17. CASE AnsRound(p)
  <2>1. WithRound(ses[p], <<"COMPLETENESS_CHECK", "NEEDS_MORE_INFO", "WAITING_ANSWERS">>) \in SessionRows
    BY <1>17, PathEnds, TransitionType DEF TypeOK, AnsRound, RoundsLeft
  <2> QED
    BY <1>17, <2>1, PostType DEF AnsRound, Goto, db, TypeOK, PcValues
<1>18. CASE AnsCardInvalid(p)
  BY <1>18, EndType DEF AnsCardInvalid, db, outside, TypeOK, PcValues
<1>19. CASE Commit(p)
  <2>1. session' \in SessionRows /\ task' \in TaskRows
    BY <1>19 DEF Commit, PublishSession, PublishTask, TypeOK
  <2>2. asked' \in [Rounds -> SUBSET Fields]
    BY <1>19, FieldsAssumption DEF Commit, Gaps, TypeOK
  <2>3. accepted' \subseteq Answers
    BY <1>19 DEF Commit, TypeOK
  <2> QED
    BY <1>19, <2>1, <2>2, <2>3, EndType DEF Commit, outside, TypeOK, PcValues
<1>20. CASE GoStart(p)
  BY <1>20, BoundsAssumption DEF GoStart, Begin, db, TypeOK, PcValues
<1>21. CASE GoNoop(p)
  BY <1>21 DEF GoNoop, Goto, db, outside, locals, TypeOK, PcValues
<1>22. CASE GoDup(p)
  <2>1. GoEvent(p, Duplicate) \in GoEvents
    BY <1>22 DEF GoDup, Goto, GoEvent, Duplicate, GoEvents, IndInv, HandlerOK, GoSteps
  <2> QED
    BY <1>22, <2>1 DEF GoDup, Goto, outside, locals, TypeOK, PcValues
<1>23. CASE GoLoad(p)
  BY <1>23 DEF GoLoad, Goto, db, outside, TypeOK, PcValues
<1>24. CASE GoApprove(p)
  <2>1. GoEvent(p, Decision(p)) \in GoEvents
    BY <1>24, DecisionType DEF GoApprove, Goto, GoEvent, Decision, GoEvents, IndInv, HandlerOK,
                               GoSteps
  <2>2. Transition(ses[p], <<"READY_FOR_GO", "GO_AUTH_CHECK", "APPROVED">>) \in SessionRows
    BY PathEnds, TransitionType DEF TypeOK
  <2> QED
    BY <1>24, <2>1, <2>2 DEF GoApprove, Goto, outside, locals, TypeOK, PcValues
<1>25. CASE GoReject(p)
  <2>1. GoEvent(p, Decision(p)) \in GoEvents
    BY <1>25, DecisionType DEF GoReject, Goto, GoEvent, Decision, GoEvents, IndInv, HandlerOK,
                               GoSteps
  <2> QED
    BY <1>25, <2>1 DEF GoReject, Goto, outside, locals, TypeOK, PcValues
<1>26. CASE GoClash(p)
  BY <1>26 DEF GoClash, Goto, db, outside, locals, TypeOK, PcValues
<1>27. CASE GoRelease(p)
  BY <1>27, EndType DEF GoRelease, db, TypeOK, PcValues
<1>28. CASE CancelSession(p)
  <2>1. Transition(session, <<session.state, "CANCELLED">>) \in SessionRows
    BY PathEnds, TransitionType DEF TypeOK
  <2> QED
    BY <1>28, <2>1, BoundsAssumption DEF CancelSession, Begin, Lock, LockedRows, db, outside,
                                         TypeOK, PcValues
<1>29. CASE CancelNoSession(p)
  BY <1>29, BoundsAssumption DEF CancelNoSession, Begin, db, outside, locals, TypeOK, PcValues
<1>30. CASE CancelTask(p)
  <2>1. session' \in SessionRows
    BY <1>30 DEF CancelTask, PublishSession, TypeOK
  <2>2. task' \in TaskRows
    BY <1>30, TaskRowUpdates, RowTypes DEF CancelTask, TypeOK, TaskRows
  <2> QED
    BY <1>30, <2>1, <2>2, EndType DEF CancelTask, outside, TypeOK, PcValues
<1>31. CASE Abort(p)
  BY <1>31, EndType DEF Abort, db, TypeOK, PcValues
<1>32. CASE Crash(p)
  BY <1>32, EndType DEF Crash, db, outside, TypeOK, PcValues
<1>33. CASE GoReply(p)
  BY <1>33 DEF GoReply, Goto, PostNote, db, locals, TypeOK, PcValues
<1> QED
  BY <1>2, <1>3, <1>4, <1>5, <1>6, <1>7, <1>8, <1>9, <1>10, <1>11, <1>12, <1>13, <1>14, <1>15,
     <1>16, <1>u, <1>17, <1>18, <1>19, <1>20, <1>21, <1>22, <1>23, <1>24, <1>25, <1>26, <1>27, <1>28,
     <1>29, <1>30, <1>31, <1>32, <1>33
  DEF Start, Step
-----------------------------------------------------------------------------
(* The inductive invariant *)

\* A handler that neither moved nor lost its lock is unaffected while the
\* committed session stays as it is.
LEMMA FrameQuiet ==
  ASSUME NEW q \in Procs, HandlerOK(q), session' = session,
         pc'[q] = pc[q], ses'[q] = ses[q], goc'[q] = goc[q],
         rowLock'["session"] = q <=> rowLock["session"] = q
  PROVE  HandlerOK(q)'
BY DEF HandlerOK, ReadOK, HoldOK, Moves, WaitsForLatest, IsActive, Answering, GoSteps

\* A commit of the session by another handler only makes what q has read older.
LEMMA FrameCommitted ==
  ASSUME TypeOK, NEW q \in Procs, HandlerOK(q), rowLock["session"] # q, rowLock'["session"] # q,
         session'.ver \in Nat, session'.ver > session.ver,
         pc'[q] = pc[q], ses'[q] = ses[q], goc'[q] = goc[q]
  PROVE  HandlerOK(q)'
<1>1. ses[q].ver \in Nat /\ session.ver \in Nat
  BY DEF TypeOK, SessionRows
<1> QED
  BY <1>1 DEF HandlerOK, ReadOK, HoldOK, Answering, GoSteps

\* The end of a handler concerns nobody else's locals and locks.
LEMMA EndFrame ==
  ASSUME TypeOK, NEW p \in Procs, End(p)
  PROVE  /\ pc'[p] = "idle" /\ rowLock'["session"] # p
         /\ \A q \in Procs \ {p} :
              /\ pc'[q] = pc[q] /\ ses'[q] = ses[q] /\ goc'[q] = goc[q]
              /\ rowLock'["session"] = q <=> rowLock["session"] = q
<1>1. rowLock'["session"] = IF rowLock["session"] = p THEN NoProc ELSE rowLock["session"]
  BY DEF End, ReleasedLocks, LockedRows
<1> QED
  BY <1>1, ProcsAssumption DEF TypeOK, End

\* A handler that ends and publishes nothing keeps the invariant.
LEMMA EndQuiet ==
  ASSUME IndInv, TypeOK', NEW p \in Procs, End(p),
         UNCHANGED <<session, goEvents, outbox>>
  PROVE  IndInv'
<1>1. HandlerOK(p)'
  BY EndFrame DEF IndInv, HandlerOK, ReadOK, HoldOK, Answering, GoSteps
<1>2. \A q \in Procs \ {p} : HandlerOK(q)'
  BY EndFrame, FrameQuiet DEF IndInv
<1> QED
  BY <1>1, <1>2 DEF IndInv, SessionOK, WaitsForLatest, SingleStart, AuthorizedGo

\* A handler that moves on, without publishing and without touching the session
\* lock of another handler, keeps the invariant if it keeps its own part of it.
LEMMA MoveQuiet ==
  ASSUME IndInv, TypeOK', NEW p \in Procs, NEW l, pc' = [pc EXCEPT ![p] = l],
         UNCHANGED <<session, goEvents, outbox>>,
         \A q \in Procs \ {p} : ses'[q] = ses[q] /\ goc'[q] = goc[q],
         \A q \in Procs \ {p} : rowLock'["session"] = q <=> rowLock["session"] = q,
         HandlerOK(p)'
  PROVE  IndInv'
<1>1. \A q \in Procs \ {p} : pc'[q] = pc[q]
  BY DEF IndInv, TypeOK
<1>2. \A q \in Procs \ {p} : HandlerOK(q)'
  BY <1>1, FrameQuiet DEF IndInv
<1> QED
  BY <1>2 DEF IndInv, SessionOK, WaitsForLatest, SingleStart, AuthorizedGo

\* Taking the lock of the session row when it is free, or not touching it, is no
\* concern of the other handlers.
LEMMA LockFrame ==
  ASSUME TypeOK, NEW p \in Procs,
         \/ Lock(p, "session") \/ Lock(p, "task") \/ UNCHANGED rowLock
  PROVE  /\ \A q \in Procs \ {p} : rowLock'["session"] = q <=> rowLock["session"] = q
         /\ Lock(p, "session") => rowLock["session"] = NoProc /\ rowLock'["session"] = p
         /\ Lock(p, "task") => rowLock'["session"] = rowLock["session"]
BY ProcsAssumption DEF TypeOK, Lock, LockedRows

\* Every step keeps the inductive invariant.
LEMMA IndStep ==
  ASSUME IndInv, Next
  PROVE  IndInv'
<1> TypeOK /\ TypeOK'
  BY TypeStep DEF IndInv
<1>1. CASE LockExpire
  <2>1. \A q \in Procs : HandlerOK(q)'
    BY <1>1, FrameQuiet DEF LockExpire, db, locals, IndInv
  <2> QED
    BY <1>1, <2>1 DEF LockExpire, db, IndInv, SessionOK, WaitsForLatest, SingleStart, AuthorizedGo
<1> SUFFICES ASSUME NEW p \in Procs, Start(p) \/ Step(p) \/ Abort(p) \/ Crash(p)
             PROVE  IndInv'
  BY <1>1 DEF Next
<1>h. HandlerOK(p) /\ SessionOK /\ SingleStart
  BY DEF IndInv
<1>t. /\ session \in SessionRows /\ ses[p] \in SessionRows
      /\ session.ver \in Nat /\ ses[p].ver \in Nat
      /\ rowLock["session"] \in Procs \union {NoProc}
  BY DEF TypeOK, SessionRows, LockedRows
<1>2. CASE IntakeInvalid(p)
  BY <1>2, EndQuiet DEF IntakeInvalid, db
<1>3. CASE IntakeStarted(p)
  BY <1>3, EndQuiet DEF IntakeStarted
<1>4. CASE IntakeClash(p)
  BY <1>4, EndQuiet DEF IntakeClash, db
<1>5. CASE AnsStale(p)
  BY <1>5, EndQuiet DEF AnsStale, db
<1>6. CASE AnsTaskStale(p)
  BY <1>6, EndQuiet DEF AnsTaskStale, db
<1>7. CASE AnsCardInvalid(p)
  BY <1>7, EndQuiet DEF AnsCardInvalid, db
<1>8. CASE GoRelease(p)
  BY <1>8, EndQuiet DEF GoRelease, db
<1>9. CASE Abort(p)
  BY <1>9, EndQuiet DEF Abort, db
<1>10. CASE Crash(p)
  BY <1>10, EndQuiet DEF Crash, db
<1>11. CASE IntakeFetch(p)
  <2>1. pc[p] = "idle" /\ pc' = [pc EXCEPT ![p] = "in_fetched"] /\ pc'[p] = "in_fetched"
    BY <1>11 DEF IntakeFetch, Begin, TypeOK
  <2>2. /\ UNCHANGED <<session, goEvents, outbox>>
        /\ \A q \in Procs \ {p} : ses'[q] = ses[q] /\ goc'[q] = goc[q]
        /\ \A q \in Procs \ {p} : rowLock'["session"] = q <=> rowLock["session"] = q
    BY <1>11, LockFrame DEF IntakeFetch, db, TypeOK
  <2>3. HandlerOK(p)'
    BY <1>11, <1>h, <1>t, <2>1, LockFrame DEF IntakeFetch, db, TypeOK, HandlerOK, ReadOK, HoldOK,
                                              Answering, GoSteps
  <2> QED
    BY <2>1, <2>2, <2>3, MoveQuiet
<1>12. CASE IntakeSave(p)
  <2>1. pc[p] = "in_fetched" /\ pc' = [pc EXCEPT ![p] = "in_saved"] /\ pc'[p] = "in_saved"
    BY <1>12 DEF IntakeSave, Goto, TypeOK
  <2>2. /\ UNCHANGED <<session, goEvents, outbox>>
        /\ \A q \in Procs \ {p} : ses'[q] = ses[q] /\ goc'[q] = goc[q]
        /\ \A q \in Procs \ {p} : rowLock'["session"] = q <=> rowLock["session"] = q
    BY <1>12, LockFrame DEF IntakeSave, db, TypeOK
  <2>3. HandlerOK(p)'
    BY <1>12, <1>h, <1>t, <2>1, LockFrame DEF IntakeSave, db, TypeOK, HandlerOK, ReadOK, HoldOK,
                                              Answering, GoSteps
  <2> QED
    BY <2>1, <2>2, <2>3, MoveQuiet
<1>13. CASE IntakeReady(p)
  <2> DEFINE next == Transition(NewSession, <<"NEW", "COMPLETENESS_CHECK", "READY_FOR_GO">>)
  <2>0. /\ next.state = "READY_FOR_GO"
        /\ next.rounds = NewSession.rounds
        /\ next.ver = NewSession.ver + 1
    BY <1>t, RowTypes, PathEnds, TwoStepPath
  <2>1. pc[p] = "in_saved" /\ pc' = [pc EXCEPT ![p] = "commit"] /\ pc'[p] = "commit"
    BY <1>13 DEF IntakeReady, NoBriefing, Goto, TypeOK
  <2>2. /\ UNCHANGED <<session, goEvents, outbox>>
        /\ \A q \in Procs \ {p} : ses'[q] = ses[q] /\ goc'[q] = goc[q]
        /\ \A q \in Procs \ {p} : rowLock'["session"] = q <=> rowLock["session"] = q
    BY <1>13, LockFrame DEF IntakeReady, NoBriefing, db, TypeOK
  <2>3. HandlerOK(p)'
    BY <1>13, <1>h, <1>t, <2>1, LockFrame, <2>0, RowTypes
    DEF IntakeReady, NoBriefing, db, TypeOK, HandlerOK, ReadOK, HoldOK, Answering, GoSteps, Moves,
        WaitsForLatest, SessionOK, NoSession
  <2> QED
    BY <2>1, <2>2, <2>3, MoveQuiet
<1>14. CASE IntakeRound(p)
  <2> DEFINE next == WithRound(NewSession, <<"NEW", "QUESTIONS_GENERATED", "WAITING_ANSWERS">>)
  <2>0. /\ next.state = "WAITING_ANSWERS"
        /\ next.rounds = NewSession.rounds + 1
        /\ next.active = NewSession.rounds + 1
        /\ next.ver = NewSession.ver + 1
    BY <1>t, RowTypes, PathEnds, TwoStepPath, BoundsAssumption
  <2>1. pc[p] = "in_saved" /\ pc' = [pc EXCEPT ![p] = "commit"] /\ pc'[p] = "commit"
    BY <1>14 DEF IntakeRound, NoBriefing, Goto, TypeOK
  <2>2. /\ UNCHANGED <<session, goEvents, outbox>>
        /\ \A q \in Procs \ {p} : ses'[q] = ses[q] /\ goc'[q] = goc[q]
        /\ \A q \in Procs \ {p} : rowLock'["session"] = q <=> rowLock["session"] = q
    BY <1>14, LockFrame DEF IntakeRound, NoBriefing, db, TypeOK
  <2>3. HandlerOK(p)'
    BY <1>14, <1>h, <1>t, <2>1, LockFrame, <2>0, RowTypes
    DEF IntakeRound, NoBriefing, db, TypeOK, HandlerOK, ReadOK, HoldOK, Answering, GoSteps, Moves,
        WaitsForLatest, SessionOK, NoSession
  <2> QED
    BY <2>1, <2>2, <2>3, MoveQuiet
<1>15. CASE AnsLoad(p)
  <2>1. pc[p] = "idle" /\ pc' = [pc EXCEPT ![p] = "an_loaded"] /\ pc'[p] = "an_loaded"
    BY <1>15 DEF AnsLoad, Begin, TypeOK
  <2>2. /\ UNCHANGED <<session, goEvents, outbox>>
        /\ \A q \in Procs \ {p} : ses'[q] = ses[q] /\ goc'[q] = goc[q]
        /\ \A q \in Procs \ {p} : rowLock'["session"] = q <=> rowLock["session"] = q
    BY <1>15, LockFrame DEF AnsLoad, db, outside, TypeOK
  <2>3. HandlerOK(p)'
    BY <1>15, <1>h, <1>t, <2>1, LockFrame DEF AnsLoad, db, outside, TypeOK, HandlerOK, ReadOK,
                                              HoldOK, Answering, GoSteps
  <2> QED
    BY <2>1, <2>2, <2>3, MoveQuiet
<1>16. CASE AnsFlush(p)
  <2> DEFINE next == Transition(ses[p], <<"WAITING_ANSWERS", "ANSWERS_RECEIVED", "COMPLETENESS_CHECK">>)
  <2>0. /\ next.state = "COMPLETENESS_CHECK"
        /\ next.rounds = ses[p].rounds
        /\ next.ver = ses[p].ver + 1
    BY <1>t, RowTypes, PathEnds, TwoStepPath
  <2>1. pc[p] = "an_loaded" /\ pc' = [pc EXCEPT ![p] = "an_flushed"] /\ pc'[p] = "an_flushed"
    BY <1>16 DEF AnsFlush, Goto, TypeOK
  <2>2. /\ UNCHANGED <<session, goEvents, outbox>>
        /\ \A q \in Procs \ {p} : ses'[q] = ses[q] /\ goc'[q] = goc[q]
        /\ \A q \in Procs \ {p} : rowLock'["session"] = q <=> rowLock["session"] = q
    BY <1>16, LockFrame DEF AnsFlush, db, outside, TypeOK
  <2>3. HandlerOK(p)'
    BY <1>16, <1>h, <1>t, <2>1, LockFrame, <2>0 DEF AnsFlush, db, outside, TypeOK, HandlerOK,
                                                    ReadOK, HoldOK, Answering, GoSteps,
                                                    SessionCurrent, CanWalk
  <2> QED
    BY <2>1, <2>2, <2>3, MoveQuiet
<1>17. CASE AnsLoadTask(p)
  <2>1. pc[p] = "an_flushed" /\ pc' = [pc EXCEPT ![p] = "an_task"] /\ pc'[p] = "an_task"
    BY <1>17 DEF AnsLoadTask, Goto, TypeOK
  <2>2. /\ UNCHANGED <<session, goEvents, outbox>>
        /\ \A q \in Procs \ {p} : ses'[q] = ses[q] /\ goc'[q] = goc[q]
        /\ \A q \in Procs \ {p} : rowLock'["session"] = q <=> rowLock["session"] = q
    BY <1>17, LockFrame DEF AnsLoadTask, db, outside, TypeOK
  <2>3. HandlerOK(p)'
    BY <1>17, <1>h, <1>t, <2>1, LockFrame DEF AnsLoadTask, db, outside, TypeOK, HandlerOK, ReadOK,
                                              HoldOK, Answering, GoSteps
  <2> QED
    BY <2>1, <2>2, <2>3, MoveQuiet
<1>18. CASE AnsMerge(p)
  <2>1. pc[p] = "an_task" /\ pc' = [pc EXCEPT ![p] = "an_merged"] /\ pc'[p] = "an_merged"
    BY <1>18 DEF AnsMerge, Goto, TypeOK
  <2>2. /\ UNCHANGED <<session, goEvents, outbox>>
        /\ \A q \in Procs \ {p} : ses'[q] = ses[q] /\ goc'[q] = goc[q]
        /\ \A q \in Procs \ {p} : rowLock'["session"] = q <=> rowLock["session"] = q
    BY <1>18, LockFrame DEF AnsMerge, db, outside, TypeOK
  <2>3. HandlerOK(p)'
    BY <1>18, <1>h, <1>t, <2>1, LockFrame DEF AnsMerge, db, outside, TypeOK, HandlerOK, ReadOK,
                                              HoldOK, Answering, GoSteps
  <2> QED
    BY <2>1, <2>2, <2>3, MoveQuiet
<1>u. CASE AnsUnchanged(p)
  <2>1. pc[p] = "an_task" /\ pc' = [pc EXCEPT ![p] = "an_merged"] /\ pc'[p] = "an_merged"
    BY <1>u DEF AnsUnchanged, Goto, TypeOK
  <2>2. /\ UNCHANGED <<session, goEvents, outbox>>
        /\ \A q \in Procs \ {p} : ses'[q] = ses[q] /\ goc'[q] = goc[q]
        /\ \A q \in Procs \ {p} : rowLock'["session"] = q <=> rowLock["session"] = q
    BY <1>u, LockFrame DEF AnsUnchanged, db, outside, TypeOK
  <2>3. HandlerOK(p)'
    BY <1>u, <1>h, <1>t, <2>1, LockFrame DEF AnsUnchanged, db, outside, TypeOK, HandlerOK, ReadOK,
                                             HoldOK, Answering, GoSteps
  <2> QED
    BY <2>1, <2>2, <2>3, MoveQuiet
<1>19. CASE AnsReady(p)
  <2> DEFINE next == Transition(ses[p], <<"COMPLETENESS_CHECK", "READY_FOR_GO">>)
  <2>0. /\ next.state = "READY_FOR_GO"
        /\ next.rounds = ses[p].rounds
        /\ next.ver = ses[p].ver + 1
    BY <1>t, RowTypes, PathEnds, OneStepPath
  <2>1. pc[p] = "an_merged" /\ pc' = [pc EXCEPT ![p] = "commit"] /\ pc'[p] = "commit"
    BY <1>19 DEF AnsReady, Goto, TypeOK
  <2>2. /\ UNCHANGED <<session, goEvents, outbox>>
        /\ \A q \in Procs \ {p} : ses'[q] = ses[q] /\ goc'[q] = goc[q]
        /\ \A q \in Procs \ {p} : rowLock'["session"] = q <=> rowLock["session"] = q
    BY <1>19, LockFrame DEF AnsReady, db, TypeOK
  <2>3. HandlerOK(p)'
    BY <1>19, <1>h, <1>t, <2>1, LockFrame, <2>0 DEF AnsReady, db, TypeOK, HandlerOK, ReadOK, HoldOK,
                                                    Answering, GoSteps, Moves, WaitsForLatest,
                                                    SessionOK
  <2> QED
    BY <2>1, <2>2, <2>3, MoveQuiet
<1>20. CASE AnsBlocked(p)
  <2> DEFINE next == Transition(ses[p], <<"COMPLETENESS_CHECK", "BLOCKED_MANUAL">>)
  <2>0. /\ next.state = "BLOCKED_MANUAL"
        /\ next.rounds = ses[p].rounds
        /\ next.ver = ses[p].ver + 1
    BY <1>t, RowTypes, PathEnds, OneStepPath
  <2>1. pc[p] = "an_merged" /\ pc' = [pc EXCEPT ![p] = "commit"] /\ pc'[p] = "commit"
    BY <1>20 DEF AnsBlocked, Goto, TypeOK
  <2>2. /\ UNCHANGED <<session, goEvents, outbox>>
        /\ \A q \in Procs \ {p} : ses'[q] = ses[q] /\ goc'[q] = goc[q]
        /\ \A q \in Procs \ {p} : rowLock'["session"] = q <=> rowLock["session"] = q
    BY <1>20, LockFrame DEF AnsBlocked, db, TypeOK
  <2>3. HandlerOK(p)'
    BY <1>20, <1>h, <1>t, <2>1, LockFrame, <2>0,
       BoundsAssumption
    DEF AnsBlocked, RoundsLeft, SessionRows, db, TypeOK, HandlerOK, ReadOK,
                                                    HoldOK, Answering, GoSteps, Moves,
                                                    WaitsForLatest, SessionOK
  <2> QED
    BY <2>1, <2>2, <2>3, MoveQuiet
<1>21. CASE AnsRound(p)
  <2>m. ses[p].rounds < MaxRounds
    BY <1>21 DEF AnsRound, RoundsLeft
  <2> DEFINE next == WithRound(ses[p], <<"COMPLETENESS_CHECK", "NEEDS_MORE_INFO", "WAITING_ANSWERS">>)
  <2>0. /\ next.state = "WAITING_ANSWERS"
        /\ next.rounds = ses[p].rounds + 1
        /\ next.active = ses[p].rounds + 1
        /\ next.ver = ses[p].ver + 1
    BY <2>m, <1>t, RowTypes, PathEnds, TwoStepPath, BoundsAssumption
  <2>1. pc[p] = "an_merged" /\ pc' = [pc EXCEPT ![p] = "commit"] /\ pc'[p] = "commit"
    BY <1>21 DEF AnsRound, Goto, TypeOK
  <2>2. /\ UNCHANGED <<session, goEvents, outbox>>
        /\ \A q \in Procs \ {p} : ses'[q] = ses[q] /\ goc'[q] = goc[q]
        /\ \A q \in Procs \ {p} : rowLock'["session"] = q <=> rowLock["session"] = q
    BY <1>21, LockFrame DEF AnsRound, db, TypeOK
  <2>3. HandlerOK(p)'
    BY <1>21, <1>h, <1>t, <2>1, LockFrame, <2>0 DEF AnsRound, db, TypeOK, HandlerOK, ReadOK, HoldOK,
                                                    Answering, GoSteps, Moves, WaitsForLatest,
                                                    SessionOK, SessionRows
  <2> QED
    BY <2>1, <2>2, <2>3, MoveQuiet
<1>22. CASE GoStart(p)
  <2>1. pc[p] = "idle" /\ pc' = [pc EXCEPT ![p] = "go_locked"] /\ pc'[p] = "go_locked"
    BY <1>22 DEF GoStart, Begin, TypeOK
  <2>2. /\ UNCHANGED <<session, goEvents, outbox>>
        /\ \A q \in Procs \ {p} : ses'[q] = ses[q] /\ goc'[q] = goc[q]
        /\ \A q \in Procs \ {p} : rowLock'["session"] = q <=> rowLock["session"] = q
    BY <1>22, LockFrame DEF GoStart, db, TypeOK
  <2>3. HandlerOK(p)'
    BY <1>22, <1>h, <1>t, <2>1, LockFrame DEF GoStart, db, TypeOK, HandlerOK, ReadOK, HoldOK,
                                              Answering, GoSteps
  <2> QED
    BY <2>1, <2>2, <2>3, MoveQuiet
<1>23. CASE GoNoop(p)
  <2>1. pc[p] = "go_locked" /\ pc' = [pc EXCEPT ![p] = "go_release"] /\ pc'[p] = "go_release"
    BY <1>23 DEF GoNoop, Goto, TypeOK
  <2>2. /\ UNCHANGED <<session, goEvents, outbox>>
        /\ \A q \in Procs \ {p} : ses'[q] = ses[q] /\ goc'[q] = goc[q]
        /\ \A q \in Procs \ {p} : rowLock'["session"] = q <=> rowLock["session"] = q
    BY <1>23, LockFrame DEF GoNoop, db, outside, locals, TypeOK
  <2>3. HandlerOK(p)'
    BY <1>23, <1>h, <1>t, <2>1, LockFrame DEF GoNoop, db, outside, locals, TypeOK, HandlerOK,
                                              ReadOK, HoldOK, Answering, GoSteps
  <2> QED
    BY <2>1, <2>2, <2>3, MoveQuiet
<1>24. CASE GoLoad(p)
  <2>1. pc[p] = "go_locked" /\ pc' = [pc EXCEPT ![p] = "go_authz"] /\ pc'[p] = "go_authz"
    BY <1>24 DEF GoLoad, Goto, TypeOK
  <2>2. /\ UNCHANGED <<session, goEvents, outbox>>
        /\ \A q \in Procs \ {p} : ses'[q] = ses[q] /\ goc'[q] = goc[q]
        /\ \A q \in Procs \ {p} : rowLock'["session"] = q <=> rowLock["session"] = q
    BY <1>24, LockFrame DEF GoLoad, db, outside, TypeOK
  <2>3. HandlerOK(p)'
    BY <1>24, <1>h, <1>t, <2>1, LockFrame DEF GoLoad, db, outside, TypeOK, HandlerOK, ReadOK,
                                              HoldOK, Answering, GoSteps
  <2> QED
    BY <2>1, <2>2, <2>3, MoveQuiet
<1>25. CASE GoClash(p)
  <2>1. pc[p] = "go_authz" /\ pc' = [pc EXCEPT ![p] = "go_release"] /\ pc'[p] = "go_release"
    BY <1>25 DEF GoClash, Goto, TypeOK
  <2>2. /\ UNCHANGED <<session, goEvents, outbox>>
        /\ \A q \in Procs \ {p} : ses'[q] = ses[q] /\ goc'[q] = goc[q]
        /\ \A q \in Procs \ {p} : rowLock'["session"] = q <=> rowLock["session"] = q
    BY <1>25, LockFrame DEF GoClash, db, outside, locals, TypeOK
  <2>3. HandlerOK(p)'
    BY <1>25, <1>h, <1>t, <2>1, LockFrame DEF GoClash, db, outside, locals, TypeOK, HandlerOK,
                                              ReadOK, HoldOK, Answering, GoSteps
  <2> QED
    BY <2>1, <2>2, <2>3, MoveQuiet
<1>26. CASE CancelSession(p)
  <2> DEFINE next == Transition(session, <<session.state, "CANCELLED">>)
  <2>0. /\ next.state = "CANCELLED"
        /\ next.rounds = session.rounds
        /\ next.ver = session.ver + 1
    BY <1>t, RowTypes, PathEnds, OneStepPath
  <2>1. pc[p] = "idle" /\ pc' = [pc EXCEPT ![p] = "ca_task"] /\ pc'[p] = "ca_task"
    BY <1>26 DEF CancelSession, Begin, TypeOK
  <2>2. /\ UNCHANGED <<session, goEvents, outbox>>
        /\ \A q \in Procs \ {p} : ses'[q] = ses[q] /\ goc'[q] = goc[q]
        /\ \A q \in Procs \ {p} : rowLock'["session"] = q <=> rowLock["session"] = q
    BY <1>26, LockFrame DEF CancelSession, db, outside, TypeOK
  <2>3. HandlerOK(p)'
    BY <1>26, <1>h, <1>t, <2>1, LockFrame, <2>0 DEF CancelSession, db, outside, TypeOK, HandlerOK,
                                                    ReadOK, HoldOK, Answering, GoSteps, IsActive
  <2> QED
    BY <2>1, <2>2, <2>3, MoveQuiet
<1>27. CASE CancelNoSession(p)
  <2>1. pc[p] = "idle" /\ pc' = [pc EXCEPT ![p] = "ca_task"] /\ pc'[p] = "ca_task"
    BY <1>27 DEF CancelNoSession, Begin, TypeOK
  <2>2. /\ UNCHANGED <<session, goEvents, outbox>>
        /\ \A q \in Procs \ {p} : ses'[q] = ses[q] /\ goc'[q] = goc[q]
        /\ \A q \in Procs \ {p} : rowLock'["session"] = q <=> rowLock["session"] = q
    BY <1>27, LockFrame DEF CancelNoSession, db, outside, locals, TypeOK
  <2>3. HandlerOK(p)'
    BY <1>27, <1>h, <1>t, <2>1, LockFrame DEF CancelNoSession, db, outside, locals, TypeOK,
                                              HandlerOK, ReadOK, HoldOK, Answering, GoSteps
  <2> QED
    BY <2>1, <2>2, <2>3, MoveQuiet
<1>28. CASE GoDup(p)
  <2>1. pc[p] = "go_locked" /\ pc' = [pc EXCEPT ![p] = "go_release"]
    BY <1>28 DEF GoDup, Goto
  <2>2. ~ GoEvent(p, Duplicate).authorized
    BY <1>28, DecisionType DEF GoDup, GoEvent, Duplicate
  <2>3. AuthorizedGo' = AuthorizedGo
    BY <1>28, <2>2 DEF GoDup, AuthorizedGo
  <2>4. HandlerOK(p)'
    BY <1>28, <1>h, <2>1 DEF GoDup, outside, locals, TypeOK, HandlerOK, ReadOK, HoldOK, Answering,
                             GoSteps
  <2>5. \A q \in Procs \ {p} : HandlerOK(q)'
    BY <1>28, <2>1, FrameQuiet DEF GoDup, locals, TypeOK, IndInv
  <2> QED
    BY <1>28, <1>h, <2>3, <2>4, <2>5 DEF GoDup, IndInv, SessionOK, WaitsForLatest, SingleStart
<1>29. CASE GoReject(p)
  <2>1. /\ pc[p] = "go_authz"
        /\ \E l \in {"go_reply", "go_release"} : pc' = [pc EXCEPT ![p] = l]
    BY <1>29 DEF GoReject, Goto
  <2>2. ~ GoEvent(p, Decision(p)).authorized
    BY <1>29, DecisionType DEF GoReject, GoEvent, Duplicate
  <2>3. AuthorizedGo' = AuthorizedGo
    BY <1>29, <2>2 DEF GoReject, AuthorizedGo
  <2>4. HandlerOK(p)'
    BY <1>29, <1>h, <2>1 DEF GoReject, outside, locals, TypeOK, HandlerOK, ReadOK, HoldOK,
                             Answering, GoSteps
  <2>5. \A q \in Procs \ {p} : HandlerOK(q)'
    BY <1>29, <2>1, FrameQuiet DEF GoReject, locals, TypeOK, IndInv
  <2> QED
    BY <1>29, <1>h, <2>3, <2>4, <2>5 DEF GoReject, IndInv, SessionOK, WaitsForLatest, SingleStart
<1>30. CASE GoApprove(p)
  <2> DEFINE next == Transition(ses[p], <<"READY_FOR_GO", "GO_AUTH_CHECK", "APPROVED">>)
             event == GoEvent(p, Decision(p))
  <2>0. next.state = "APPROVED" /\ next.ver = ses[p].ver + 1
    BY <1>t, PathEnds, TwoStepPath
  <2> HIDE DEF next
  <2>1. pc[p] = "go_authz" /\ pc' = [pc EXCEPT ![p] = "go_release"]
    BY <1>30 DEF GoApprove, Goto
  <2>2. /\ session' = next /\ goEvents' = goEvents \union {event} /\ outbox' = outbox + 1
        /\ ses[p].ver = session.ver /\ ses[p].state = "READY_FOR_GO" /\ AuthorizedGo = {}
        /\ rowLock' = rowLock /\ rowLock["session"] = NoProc /\ ses' = ses /\ goc' = goc
    BY <1>30 DEF GoApprove, CanWalk, SessionCurrent, locals, next
  <2>3. session.state = "READY_FOR_GO"
    BY <1>h, <2>1, <2>2 DEF HandlerOK, ReadOK
  <2>4. event.authorized
    BY <1>30, DecisionType DEF GoApprove, GoEvent
  <2>5. AuthorizedGo' = {event}
    <3> HIDE DEF event
    <3> QED  BY <2>2, <2>4 DEF AuthorizedGo
  <2> HIDE DEF event
  <2>6. outbox' = 1 /\ SingleStart'
    BY <1>h, <2>0, <2>2, <2>3, <2>5 DEF SingleStart
  <2>7. HandlerOK(p)'
    BY <1>h, <1>t, <2>1, <2>2, ProcsAssumption DEF TypeOK, HandlerOK, ReadOK, HoldOK, Answering,
                                                   GoSteps
  <2>8. \A q \in Procs \ {p} : HandlerOK(q)'
    <3> SUFFICES ASSUME NEW q \in Procs \ {p} PROVE HandlerOK(q)'
      OBVIOUS
    <3>1. HandlerOK(q) /\ rowLock["session"] # q /\ rowLock'["session"] # q /\ pc'[q] = pc[q]
      BY <2>1, <2>2, ProcsAssumption DEF IndInv, TypeOK
    <3>2. session'.ver \in Nat /\ session'.ver > session.ver
      BY <1>t, <2>0, <2>2
    <3> QED
      BY <2>2, <3>1, <3>2, FrameCommitted
  <2>9. SessionOK'
    BY <2>0, <2>2 DEF SessionOK, WaitsForLatest, CommittedStates
  <2> QED
    BY <2>6, <2>7, <2>8, <2>9 DEF IndInv
<1>31. CASE Commit(p)
  <2>e. End(p) /\ UNCHANGED <<goEvents, outbox>>
    BY <1>31 DEF Commit
  <2>1. rowLock["session"] = p /\ Moves(p) /\ session' = ses[p]
    BY <1>31, <1>h DEF Commit, HandlerOK, HoldOK, PublishSession
  <2>3. HandlerOK(p)'
    BY <2>e, EndFrame DEF HandlerOK, ReadOK, HoldOK, Answering, GoSteps
  <2>4. \A q \in Procs \ {p} : HandlerOK(q)'
    <3> SUFFICES ASSUME NEW q \in Procs \ {p} PROVE HandlerOK(q)'
      OBVIOUS
    <3>1. HandlerOK(q) /\ rowLock["session"] # q /\ rowLock'["session"] # q
      BY <2>1, <2>e, EndFrame DEF IndInv
    <3>2. session'.ver \in Nat /\ session'.ver > session.ver
      BY <1>h, <1>t, <2>1 DEF HandlerOK, HoldOK
    <3> QED
      BY <2>e, <3>1, <3>2, EndFrame, FrameCommitted
  <2>5. SessionOK' /\ session.state # "APPROVED" /\ session'.state # "APPROVED"
    BY <2>1 DEF Moves, SessionOK, WaitsForLatest, CommittedStates
  <2>6. SingleStart'
    BY <1>h, <2>e, <2>5 DEF SingleStart, AuthorizedGo
  <2> QED
    BY <2>3, <2>4, <2>5, <2>6 DEF IndInv
<1>32. CASE CancelTask(p)
  <2>e. End(p) /\ UNCHANGED <<goEvents, outbox>>
    BY <1>32 DEF CancelTask
  <2>q. CASE rowLock["session"] # p
    BY <1>32, <2>e, <2>q, EndQuiet DEF CancelTask, PublishSession
  <2> SUFFICES ASSUME rowLock["session"] = p PROVE IndInv'
    BY <2>q
  <2>1. /\ rowLock["session"] = p /\ session' = ses[p]
        /\ IsActive(session) /\ ses[p].state = "CANCELLED"
    BY <1>32, <1>h DEF CancelTask, HandlerOK, HoldOK, PublishSession
  <2>3. HandlerOK(p)'
    BY <2>e, EndFrame DEF HandlerOK, ReadOK, HoldOK, Answering, GoSteps
  <2>4. \A q \in Procs \ {p} : HandlerOK(q)'
    <3> SUFFICES ASSUME NEW q \in Procs \ {p} PROVE HandlerOK(q)'
      OBVIOUS
    <3>1. HandlerOK(q) /\ rowLock["session"] # q /\ rowLock'["session"] # q
      BY <2>1, <2>e, EndFrame DEF IndInv
    <3>2. session'.ver \in Nat /\ session'.ver > session.ver
      BY <1>h, <1>t, <2>1 DEF HandlerOK, HoldOK
    <3> QED
      BY <2>e, <3>1, <3>2, EndFrame, FrameCommitted
  <2>5. SessionOK' /\ session.state # "APPROVED" /\ session'.state # "APPROVED"
    BY <2>1 DEF IsActive, Terminal, SessionOK, WaitsForLatest, CommittedStates
  <2>6. SingleStart'
    BY <1>h, <2>e, <2>5 DEF SingleStart, AuthorizedGo
  <2> QED
    BY <2>3, <2>4, <2>5, <2>6 DEF IndInv
<1>33. CASE GoReply(p)
  <2>1. pc[p] = "go_reply" /\ pc' = [pc EXCEPT ![p] = "go_release"] /\ pc'[p] = "go_release"
    BY <1>33 DEF GoReply, Goto, TypeOK
  <2>2. /\ UNCHANGED <<session, goEvents, outbox>>
        /\ \A q \in Procs \ {p} : ses'[q] = ses[q] /\ goc'[q] = goc[q]
        /\ \A q \in Procs \ {p} : rowLock'["session"] = q <=> rowLock["session"] = q
    BY <1>33, LockFrame DEF GoReply, db, locals, TypeOK
  <2>3. HandlerOK(p)'
    BY <1>33, <1>h, <1>t, <2>1, LockFrame DEF GoReply, db, locals, TypeOK, HandlerOK, ReadOK,
                                              HoldOK, Answering, GoSteps
  <2> QED
    BY <2>1, <2>2, <2>3, MoveQuiet
<1> QED
  BY <1>2, <1>3, <1>4, <1>5, <1>6, <1>7, <1>8, <1>9, <1>10, <1>11, <1>12, <1>13, <1>14, <1>15,
     <1>16, <1>u, <1>17, <1>18, <1>19, <1>20, <1>21, <1>22, <1>23, <1>24, <1>25, <1>26, <1>27, <1>28,
     <1>29, <1>30, <1>31, <1>32, <1>33
  DEF Start, Step
-----------------------------------------------------------------------------
(* The theorems *)

\* The initial state satisfies the inductive invariant.
LEMMA IndInit ==
  ASSUME Init
  PROVE  IndInv
<1>1. TypeOK
  <2>1. [n \in Rounds |-> {}] \in [Rounds -> SUBSET Fields]
    OBVIOUS
  <2> QED
    BY <2>1, RowTypes, BoundsAssumption DEF Init, TypeOK, PcValues
<1>2. SessionOK
  BY <1>1 DEF Init, SessionOK, CommittedStates, WaitsForLatest, NoSession
<1>3. \A p \in Procs : HandlerOK(p)
  BY ProcsAssumption DEF Init, HandlerOK, ReadOK, HoldOK, Answering, GoSteps, LockedRows
<1>4. SingleStart
  BY DEF Init, SingleStart, AuthorizedGo, NoSession
<1> QED
  BY <1>1, <1>2, <1>3, <1>4 DEF IndInv

\* A stuttering step keeps it.
LEMMA IndStutter ==
  ASSUME IndInv, UNCHANGED vars
  PROVE  IndInv'
<1> USE DEF vars, db, outside, locals
<1>1. TypeOK'
  BY DEF IndInv, TypeOK
<1>2. \A p \in Procs : HandlerOK(p)'
  BY FrameQuiet DEF IndInv
<1> QED
  BY <1>1, <1>2 DEF IndInv, SessionOK, WaitsForLatest, SingleStart, AuthorizedGo

\* The inductive invariant holds in every behaviour of the system.
THEOREM Inductive == Spec => []IndInv
<1>1. Init => IndInv
  BY IndInit
<1>2. IndInv /\ [Next]_vars => IndInv'
  BY IndStep, IndStutter
<1> QED
  BY <1>1, <1>2, PTL DEF Spec

\* Every row, every copy of one and every lock has its type, for any number of
\* handlers, fields, rounds and jobs.
THEOREM TypeCorrect == Spec => []TypeOK
<1>1. IndInv => TypeOK
  BY DEF IndInv
<1> QED
  BY <1>1, Inductive, PTL

\* Coding is started at most once, and only with an authorised /go, whatever the
\* handlers of a task race for and whenever the Redis lock expires.
THEOREM StartsOnce == Spec => []SingleStart
<1>1. IndInv => SingleStart
  BY DEF IndInv
<1> QED
  BY <1>1, Inductive, PTL

\* Which steps commit the session row, and from which state to which.
LEMMA SessionSteps ==
  ASSUME IndInv, Next
  PROVE  \/ UNCHANGED <<session, outbox>>
         \/ \E p \in Procs :
              \/ Moves(p) /\ session' = ses[p] /\ UNCHANGED outbox
              \/ /\ IsActive(session) /\ UNCHANGED outbox
                 /\ session' = ses[p]
                 /\ ses[p].state = "CANCELLED" /\ ses[p].rounds = session.rounds
              \/ /\ session.state = "READY_FOR_GO" /\ outbox' = outbox + 1
                 /\ session'.state = "APPROVED" /\ session'.rounds = session.rounds
<1>1. CASE LockExpire
  BY <1>1 DEF LockExpire, db
<1> SUFFICES ASSUME NEW p \in Procs, Start(p) \/ Step(p) \/ Abort(p) \/ Crash(p),
                    ~ UNCHANGED <<session, outbox>>
             PROVE  \/ Moves(p) /\ session' = ses[p] /\ UNCHANGED outbox
                    \/ /\ IsActive(session) /\ UNCHANGED outbox
                       /\ session' = ses[p]
                       /\ ses[p].state = "CANCELLED" /\ ses[p].rounds = session.rounds
                    \/ /\ session.state = "READY_FOR_GO" /\ outbox' = outbox + 1
                       /\ session'.state = "APPROVED" /\ session'.rounds = session.rounds
  BY <1>1 DEF Next
<1>h. HandlerOK(p)
  BY DEF IndInv
<1>2. CASE Commit(p)
  BY <1>2, <1>h DEF Commit, PublishSession, HandlerOK, HoldOK
<1>3. CASE CancelTask(p)
  BY <1>3, <1>h DEF CancelTask, PublishSession, HandlerOK, HoldOK
<1>4. CASE GoApprove(p)
  <2>1. ses[p] \in SessionRows
    BY DEF IndInv, TypeOK
  <2>2. ses[p].state = "READY_FOR_GO" /\ ses[p].ver = session.ver /\ pc[p] = "go_authz"
    BY <1>4 DEF GoApprove, CanWalk, SessionCurrent, Goto
  <2>3. ses[p] = session
    BY <1>h, <2>2 DEF HandlerOK, ReadOK
  <2>4. /\ session' = Transition(ses[p], <<"READY_FOR_GO", "GO_AUTH_CHECK", "APPROVED">>)
        /\ outbox' = outbox + 1
    BY <1>4 DEF GoApprove
  <2> QED
    BY <2>1, <2>2, <2>3, <2>4, PathEnds, TwoStepPath
<1>5. CASE ~ Commit(p) /\ ~ CancelTask(p) /\ ~ GoApprove(p)
  <2>1. CASE Start(p)
    BY <2>1 DEF Start, IntakeFetch, AnsLoad, GoStart, CancelSession, CancelNoSession, db
  <2>2. CASE Abort(p) \/ Crash(p)
    BY <2>2 DEF Abort, Crash, db
  <2>3. CASE Step(p)
    <3>1. CASE \/ IntakeInvalid(p) \/ IntakeSave(p) \/ IntakeStarted(p) \/ IntakeClash(p)
               \/ IntakeReady(p) \/ IntakeRound(p)
      BY <3>1 DEF IntakeInvalid, IntakeSave, IntakeStarted, IntakeClash, IntakeReady,
                  IntakeRound, db
    <3>2. CASE \/ AnsFlush(p) \/ AnsStale(p) \/ AnsLoadTask(p) \/ AnsMerge(p) \/ AnsUnchanged(p)
               \/ AnsTaskStale(p)
               \/ AnsReady(p) \/ AnsBlocked(p) \/ AnsRound(p) \/ AnsCardInvalid(p)
      BY <3>2 DEF AnsFlush, AnsStale, AnsLoadTask, AnsMerge, AnsUnchanged, AnsTaskStale, AnsReady,
                  AnsBlocked, AnsRound, AnsCardInvalid, db
    <3>3. CASE \/ GoNoop(p) \/ GoDup(p) \/ GoLoad(p) \/ GoReject(p) \/ GoClash(p)
               \/ GoReply(p) \/ GoRelease(p)
      BY <3>3 DEF GoNoop, GoDup, GoLoad, GoReject, GoClash, GoReply, GoRelease, db
    <3> QED
      BY <1>5, <2>3, <3>1, <3>2, <3>3 DEF Step
  <2> QED
    BY <1>5, <2>1, <2>2, <2>3
<1> QED
  BY <1>2, <1>3, <1>4, <1>5

\* Nothing touches a session that has ended, whichever handlers read it before.
THEOREM EndedForGood == Spec => TerminalIsFinal
<1>1. IndInv /\ [Next]_vars => [session.state \in Terminal => session' = session]_vars
  <2> SUFFICES ASSUME IndInv, Next, session.state \in Terminal
               PROVE  session' = session
    OBVIOUS
  <2> QED
    BY SessionSteps DEF Moves, IsActive, Terminal
<1> QED
  BY <1>1, Inductive, PTL DEF Spec, TerminalIsFinal

\* The committed session row, seen together with the outbox, behaves as the contract
\* of the briefing says: every step of every handler is a step of the contract, or
\* changes nothing of it.
THEOREM KeepsContract == Spec => Refines
<1>1. Init => Contract!Init
  BY DEF Init, NoSession, Contract!Init
<1>2. IndInv /\ [Next]_vars => [Contract!Next]_(Contract!vars)
  <2>1. ASSUME IndInv, UNCHANGED vars
        PROVE  UNCHANGED Contract!vars
    BY <2>1 DEF vars, db, Contract!vars
  <2>2. ASSUME IndInv, Next
        PROVE  Contract!Next \/ UNCHANGED Contract!vars
    <3>1. CASE UNCHANGED <<session, outbox>>
      BY <3>1 DEF Contract!vars
    <3>2. ASSUME NEW p \in Procs, Moves(p), session' = ses[p], UNCHANGED outbox
          PROVE  Contract!Next
      <4>1. session.state = "ABSENT" => session.rounds = 0
        BY <2>2 DEF IndInv, SessionOK, NoSession
      <4>2. session.rounds \in Nat
        BY <2>2, BoundsAssumption DEF IndInv, TypeOK, SessionRows
      <4>3. session.state = "WAITING_ANSWERS" /\ session'.state = "WAITING_ANSWERS"
              => session.rounds < MaxRounds
        <5>1. ses[p].rounds \in 0..MaxRounds
          BY <2>2, <3>2 DEF IndInv, TypeOK, SessionRows
        <5> QED
          BY <3>2, <4>2, <5>1, BoundsAssumption DEF Moves
      <4> QED
        BY <3>2, <4>1, <4>2, <4>3
        DEF Moves, Contract!Next, Contract!OpenReady, Contract!OpenRound, Contract!NextRound,
            Contract!Complete, Contract!GiveUp
    <3>3. ASSUME NEW p \in Procs, IsActive(session), UNCHANGED outbox, session' = ses[p],
                 ses[p].state = "CANCELLED", ses[p].rounds = session.rounds
          PROVE  Contract!Next
      BY <2>2, <3>3 DEF IndInv, SessionOK, CommittedStates, IsActive, Terminal, Contract!Next,
                        Contract!Cancel
    <3>4. CASE /\ session.state = "READY_FOR_GO" /\ outbox' = outbox + 1
               /\ session'.state = "APPROVED" /\ session'.rounds = session.rounds
      BY <3>4 DEF Contract!Next, Contract!Approve
    <3> QED
      BY <2>2, <3>1, <3>2, <3>3, <3>4, SessionSteps
  <2> QED
    BY <2>1, <2>2
<1> QED
  BY <1>1, <1>2, Inductive, PTL DEF Spec, Refines, Contract!Spec
-----------------------------------------------------------------------------
(* The rounds, the answers and the card.  RoundInv says that answers on    *)
(* their way are to the open round, and that the open round was announced; *)
(* TaskInv says who holds the lock of the task row, and what its card      *)
(* holds when it is committed.                                             *)

\* Whoever sees the row in Bitrix24 was told what it waits for.
Told(row) ==
  /\ row.state = "WAITING_ANSWERS" => row.active = row.rounds /\ posted[row.rounds] > 0
  /\ row.state = "READY_FOR_GO" => "ready" \in notes
  /\ row.state = "BLOCKED_MANUAL" => "blocked" \in notes

\* Only a waiting row has an open round.
Closed(row) == row.state # "WAITING_ANSWERS" => row.active = 0

\* There are answers, and all of them are to round n.
OfRound(answers, n) ==
  /\ \E f \in Fields, t \in Texts : <<n, f, t>> \in answers
  /\ \A m \in Rounds, f \in Fields, t \in Texts : <<m, f, t>> \in answers => m = n

\* A gap of the merged card was never answered, or once with a blank line.
GapsAreOpen(p) ==
  \A f \in Gaps(tsk[p].card) :
    LET said == TextsOf(f, accepted \union ans[p])
    IN  said = {} \/ "blank" \in said

\* What a handler on its way to the commit of a round or of answers carries.
CarriesOK(p) ==
  /\ pc[p] \notin Answering \union {"an_loaded", "commit"} => ans[p] = {}
  /\ pc[p] \in Answering \union {"an_loaded"} =>
       ses[p].rounds \in Rounds /\ OfRound(ans[p], ses[p].rounds)
  /\ pc[p] = "an_merged" => GapsAreOpen(p)
  /\ pc[p] = "commit" =>
       /\ Told(ses[p]) /\ Closed(ses[p])
       /\ session.state = "ABSENT" => ans[p] = {}
       /\ session.state = "WAITING_ANSWERS" =>
            /\ OfRound(ans[p], session.rounds)
            /\ ses[p].state = "WAITING_ANSWERS" => GapsAreOpen(p)
  /\ pc[p] = "ca_task" /\ rowLock["session"] = p => ses[p].active = 0

\* The committed session, its answers and its questions.
RoundsInv ==
  /\ Told(session) /\ Closed(session)
  /\ \A n \in Rounds, f \in Fields, t \in Texts : <<n, f, t>> \in accepted => n <= session.rounds
  /\ \A n \in Rounds : n > session.rounds => asked[n] = {}
  /\ AnswersCloseRound
  /\ NeverReasked

\* ... and what every handler is about to do to them.
RoundInv == RoundsInv /\ \A p \in Procs : CarriesOK(p)

\* The merged card differs from the stored one only where something was answered.
Kept(p) ==
  \A f \in Fields : tsk[p].card[f] = task.card[f] \/ TextsOf(f, accepted \union ans[p]) # {}

\* A task row read without its lock is the committed row or has an older version.
TaskRead(p) ==
  /\ task.there /\ tsk[p].ver <= task.ver
  /\ tsk[p].ver = task.ver => tsk[p] = task

\* Who holds the lock of the task row, and what a commit makes of the row.
TaskOK(p) ==
  /\ rowLock["task"] = p =>
       pc[p] \in {"in_saved", "an_merged", "commit"} /\ tsk[p].there /\ tsk[p].ver > task.ver
  /\ pc[p] = "in_saved" /\ rowLock["task"] # p => task.there
  /\ pc[p] \in {"an_task", "an_merged", "commit"} /\ rowLock["task"] # p => TaskRead(p)
  /\ pc[p] = "an_merged" /\ rowLock["task"] = p => Kept(p)
  /\ pc[p] = "commit" =>
       /\ ses[p].state = "READY_FOR_GO" => Gaps(tsk[p].card) = {}
       /\ ans[p] # {} /\ rowLock["task"] = p => Kept(p)

\* There is a task row exactly when there is a session.
TaskInv == (task.there <=> session.state # "ABSENT") /\ \A p \in Procs : TaskOK(p)
-----------------------------------------------------------------------------
(* Rounds and answers *)

\* A row that leaves the waiting state has no open round.
LEMMA LeavingCloses ==
  ASSUME NEW row \in SessionRows
  PROVE  /\ \A s, u : u # "WAITING_ANSWERS" => Transition(row, <<s, u>>).active = 0
         /\ \A s, t, u : u # "WAITING_ANSWERS" => Transition(row, <<s, t, u>>).active = 0
<1>1. ASSUME NEW path, path[Len(path)] # "WAITING_ANSWERS"
      PROVE  Transition(row, path).active = 0
  <2> DEFINE last == path[Len(path)]
  <2>1. Transition(row, path)
          = [row EXCEPT !.state = last,
                        !.active = IF last = "WAITING_ANSWERS" THEN row.active ELSE 0,
                        !.ver = row.ver + 1]
    BY DEF Transition
  <2> HIDE DEF last
  <2>2. last # "WAITING_ANSWERS"
    BY <1>1 DEF last
  <2> QED BY <2>1, <2>2 DEF SessionRows
<1>2. ASSUME NEW s, NEW u, u # "WAITING_ANSWERS"
      PROVE  Transition(row, <<s, u>>).active = 0
  <2> DEFINE path == <<s, u>>
  <2>1. path[Len(path)] # "WAITING_ANSWERS"
    BY <1>2, PathEnds
  <2> HIDE DEF path
  <2>2. Transition(row, path).active = 0
    BY <1>1, <2>1
  <2> QED BY <2>2 DEF path
<1>3. ASSUME NEW s, NEW t, NEW u, u # "WAITING_ANSWERS"
      PROVE  Transition(row, <<s, t, u>>).active = 0
  <2> DEFINE path == <<s, t, u>>
  <2>1. path[Len(path)] # "WAITING_ANSWERS"
    BY <1>3, PathEnds
  <2> HIDE DEF path
  <2>2. Transition(row, path).active = 0
    BY <1>1, <2>1
  <2> QED BY <2>2 DEF path
<1> QED BY <1>2, <1>3

\* Comments and notes in Bitrix24 stay there.
Grows == (\A n \in Rounds : posted'[n] >= posted[n]) /\ notes \subseteq notes'

\* One more comment about a round.
LEMMA PostGrows ==
  ASSUME TypeOK, NEW n, PostRound(n)
  PROVE  /\ \A m \in Rounds : posted'[m] >= posted[m]
         /\ n \in Rounds => posted'[n] > 0
<1>1. \A m \in Rounds : posted[m] \in Nat
  BY DEF TypeOK
<1>2. \A m \in Rounds : posted'[m] = IF m = n THEN posted[m] + 1 ELSE posted[m]
  BY DEF TypeOK, PostRound
<1> QED BY <1>1, <1>2

\* What was announced stays announced.
LEMMA ToldStays ==
  ASSUME TypeOK, TypeOK', Grows, NEW row \in SessionRows, WaitsForLatest(row), Told(row)
  PROVE  Told(row)'
<1>1. row.state = "WAITING_ANSWERS" => row.rounds \in Rounds
  BY BoundsAssumption DEF WaitsForLatest, SessionRows, Rounds
<1>2. \A n \in Rounds : posted[n] \in Nat /\ posted'[n] \in Nat
  BY DEF TypeOK
<1> QED BY <1>1, <1>2 DEF Told, Grows

\* The committed rows of the briefing stay as they are.
Quiet == UNCHANGED <<session, accepted, asked>> /\ Grows

\* Such a step keeps the committed part of the invariant.
LEMMA QuietRounds ==
  ASSUME IndInv, TypeOK', RoundsInv, Quiet
  PROVE  RoundsInv'
<1>1. Told(session)'
  <2>1. session \in SessionRows /\ WaitsForLatest(session) /\ TypeOK /\ Told(session)
    BY DEF IndInv, TypeOK, SessionOK, RoundsInv
  <2>2. session' = session
    BY DEF Quiet
  <2> QED BY <2>1, <2>2, ToldStays DEF Quiet, Told
<1> QED
  BY <1>1 DEF Quiet, RoundsInv, Closed, AnswersCloseRound, NeverReasked, Answered

\* ... and what a handler carries that it does not move.
LEMMA CarryQuiet ==
  ASSUME IndInv, TypeOK', Quiet, NEW q \in Procs, CarriesOK(q),
         pc'[q] = pc[q], ses'[q] = ses[q], ans'[q] = ans[q], tsk'[q] = tsk[q],
         rowLock'["session"] = q <=> rowLock["session"] = q
  PROVE  CarriesOK(q)'
<1>1. pc[q] = "commit" => Told(ses[q])'
  <2> HAVE pc[q] = "commit"
  <2>1. ses[q] \in SessionRows /\ WaitsForLatest(ses[q]) /\ TypeOK /\ Told(ses[q])
    BY DEF IndInv, TypeOK, HandlerOK, HoldOK, Moves, CarriesOK
  <2> QED BY <2>1, ToldStays DEF Quiet, Told
<1> QED
  BY <1>1 DEF Quiet, CarriesOK, Closed, OfRound, GapsAreOpen

\* A commit by somebody else finds no answers and no round on their way here.
LEMMA CarryCommitted ==
  ASSUME IndInv, NEW q \in Procs, CarriesOK(q), rowLock["session"] # q, rowLock'["session"] # q,
         pc'[q] = pc[q], ses'[q] = ses[q], ans'[q] = ans[q]
  PROVE  CarriesOK(q)'
<1>1. pc[q] \notin Answering \union {"commit"}
  BY DEF IndInv, HandlerOK, HoldOK
<1> QED BY <1>1 DEF CarriesOK, Answering, OfRound

\* The end of a handler concerns nobody else.
LEMMA EndCarries ==
  ASSUME TypeOK, NEW p \in Procs, End(p)
  PROVE  /\ CarriesOK(p)'
         /\ \A q \in Procs \ {p} :
              /\ pc'[q] = pc[q] /\ ses'[q] = ses[q] /\ ans'[q] = ans[q] /\ tsk'[q] = tsk[q]
              /\ rowLock'["session"] = q <=> rowLock["session"] = q
<1>1. pc'[p] = "idle" /\ ans'[p] = {}
  BY DEF End, TypeOK
<1>2. \A q \in Procs \ {p} : ans'[q] = ans[q] /\ tsk'[q] = tsk[q]
  BY DEF End, TypeOK
<1>3. CarriesOK(p)'
  BY <1>1 DEF CarriesOK, Answering
<1> QED BY <1>2, <1>3, EndFrame

\* A handler that ends without a commit of the session.
LEMMA EndRounds ==
  ASSUME IndInv, TypeOK', RoundInv, Quiet, NEW p \in Procs, End(p)
  PROVE  RoundInv'
<1>1. TypeOK
  BY DEF IndInv
<1>2. \A q \in Procs \ {p} : CarriesOK(q)'
  BY <1>1, EndCarries, CarryQuiet DEF RoundInv
<1> QED BY <1>1, <1>2, EndCarries, QuietRounds DEF RoundInv

\* A handler that moves on without a commit of the session.
LEMMA MoveRounds ==
  ASSUME IndInv, TypeOK', RoundInv, Quiet, NEW p \in Procs, NEW l, pc' = [pc EXCEPT ![p] = l],
         \A q \in Procs \ {p} :
           /\ ses'[q] = ses[q] /\ ans'[q] = ans[q] /\ tsk'[q] = tsk[q]
           /\ rowLock'["session"] = q <=> rowLock["session"] = q,
         CarriesOK(p)'
  PROVE  RoundInv'
<1>1. \A q \in Procs \ {p} : pc'[q] = pc[q]
  BY DEF IndInv, TypeOK
<1>2. \A q \in Procs \ {p} : CarriesOK(q)'
  BY <1>1, CarryQuiet DEF RoundInv
<1> QED BY <1>2, QuietRounds DEF RoundInv

\* A handler with no answers that gets to a place where none are needed.
LEMMA MoveEmpty ==
  ASSUME IndInv, IndInv', RoundInv, Quiet, NEW p \in Procs,
         NEW l \in {"in_fetched", "in_saved", "go_locked", "go_authz", "go_reply", "go_release",
                    "ca_task"},
         pc' = [pc EXCEPT ![p] = l], ans'[p] = {},
         l = "ca_task" => rowLock'["session"] # p,
         \A q \in Procs \ {p} :
           /\ ses'[q] = ses[q] /\ ans'[q] = ans[q] /\ tsk'[q] = tsk[q]
           /\ rowLock'["session"] = q <=> rowLock["session"] = q
  PROVE  RoundInv'
<1>1. pc'[p] = l
  BY DEF IndInv, TypeOK
<1>2. CarriesOK(p)'
  BY <1>1 DEF CarriesOK, Answering
<1> QED BY <1>2, MoveRounds DEF IndInv

\* What an answer says about a field of the merged card.
LEMMA MergeOpens ==
  ASSUME NEW card, NEW answers, NEW merged \in MergedCards(card, answers), NEW f \in Gaps(merged)
  PROVE  TextsOf(f, answers) = {} \/ "blank" \in TextsOf(f, answers)
<1>1. f \in Fields /\ merged[f] \in {"none", "blank"}
  BY FieldsAssumption DEF Gaps
<1>2. TextsOf(f, answers) # {} => merged[f] \in TextsOf(f, answers)
  BY <1>1 DEF MergedCards
<1>3. TextsOf(f, answers) \subseteq Texts
  BY DEF TextsOf
<1> QED BY <1>1, <1>2, <1>3 DEF Texts

\* A card that says the same has the same gaps.
LEMMA SameGaps ==
  ASSUME NEW card, NEW other, SameCard(card, other), NEW f \in Gaps(other)
  PROVE  f \in Gaps(card)
<1>1. f \in Fields /\ other[f] \in {"none", "blank"}
  BY FieldsAssumption DEF Gaps
<1>2. SameText(f, card[f], other[f])
  BY <1>1 DEF SameCard
<1>3. card[f] \in {"none", "blank"}
  BY <1>1, <1>2 DEF SameText
<1> QED BY <1>3 DEF Gaps

\* The answers of a comment are all to the round it was written for.
LEMMA ReplyOfRound ==
  ASSUME NEW n \in Rounds, NEW fs \in SUBSET Fields, NEW last \in fs, NEW text \in Texts
  PROVE  OfRound(Reply(n, fs, last, text), n)
<1>1. \A f \in fs : <<n, f, IF f = last THEN text ELSE "answer">> \in Reply(n, fs, last, text)
  BY DEF Reply
<1>2. <<n, last, text>> \in Reply(n, fs, last, text)
  BY <1>1
<1>3. \A a \in Reply(n, fs, last, text) : a[1] = n
  BY DEF Reply
<1> QED BY <1>2, <1>3 DEF OfRound

\* A commit opens a round, takes answers, or both: the rounds stay in step.
LEMMA CommitRounds ==
  ASSUME IndInv, TypeOK', RoundInv, NEW p \in Procs, Commit(p)
  PROVE  RoundsInv'
<1> TypeOK
  BY DEF IndInv
<1>h. HandlerOK(p) /\ CarriesOK(p) /\ SessionOK /\ RoundsInv
  BY DEF IndInv, RoundInv
<1>1. /\ pc[p] = "commit" /\ Moves(p) /\ session' = ses[p]
      /\ accepted' = accepted \union ans[p] /\ UNCHANGED <<posted, notes>>
      /\ asked' = IF ses[p].state = "WAITING_ANSWERS"
                  THEN [asked EXCEPT ![ses[p].active] = Gaps(tsk[p].card)] ELSE asked
  BY <1>h DEF Commit, PublishSession, HandlerOK, HoldOK, outside
<1>t. /\ session.rounds \in 0..MaxRounds /\ ses[p].rounds \in 0..MaxRounds
      /\ asked \in [Rounds -> SUBSET Fields] /\ MaxRounds \in Nat
      /\ accepted \subseteq Answers /\ ans[p] \subseteq Answers
  BY BoundsAssumption DEF TypeOK, SessionRows
<1>2. Told(session)' /\ Closed(session)'
  <2>1. Told(ses[p]) /\ Closed(ses[p])
    BY <1>h, <1>1 DEF CarriesOK
  <2> QED BY <1>1, <2>1 DEF Told, Closed
<1>3. /\ session.state \in {"ABSENT", "WAITING_ANSWERS"}
      /\ session.state = "ABSENT" => session.rounds = 0 /\ ans[p] = {}
      /\ session.state = "WAITING_ANSWERS" => OfRound(ans[p], session.rounds)
      /\ ses[p].state = "WAITING_ANSWERS" =>
           ses[p].active = ses[p].rounds /\ ses[p].rounds = session.rounds + 1
      /\ ses[p].state # "WAITING_ANSWERS" =>
           ses[p].active = 0 /\ ses[p].rounds = session.rounds
  BY <1>h, <1>1 DEF Moves, WaitsForLatest, SessionOK, NoSession, CarriesOK, Closed
<1>4. \A n \in Rounds, f \in Fields, t \in Texts :
        /\ <<n, f, t>> \in accepted => n <= session.rounds
        /\ <<n, f, t>> \in ans[p] => n = session.rounds
  BY <1>h, <1>3 DEF RoundsInv, OfRound
<1>5. \A n \in Rounds, f \in Fields, t \in Texts : <<n, f, t>> \in accepted' => n <= session.rounds
  BY <1>1, <1>4, <1>t DEF Rounds
<1>6. \A n \in Rounds, f \in Fields, t \in Texts : <<n, f, t>> \in accepted' => n <= session'.rounds
  BY <1>1, <1>3, <1>5, <1>t DEF Rounds
<1>7. \A n \in Rounds : n > session'.rounds => asked'[n] = {}
  <2> SUFFICES ASSUME NEW n \in Rounds, n > session'.rounds PROVE asked'[n] = {}
    OBVIOUS
  <2>1. n > session.rounds
    BY <1>1, <1>3, <1>t DEF Rounds
  <2>2. asked[n] = {}
    BY <1>h, <2>1 DEF RoundsInv
  <2>3. ses[p].state = "WAITING_ANSWERS" => ses[p].active # n
    BY <1>1, <1>3, <1>t DEF Rounds
  <2> QED BY <1>1, <1>t, <2>2, <2>3
<1>8. AnswersCloseRound'
  <2> SUFFICES ASSUME NEW n \in Rounds
               PROVE  /\ n = session'.active => ~ \E f \in Fields : Answered(n, f)'
                      /\ n < session'.rounds => \E f \in Fields : Answered(n, f)'
    BY DEF AnswersCloseRound
  <2>1. ASSUME n = session'.active PROVE ~ \E f \in Fields : Answered(n, f)'
    <3>1. n = session.rounds + 1
      BY <1>1, <1>3, <2>1 DEF Rounds
    <3>2. ~ (n <= session.rounds)
      BY <1>t, <3>1
    <3> QED BY <1>5, <3>2 DEF Answered
  <2>2. ASSUME n < session'.rounds PROVE \E f \in Fields : Answered(n, f)'
    <3>1. n < session.rounds \/ n = session.rounds
      BY <1>1, <1>3, <1>t, <2>2 DEF Rounds
    <3>2. CASE n < session.rounds
      BY <1>h, <1>1, <3>2 DEF RoundsInv, AnswersCloseRound, Answered
    <3>3. CASE n = session.rounds
      <4>1. OfRound(ans[p], n)
        BY <1>3, <3>3, <1>t DEF Rounds
      <4> QED BY <1>1, <4>1 DEF OfRound, Answered
    <3> QED BY <3>1, <3>2, <3>3
  <2> QED BY <2>1, <2>2
<1>9. NeverReasked'
  <2> SUFFICES ASSUME NEW n \in Rounds, NEW m \in Rounds, NEW f \in asked'[m], n < m,
                      Answered(n, f)'
               PROVE  \E k \in 1..(m - 1) : <<k, f, "blank">> \in accepted'
    BY DEF NeverReasked
  <2>0. f \in Fields
    BY DEF TypeOK
  <2>1. CASE ses[p].state = "WAITING_ANSWERS" /\ m = ses[p].active
    <3>1. asked'[m] = Gaps(tsk[p].card) /\ m = session.rounds + 1
      BY <1>1, <1>3, <1>t, <2>1
    <3>2. session.state = "WAITING_ANSWERS"
      BY <1>3, <1>t, <3>1 DEF Rounds
    <3>3. GapsAreOpen(p)
      BY <1>h, <1>1, <2>1, <3>2 DEF CarriesOK
    <3>4. TextsOf(f, accepted \union ans[p]) # {}
      BY <1>1, <2>0 DEF Answered, TextsOf
    <3>5. "blank" \in TextsOf(f, accepted \union ans[p])
      BY <3>1, <3>3, <3>4 DEF GapsAreOpen
    <3>6. PICK k \in Rounds : <<k, f, "blank">> \in accepted'
      BY <1>1, <3>5 DEF TextsOf
    <3>7. k <= session.rounds
      BY <1>5, <2>0, <3>6 DEF Texts
    <3>8. k \in 1..(m - 1)
      BY <3>1, <3>7, <1>t DEF Rounds
    <3> QED BY <3>6, <3>8
  <2>2. CASE ~ (ses[p].state = "WAITING_ANSWERS" /\ m = ses[p].active)
    <3>1. f \in asked[m]
      BY <1>1, <1>t, <2>2
    <3>2. m <= session.rounds
      BY <1>h, <1>t, <3>1 DEF RoundsInv, Rounds
    <3>3. n # session.rounds
      BY <3>2, <1>t DEF Rounds
    <3>4. Answered(n, f)
      BY <1>1, <1>4, <2>0, <3>3 DEF Answered
    <3> QED BY <1>h, <1>1, <3>1, <3>4 DEF RoundsInv, NeverReasked
  <2> QED BY <2>1, <2>2
<1> QED BY <1>2, <1>6, <1>7, <1>8, <1>9 DEF RoundsInv

\* A cancel or an approval ends the session and opens, closes and answers nothing more.
LEMMA EndedRounds ==
  ASSUME IndInv, RoundsInv, session'.state \in {"CANCELLED", "APPROVED"}, session'.active = 0,
         session'.rounds = session.rounds, UNCHANGED <<accepted, asked>>
  PROVE  RoundsInv'
<1>1. Told(session)' /\ Closed(session)'
  BY DEF Told, Closed
<1>2. \A n \in Rounds : n # session'.active
  BY BoundsAssumption DEF Rounds
<1>3. AnswersCloseRound'
  BY <1>2 DEF RoundsInv, AnswersCloseRound, Answered
<1>4. NeverReasked'
  BY DEF RoundsInv, NeverReasked, Answered
<1> QED BY <1>1, <1>3, <1>4 DEF RoundsInv

\* Every step keeps the rounds, the answers and the questions in step.
LEMMA RoundStep ==
  ASSUME IndInv, RoundInv, Next
  PROVE  RoundInv'
<1> IndInv' /\ TypeOK /\ TypeOK'
  BY IndStep, TypeStep DEF IndInv
<1>1. CASE LockExpire
  <2>1. Quiet
    BY <1>1 DEF LockExpire, db, Quiet, Grows, TypeOK
  <2>2. \A q \in Procs : CarriesOK(q)'
    BY <1>1, <2>1, CarryQuiet DEF LockExpire, locals, RoundInv
  <2> QED BY <2>1, <2>2, QuietRounds DEF RoundInv
<1> SUFFICES ASSUME NEW p \in Procs, Start(p) \/ Step(p) \/ Abort(p) \/ Crash(p)
             PROVE  RoundInv'
  BY <1>1 DEF Next
<1>h. HandlerOK(p) /\ CarriesOK(p) /\ SessionOK /\ RoundsInv
  BY DEF IndInv, RoundInv
<1>t. /\ session \in SessionRows /\ ses[p] \in SessionRows
      /\ session.rounds \in 0..MaxRounds /\ ses[p].rounds \in 0..MaxRounds
      /\ rowLock["session"] \in Procs \union {NoProc} /\ MaxRounds \in Nat \ {0}
  BY BoundsAssumption DEF TypeOK, SessionRows, LockedRows
<1>f. ASSUME NEW l, pc' = [pc EXCEPT ![p] = l],
             UNCHANGED ses \/ \E x : ses' = [ses EXCEPT ![p] = x],
             UNCHANGED ans \/ \E x : ans' = [ans EXCEPT ![p] = x],
             UNCHANGED tsk \/ \E x : tsk' = [tsk EXCEPT ![p] = x],
             Lock(p, "session") \/ Lock(p, "task") \/ UNCHANGED rowLock
      PROVE  /\ pc'[p] = l
             /\ \A q \in Procs \ {p} :
                  /\ ses'[q] = ses[q] /\ ans'[q] = ans[q] /\ tsk'[q] = tsk[q]
                  /\ rowLock'["session"] = q <=> rowLock["session"] = q
  BY <1>f, LockFrame DEF TypeOK
\* Ends that commit nothing of the session.
<1>2. CASE IntakeInvalid(p) \/ IntakeStarted(p) \/ IntakeClash(p)
  <2>1. Quiet /\ End(p)
    BY <1>2 DEF IntakeInvalid, IntakeStarted, IntakeClash, db, outside, Quiet, Grows, PostNote, TypeOK
  <2> QED BY <2>1, EndRounds
<1>3. CASE AnsStale(p) \/ AnsTaskStale(p) \/ AnsCardInvalid(p)
  <2>1. Quiet /\ End(p)
    BY <1>3 DEF AnsStale, AnsTaskStale, AnsCardInvalid, db, outside, Quiet, Grows, TypeOK
  <2> QED BY <2>1, EndRounds
<1>4. CASE GoRelease(p) \/ Abort(p) \/ Crash(p)
  <2>1. Quiet /\ End(p)
    BY <1>4 DEF GoRelease, Abort, Crash, db, outside, Quiet, Grows, TypeOK
  <2> QED BY <2>1, EndRounds
\* Steps of handlers that carry no answers.
<1>5. CASE IntakeFetch(p) \/ GoStart(p)
  <2>1. PICK l \in {"in_fetched", "go_locked"} : pc[p] = "idle" /\ pc' = [pc EXCEPT ![p] = l]
    BY <1>5 DEF IntakeFetch, GoStart, Begin
  <2>2. Quiet /\ UNCHANGED <<ses, ans, tsk, rowLock>>
    BY <1>5 DEF IntakeFetch, GoStart, db, outside, Quiet, Grows, TypeOK
  <2>3. ans'[p] = {}
    BY <1>h, <2>1, <2>2 DEF CarriesOK, Answering
  <2> QED BY <2>1, <2>2, <2>3, <1>f, MoveEmpty
<1>6. CASE CancelNoSession(p)
  <2>1. pc[p] = "idle" /\ pc' = [pc EXCEPT ![p] = "ca_task"]
    BY <1>6 DEF CancelNoSession, Begin
  <2>2. Quiet /\ UNCHANGED <<ses, ans, tsk, rowLock>>
    BY <1>6 DEF CancelNoSession, db, outside, locals, Quiet, Grows, TypeOK
  <2>3. ans'[p] = {} /\ rowLock'["session"] # p
    BY <1>h, <2>1, <2>2 DEF CarriesOK, Answering, HandlerOK, HoldOK
  <2> QED BY <2>1, <2>2, <2>3, <1>f, MoveEmpty
<1>7. CASE IntakeSave(p)
  <2>1. pc[p] = "in_fetched" /\ pc' = [pc EXCEPT ![p] = "in_saved"]
    BY <1>7 DEF IntakeSave, Goto
  <2>2. /\ Quiet /\ UNCHANGED <<ses, ans>>
        /\ Lock(p, "task") \/ UNCHANGED rowLock
        /\ \E x : tsk' = [tsk EXCEPT ![p] = x]
    BY <1>7 DEF IntakeSave, db, outside, Quiet, Grows, TypeOK
  <2>3. ans'[p] = {}
    BY <1>h, <2>1, <2>2 DEF CarriesOK, Answering
  <2> QED BY <2>1, <2>2, <2>3, <1>f, MoveEmpty
<1>8. CASE GoNoop(p) \/ GoDup(p) \/ GoLoad(p) \/ GoReject(p) \/ GoClash(p) \/ GoReply(p)
  <2>1. PICK l \in {"go_authz", "go_reply", "go_release"} :
          pc[p] \in GoSteps /\ pc' = [pc EXCEPT ![p] = l]
    BY <1>8 DEF GoNoop, GoDup, GoLoad, GoReject, GoClash, GoReply, Goto, GoSteps
  <2>2. /\ Quiet /\ UNCHANGED <<ans, rowLock>>
        /\ UNCHANGED ses \/ \E x : ses' = [ses EXCEPT ![p] = x]
        /\ UNCHANGED tsk \/ \E x : tsk' = [tsk EXCEPT ![p] = x]
    BY <1>8 DEF GoNoop, GoDup, GoLoad, GoReject, GoClash, GoReply, db, outside, locals, Quiet,
                Grows, TypeOK, PostNote
  <2>3. ans'[p] = {}
    BY <1>h, <2>1, <2>2 DEF CarriesOK, Answering, GoSteps
  <2> QED BY <2>1, <2>2, <2>3, <1>f, MoveEmpty
<1>9. CASE CancelSession(p)
  <2> DEFINE next == Transition(session, <<session.state, "CANCELLED">>)
  <2>0. next.active = 0
    BY <1>t, LeavingCloses
  <2>1. pc[p] = "idle" /\ pc' = [pc EXCEPT ![p] = "ca_task"]
    BY <1>9 DEF CancelSession, Begin
  <2>2. Quiet /\ UNCHANGED <<ans, tsk>> /\ Lock(p, "session") /\ ses' = [ses EXCEPT ![p] = next]
    BY <1>9 DEF CancelSession, db, outside, Quiet, Grows, TypeOK
  <2>3. ans'[p] = {} /\ ses'[p] = next
    BY <1>h, <2>1, <2>2 DEF CarriesOK, Answering, TypeOK
  <2> HIDE DEF next
  <2>4. CarriesOK(p)'
    BY <1>f, <2>0, <2>1, <2>2, <2>3 DEF CarriesOK, Answering
  <2> QED BY <2>1, <2>2, <2>4, <1>f, MoveRounds
\* A new briefing.
<1>10. CASE IntakeReady(p)
  <2> DEFINE next == Transition(NewSession, <<"NEW", "COMPLETENESS_CHECK", "READY_FOR_GO">>)
  <2>0. next.state = "READY_FOR_GO" /\ next.active = 0
    BY RowTypes, PathEnds, TwoStepPath, LeavingCloses
  <2>1. pc[p] = "in_saved" /\ pc' = [pc EXCEPT ![p] = "commit"] /\ session.state = "ABSENT"
    BY <1>10 DEF IntakeReady, NoBriefing, Goto
  <2>2. /\ Quiet /\ UNCHANGED <<ans, tsk>> /\ Lock(p, "session")
        /\ ses' = [ses EXCEPT ![p] = next] /\ "ready" \in notes'
    BY <1>10 DEF IntakeReady, NoBriefing, db, Quiet, Grows, TypeOK, PostNote
  <2>3. ans'[p] = {} /\ ses'[p] = next /\ session' = session
    BY <1>h, <2>1, <2>2 DEF CarriesOK, Answering, TypeOK, Quiet
  <2> HIDE DEF next
  <2>4. CarriesOK(p)'
    BY <1>f, <2>0, <2>1, <2>2, <2>3 DEF CarriesOK, Answering, Told, Closed
  <2> QED BY <2>1, <2>2, <2>4, <1>f, MoveRounds
<1>11. CASE IntakeRound(p)
  <2> DEFINE next == WithRound(NewSession, <<"NEW", "QUESTIONS_GENERATED", "WAITING_ANSWERS">>)
  <2>0. next.state = "WAITING_ANSWERS" /\ next.active = 1 /\ next.rounds = 1
    BY <1>t, RowTypes, PathEnds, TwoStepPath
  <2>1. pc[p] = "in_saved" /\ pc' = [pc EXCEPT ![p] = "commit"] /\ session.state = "ABSENT"
    BY <1>11 DEF IntakeRound, NoBriefing, Goto
  <2>2. /\ UNCHANGED <<session, accepted, asked, notes, ans, tsk>> /\ Lock(p, "session")
        /\ ses' = [ses EXCEPT ![p] = next] /\ PostRound(1)
    BY <1>11 DEF IntakeRound, NoBriefing, db
  <2>3. ans'[p] = {} /\ ses'[p] = next
    BY <1>h, <2>1, <2>2 DEF CarriesOK, Answering, TypeOK
  <2>4. Quiet /\ posted'[1] > 0
    BY <1>t, <2>2, PostGrows DEF Quiet, Grows, Rounds
  <2> HIDE DEF next
  <2>5. CarriesOK(p)'
    BY <1>f, <2>0, <2>1, <2>2, <2>3, <2>4 DEF CarriesOK, Answering, Told, Closed
  <2> QED BY <2>1, <2>2, <2>4, <2>5, <1>f, MoveRounds
\* Answers on their way.
<1>12. CASE AnsLoad(p)
  <2>1. pc' = [pc EXCEPT ![p] = "an_loaded"] /\ session.state = "WAITING_ANSWERS"
    BY <1>12 DEF AnsLoad, Begin
  <2>2. Quiet /\ UNCHANGED <<rowLock, tsk>> /\ ses' = [ses EXCEPT ![p] = session]
    BY <1>12 DEF AnsLoad, db, outside, Quiet, Grows, TypeOK
  <2>3. session.active = session.rounds /\ session.rounds \in Rounds
    BY <1>h, <1>t, <2>1 DEF SessionOK, WaitsForLatest, Rounds
  <2>b. PICK fs \in SUBSET asked[session.active] : \E last \in fs, text \in Texts :
          ans' = [ans EXCEPT ![p] = Reply(session.active, fs, last, text)]
    BY <1>12 DEF AnsLoad
  <2>4. PICK last \in fs, text \in Texts :
          ans' = [ans EXCEPT ![p] = Reply(session.active, fs, last, text)]
    BY <2>b
  <2>a. OfRound(ans'[p], session.rounds)
    <3>1. ans'[p] = Reply(session.active, fs, last, text)
      BY <2>4 DEF TypeOK
    <3>2. fs \in SUBSET Fields
      BY <2>3, <2>b DEF TypeOK
    <3> QED BY <2>3, <3>1, <3>2, ReplyOfRound
  <2>5. ses'[p] = session
    BY <2>2 DEF TypeOK
  <2>6. CarriesOK(p)'
    <3>1. pc'[p] = "an_loaded" /\ ses'[p].rounds \in Rounds
      BY <1>f, <2>1, <2>2, <2>3, <2>4, <2>5
    <3>2. OfRound(ans'[p], ses'[p].rounds)
      BY <2>a, <2>5
    <3> QED BY <3>1, <3>2 DEF CarriesOK, Answering
  <2> QED BY <2>1, <2>2, <2>4, <2>6, <1>f, MoveRounds
<1>13. CASE AnsFlush(p)
  <2> DEFINE next == Transition(ses[p], <<"WAITING_ANSWERS", "ANSWERS_RECEIVED",
                                          "COMPLETENESS_CHECK">>)
  <2>0. next.rounds = ses[p].rounds
    BY <1>t, PathEnds, TwoStepPath
  <2>1. pc[p] = "an_loaded" /\ pc' = [pc EXCEPT ![p] = "an_flushed"]
    BY <1>13 DEF AnsFlush, Goto
  <2>2. Quiet /\ UNCHANGED <<ans, tsk>> /\ Lock(p, "session") /\ ses' = [ses EXCEPT ![p] = next]
    BY <1>13 DEF AnsFlush, db, outside, Quiet, Grows, TypeOK
  <2>3. ses'[p] = next
    BY <2>2 DEF TypeOK
  <2> HIDE DEF next
  <2>4. CarriesOK(p)'
    BY <1>f, <1>h, <2>0, <2>1, <2>2, <2>3 DEF CarriesOK, Answering, OfRound
  <2> QED BY <2>1, <2>2, <2>4, <1>f, MoveRounds
<1>14. CASE AnsLoadTask(p)
  <2>1. pc[p] = "an_flushed" /\ pc' = [pc EXCEPT ![p] = "an_task"]
    BY <1>14 DEF AnsLoadTask, Goto
  <2>2. Quiet /\ UNCHANGED <<ans, ses, rowLock>> /\ tsk' = [tsk EXCEPT ![p] = task]
    BY <1>14 DEF AnsLoadTask, db, outside, Quiet, Grows, TypeOK
  <2>3. CarriesOK(p)'
    BY <1>f, <1>h, <2>1, <2>2 DEF CarriesOK, Answering, OfRound
  <2> QED BY <2>1, <2>2, <2>3, <1>f, MoveRounds
<1>15. CASE AnsMerge(p)
  <2>1. pc[p] = "an_task" /\ pc' = [pc EXCEPT ![p] = "an_merged"]
    BY <1>15 DEF AnsMerge, Goto
  <2>2. PICK merged \in MergedCards(tsk[p].card, AnswersSoFar(p)) :
          tsk' = [tsk EXCEPT ![p].card = merged, ![p].ver = @ + 1]
    BY <1>15 DEF AnsMerge
  <2>3. tsk'[p].card = merged /\ \E x : tsk' = [tsk EXCEPT ![p] = x]
    <3>1. tsk[p] \in TaskRows
      BY DEF TypeOK
    <3>2. tsk' = [tsk EXCEPT ![p] = [tsk[p] EXCEPT !.card = merged, !.ver = @ + 1]]
      BY <2>2
    <3>3. tsk'[p] = [tsk[p] EXCEPT !.card = merged, !.ver = @ + 1]
      BY <3>2 DEF TypeOK
    <3> QED BY <3>1, <3>2, <3>3 DEF TaskRows
  <2>4. Quiet /\ UNCHANGED <<ans, ses>> /\ Lock(p, "task")
    BY <1>15 DEF AnsMerge, db, outside, Quiet, Grows, TypeOK
  <2>5. GapsAreOpen(p)'
    BY <2>2, <2>3, <2>4, MergeOpens DEF GapsAreOpen, AnswersSoFar, Quiet
  <2>6. CarriesOK(p)'
    BY <1>f, <1>h, <2>1, <2>3, <2>4, <2>5 DEF CarriesOK, Answering, OfRound
  <2> QED BY <2>1, <2>3, <2>4, <2>6, <1>f, MoveRounds
<1>u. CASE AnsUnchanged(p)
  <2>1. pc[p] = "an_task" /\ pc' = [pc EXCEPT ![p] = "an_merged"]
    BY <1>u DEF AnsUnchanged, Goto
  <2>2. Quiet /\ UNCHANGED <<ans, ses, tsk, rowLock>>
    BY <1>u DEF AnsUnchanged, db, outside, Quiet, Grows, TypeOK
  <2>3. PICK merged \in MergedCards(tsk[p].card, AnswersSoFar(p)) : SameCard(merged, tsk[p].card)
    BY <1>u DEF AnsUnchanged
  <2>4. \A f \in Gaps(tsk[p].card) :
          TextsOf(f, AnswersSoFar(p)) = {} \/ "blank" \in TextsOf(f, AnswersSoFar(p))
    BY <2>3, SameGaps, MergeOpens
  <2>5. GapsAreOpen(p)'
    BY <2>2, <2>4 DEF GapsAreOpen, AnswersSoFar, Quiet
  <2>6. CarriesOK(p)'
    BY <1>f, <1>h, <2>1, <2>2, <2>5 DEF CarriesOK, Answering, OfRound
  <2> QED BY <2>1, <2>2, <2>6, <1>f, MoveRounds
<1>m. ASSUME pc[p] = "an_merged"
      PROVE  /\ session.state = "WAITING_ANSWERS" /\ ses[p].rounds = session.rounds
             /\ OfRound(ans[p], session.rounds) /\ GapsAreOpen(p)
             /\ session.rounds \in Rounds
  BY <1>h, <1>m DEF CarriesOK, HandlerOK, HoldOK, Answering
<1>16. CASE AnsReady(p)
  <2> DEFINE next == Transition(ses[p], <<"COMPLETENESS_CHECK", "READY_FOR_GO">>)
  <2>0. next.state = "READY_FOR_GO" /\ next.active = 0
    BY <1>t, PathEnds, OneStepPath, LeavingCloses
  <2>1. pc[p] = "an_merged" /\ pc' = [pc EXCEPT ![p] = "commit"]
    BY <1>16 DEF AnsReady, Goto
  <2>2. /\ Quiet /\ UNCHANGED <<ans, tsk, rowLock>> /\ ses' = [ses EXCEPT ![p] = next]
        /\ "ready" \in notes'
    BY <1>16 DEF AnsReady, db, Quiet, Grows, TypeOK, PostNote
  <2>3. ses'[p] = next
    BY <2>2 DEF TypeOK
  <2> HIDE DEF next
  <2>4. CarriesOK(p)'
    BY <1>f, <1>m, <2>0, <2>1, <2>2, <2>3
    DEF CarriesOK, Answering, OfRound, Told, Closed, Quiet
  <2> QED BY <2>1, <2>2, <2>4, <1>f, MoveRounds
<1>17. CASE AnsBlocked(p)
  <2> DEFINE next == Transition(ses[p], <<"COMPLETENESS_CHECK", "BLOCKED_MANUAL">>)
  <2>0. next.state = "BLOCKED_MANUAL" /\ next.active = 0
    BY <1>t, PathEnds, OneStepPath, LeavingCloses
  <2>1. pc[p] = "an_merged" /\ pc' = [pc EXCEPT ![p] = "commit"]
    BY <1>17 DEF AnsBlocked, Goto
  <2>2. /\ Quiet /\ UNCHANGED <<ans, tsk, rowLock>> /\ ses' = [ses EXCEPT ![p] = next]
        /\ "blocked" \in notes'
    BY <1>17 DEF AnsBlocked, db, Quiet, Grows, TypeOK, PostNote
  <2>3. ses'[p] = next
    BY <2>2 DEF TypeOK
  <2> HIDE DEF next
  <2>4. CarriesOK(p)'
    BY <1>f, <1>m, <2>0, <2>1, <2>2, <2>3
    DEF CarriesOK, Answering, OfRound, Told, Closed, Quiet
  <2> QED BY <2>1, <2>2, <2>4, <1>f, MoveRounds
<1>18. CASE AnsRound(p)
  <2> DEFINE next == WithRound(ses[p], <<"COMPLETENESS_CHECK", "NEEDS_MORE_INFO",
                                         "WAITING_ANSWERS">>)
  <2>1. /\ pc[p] = "an_merged" /\ pc' = [pc EXCEPT ![p] = "commit"] /\ ses[p].rounds < MaxRounds
    BY <1>18 DEF AnsRound, Goto, RoundsLeft
  <2>0. /\ next.state = "WAITING_ANSWERS" /\ next.active = ses[p].rounds + 1
        /\ next.rounds = ses[p].rounds + 1
    BY <1>t, <2>1, PathEnds, TwoStepPath
  <2>2. /\ UNCHANGED <<session, accepted, asked, notes, ans, tsk, rowLock>>
        /\ ses' = [ses EXCEPT ![p] = next] /\ PostRound(ses[p].rounds + 1)
    BY <1>18 DEF AnsRound, db
  <2>3. ses'[p] = next
    BY <2>2 DEF TypeOK
  <2>4. Quiet /\ posted'[ses[p].rounds + 1] > 0
    <3>1. ses[p].rounds + 1 \in Rounds
      BY <1>t, <2>1 DEF Rounds
    <3> QED BY <2>2, <3>1, PostGrows DEF Quiet, Grows
  <2> HIDE DEF next
  <2>a. pc'[p] = "commit" /\ session' = session /\ ans' = ans
    BY <1>f, <2>1, <2>2
  <2>b. GapsAreOpen(p)'
    BY <1>m, <2>1, <2>2 DEF GapsAreOpen
  <2>c. OfRound(ans'[p], session'.rounds)
    BY <1>m, <2>1, <2>a
  <2>d. Told(ses[p])' /\ Closed(ses[p])'
    BY <1>m, <2>0, <2>1, <2>3, <2>4 DEF Told, Closed
  <2>5. CarriesOK(p)'
    BY <1>m, <2>1, <2>a, <2>b, <2>c, <2>d DEF CarriesOK, Answering
  <2> QED BY <2>1, <2>2, <2>4, <2>5, <1>f, MoveRounds
\* Commits.
<1>19. CASE Commit(p)
  <2>1. rowLock["session"] = p /\ End(p)
    BY <1>19, <1>h DEF Commit, HandlerOK, HoldOK
  <2>2. \A q \in Procs \ {p} : CarriesOK(q)'
    BY <2>1, EndCarries, CarryCommitted DEF RoundInv
  <2> QED BY <1>19, <2>1, <2>2, EndCarries, CommitRounds DEF RoundInv
<1>20. CASE CancelTask(p)
  <2>1. End(p) /\ UNCHANGED <<accepted, asked, posted, notes>> /\ pc[p] = "ca_task"
    BY <1>20 DEF CancelTask, outside
  <2>2. CASE rowLock["session"] # p
    <3>1. Quiet
      BY <1>20, <2>1, <2>2 DEF CancelTask, PublishSession, Quiet, Grows, TypeOK
    <3> QED BY <2>1, <3>1, EndRounds
  <2>3. CASE rowLock["session"] = p
    <3>1. /\ session' = ses[p] /\ ses[p].state = "CANCELLED" /\ ses[p].rounds = session.rounds
          /\ ses[p].active = 0
      BY <1>20, <1>h, <2>1, <2>3 DEF CancelTask, PublishSession, HandlerOK, HoldOK, CarriesOK
    <3>2. \A q \in Procs \ {p} : CarriesOK(q)'
      BY <2>1, <2>3, EndCarries, CarryCommitted DEF RoundInv
    <3> QED BY <1>h, <2>1, <3>1, <3>2, EndCarries, EndedRounds DEF RoundInv
  <2> QED BY <2>2, <2>3
<1>21. CASE GoApprove(p)
  <2> DEFINE next == Transition(ses[p], <<"READY_FOR_GO", "GO_AUTH_CHECK", "APPROVED">>)
  <2>0. next.state = "APPROVED" /\ next.rounds = ses[p].rounds /\ next.active = 0
    BY <1>t, PathEnds, TwoStepPath, LeavingCloses
  <2>1. pc[p] = "go_authz" /\ pc' = [pc EXCEPT ![p] = "go_release"]
    BY <1>21 DEF GoApprove, Goto
  <2>2. /\ session' = next /\ UNCHANGED <<accepted, asked, rowLock, ses, ans, tsk>>
        /\ ses[p].ver = session.ver /\ rowLock["session"] = NoProc
    BY <1>21 DEF GoApprove, SessionCurrent, locals
  <2>3. ses[p] = session
    BY <1>h, <2>1, <2>2 DEF HandlerOK, ReadOK
  <2> HIDE DEF next
  <2>4. RoundsInv'
    BY <1>h, <2>0, <2>2, <2>3, EndedRounds
  <2>5. CarriesOK(p)'
    BY <1>f, <1>h, <2>1, <2>2 DEF CarriesOK, Answering
  <2>6. \A q \in Procs \ {p} : CarriesOK(q)'
    <3> SUFFICES ASSUME NEW q \in Procs \ {p} PROVE CarriesOK(q)'
      OBVIOUS
    <3>1. pc'[q] = pc[q] /\ rowLock["session"] # q /\ rowLock'["session"] # q /\ CarriesOK(q)
      BY <2>1, <2>2, ProcsAssumption DEF RoundInv, TypeOK
    <3> QED BY <2>2, <3>1, CarryCommitted
  <2> QED BY <2>4, <2>5, <2>6 DEF RoundInv
<1> QED
  BY <1>2, <1>3, <1>4, <1>5, <1>6, <1>7, <1>8, <1>9, <1>10, <1>11, <1>12, <1>13, <1>14, <1>15,
     <1>16, <1>17, <1>18, <1>19, <1>20, <1>21, <1>u
  DEF Start, Step

\* The rounds, the answers and what was announced stay in step, whatever handlers race.
THEOREM RoundsInStep == Spec => []RoundInv
<1>1. Init => RoundInv
  <2> SUFFICES ASSUME Init PROVE RoundInv
    OBVIOUS
  <2> USE DEF Init, NoSession, Answering
  <2>1. \A p \in Procs : CarriesOK(p)
    BY ProcsAssumption DEF CarriesOK, LockedRows
  <2>2. Told(session) /\ Closed(session)
    BY DEF Told, Closed
  <2>3. AnswersCloseRound /\ NeverReasked
    BY BoundsAssumption DEF AnswersCloseRound, NeverReasked, Answered, Rounds
  <2> QED BY <2>1, <2>2, <2>3 DEF RoundInv, RoundsInv
<1>2. IndInv /\ RoundInv /\ UNCHANGED vars => RoundInv'
  <2> SUFFICES ASSUME IndInv, RoundInv, UNCHANGED vars PROVE RoundInv'
    OBVIOUS
  <2> USE DEF vars, db, outside, locals
  <2>1. IndInv' /\ TypeOK'
    BY IndStutter DEF IndInv
  <2>2. Quiet
    BY DEF Quiet, Grows, IndInv, TypeOK
  <2>3. \A q \in Procs : CarriesOK(q)'
    BY <2>1, <2>2, CarryQuiet DEF RoundInv
  <2> QED BY <2>1, <2>2, <2>3, QuietRounds DEF RoundInv
<1>3. IndInv /\ RoundInv /\ [Next]_vars => RoundInv'
  BY <1>2, RoundStep
<1> QED BY <1>1, <1>3, Inductive, PTL DEF Spec

\* run_command's single commit: answers and the end of their round appear together.
THEOREM ClosesRounds == Spec => []AnswersCloseRound
<1>1. RoundInv => AnswersCloseRound
  BY DEF RoundInv, RoundsInv
<1> QED BY <1>1, RoundsInStep, PTL

\* accepted_answers_with_dimension: what was answered in words is not asked again.
THEOREM AsksOnce == Spec => []NeverReasked
<1>1. RoundInv => NeverReasked
  BY DEF RoundInv, RoundsInv
<1> QED BY <1>1, RoundsInStep, PTL

\* The comment and the notes come before the commit that relies on them.
THEOREM AnnouncesFirst == Spec => []AnnouncedBefore
<1>1. IndInv /\ RoundInv => AnnouncedBefore
  BY DEF IndInv, SessionOK, WaitsForLatest, RoundInv, RoundsInv, Told, AnnouncedBefore
<1> QED BY <1>1, RoundsInStep, Inductive, PTL
-----------------------------------------------------------------------------
(* The card *)

\* A handler that is where it was, with the task row as it was and more answers perhaps.
LEMMA TaskFrame ==
  ASSUME NEW q \in Procs, TaskOK(q), task' = task, accepted \subseteq accepted',
         pc'[q] = pc[q], ses'[q] = ses[q], ans'[q] = ans[q], tsk'[q] = tsk[q],
         rowLock'["task"] = q <=> rowLock["task"] = q
  PROVE  TaskOK(q)'
<1>1. ans'[q] = ans[q] /\ Kept(q) => Kept(q)'
  BY DEF Kept, TextsOf
<1> QED BY <1>1 DEF TaskOK, TaskRead

\* The task row is committed by somebody else, or answers are.
LEMMA TaskCommitted ==
  ASSUME TypeOK, TypeOK', NEW q \in Procs, TaskOK(q),
         rowLock["task"] # q, rowLock'["task"] # q,
         task' = task \/ task'.ver > task.ver, task.there => task'.there,
         pc'[q] = pc[q], ses'[q] = ses[q], tsk'[q] = tsk[q]
  PROVE  TaskOK(q)'
<1>1. tsk[q].ver \in Nat /\ task.ver \in Nat /\ task'.ver \in Nat
  BY DEF TypeOK, TaskRows
<1> QED BY <1>1 DEF TaskOK, TaskRead

\* The end of a handler releases its lock of the task row, and nobody else's.
LEMMA EndTask ==
  ASSUME TypeOK, NEW p \in Procs, End(p)
  PROVE  /\ TaskOK(p)' /\ rowLock'["task"] # p
         /\ \A q \in Procs \ {p} :
              /\ pc'[q] = pc[q] /\ ses'[q] = ses[q] /\ ans'[q] = ans[q] /\ tsk'[q] = tsk[q]
              /\ rowLock'["task"] = q <=> rowLock["task"] = q
<1>1. rowLock'["task"] = IF rowLock["task"] = p THEN NoProc ELSE rowLock["task"]
  BY DEF End, ReleasedLocks, LockedRows
<1>2. pc'[p] = "idle" /\ rowLock'["task"] # p
  BY <1>1, ProcsAssumption DEF TypeOK, End
<1>3. \A q \in Procs \ {p} :
        /\ pc'[q] = pc[q] /\ ses'[q] = ses[q] /\ ans'[q] = ans[q] /\ tsk'[q] = tsk[q]
        /\ rowLock'["task"] = q <=> rowLock["task"] = q
  BY <1>1, ProcsAssumption DEF TypeOK, End
<1> QED BY <1>2, <1>3 DEF TaskOK

\* A handler that ends without a commit.
LEMMA EndTaskQuiet ==
  ASSUME TypeOK, TaskInv, NEW p \in Procs, End(p), UNCHANGED <<session, task, accepted>>
  PROVE  TaskInv'
<1>1. \A q \in Procs \ {p} : TaskOK(q)'
  BY EndTask, TaskFrame DEF TaskInv
<1> QED BY <1>1, EndTask DEF TaskInv

\* A handler that moves on without a commit.
LEMMA MoveTask ==
  ASSUME TypeOK, TaskInv, NEW p \in Procs, NEW l, pc' = [pc EXCEPT ![p] = l],
         UNCHANGED <<session, task, accepted>>,
         \A q \in Procs \ {p} :
           /\ ses'[q] = ses[q] /\ ans'[q] = ans[q] /\ tsk'[q] = tsk[q]
           /\ rowLock'["task"] = q <=> rowLock["task"] = q,
         TaskOK(p)'
  PROVE  TaskInv'
<1>1. \A q \in Procs \ {p} : pc'[q] = pc[q]
  BY DEF TypeOK
<1>2. \A q \in Procs \ {p} : TaskOK(q)'
  BY <1>1, TaskFrame DEF TaskInv
<1> QED BY <1>2 DEF TaskInv

\* The card that answers were merged into keeps what they are silent about.
LEMMA MergeKeeps ==
  ASSUME NEW card, NEW answers, NEW merged \in MergedCards(card, answers), NEW f \in Fields
  PROVE  merged[f] = card[f] \/ TextsOf(f, answers) # {}
BY DEF MergedCards

\* Every step keeps the task row and its lock in step with the session.
LEMMA TaskStep ==
  ASSUME IndInv, RoundInv, TaskInv, Next
  PROVE  TaskInv'
<1> TypeOK /\ TypeOK'
  BY TypeStep DEF IndInv
<1>1. CASE LockExpire
  <2>1. \A q \in Procs : TaskOK(q)'
    BY <1>1, TaskFrame DEF LockExpire, db, locals, TaskInv
  <2> QED BY <1>1, <2>1 DEF LockExpire, db, TaskInv
<1> SUFFICES ASSUME NEW p \in Procs, Start(p) \/ Step(p) \/ Abort(p) \/ Crash(p)
             PROVE  TaskInv'
  BY <1>1 DEF Next
<1>h. HandlerOK(p) /\ TaskOK(p) /\ CarriesOK(p) /\ SessionOK
  BY DEF IndInv, TaskInv, RoundInv
<1>t. /\ task \in TaskRows /\ tsk[p] \in TaskRows /\ ses[p] \in SessionRows
      /\ task.ver \in Nat /\ tsk[p].ver \in Nat
  BY DEF TypeOK, TaskRows
<1>f. ASSUME NEW l, pc' = [pc EXCEPT ![p] = l],
             UNCHANGED ses \/ \E x : ses' = [ses EXCEPT ![p] = x],
             UNCHANGED ans \/ \E x : ans' = [ans EXCEPT ![p] = x],
             UNCHANGED tsk \/ \E x : tsk' = [tsk EXCEPT ![p] = x],
             Lock(p, "session") \/ Lock(p, "task") \/ UNCHANGED rowLock
      PROVE  /\ pc'[p] = l
             /\ \A q \in Procs \ {p} :
                  /\ ses'[q] = ses[q] /\ ans'[q] = ans[q] /\ tsk'[q] = tsk[q]
                  /\ rowLock'["task"] = q <=> rowLock["task"] = q
  BY <1>f, ProcsAssumption DEF TypeOK, Lock, LockedRows
<1>l. /\ Lock(p, "session") \/ UNCHANGED rowLock => rowLock'["task"] = rowLock["task"]
      /\ Lock(p, "task") => rowLock'["task"] = p /\ rowLock["task"] = NoProc
  BY DEF TypeOK, Lock, LockedRows
\* Ends without a commit.
<1>2. CASE IntakeInvalid(p) \/ IntakeClash(p)
  BY <1>2, EndTaskQuiet DEF IntakeInvalid, IntakeClash, db
<1>3. CASE AnsStale(p) \/ AnsTaskStale(p) \/ AnsCardInvalid(p)
  BY <1>3, EndTaskQuiet DEF AnsStale, AnsTaskStale, AnsCardInvalid, db
<1>4. CASE GoRelease(p) \/ Abort(p) \/ Crash(p)
  BY <1>4, EndTaskQuiet DEF GoRelease, Abort, Crash, db
\* Steps that leave the task row to others.
<1>5. ASSUME NEW l \in {"in_fetched", "go_locked", "go_authz", "go_reply", "go_release", "ca_task",
                        "an_loaded", "an_flushed"},
             pc' = [pc EXCEPT ![p] = l], UNCHANGED <<session, task, accepted>>,
             pc[p] \notin {"in_saved", "an_merged", "commit"},
             UNCHANGED ses \/ \E x : ses' = [ses EXCEPT ![p] = x],
             UNCHANGED ans \/ \E x : ans' = [ans EXCEPT ![p] = x],
             UNCHANGED tsk \/ \E x : tsk' = [tsk EXCEPT ![p] = x],
             Lock(p, "session") \/ UNCHANGED rowLock
      PROVE  TaskInv'
  <2>1. TaskOK(p)'
    BY <1>5, <1>f, <1>h, <1>l DEF TaskOK
  <2> QED BY <1>5, <1>f, <2>1, MoveTask
<1>6. CASE IntakeFetch(p)
  <2>1. pc[p] = "idle" /\ pc' = [pc EXCEPT ![p] = "in_fetched"]
    BY <1>6 DEF IntakeFetch, Begin
  <2>2. UNCHANGED <<session, task, accepted, ses, ans, tsk, rowLock>>
    BY <1>6 DEF IntakeFetch, db
  <2> QED BY <1>5, <2>1, <2>2
<1>7. CASE GoStart(p) \/ CancelNoSession(p)
  <2>1. pc[p] = "idle" /\ \E l \in {"go_locked", "ca_task"} : pc' = [pc EXCEPT ![p] = l]
    BY <1>7 DEF GoStart, CancelNoSession, Begin
  <2>2. UNCHANGED <<session, task, accepted, ses, ans, tsk, rowLock>>
    BY <1>7 DEF GoStart, CancelNoSession, db, locals
  <2> QED BY <1>5, <2>1, <2>2
<1>8. CASE CancelSession(p)
  <2>1. pc[p] = "idle" /\ pc' = [pc EXCEPT ![p] = "ca_task"]
    BY <1>8 DEF CancelSession, Begin
  <2>2. /\ UNCHANGED <<session, task, accepted, ans, tsk>> /\ Lock(p, "session")
        /\ ses' = [ses EXCEPT ![p] = Transition(session, <<session.state, "CANCELLED">>)]
    BY <1>8 DEF CancelSession, db
  <2> QED BY <1>5, <2>1, <2>2
<1>9. CASE AnsLoad(p)
  <2>1. pc[p] = "idle" /\ pc' = [pc EXCEPT ![p] = "an_loaded"]
    BY <1>9 DEF AnsLoad, Begin
  <2>2. UNCHANGED <<session, task, accepted, tsk, rowLock>> /\ ses' = [ses EXCEPT ![p] = session]
    BY <1>9 DEF AnsLoad, db
  <2>3. PICK fs \in SUBSET asked[session.active] : \E last \in fs, text \in Texts :
          ans' = [ans EXCEPT ![p] = Reply(session.active, fs, last, text)]
    BY <1>9 DEF AnsLoad
  <2>4. \E x : ans' = [ans EXCEPT ![p] = x]
    BY <2>3
  <2> QED BY <1>5, <2>1, <2>2, <2>4
<1>10. CASE AnsFlush(p)
  <2>1. pc[p] = "an_loaded" /\ pc' = [pc EXCEPT ![p] = "an_flushed"]
    BY <1>10 DEF AnsFlush, Goto
  <2>2. /\ UNCHANGED <<session, task, accepted, ans, tsk>> /\ Lock(p, "session")
        /\ \E x : ses' = [ses EXCEPT ![p] = x]
    BY <1>10 DEF AnsFlush, db
  <2> QED BY <1>5, <2>1, <2>2
<1>11. CASE GoNoop(p) \/ GoDup(p) \/ GoLoad(p) \/ GoReject(p) \/ GoClash(p) \/ GoReply(p)
  <2>1. /\ pc[p] \in GoSteps
        /\ \E l \in {"go_authz", "go_reply", "go_release"} : pc' = [pc EXCEPT ![p] = l]
    BY <1>11 DEF GoNoop, GoDup, GoLoad, GoReject, GoClash, GoReply, Goto, GoSteps
  <2>2. /\ UNCHANGED <<session, task, accepted, ans, rowLock>>
        /\ UNCHANGED ses \/ \E x : ses' = [ses EXCEPT ![p] = x]
        /\ UNCHANGED tsk \/ \E x : tsk' = [tsk EXCEPT ![p] = x]
    BY <1>11 DEF GoNoop, GoDup, GoLoad, GoReject, GoClash, GoReply, db, locals
  <2>3. pc[p] \notin {"in_saved", "an_merged", "commit"}
    BY <2>1 DEF GoSteps
  <2> QED BY <1>5, <2>1, <2>2, <2>3
\* The task row is read or flushed.
<1>12. CASE IntakeSave(p)
  <2> DEFINE card == NativeCard(raw[p])
             saved == [task EXCEPT !.there = TRUE, !.card = card,
                                   !.reviewer = ReviewerField \in raw[p]]
  <2>0. saved \in TaskRows /\ saved.there /\ saved.ver = task.ver
    <3>1. card \in Cards /\ (ReviewerField \in raw[p]) \in BOOLEAN
      BY RowTypes DEF TypeOK
    <3> HIDE DEF card
    <3>2. saved \in TaskRows
      BY <1>t, <3>1, TaskRowUpdates, Zenon
    <3>3. saved.there /\ saved.ver = task.ver
      BY <1>t DEF TaskRows
    <3> QED BY <3>2, <3>3
  <2>1. /\ pc[p] = "in_fetched" /\ pc' = [pc EXCEPT ![p] = "in_saved"]
        /\ UNCHANGED <<session, task, accepted, ses, ans>>
    BY <1>12 DEF IntakeSave, Goto, db
  <2>2. \/ task.there /\ tsk' = [tsk EXCEPT ![p] = task] /\ UNCHANGED rowLock
        \/ Lock(p, "task") /\ tsk' = [tsk EXCEPT ![p] = [saved EXCEPT !.ver = @ + 1]]
    BY <1>12 DEF IntakeSave
  <2> HIDE DEF saved
  <2>3. CASE task.there /\ tsk' = [tsk EXCEPT ![p] = task] /\ UNCHANGED rowLock
    <3>1. rowLock["task"] # p
      BY <1>h, <2>1 DEF TaskOK
    <3>2. TaskOK(p)'
      BY <1>f, <2>0, <2>1, <2>3, <3>1 DEF TaskOK
    <3> QED BY <1>f, <2>1, <2>3, <3>2, MoveTask
  <2>4. CASE Lock(p, "task") /\ tsk' = [tsk EXCEPT ![p] = [saved EXCEPT !.ver = @ + 1]]
    <3>1. tsk'[p].there /\ tsk'[p].ver = task.ver + 1
      <4>1. tsk'[p] = [saved EXCEPT !.ver = @ + 1]
        BY <2>4 DEF TypeOK
      <4> QED BY <2>0, <4>1 DEF TaskRows
    <3>2. pc'[p] = "in_saved" /\ rowLock'["task"] = p /\ task' = task
      BY <1>f, <1>l, <2>1, <2>4
    <3>3. tsk'[p].ver > task.ver
      BY <1>t, <3>1
    <3>4. TaskOK(p)'
      BY <3>1, <3>2, <3>3 DEF TaskOK
    <3> QED BY <1>f, <2>1, <2>4, <3>4, MoveTask
  <2> QED BY <2>2, <2>3, <2>4
<1>13. CASE AnsLoadTask(p)
  <2>1. pc[p] = "an_flushed" /\ pc' = [pc EXCEPT ![p] = "an_task"]
    BY <1>13 DEF AnsLoadTask, Goto
  <2>2. /\ UNCHANGED <<session, task, accepted, ses, ans, rowLock>>
        /\ tsk' = [tsk EXCEPT ![p] = task]
    BY <1>13 DEF AnsLoadTask, db
  <2>3. task.there /\ rowLock["task"] # p /\ tsk'[p] = task
    BY <1>h, <2>1, <2>2 DEF TaskInv, HandlerOK, HoldOK, Answering, TaskOK, TypeOK
  <2>4. TaskOK(p)'
    BY <1>f, <1>t, <2>1, <2>2, <2>3 DEF TaskOK, TaskRead
  <2> QED BY <1>f, <2>1, <2>2, <2>4, MoveTask
<1>14. CASE AnsMerge(p)
  <2>1. pc[p] = "an_task" /\ pc' = [pc EXCEPT ![p] = "an_merged"]
    BY <1>14 DEF AnsMerge, Goto
  <2>2. PICK merged \in MergedCards(tsk[p].card, AnswersSoFar(p)) :
          tsk' = [tsk EXCEPT ![p].card = merged, ![p].ver = @ + 1]
    BY <1>14 DEF AnsMerge
  <2>3. /\ UNCHANGED <<session, task, accepted, ses, ans>> /\ Lock(p, "task")
        /\ tsk[p].ver = task.ver
    BY <1>14 DEF AnsMerge, db, TaskCurrent
  <2>4. tsk[p] = task /\ task.there
    BY <1>h, <1>l, <2>1, <2>3, ProcsAssumption DEF TaskOK, TaskRead
  <2>5. /\ tsk'[p].card = merged /\ tsk'[p].there /\ tsk'[p].ver = task.ver + 1
        /\ \E x : tsk' = [tsk EXCEPT ![p] = x]
    <3>1. tsk' = [tsk EXCEPT ![p] = [tsk[p] EXCEPT !.card = merged, !.ver = @ + 1]]
      BY <2>2
    <3>2. tsk'[p] = [tsk[p] EXCEPT !.card = merged, !.ver = @ + 1]
      BY <3>1 DEF TypeOK
    <3> QED BY <1>t, <2>4, <3>1, <3>2 DEF TaskRows
  <2>6. Kept(p)'
    BY <2>2, <2>3, <2>4, <2>5, MergeKeeps DEF Kept, AnswersSoFar
  <2>a. pc'[p] = "an_merged" /\ rowLock'["task"] = p /\ task' = task
    BY <1>f, <1>l, <2>1, <2>3, <2>5
  <2>b. tsk'[p].ver > task.ver
    BY <1>t, <2>5
  <2>7. TaskOK(p)'
    BY <2>5, <2>6, <2>a, <2>b DEF TaskOK
  <2> QED BY <1>f, <2>1, <2>3, <2>5, <2>7, MoveTask
<1>u. CASE AnsUnchanged(p)
  <2>1. pc[p] = "an_task" /\ pc' = [pc EXCEPT ![p] = "an_merged"]
    BY <1>u DEF AnsUnchanged, Goto
  <2>2. UNCHANGED <<session, task, accepted, ses, ans, tsk, rowLock>>
    BY <1>u DEF AnsUnchanged, db
  <2>3. TaskOK(p)'
    BY <1>f, <1>h, <2>1, <2>2 DEF TaskOK, TaskRead
  <2> QED BY <1>f, <2>1, <2>2, <2>3, MoveTask
\* Steps to the commit.
<1>15. CASE IntakeReady(p) \/ IntakeRound(p)
  <2>1. /\ pc[p] = "in_saved" /\ pc' = [pc EXCEPT ![p] = "commit"] /\ session.state = "ABSENT"
        /\ UNCHANGED <<session, task, accepted, ans, tsk>> /\ Lock(p, "session")
        /\ \E x : ses' = [ses EXCEPT ![p] = x]
    BY <1>15 DEF IntakeReady, IntakeRound, NoBriefing, Goto, db
  <2>2. rowLock["task"] = p /\ rowLock'["task"] = p /\ ans[p] = {}
    BY <1>h, <1>l, <2>1 DEF TaskOK, TaskInv, CarriesOK, Answering
  <2>3. ses'[p].state = "READY_FOR_GO" => Gaps(tsk[p].card) = {}
    <3>1. CASE IntakeReady(p)
      BY <3>1 DEF IntakeReady, NoBriefing
    <3>2. CASE IntakeRound(p)
      <4> DEFINE next == WithRound(NewSession, <<"NEW", "QUESTIONS_GENERATED", "WAITING_ANSWERS">>)
      <4>1. next.state = "WAITING_ANSWERS"
        BY RowTypes, PathEnds, TwoStepPath, BoundsAssumption
      <4>2. ses' = [ses EXCEPT ![p] = next]
        BY <3>2 DEF IntakeRound, NoBriefing
      <4> HIDE DEF next
      <4> QED BY <4>1, <4>2 DEF TypeOK
    <3> QED BY <1>15, <3>1, <3>2
  <2>4. TaskOK(p)'
    BY <1>f, <1>h, <2>1, <2>2, <2>3 DEF TaskOK
  <2> QED BY <1>f, <2>1, <2>4, MoveTask
<1>16. CASE AnsReady(p) \/ AnsBlocked(p) \/ AnsRound(p)
  <2>1. /\ pc[p] = "an_merged" /\ pc' = [pc EXCEPT ![p] = "commit"]
        /\ UNCHANGED <<session, task, accepted, ans, tsk, rowLock>>
        /\ \E x : ses' = [ses EXCEPT ![p] = x]
    BY <1>16 DEF AnsReady, AnsBlocked, AnsRound, Goto, db
  <2>2. ses'[p].state = "READY_FOR_GO" => Gaps(tsk[p].card) = {}
    <3>1. CASE AnsReady(p)
      BY <3>1 DEF AnsReady, Missing
    <3>2. CASE AnsBlocked(p)
      <4> DEFINE next == Transition(ses[p], <<"COMPLETENESS_CHECK", "BLOCKED_MANUAL">>)
      <4>1. next.state = "BLOCKED_MANUAL"
        BY <1>t, PathEnds, OneStepPath
      <4>2. ses' = [ses EXCEPT ![p] = next]
        BY <3>2 DEF AnsBlocked
      <4> HIDE DEF next
      <4> QED BY <4>1, <4>2 DEF TypeOK
    <3>3. CASE AnsRound(p)
      <4> DEFINE next == WithRound(ses[p], <<"COMPLETENESS_CHECK", "NEEDS_MORE_INFO",
                                             "WAITING_ANSWERS">>)
      <4>1. next.state = "WAITING_ANSWERS"
        BY <1>t, <3>3, PathEnds, TwoStepPath DEF AnsRound, RoundsLeft
      <4>2. ses' = [ses EXCEPT ![p] = next]
        BY <3>3 DEF AnsRound
      <4> HIDE DEF next
      <4> QED BY <4>1, <4>2 DEF TypeOK
    <3> QED BY <1>16, <3>1, <3>2, <3>3
  <2>3. rowLock["task"] = p => Kept(p)'
    BY <1>h, <2>1 DEF TaskOK, Kept
  <2>4. TaskOK(p)'
    BY <1>f, <1>h, <2>1, <2>2, <2>3 DEF TaskOK, TaskRead
  <2> QED BY <1>f, <2>1, <2>4, MoveTask
\* Commits.
<1>17. CASE IntakeStarted(p) \/ Commit(p)
  <2>1. End(p) /\ PublishTask(p) /\ pc[p] \in {"in_saved", "commit"} /\ accepted \subseteq accepted'
    BY <1>17 DEF IntakeStarted, Commit
  <2>2. session'.state # "ABSENT"
    BY <1>17, <1>h DEF IntakeStarted, IsActive, Commit, PublishSession, HandlerOK, HoldOK, Moves
  <2>3. CASE rowLock["task"] # p
    <3>1. task' = task /\ task.there
      BY <1>h, <2>1, <2>3 DEF PublishTask, TaskOK, TaskRead
    <3>2. \A q \in Procs \ {p} : TaskOK(q)'
      BY <2>1, <3>1, EndTask, TaskFrame DEF TaskInv
    <3> QED BY <2>1, <2>2, <3>1, <3>2, EndTask DEF TaskInv
  <2>4. CASE rowLock["task"] = p
    <3>1. task' = tsk[p] /\ task'.there /\ task'.ver > task.ver
      BY <1>h, <2>1, <2>4 DEF PublishTask, TaskOK
    <3>2. \A q \in Procs \ {p} : TaskOK(q)'
      BY <2>1, <2>4, <3>1, EndTask, TaskCommitted DEF TaskInv
    <3> QED BY <2>1, <2>2, <3>1, <3>2, EndTask DEF TaskInv
  <2> QED BY <2>3, <2>4
<1>18. CASE CancelTask(p)
  <2>1. End(p) /\ UNCHANGED accepted /\ pc[p] = "ca_task" /\ rowLock["task"] # p
    BY <1>18, <1>h DEF CancelTask, TaskOK
  <2>2. (session'.state # "ABSENT") <=> (session.state # "ABSENT")
    BY <1>18, <1>h DEF CancelTask, PublishSession, HandlerOK, HoldOK, IsActive
  <2>3. \/ task' = task
        \/ /\ task.there /\ rowLock["task"] = NoProc
           /\ task' = [task EXCEPT !.cancelled = TRUE, !.ver = @ + 1]
    BY <1>18 DEF CancelTask
  <2>4. CASE task' = task
    <3>1. \A q \in Procs \ {p} : TaskOK(q)'
      BY <2>1, <2>4, EndTask, TaskFrame DEF TaskInv
    <3> QED BY <2>1, <2>2, <2>4, <3>1, EndTask DEF TaskInv
  <2>5. CASE /\ task.there /\ rowLock["task"] = NoProc
             /\ task' = [task EXCEPT !.cancelled = TRUE, !.ver = @ + 1]
    <3>1. task'.there /\ task'.ver > task.ver
      BY <1>t, <2>5 DEF TaskRows
    <3>2. \A q \in Procs \ {p} : rowLock["task"] # q /\ rowLock'["task"] # q
      BY <2>1, <2>5, EndTask, ProcsAssumption
    <3>3. \A q \in Procs \ {p} : TaskOK(q)'
      BY <2>1, <3>1, <3>2, EndTask, TaskCommitted DEF TaskInv
    <3> QED BY <2>1, <2>2, <2>5, <3>1, <3>3, EndTask DEF TaskInv
  <2> QED BY <2>3, <2>4, <2>5
<1>19. CASE GoApprove(p)
  <2> DEFINE next == Transition(ses[p], <<"READY_FOR_GO", "GO_AUTH_CHECK", "APPROVED">>)
  <2>0. next.state = "APPROVED"
    BY <1>t, PathEnds, TwoStepPath
  <2>1. /\ pc[p] = "go_authz" /\ pc' = [pc EXCEPT ![p] = "go_release"]
        /\ ses[p].ver = session.ver /\ ses[p].state = "READY_FOR_GO"
        /\ session' = next /\ UNCHANGED <<task, accepted, rowLock, ses, ans, tsk>>
    BY <1>19 DEF GoApprove, Goto, SessionCurrent, CanWalk, locals
  <2>2. session.state = "READY_FOR_GO"
    BY <1>h, <2>1 DEF HandlerOK, ReadOK
  <2> HIDE DEF next
  <2>3. TaskOK(p)'
    BY <1>f, <1>h, <2>1 DEF TaskOK
  <2>4. \A q \in Procs \ {p} : TaskOK(q)'
    BY <2>1, TaskFrame DEF TaskInv, TypeOK
  <2> QED BY <2>0, <2>1, <2>2, <2>3, <2>4 DEF TaskInv
<1> QED
  BY <1>2, <1>3, <1>4, <1>6, <1>7, <1>8, <1>9, <1>10, <1>11, <1>12, <1>13, <1>14, <1>15, <1>16,
     <1>17, <1>18, <1>19, <1>u
  DEF Start, Step

\* The stored card is changed by whoever holds its lock, and the row is there with the session.
THEOREM CardInStep == Spec => []TaskInv
<1>1. Init => TaskInv
  <2> SUFFICES ASSUME Init PROVE TaskInv
    OBVIOUS
  <2>1. \A p \in Procs : TaskOK(p)
    BY ProcsAssumption DEF Init, TaskOK, LockedRows
  <2> QED BY <2>1 DEF Init, TaskInv, NoTask, NoSession
<1>2. TaskInv /\ UNCHANGED vars => TaskInv'
  <2> SUFFICES ASSUME TaskInv, UNCHANGED vars PROVE TaskInv'
    OBVIOUS
  <2>1. \A q \in Procs : TaskOK(q)'
    BY TaskFrame DEF vars, db, locals, TaskInv
  <2> QED BY <2>1 DEF vars, db, TaskInv
<1>3. IndInv /\ RoundInv /\ TaskInv /\ [Next]_vars => TaskInv'
  BY <1>2, TaskStep
<1> QED BY <1>1, <1>3, Inductive, RoundsInStep, PTL DEF Spec

\* Answers and a ready session are committed by Commit alone.
LEMMA OnlyCommit ==
  ASSUME IndInv, Next,
         \/ accepted' # accepted
         \/ session.state # "READY_FOR_GO" /\ session'.state = "READY_FOR_GO"
  PROVE  \E p \in Procs : Commit(p)
<1> SUFFICES ASSUME \A p \in Procs : ~ Commit(p) PROVE FALSE
  OBVIOUS
<1>1. ~ LockExpire
  BY DEF LockExpire, db
<1>2. PICK p \in Procs : Start(p) \/ Step(p) \/ Abort(p) \/ Crash(p)
  BY <1>1 DEF Next
<1>h. HandlerOK(p) /\ ses[p] \in SessionRows
  BY DEF IndInv, TypeOK
<1>3. ~ Start(p) /\ ~ Abort(p) /\ ~ Crash(p)
  BY DEF Start, IntakeFetch, AnsLoad, GoStart, CancelSession, CancelNoSession, Abort, Crash, db
<1>4. ~ (\/ IntakeInvalid(p) \/ IntakeSave(p) \/ IntakeStarted(p) \/ IntakeClash(p)
         \/ IntakeReady(p) \/ IntakeRound(p))
  BY DEF IntakeInvalid, IntakeSave, IntakeStarted, IntakeClash, IntakeReady, IntakeRound, db
<1>5. ~ (\/ AnsFlush(p) \/ AnsStale(p) \/ AnsLoadTask(p) \/ AnsMerge(p) \/ AnsUnchanged(p)
               \/ AnsTaskStale(p)
         \/ AnsReady(p) \/ AnsBlocked(p) \/ AnsRound(p) \/ AnsCardInvalid(p))
  BY DEF AnsFlush, AnsStale, AnsLoadTask, AnsMerge, AnsUnchanged, AnsTaskStale, AnsReady, AnsBlocked, AnsRound,
         AnsCardInvalid, db
<1>6. ~ (\/ GoNoop(p) \/ GoDup(p) \/ GoLoad(p) \/ GoReject(p) \/ GoClash(p) \/ GoReply(p)
         \/ GoRelease(p))
  BY DEF GoNoop, GoDup, GoLoad, GoReject, GoClash, GoReply, GoRelease, db
<1>7. ~ CancelTask(p)
  BY <1>h DEF CancelTask, PublishSession, HandlerOK, HoldOK
<1>8. ~ GoApprove(p)
  <2> SUFFICES ASSUME GoApprove(p) PROVE FALSE
    OBVIOUS
  <2> DEFINE next == Transition(ses[p], <<"READY_FOR_GO", "GO_AUTH_CHECK", "APPROVED">>)
  <2>1. next.state = "APPROVED"
    BY <1>h, PathEnds, TwoStepPath
  <2>2. session' = next /\ accepted' = accepted
    BY DEF GoApprove
  <2> HIDE DEF next
  <2> QED BY <2>1, <2>2
<1> QED BY <1>2, <1>3, <1>4, <1>5, <1>6, <1>7, <1>8 DEF Step

\* finalize_round and intake_task: the session becomes ready together with a complete card,
\* unless an edit has overtaken answers that had nothing to write.
THEOREM ReadyWithCard == Spec => ReadyIsComplete
<1>1. IndInv /\ TaskInv /\ [Next]_vars =>
        [session.state # "READY_FOR_GO" /\ session'.state = "READY_FOR_GO"
           => /\ task'.there
              /\ \/ Gaps(task'.card) = {}
                 \/ \E p \in Procs : pc[p] = "commit" /\ pc'[p] = "idle" /\ Overtaken(p)]_vars
  <2> SUFFICES ASSUME IndInv, TaskInv, Next, session.state # "READY_FOR_GO",
                      session'.state = "READY_FOR_GO"
               PROVE  /\ task'.there
                      /\ \/ Gaps(task'.card) = {}
                         \/ \E p \in Procs : pc[p] = "commit" /\ pc'[p] = "idle" /\ Overtaken(p)
    OBVIOUS
  <2>1. PICK p \in Procs : Commit(p)
    BY OnlyCommit
  <2>2. TaskOK(p) /\ HandlerOK(p) /\ tsk[p].ver \in Nat /\ task.ver \in Nat
    BY DEF TaskInv, IndInv, TypeOK, TaskRows
  <2>3. /\ pc[p] = "commit" /\ pc'[p] = "idle" /\ session' = ses[p]
        /\ task' = IF rowLock["task"] = p THEN tsk[p] ELSE task
    BY <2>1, <2>2 DEF Commit, End, PublishTask, PublishSession, HandlerOK, HoldOK, IndInv, TypeOK
  <2>4. CASE rowLock["task"] = p
    BY <2>2, <2>3, <2>4 DEF TaskOK
  <2>5. CASE rowLock["task"] # p
    <3>1. task.there /\ (tsk[p] = task \/ tsk[p].ver < task.ver) /\ Gaps(tsk[p].card) = {}
      BY <2>2, <2>3, <2>5 DEF TaskOK, TaskRead
    <3> QED BY <2>3, <2>5, <3>1 DEF Overtaken
  <2> QED BY <2>4, <2>5
<1> QED BY <1>1, CardInStep, Inductive, PTL DEF Spec, ReadyIsComplete

\* The version column of task_state: answers keep the fields they say nothing about.
THEOREM KeepsCard == Spec => AnswersKeepCard
<1>1. IndInv /\ TaskInv /\ [Next]_vars =>
        [accepted' # accepted
           => \A f \in Fields : \/ task'.card[f] = task.card[f]
                                \/ \E n \in Rounds : Answered(n, f)']_vars
  <2> SUFFICES ASSUME IndInv, TaskInv, Next, accepted' # accepted, NEW f \in Fields
               PROVE  task'.card[f] = task.card[f] \/ \E n \in Rounds : Answered(n, f)'
    OBVIOUS
  <2>1. PICK p \in Procs : Commit(p)
    BY OnlyCommit
  <2>2. TaskOK(p)
    BY DEF TaskInv
  <2>3. /\ accepted' = accepted \union ans[p]
        /\ task' = task \/ (task' = tsk[p] /\ Kept(p))
    <3>1. accepted' = accepted \union ans[p] /\ ans[p] # {}
      BY <2>1 DEF Commit
    <3> QED BY <2>1, <2>2, <3>1 DEF Commit, PublishTask, TaskOK
  <2> QED BY <2>3 DEF Kept, TextsOf, Answered
<1> QED BY <1>1, CardInStep, Inductive, PTL DEF Spec, AnswersKeepCard

\* Intake takes the rows in the one order and answers and cancel in the other, but whoever
\* holds the row of a session that is there keeps intake from asking for it.
THEOREM NoRowDeadlock == Spec => []NoLockCycle
<1>1. IndInv /\ TaskInv => NoLockCycle
  <2> SUFFICES ASSUME IndInv, TaskInv, NEW p \in Procs, NEW q \in Procs,
                      WaitsFor(p, q), WaitsFor(q, p)
               PROVE  FALSE
    BY DEF NoLockCycle
  <2>1. HandlerOK(p) /\ HandlerOK(q) /\ TaskOK(p) /\ TaskOK(q)
    BY DEF IndInv, TaskInv
  <2>2. ASSUME NEW s \in Procs, HandlerOK(s), rowLock["session"] = s
        PROVE  ~ Needs(s, "session") /\ (Needs(s, "task") => session.state # "ABSENT")
    BY <2>2 DEF HandlerOK, HoldOK, Needs, Answering, IsActive
  <2>3. ASSUME NEW t \in Procs, TaskOK(t), rowLock["task"] = t
        PROVE  ~ Needs(t, "task") /\ (Needs(t, "session") => session.state = "ABSENT")
    BY <2>3 DEF TaskOK, Needs, NoBriefing
  <2>4. PICK r1 \in LockedRows : rowLock[r1] = q /\ Needs(p, r1)
    BY DEF WaitsFor
  <2>5. PICK r2 \in LockedRows : rowLock[r2] = p /\ Needs(q, r2)
    BY DEF WaitsFor
  <2>6. CASE r1 = "session" /\ r2 = "session"
    BY <2>1, <2>2, <2>4, <2>5, <2>6
  <2>7. CASE r1 = "task" /\ r2 = "task"
    BY <2>1, <2>3, <2>4, <2>5, <2>7
  <2>8. CASE r1 = "session" /\ r2 = "task"
    BY <2>1, <2>2, <2>3, <2>4, <2>5, <2>8
  <2>9. CASE r1 = "task" /\ r2 = "session"
    BY <2>1, <2>2, <2>3, <2>4, <2>5, <2>9
  <2> QED BY <2>4, <2>5, <2>6, <2>7, <2>8, <2>9 DEF LockedRows
<1> QED BY <1>1, CardInStep, Inductive, PTL DEF Spec
=============================================================================
