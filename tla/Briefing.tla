------------------------------ MODULE Briefing ------------------------------
(***************************************************************************)
(* The briefing of one task, from intake to the authorised /go, as the     *)
(* handlers of the API process and the worker processes run it             *)
(* concurrently against one Postgres database and one Redis.               *)
(*                                                                         *)
(* A handler is one database transaction at READ COMMITTED.  `session' and *)
(* `task' are the COMMITTED rows; what a handler has read or flushed is in *)
(* ses[p] and tsk[p] until it commits.  A flush takes the row's lock,      *)
(* which is held to the end of the transaction (rowLock), and the version  *)
(* column makes a flush of a row read before somebody else's commit fail   *)
(* (StaleDataError).  A comment posted to Bitrix24 is not undone by a      *)
(* rollback (posted, notes).                                               *)
(*                                                                         *)
(* The early returns that change nothing (a /go that finds the Redis lock  *)
(* busy, an answer to a round that is not open, an answer with no line     *)
(* that matches a question) are stuttering steps.                          *)
(***************************************************************************)
EXTENDS Naturals, Sequences, FiniteSets, GoAuth, BriefingFsm

CONSTANTS
  Procs, NoProc,            \* concurrent handlers; nobody
  Fields,                   \* the fields of the task card
  IntakeRequired,           \* _INTAKE_REQUIRED: intake refuses a task without them
  Required,                 \* required_fields_for the task's type
  ListFields,               \* fields TaskCard declares list[str], not str
  ReviewerField,            \* the field that names the reviewer
  MaxRounds,                \* settings.max_briefing_rounds
  Creator, NamedReviewer,   \* author of the task; the user ReviewerField names
  Maintainers,              \* users with maintainer or owner role in GitLab
  Approvers,                \* settings.ai_go_approvers
  HighRiskRequiresMaintainer,
  Comments, NoComment,      \* comments that hold a /go; none
  Commenter,                \* the verified author of each of them
  MaxJobs                   \* bound of the model: handlers started in a behaviour

ASSUME ProcsAssumption == NoProc \notin Procs
ASSUME FieldsAssumption ==
  /\ IntakeRequired \subseteq Fields
  /\ Required \subseteq Fields
  /\ ListFields \subseteq Fields
  /\ ReviewerField \in Fields
ASSUME BoundsAssumption == MaxRounds \in Nat \ {0} /\ MaxJobs \in Nat
ASSUME UsersAssumption ==
  /\ {Creator, NamedReviewer} \subseteq Users
  /\ Maintainers \subseteq Users /\ Approvers \subseteq Users
  /\ HighRiskRequiresMaintainer \in BOOLEAN
  /\ NoComment \notin Comments
  /\ Commenter \in [Comments -> Users]

VARIABLES
  \* Postgres, committed
  session,    \* briefing_session: state, rounds_count, active_round, version
  task,       \* task_state: card_snapshot, reviewer_user_id, status, version
  asked,      \* briefing_question: the fields asked in each round
  accepted,   \* briefing_answer: the accepted answers
  goEvents,   \* go_authorization_event
  outbox,     \* outbox_event: intents to run the plan phase
  rowLock,    \* which transaction holds the lock of the session / task row
  \* Redis and Bitrix24
  goLock,     \* lock:briefing:{task_id}
  posted,     \* question comments posted for each round
  notes,      \* status notes posted
  \* the running handlers
  pc, ses, tsk, raw, ans, goc,
  jobs        \* handlers started so far

db      == <<session, task, asked, accepted, goEvents, outbox>>
outside == <<goLock, posted, notes>>
locals  == <<ses, tsk, raw, ans, goc>>
vars    == <<db, rowLock, outside, pc, locals, jobs>>
-----------------------------------------------------------------------------
(* Rows *)

Rounds == 1..MaxRounds

LockedRows == {"session", "task"}

\* What an accepted answer says: something, or nothing (the line "A1: " whose
\* trailing space is all there is to match is accepted as an empty string).
Texts == {"answer", "blank"}

Answers == Rounds \X Fields \X Texts

\* A card field is empty, filled in Bitrix24, or filled by an accepted answer.
Cards == [Fields -> {"none", "field"} \union Texts]

SessionRows ==
  [state: AllStates \union {"ABSENT"}, rounds: 0..MaxRounds, active: 0..MaxRounds, ver: Nat]

TaskRows ==
  [there: BOOLEAN, card: Cards, reviewer: BOOLEAN, cancelled: BOOLEAN, ver: Nat]

GoEvents ==
  [comment: Comments, authorized: BOOLEAN, rule: Rules \union {"insufficient_rights", "duplicate"},
   decision: {"authorized", "rejected", "ignored_duplicate"}]

NoSession == [state |-> "ABSENT", rounds |-> 0, active |-> 0, ver |-> 0]

NoTask ==
  [there |-> FALSE, card |-> [f \in Fields |-> "none"], reviewer |-> FALSE,
   cancelled |-> FALSE, ver |-> 0]

\* create_session: the row a fresh briefing starts from.
NewSession == [NoSession EXCEPT !.state = "NEW"]

\* get_active_session_by_task finds the row.
IsActive(row) == row.state \notin Terminal \union {"ABSENT"}

\* TaskCard(**card): answers are strings, so one to a list field does not validate.
CardParses(card) == \A f \in ListFields : card[f] \notin Texts

\* build_task_card from the fields filled in Bitrix24.
NativeCard(filled) == [f \in Fields |-> IF f \in filled THEN "field" ELSE "none"]

\* missing_required_fields, without those intake itself insists on.
Gaps(card) == {f \in Required \ IntakeRequired : card[f] \in {"none", "blank"}}

\* What the given answers say about a field.
TextsOf(f, answers) == {t \in Texts : \E n \in Rounds : <<n, f, t>> \in answers}

\* The accepted answers override the fields of the card.  The query that lists them
\* has no ORDER BY: of several answers to a field, any may come last.
MergedCards(card, answers) ==
  {merged \in Cards :
     \A f \in Fields : merged[f] \in IF TextsOf(f, answers) = {} THEN {card[f]}
                                     ELSE TextsOf(f, answers)}

\* Two values may be the same text: an answer repeats what Bitrix24 says, a blank line is
\* as empty as a field left out.  A list is no text.
SameText(f, v, w) ==
  \/ v = w
  \/ f \notin ListFields /\ \E same \in {{"field", "answer"}, {"none", "blank"}} : {v, w} \subseteq same

SameCard(card, other) == \A f \in Fields : SameText(f, card[f], other[f])

\* Mutant of Transition: the active round is not closed.
TransitionKeepsRound(row, path) ==
  [row EXCEPT !.state = path[Len(path)], !.ver = @ + 1]

\* transition, once per step of the path: the FSM checks every step, and leaving
\* the waiting state closes the active round.
Transition(row, path) ==
  LET last == path[Len(path)]
  IN  [row EXCEPT !.state = last,
                  !.active = IF last = "WAITING_ANSWERS" THEN @ ELSE 0,
                  !.ver = @ + 1]

CanWalk(row, path) == row.state = path[1] /\ LegalPath(path)

\* _open_round: add_round counts the round and makes it the active one.
WithRound(row, path) ==
  [Transition(row, path) EXCEPT !.rounds = row.rounds + 1, !.active = row.rounds + 1]
-----------------------------------------------------------------------------
(* Starting and ending a handler *)

Init ==
  /\ session = NoSession
  /\ task = NoTask
  /\ asked = [n \in Rounds |-> {}]
  /\ accepted = {}
  /\ goEvents = {}
  /\ outbox = 0
  /\ rowLock = [r \in LockedRows |-> NoProc]
  /\ goLock = NoProc
  /\ posted = [n \in Rounds |-> 0]
  /\ notes = {}
  /\ pc = [p \in Procs |-> "idle"]
  /\ ses = [p \in Procs |-> NoSession]
  /\ tsk = [p \in Procs |-> NoTask]
  /\ raw = [p \in Procs |-> {}]
  /\ ans = [p \in Procs |-> {}]
  /\ goc = [p \in Procs |-> NoComment]
  /\ jobs = 0

Begin(p, label) ==
  /\ pc[p] = "idle"
  /\ jobs < MaxJobs
  /\ jobs' = jobs + 1
  /\ pc' = [pc EXCEPT ![p] = label]

Goto(p, from, to) ==
  /\ pc[p] = from
  /\ pc' = [pc EXCEPT ![p] = to]
  /\ UNCHANGED jobs

\* Mutant of ReleasedLocks: a transaction that ends keeps its session row locked.
ReleasedTaskLock(p) ==
  [rowLock EXCEPT !["task"] = IF @ = p THEN NoProc ELSE @]

ReleasedLocks(p) == [r \in LockedRows |-> IF rowLock[r] = p THEN NoProc ELSE rowLock[r]]

\* The transaction ends, by commit or rollback: locks go, and so do the objects.
End(p) ==
  /\ pc' = [pc EXCEPT ![p] = "idle"]
  /\ rowLock' = ReleasedLocks(p)
  /\ ses' = [ses EXCEPT ![p] = NoSession]
  /\ tsk' = [tsk EXCEPT ![p] = NoTask]
  /\ raw' = [raw EXCEPT ![p] = {}]
  /\ ans' = [ans EXCEPT ![p] = {}]
  /\ goc' = [goc EXCEPT ![p] = NoComment]
  /\ UNCHANGED jobs

Lock(p, r) ==
  /\ rowLock[r] = NoProc
  /\ rowLock' = [rowLock EXCEPT ![r] = p]

\* The rows as a commit of p leaves them: those it flushed, and no others.
PublishSession(p) == session' = IF rowLock["session"] = p THEN ses[p] ELSE session
PublishTask(p) == task' = IF rowLock["task"] = p THEN tsk[p] ELSE task

\* Mutant of SessionCurrent and TaskCurrent: no version column.
NoVersionCheck(p) == TRUE

\* The row was not committed by anybody since p read it (version_id_col).
SessionCurrent(p) == ses[p].ver = session.ver
TaskCurrent(p) == tsk[p].ver = task.ver

\* Mutant of PostRound: the comment is left for later.
PostNoRound(n) == UNCHANGED posted

\* A comment in Bitrix24 with the questions of round n; a status note.
PostRound(n) == posted' = [posted EXCEPT ![n] = @ + 1]
PostNote(note) == notes' = notes \union {note}
-----------------------------------------------------------------------------
(* Intake: worker job run_task_phase(task, "intake") *)

\* bitrix.get_task, outside of any transaction: the fields may hold anything.
IntakeFetch(p) ==
  /\ Begin(p, "in_fetched")
  /\ \E filled \in SUBSET Fields : raw' = [raw EXCEPT ![p] = filled]
  /\ UNCHANGED <<db, rowLock, outside, ses, tsk, ans, goc>>

\* No usable task_type or target_repo: a note, and no state at all.
IntakeInvalid(p) ==
  /\ pc[p] = "in_fetched"
  /\ ~ IntakeRequired \subseteq raw[p]
  /\ PostNote("invalid")
  /\ End(p)
  /\ UNCHANGED <<db, goLock, posted>>

\* The row is read, given the new card and flushed.  It depends on nothing read,
\* so read and flush are one step; the ORM writes nothing if the texts are the same.
IntakeSave(p) ==
  LET saved == [task EXCEPT !.there = TRUE, !.card = NativeCard(raw[p]),
                            !.reviewer = ReviewerField \in raw[p]]
  IN  /\ Goto(p, "in_fetched", "in_saved")
      /\ IntakeRequired \subseteq raw[p]
      /\ \/ /\ task.there /\ task.reviewer = saved.reviewer /\ SameCard(saved.card, task.card)
            /\ tsk' = [tsk EXCEPT ![p] = task] /\ UNCHANGED rowLock
         \/ Lock(p, "task") /\ tsk' = [tsk EXCEPT ![p] = [saved EXCEPT !.ver = @ + 1]]
      /\ UNCHANGED <<db, outside, ses, raw, ans, goc>>

\* A briefing is under way: only the card is committed.
IntakeStarted(p) ==
  /\ pc[p] = "in_saved"
  /\ IsActive(session)
  /\ PublishTask(p)
  /\ End(p)
  /\ UNCHANGED <<session, asked, accepted, goEvents, outbox, outside>>

\* The briefing is over: create_session meets the primary key of the old row.
IntakeClash(p) ==
  /\ pc[p] = "in_saved"
  /\ session.state \in Terminal
  /\ End(p)
  /\ UNCHANGED <<db, outside>>

\* Mutant of NoBriefing: a session is created though there is an active one.
NoEndedBriefing == session.state \notin Terminal

\* get_active_session_by_task finds nothing, and no old row is in the way.
NoBriefing == session.state = "ABSENT"

IntakeReady(p) ==
  LET path == <<"NEW", "COMPLETENESS_CHECK", "READY_FOR_GO">>
  IN  /\ Goto(p, "in_saved", "commit")
      /\ NoBriefing
      /\ Lock(p, "session")
      /\ Gaps(tsk[p].card) = {}
      /\ CanWalk(NewSession, path)
      /\ ses' = [ses EXCEPT ![p] = Transition(NewSession, path)]
      /\ PostNote("ready")
      /\ UNCHANGED <<db, goLock, posted, tsk, raw, ans, goc>>

IntakeRound(p) ==
  LET path == <<"NEW", "QUESTIONS_GENERATED", "WAITING_ANSWERS">>
  IN  /\ Goto(p, "in_saved", "commit")
      /\ NoBriefing
      /\ Lock(p, "session")
      /\ Gaps(tsk[p].card) # {}
      /\ CanWalk(NewSession, path)
      /\ PostRound(1)
      /\ ses' = [ses EXCEPT ![p] = WithRound(NewSession, path)]
      /\ UNCHANGED <<db, goLock, notes, tsk, raw, ans, goc>>
-----------------------------------------------------------------------------
(* Answers: worker job run_command(task, "briefing_answer"), which calls   *)
(* handle_answers and, when something was accepted, finalize_round.        *)

\* The answers of a comment to the questions about fs; only its last line can be
\* accepted with nothing in it.
Reply(n, fs, last, text) == {<<n, f, IF f = last THEN text ELSE "answer">> : f \in fs}

\* A comment answers some of the questions of the round it read as active.
AnsLoad(p) ==
  /\ session.state = "WAITING_ANSWERS"
  /\ Begin(p, "an_loaded")
  /\ ses' = [ses EXCEPT ![p] = session]
  /\ \E fs \in (SUBSET asked[session.active]) \ {{}} : \E last \in fs, text \in Texts :
        ans' = [ans EXCEPT ![p] = Reply(session.active, fs, last, text)]
  /\ UNCHANGED <<db, rowLock, outside, tsk, raw, goc>>

\* The session row moves under its lock if nobody committed it in between.
AnsFlush(p) ==
  LET path == <<"WAITING_ANSWERS", "ANSWERS_RECEIVED", "COMPLETENESS_CHECK">>
  IN  /\ Goto(p, "an_loaded", "an_flushed")
      /\ Lock(p, "session")
      /\ SessionCurrent(p)
      /\ CanWalk(ses[p], path)
      /\ ses' = [ses EXCEPT ![p] = Transition(ses[p], path)]
      /\ UNCHANGED <<db, outside, tsk, raw, ans, goc>>

\* StaleDataError, or the unique index on a question's accepted answer.
AnsStale(p) ==
  /\ pc[p] = "an_loaded"
  /\ rowLock["session"] = NoProc
  /\ ~ SessionCurrent(p)
  /\ End(p)
  /\ UNCHANGED <<db, outside>>

AnsLoadTask(p) ==
  /\ Goto(p, "an_flushed", "an_task")
  /\ tsk' = [tsk EXCEPT ![p] = task]
  /\ UNCHANGED <<db, rowLock, outside, ses, raw, ans, goc>>

\* Mutant of AnswersSoFar: only what this comment answers.
AnswersOfComment(p) == ans[p]

\* accepted_answers_with_dimension: all accepted answers of the session.
AnswersSoFar(p) == accepted \union ans[p]

\* finalize_round: the card with the answers is flushed ...
AnsMerge(p) ==
  /\ Goto(p, "an_task", "an_merged")
  /\ Lock(p, "task")
  /\ TaskCurrent(p)
  /\ \E merged \in MergedCards(tsk[p].card, AnswersSoFar(p)) :
        tsk' = [tsk EXCEPT ![p].card = merged, ![p].ver = @ + 1]
  /\ UNCHANGED <<db, outside, ses, raw, ans, goc>>

\* ... or, if they say what the card it has read says, nothing is written: no lock is
\* taken, no version compared, and the row is left to others until the commit.
AnsUnchanged(p) ==
  /\ Goto(p, "an_task", "an_merged")
  /\ \E merged \in MergedCards(tsk[p].card, AnswersSoFar(p)) : SameCard(merged, tsk[p].card)
  /\ UNCHANGED <<db, rowLock, outside, ses, tsk, raw, ans, goc>>

\* StaleDataError: somebody has committed the row since it was read.
AnsTaskStale(p) ==
  /\ pc[p] = "an_task"
  /\ rowLock["task"] = NoProc
  /\ ~ TaskCurrent(p)
  /\ End(p)
  /\ UNCHANGED <<db, outside>>

\* Mutant of Missing: only the open questions of this round count.
MissingOfRound(p) ==
  {f \in asked[ses[p].rounds] : TextsOf(f, ans[p]) = {}}

\* missing_required_fields of the merged card.
Missing(p) == Gaps(tsk[p].card)

\* Mutant of RoundsLeft: off by one.
RoundsLeftOrEqual(p) == ses[p].rounds <= MaxRounds

\* settings.max_briefing_rounds is not reached.
RoundsLeft(p) == ses[p].rounds < MaxRounds

\* Completeness: nothing is missing any more ...
AnsReady(p) ==
  LET path == <<"COMPLETENESS_CHECK", "READY_FOR_GO">>
  IN  /\ Goto(p, "an_merged", "commit")
      /\ Missing(p) = {}
      /\ CanWalk(ses[p], path)
      /\ ses' = [ses EXCEPT ![p] = Transition(ses[p], path)]
      /\ PostNote("ready")
      /\ UNCHANGED <<db, rowLock, goLock, posted, tsk, raw, ans, goc>>

\* ... or something is, and the rounds are used up ...
AnsBlocked(p) ==
  LET path == <<"COMPLETENESS_CHECK", "BLOCKED_MANUAL">>
  IN  /\ Goto(p, "an_merged", "commit")
      /\ Missing(p) # {}
      /\ ~ RoundsLeft(p)
      /\ CanWalk(ses[p], path)
      /\ ses' = [ses EXCEPT ![p] = Transition(ses[p], path)]
      /\ PostNote("blocked")
      /\ UNCHANGED <<db, rowLock, goLock, posted, tsk, raw, ans, goc>>

\* ... or the next round is posted.
AnsRound(p) ==
  LET path == <<"COMPLETENESS_CHECK", "NEEDS_MORE_INFO", "WAITING_ANSWERS">>
  IN  /\ Goto(p, "an_merged", "commit")
      /\ Missing(p) # {}
      /\ RoundsLeft(p)
      /\ CardParses(tsk[p].card)
      /\ CanWalk(ses[p], path)
      /\ PostRound(ses[p].rounds + 1)
      /\ ses' = [ses EXCEPT ![p] = WithRound(ses[p], path)]
      /\ UNCHANGED <<db, rowLock, goLock, notes, tsk, raw, ans, goc>>

\* Mutant of AnsCardInvalid: the error is caught and the job commits.
AnsCardInvalidCommits(p) ==
  /\ pc[p] = "an_merged"
  /\ ~ CardParses(tsk[p].card)
  /\ PublishSession(p)
  /\ PublishTask(p)
  /\ accepted' = accepted \union ans[p]
  /\ End(p)
  /\ UNCHANGED <<asked, goEvents, outbox, outside>>

\* TaskCard(**card_data) raises before the round is opened: all is rolled back.
AnsCardInvalid(p) ==
  /\ pc[p] = "an_merged"
  /\ Missing(p) # {}
  /\ RoundsLeft(p)
  /\ ~ CardParses(tsk[p].card)
  /\ End(p)
  /\ UNCHANGED <<db, outside>>

\* db.commit of both jobs: the rows, the questions of an opened round, the answers.
Commit(p) ==
  /\ pc[p] = "commit"
  /\ PublishSession(p)
  /\ PublishTask(p)
  /\ asked' = IF ses[p].state = "WAITING_ANSWERS"
              THEN [asked EXCEPT ![ses[p].active] = Gaps(tsk[p].card)]
              ELSE asked
  /\ accepted' = accepted \union ans[p]
  /\ End(p)
  /\ UNCHANGED <<goEvents, outbox, outside>>
-----------------------------------------------------------------------------
(* /go: the API process, under lock:briefing in Redis *)

AuthorizedGo == {e \in goEvents : e.authorized}

Recorded(c) == \E e \in goEvents : e.comment = c

\* Nothing writes task_state.risk_level, and handle_go reads "low" for NULL.
StoredRisk == "low"

\* The decision on the task row read before the role was asked from GitLab.
Decision(p) ==
  LET user == Commenter[goc[p]]
  IN  Authorize([user |-> user, author |-> Creator,
                 reviewer |-> IF tsk[p].reviewer THEN NamedReviewer ELSE NoUser,
                 assignee |-> NoUser, approvers |-> Approvers,
                 maintainer |-> user \in Maintainers],
                StoredRisk, HighRiskRequiresMaintainer)

GoEvent(p, decision) ==
  [comment |-> goc[p], authorized |-> decision.authorized, rule |-> decision.rule,
   decision |-> decision.decision]

Duplicate == [authorized |-> FALSE, rule |-> "duplicate", decision |-> "ignored_duplicate"]

\* acquire_lock: SET NX; a /go that finds it taken is dropped.
GoStart(p) ==
  /\ goLock = NoProc
  /\ Begin(p, "go_locked")
  /\ goLock' = p
  /\ \E c \in Comments : goc' = [goc EXCEPT ![p] = c]
  /\ UNCHANGED <<db, rowLock, posted, notes, ses, tsk, raw, ans>>

\* No session, a comment already decided, or a session that is not ready.
GoNoop(p) ==
  /\ Goto(p, "go_locked", "go_release")
  /\ \/ session.state = "ABSENT"
     \/ Recorded(goc[p])
     \/ AuthorizedGo = {} /\ session.state \notin {"READY_FOR_GO", "GO_AUTH_CHECK"}
  /\ UNCHANGED <<db, rowLock, outside, locals>>

\* An authorised /go exists: the repeated one is recorded and has no effect.
GoDup(p) ==
  /\ Goto(p, "go_locked", "go_release")
  /\ session.state # "ABSENT"
  /\ ~ Recorded(goc[p])
  /\ AuthorizedGo # {}
  /\ goEvents' = goEvents \union {GoEvent(p, Duplicate)}
  /\ UNCHANGED <<session, task, asked, accepted, outbox, rowLock, outside, locals>>

\* The rows are read; next, GitLab is asked for the user's role.
GoLoad(p) ==
  /\ Goto(p, "go_locked", "go_authz")
  /\ session.state \in {"READY_FOR_GO", "GO_AUTH_CHECK"}
  /\ ~ Recorded(goc[p])
  /\ AuthorizedGo = {}
  /\ task.there
  /\ ses' = [ses EXCEPT ![p] = session]
  /\ tsk' = [tsk EXCEPT ![p] = task]
  /\ UNCHANGED <<db, rowLock, outside, raw, ans, goc>>

\* Event, APPROVED and the intent in one commit; the row must be the one read,
\* and the partial unique index admits one authorised event per session.
GoApprove(p) ==
  LET path == <<"READY_FOR_GO", "GO_AUTH_CHECK", "APPROVED">>
  IN  /\ Goto(p, "go_authz", "go_release")
      /\ Decision(p).authorized
      /\ ~ Recorded(goc[p])
      /\ AuthorizedGo = {}
      /\ rowLock["session"] = NoProc
      /\ SessionCurrent(p)
      /\ CanWalk(ses[p], path)
      /\ goEvents' = goEvents \union {GoEvent(p, Decision(p))}
      /\ session' = Transition(ses[p], path)
      /\ outbox' = outbox + 1
      /\ UNCHANGED <<task, asked, accepted, rowLock, outside, locals>>

\* Somebody without any of the rights is told so, after the commit.
GoReject(p) ==
  /\ Goto(p, "go_authz",
          IF Decision(p).rule = "insufficient_rights" THEN "go_reply" ELSE "go_release")
  /\ ~ Decision(p).authorized
  /\ ~ Recorded(goc[p])
  /\ goEvents' = goEvents \union {GoEvent(p, Decision(p))}
  /\ UNCHANGED <<session, task, asked, accepted, outbox, rowLock, outside, locals>>

GoReply(p) ==
  /\ Goto(p, "go_reply", "go_release")
  /\ PostNote("refused")
  /\ UNCHANGED <<db, rowLock, goLock, posted, locals>>

\* A unique index or the version check refuses the flush: rollback.
GoClash(p) ==
  /\ Goto(p, "go_authz", "go_release")
  /\ \/ Recorded(goc[p])
     \/ /\ Decision(p).authorized
        /\ \/ AuthorizedGo # {}
           \/ rowLock["session"] = NoProc /\ ~ SessionCurrent(p)
  /\ UNCHANGED <<db, rowLock, outside, locals>>

\* release_lock in `finally': deleted only if the token is still this handler's.
GoRelease(p) ==
  /\ pc[p] = "go_release"
  /\ goLock' = IF goLock = p THEN NoProc ELSE goLock
  /\ End(p)
  /\ UNCHANGED <<db, posted, notes>>

\* The TTL of the lock runs out, whether its holder lives or not.
LockExpire ==
  /\ goLock # NoProc
  /\ goLock' = NoProc
  /\ UNCHANGED <<db, rowLock, posted, notes, pc, locals, jobs>>
-----------------------------------------------------------------------------
(* Cancel: the API process, POST /internal/tasks/{task_id}/cancel *)

CancelSession(p) ==
  LET path == <<session.state, "CANCELLED">>
  IN  /\ IsActive(session)
      /\ Lock(p, "session")
      /\ CanWalk(session, path)
      /\ Begin(p, "ca_task")
      /\ ses' = [ses EXCEPT ![p] = Transition(session, path)]
      /\ UNCHANGED <<db, outside, tsk, raw, ans, goc>>

CancelNoSession(p) ==
  /\ ~ IsActive(session)
  /\ Begin(p, "ca_task")
  /\ UNCHANGED <<db, rowLock, outside, locals>>

\* The task row, if there is one, is flushed by the commit that ends the handler.
CancelTask(p) ==
  LET change == task.there /\ ~ task.cancelled
  IN  /\ pc[p] = "ca_task"
      /\ change => rowLock["task"] = NoProc
      /\ PublishSession(p)
      /\ task' = IF change THEN [task EXCEPT !.cancelled = TRUE, !.ver = @ + 1] ELSE task
      /\ End(p)
      /\ UNCHANGED <<asked, accepted, goEvents, outbox, outside>>
-----------------------------------------------------------------------------
(* Failures and the specification *)

GoSteps == {"go_locked", "go_authz", "go_reply", "go_release"}

\* An exception at any await of a handler (HTTP, database, timeout): rollback,
\* and a /go still releases its lock on the way out.
Abort(p) ==
  /\ pc[p] # "idle"
  /\ goLock' = IF pc[p] \in GoSteps /\ goLock = p THEN NoProc ELSE goLock
  /\ End(p)
  /\ UNCHANGED <<db, posted, notes>>

\* The API process dies under a /go: nobody releases the lock.
Crash(p) ==
  /\ pc[p] \in GoSteps
  /\ End(p)
  /\ UNCHANGED <<db, outside>>

Start(p) ==
  \/ IntakeFetch(p) \/ AnsLoad(p) \/ GoStart(p) \/ CancelSession(p) \/ CancelNoSession(p)

Step(p) ==
  \/ IntakeInvalid(p) \/ IntakeSave(p) \/ IntakeStarted(p) \/ IntakeClash(p)
  \/ IntakeReady(p) \/ IntakeRound(p)
  \/ AnsFlush(p) \/ AnsStale(p) \/ AnsLoadTask(p) \/ AnsMerge(p) \/ AnsUnchanged(p)
  \/ AnsTaskStale(p)
  \/ AnsReady(p) \/ AnsBlocked(p) \/ AnsRound(p) \/ AnsCardInvalid(p)
  \/ Commit(p)
  \/ GoNoop(p) \/ GoDup(p) \/ GoLoad(p) \/ GoApprove(p) \/ GoReject(p) \/ GoClash(p)
  \/ GoReply(p) \/ GoRelease(p)
  \/ CancelTask(p)

Next == (\E p \in Procs : Start(p) \/ Step(p) \/ Abort(p) \/ Crash(p)) \/ LockExpire

Spec == Init /\ [][Next]_vars

\* A started handler is run on by its event loop.
Fairness == \A p \in Procs : WF_vars(Step(p))

FairSpec == Spec /\ Fairness
-----------------------------------------------------------------------------
(* Properties *)

PcValues ==
  {"idle", "in_fetched", "in_saved", "an_loaded", "an_flushed", "an_task", "an_merged", "commit",
   "go_locked", "go_authz", "go_reply", "go_release", "ca_task"}

\* Every row and every handler's copy of it is of the shape the schema gives it.
TypeOK ==
  /\ session \in SessionRows
  /\ task \in TaskRows
  /\ asked \in [Rounds -> SUBSET Fields]
  /\ accepted \subseteq Answers
  /\ goEvents \subseteq GoEvents
  /\ outbox \in Nat
  /\ rowLock \in [LockedRows -> Procs \union {NoProc}]
  /\ goLock \in Procs \union {NoProc}
  /\ posted \in [Rounds -> Nat]
  /\ notes \subseteq {"ready", "blocked", "invalid", "refused"}
  /\ pc \in [Procs -> PcValues]
  /\ ses \in [Procs -> SessionRows]
  /\ tsk \in [Procs -> TaskRows]
  /\ raw \in [Procs -> SUBSET Fields]
  /\ ans \in [Procs -> SUBSET Answers]
  /\ goc \in [Procs -> Comments \union {NoComment}]
  /\ jobs \in 0..MaxJobs

\* Coding is started at most once, and never without an authorised /go: the
\* session is APPROVED exactly when one authorised event and one outbox intent
\* exist, even when the Redis lock expires under its holder (handle_go).
SingleStart ==
  /\ outbox = IF session.state = "APPROVED" THEN 1 ELSE 0
  /\ (session.state = "APPROVED") <=> (AuthorizedGo # {})
  /\ \A d, e \in AuthorizedGo : d = e

\* A session that has ended is never touched again, by whichever handler had read
\* it before: a /go does not revive a cancelled briefing, nor does a cancel or a
\* late answer undo an approval (TERMINAL, version_id_col).
TerminalIsFinal == [][session.state \in Terminal => session' = session]_vars

\* p has nothing to write to the task row, which was committed by another since p read it.
Overtaken(p) == rowLock["task"] # p /\ tsk[p].ver < task.ver

\* The session becomes ready for /go together with a stored card that has every required
\* field, whatever edits and answers raced.  The one exception is the card of an edit that
\* was committed while an answer with nothing new in it was on its way to its commit
\* (finalize_round, version_id_col of task_state).
ReadyIsComplete ==
  [][session.state # "READY_FOR_GO" /\ session'.state = "READY_FOR_GO"
       => /\ task'.there
          /\ \/ Gaps(task'.card) = {}
             \/ \E p \in Procs : pc[p] = "commit" /\ pc'[p] = "idle" /\ Overtaken(p)]_vars

\* The field was answered in round n, by an answer that was accepted.
Answered(n, f) == \E t \in Texts : <<n, f, t>> \in accepted

\* No question is asked again once it was answered, even if an edit in Bitrix24 has
\* emptied the card in between, except one that a blank line answered: the answers
\* of all rounds are merged each time (accepted_answers_with_dimension).
NeverReasked ==
  \A n, m \in Rounds : \A f \in asked[m] :
    n < m /\ Answered(n, f) => \E k \in 1..(m - 1) : <<k, f, "blank">> \in accepted

\* Accepting an answer and closing its round are one step: the open round has no
\* accepted answer yet, and every earlier round has one (run_command's one commit).
AnswersCloseRound ==
  \A n \in Rounds :
    LET answered == \E f \in Fields : Answered(n, f)
    IN  /\ n = session.active => ~ answered
        /\ n < session.rounds => answered

\* Nobody waits for something that was not announced: the comment or note is
\* posted before the commit that makes the session wait, ready or blocked.
AnnouncedBefore ==
  /\ session.state = "WAITING_ANSWERS" => session.active = session.rounds
                                          /\ posted[session.rounds] > 0
  /\ session.state = "READY_FOR_GO" => "ready" \in notes
  /\ session.state = "BLOCKED_MANUAL" => "blocked" \in notes

\* Answers are merged into the card that is stored, not into one read earlier:
\* their commit keeps every other field as it is (version_id_col of task_state).
AnswersKeepCard ==
  [][accepted' # accepted
       => \A f \in Fields : \/ task'.card[f] = task.card[f]
                            \/ \E n \in Rounds : Answered(n, f)']_vars

\* The handler cannot go on before it has the lock of the row.
Needs(p, r) ==
  \/ r = "session" /\ (pc[p] \in {"an_loaded", "go_authz"} \/ (pc[p] = "in_saved" /\ NoBriefing))
  \/ r = "task" /\ pc[p] \in {"in_fetched", "an_task", "ca_task"}

WaitsFor(p, q) == \E r \in LockedRows : rowLock[r] = q /\ Needs(p, r)

\* Intake locks the task row and then the session row, answers and cancel lock them the
\* other way round, and yet nobody waits in a circle: intake needs the session only where
\* there is none that others could hold.  Two rows have two holders, so that a circle is
\* one of two handlers, or a handler that waits for itself (intake_task, handle_answers,
\* cancel_task).
NoLockCycle == \A p, q \in Procs : ~ (WaitsFor(p, q) /\ WaitsFor(q, p))

\* The committed session is what the contract of the briefing allows.
Contract ==
  INSTANCE BriefingContract WITH state <- session.state, rounds <- session.rounds,
                                 intents <- outbox
Refines == Contract!Spec

\* Every handler ends, waiting for row locks included (no deadlock on rows).
HandlerEnds == \A p \in Procs : (pc[p] # "idle") ~> (pc[p] = "idle")
-----------------------------------------------------------------------------
(* What the documents promise and the code does not keep *)

\* docs/overview/principles.md: with requirements missing, the agent asks and does
\* not start coding.  intake_task overwrites the card of a briefing under way with
\* the bare Bitrix24 fields and leaves the session ready.
ApprovedIsComplete == session.state = "APPROVED" => Gaps(task.card) = {}

\* app/db/models.py: card_snapshot is the full TaskCard, updated by the answers of
\* the briefing.  An answer to a list field is stored as a string, so the card of
\* an approved task need not be a TaskCard (execute_plan begins with parsing it).
ApprovedCardParses == session.state = "APPROVED" => CardParses(task.card)
=============================================================================
