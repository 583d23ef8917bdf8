------------------------------ MODULE Answers ------------------------------
(***************************************************************************)
(* From a comment in Bitrix24 to rows of briefing_answer: parse_command,   *)
(* the queue of run_command jobs, the structured extraction of answers by  *)
(* a regular expression, and the versioned record of each.  The rounds     *)
(* they belong to follow one another as finalize_round decides.            *)
(*                                                                         *)
(* A job reads the session, and later writes on the row it has read: other *)
(* jobs run in between, and the row's version is checked.  Module Briefing *)
(* has the transactions and the locks, here the second step is a commit.   *)
(*                                                                         *)
(* A comment is a command line and a sequence of lines.  "answer" is a     *)
(* line `A1: body', "bare" is `A1:' with nothing after it, "spaced" the    *)
(* same with a blank after the colon; "text" is prose.                     *)
(***************************************************************************)
EXTENDS Naturals, Sequences, FiniteSets, SequencesExt

CONSTANTS
  Comments,     \* ids of comments
  MaxLines,     \* bound of the model: how long each of them is
  MaxRounds,    \* settings.max_briefing_rounds
  MaxQuestions  \* settings.max_questions_per_round

ASSUME AnswersAssumption ==
  /\ MaxLines \in [Comments -> Nat]
  /\ MaxRounds \in Nat \ {0} /\ MaxQuestions \in Nat \ {0}

Ordinals == 1..MaxQuestions
Rounds == 1..MaxRounds

Lines ==
  [kind : {"answer", "bare", "spaced"}, n : Ordinals] \union [kind : {"text", "blank"}, n : {0}]

Body == [kind |-> "body", n |-> 0]    \* what follows `A1: ' on its line
Empty == [kind |-> "empty", n |-> 0]

\* "answer" names a round; every other command of the queue is "cancel" or "other".
Commands == [kind : {"answer"}, round : Rounds] \union [kind : {"cancel", "other", "none"}, round : {0}]

\* What a job has read of the session: its state and its active round.
Sessions == [state : {"WAITING_ANSWERS", "READY_FOR_GO", "BLOCKED_MANUAL"}, active : Rounds]

NotRead == [state |-> "none", active |-> 0]

NoComment == [command |-> [kind |-> "none", round |-> 0], lines |-> <<>>]

VARIABLES
  comment,  \* per id: its command and lines
  status,   \* "unwritten", "queued", "reading", and then what became of it
  seen,     \* per id: the session as the job that handles it has read it
  state,    \* BriefingSession.state
  asked,    \* per round opened: the number of its questions
  rows      \* briefing_answer

vars == <<comment, status, seen, state, asked, rows>>

Active == Len(asked)

Session == [state |-> state, active |-> Active]

Init ==
  /\ comment = [c \in Comments |-> NoComment]
  /\ status = [c \in Comments |-> "unwritten"]
  /\ seen = [c \in Comments |-> NotRead]
  /\ state = "WAITING_ANSWERS"
  /\ \E k \in Ordinals : asked = <<k>>
  /\ rows = {}
-----------------------------------------------------------------------------
(* extract_structured *)

\* The first line after i that is not blank, if there is one.
NextLine(lines, i) ==
  SelectInSubSeq(lines, i + 1, Len(lines), LAMBDA line : line.kind # "blank")

FoundFirst(lines) ==
  LET i == SelectInSeq(lines, LAMBDA line : line.kind = "answer")
  IN  IF i = 0 THEN {} ELSE {[at |-> i, n |-> lines[i].n, text |-> Body]}

\* The match at line i, if there is one, and what is found on the lines after it: a colon
\* may be followed by line breaks before the body, so that a header with nothing after it
\* takes the next line as its body; a blank of its own is a body only if no line is left.
MatchAt(lines, i, from) ==
  LET line == lines[i]
      next == NextLine(lines, i)
      Match(text, rest) == {[at |-> i, n |-> line.n, text |-> text]} \union from[rest]
  IN  CASE line.kind = "answer" -> Match(Body, i + 1)
        [] line.kind \in {"bare", "spaced"} /\ next # 0 -> Match(lines[next], next + 1)
        [] line.kind = "spaced" /\ next = 0 -> Match(Empty, i + 1)
        [] OTHER -> from[i + 1]

\* findall, from each line on.
FoundFrom(lines) ==
  LET from[i \in 1..(Len(lines) + 1)] ==
        IF i > Len(lines) THEN {} ELSE MatchAt(lines, i, from)
  IN  from

Found(lines) == FoundFrom(lines)[1]

\* Answers to no question of the round are left out.
Extracted(lines, known) == {m \in Found(lines) : m.n \in known}
-----------------------------------------------------------------------------
(* Comments *)

\* ONTASKCOMMENTADD: text that is no command is not handled, the rest is enqueued.
Write(c) ==
  /\ status[c] = "unwritten"
  /\ \E command \in Commands, lines \in SeqOf(Lines, MaxLines[c]) :
       /\ comment' = [comment EXCEPT ![c] = [command |-> command, lines |-> lines]]
       /\ status' = [status EXCEPT ![c] = IF command.kind = "none" THEN "ignored" ELSE "queued"]
  /\ UNCHANGED <<seen, state, asked, rows>>

\* run_command has a body for answers only.
Stub(c) ==
  /\ status[c] = "queued" /\ comment[c].command.kind # "answer"
  /\ status' = [status EXCEPT ![c] = "stub"]
  /\ UNCHANGED <<comment, seen, state, asked, rows>>

\* The job of an answer starts: get_active_session_by_task.
Read(c) ==
  /\ status[c] = "queued" /\ comment[c].command.kind = "answer"
  /\ status' = [status EXCEPT ![c] = "reading"]
  /\ seen' = [seen EXCEPT ![c] = Session]
  /\ UNCHANGED <<comment, state, asked, rows>>

Handled(c, outcome) ==
  /\ status[c] = "reading"
  /\ status' = [status EXCEPT ![c] = outcome]
  /\ seen' = [seen EXCEPT ![c] = NotRead]

\* The session that was read waits, and the comment names its active round.
OnTime(c) ==
  seen[c].state = "WAITING_ANSWERS" /\ comment[c].command.round = seen[c].active

\* A round's questions do not change once they are asked.
Good(c) == Extracted(comment[c].lines, 1..asked[comment[c].command.round])

\* Two matches for one question have the same answer_id.
Clash(c) == \E m, k \in Good(c) : m # k /\ m.n = k.n

UnmovedUnchecked(c) == TRUE

\* version_id_col: the row is the one that was read.  The session never comes back to a
\* state and a round it has left, so that they stand for its version.
Unmoved(c) == seen[c] = Session

NothingAccepted(c) ==
  /\ Handled(c, "nothing")
  /\ OnTime(c) => Good(c) = {}
  /\ UNCHANGED <<comment, state, asked, rows>>

\* The second row of a question meets the primary key of the first: the transaction of
\* the job is rolled back, and the job is not tried again.
Lost(c) ==
  /\ Handled(c, "lost")
  /\ OnTime(c) /\ Clash(c)
  /\ UNCHANGED <<comment, state, asked, rows>>

\* Another job has closed the round meanwhile: the transition finds another version (or,
\* before it, uq_answer_active_question the other's row), and this job is rolled back.
Stale(c) ==
  /\ Handled(c, "stale")
  /\ OnTime(c) /\ Good(c) # {} /\ ~ Clash(c) /\ ~ Unmoved(c)
  /\ UNCHANGED <<comment, state, asked, rows>>

\* record_answer for each, then finalize_round: enough, one more round, or no more rounds.
Accept(c) ==
  /\ Handled(c, "accepted")
  /\ OnTime(c) /\ Good(c) # {} /\ ~ Clash(c) /\ Unmoved(c)
  /\ rows' = rows \union {[round |-> comment[c].command.round, n |-> m.n, text |-> m.text,
                           comment |-> c] : m \in Good(c)}
  /\ \/ state' = "READY_FOR_GO" /\ UNCHANGED asked
     \/ /\ Active < MaxRounds /\ UNCHANGED state
        /\ \E k \in Ordinals : asked' = Append(asked, k)
     \/ Active = MaxRounds /\ state' = "BLOCKED_MANUAL" /\ UNCHANGED asked
  /\ UNCHANGED comment

Next ==
  \E c \in Comments :
    Write(c) \/ Stub(c) \/ Read(c) \/ NothingAccepted(c) \/ Lost(c) \/ Stale(c) \/ Accept(c)

Spec == Init /\ [][Next]_vars
-----------------------------------------------------------------------------
(* Properties *)

\* The variables have their types (contracts.py, db/models.py).
TypeOK ==
  /\ comment \in [Comments -> [command : Commands, lines : Seq(Lines)]]
  /\ status \in [Comments -> {"unwritten", "ignored", "queued", "reading", "stub", "nothing",
                              "lost", "stale", "accepted"}]
  /\ seen \in [Comments -> Sessions \union {NotRead}]
  /\ state \in {"WAITING_ANSWERS", "READY_FOR_GO", "BLOCKED_MANUAL"}
  /\ asked \in Seq(Ordinals) /\ Len(asked) \in Rounds
  /\ \A row \in rows :
       /\ row.round \in 1..Len(asked) /\ row.n \in 1..asked[row.round]
       /\ row.text \in {Body, Empty} \union Lines
       /\ row.comment \in Comments

\* A comment whose every header has its body on the line, once per question, is recorded
\* as it reads: each of its answers to a question of the round, and nothing else
\* (extract_structured and record_answer, compared with what the comment says).
PlainAnswersAreKept ==
  \A c \in Comments :
    LET said == {comment[c].lines[i] : i \in DOMAIN comment[c].lines}
    IN  (status[c] = "accepted" /\ \A line \in said : line.kind \notin {"bare", "spaced"}) =>
          {[n |-> row.n, text |-> row.text] : row \in {r \in rows : r.comment = c}} =
          {[n |-> line.n, text |-> Body] :
             line \in {l \in said : l.kind = "answer"
                                    /\ l.n <= asked[comment[c].command.round]}}

\* A question has one answer, and the questions of a round are answered by one comment,
\* although the jobs of several may read the round before one of them closes it
\* (handle_answers; the round is closed in the transaction that answers it, and the
\* session's version tells the others).
OneCommentPerRound ==
  \A r, s \in rows : r.round = s.round => r.comment = s.comment /\ (r.n = s.n => r = s)

\* An answer written on one line is the answer of its own question
\* (extract_structured: the ordinal binds the answer to its question).
AnswersAreTheirOwn ==
  \A c \in Comments : status[c] = "accepted" =>
    \A i \in DOMAIN comment[c].lines :
      LET line == comment[c].lines[i]
      IN  (line.kind = "answer" /\ line.n <= asked[comment[c].command.round]) =>
            \E row \in rows : row.comment = c /\ row.n = line.n /\ row.text = Body

\* A second answer to a question supersedes the first (BriefingStore.record_answer).
RepetitionSupersedes == \A c \in Comments : status[c] # "lost"
=============================================================================
