---------------------------- MODULE AnswersProofs ----------------------------
(***************************************************************************)
(* Theorems about the answers a comment is recorded with, for comments of  *)
(* any length, any number of rounds and of questions.  findall is defined  *)
(* by recursion over the lines, from the last one on; what it finds is     *)
(* proved by looking at the least line from which all is well: were it not *)
(* the first one, the line before it would be as good.                     *)
(***************************************************************************)
EXTENDS Answers, WellFoundedInduction, TLAPS

\* A set of numbers has a least one.
LEMMA Least ==
  ASSUME NEW S \in SUBSET Nat, S # {}
  PROVE  \E i \in S : \A k \in S : i <= k
<1>1. PICK i \in S : \A k \in S : ~ (<<k, i>> \in OpToRel(<, Nat))
  BY NatLessThanWellFounded, WFMin
<1>2. \A k \in S : ~ (k < i)
  BY <1>1 DEF OpToRel
<1> QED BY <1>2

\* A set of lines that has the end, and with a line the one before it, has the first.
LEMMA Downwards ==
  ASSUME NEW N \in Nat, NEW S \in SUBSET (1..(N + 1)), N + 1 \in S,
         \A k \in S : k > 1 => k - 1 \in S
  PROVE  1 \in S
<1>1. PICK i \in S : \A k \in S : i <= k
  <2>1. S \in SUBSET Nat /\ S # {}
    OBVIOUS
  <2> QED BY <2>1, Least
<1>2. i - 1 \in S => i <= i - 1
  BY <1>1
<1>3. i \in 1..(N + 1)
  BY <1>1
<1> QED BY <1>1, <1>2, <1>3
-----------------------------------------------------------------------------
(* findall *)

Places(lines) == 1..(Len(lines) + 1)

\* The next line with something on it is a later one.
LEMMA NextLineLater ==
  ASSUME NEW lines \in Seq(Lines), NEW i \in 1..Len(lines)
  PROVE  NextLine(lines, i) = 0 \/ NextLine(lines, i) \in (i + 1)..Len(lines)
<1> DEFINE I == {k \in (i + 1)..Len(lines) : lines[k].kind # "blank"}
<1>1. NextLine(lines, i) = IF I # {} THEN Min(I) ELSE 0
  BY DEF NextLine, SelectInSubSeq
<1>2. CASE I = {}
  BY <1>1, <1>2
<1>3. CASE I # {}
  <2>1. I \in SUBSET Nat /\ I \subseteq (i + 1)..Len(lines)
    OBVIOUS
  <2>2. \E k \in I : \A m \in I : k <= m
    <3> HIDE DEF I
    <3> QED BY <1>3, <2>1, Least
  <2>3. Min(I) \in I
    BY <2>2 DEF Min
  <2> QED BY <1>1, <1>3, <2>1, <2>3
<1> QED BY <1>2, <1>3

\* A match depends on what is found on later lines only.
LEMMA MatchIsLocal ==
  ASSUME NEW lines \in Seq(Lines), NEW i \in 1..Len(lines), NEW f, NEW g,
         \A k \in (i + 1)..(Len(lines) + 1) : f[k] = g[k]
  PROVE  MatchAt(lines, i, f) = MatchAt(lines, i, g)
<1>1. i + 1 \in (i + 1)..(Len(lines) + 1)
  OBVIOUS
<1>2. NextLine(lines, i) # 0 => NextLine(lines, i) + 1 \in (i + 1)..(Len(lines) + 1)
  BY NextLineLater
<1> QED BY <1>1, <1>2 DEF MatchAt

\* What is found from a line on, by the equation that defines it.
Equation(lines, f, i) == f[i] = IF i > Len(lines) THEN {} ELSE MatchAt(lines, i, f)

\* There is a function that satisfies its equation from a line on.
Defined(lines, k) ==
  \E f : f = [i \in Places(lines) |-> f[i]] /\ \A i \in Places(lines) : i >= k => Equation(lines, f, i)

LEMMA DefinedEverywhere ==
  ASSUME NEW lines \in Seq(Lines)
  PROVE  Defined(lines, 1)
<1> DEFINE N == Len(lines)
           S == {k \in Places(lines) : Defined(lines, k)}
<1>1. N \in Nat
  OBVIOUS
<1>2. N + 1 \in S
  <2> DEFINE f == [i \in Places(lines) |-> {}]
  <2>1. f = [i \in Places(lines) |-> f[i]] /\ \A i \in Places(lines) : i >= N + 1 => Equation(lines, f, i)
    BY <1>1 DEF Places, Equation
  <2>2. Defined(lines, N + 1)
    BY <2>1 DEF Defined
  <2> QED BY <1>1, <2>2 DEF Places
<1>3. ASSUME NEW k \in S, k > 1 PROVE k - 1 \in S
  <2>1. PICK f : /\ f = [i \in Places(lines) |-> f[i]]
                 /\ \A i \in Places(lines) : i >= k => Equation(lines, f, i)
    BY <1>3 DEF Defined
  <2>2. k \in 2..(N + 1) /\ k - 1 \in 1..N /\ k - 1 \in Places(lines)
    BY <1>1, <1>3 DEF Places
  <2> DEFINE g == [f EXCEPT ![k - 1] = MatchAt(lines, k - 1, f)]
  <2>3. /\ g = [i \in Places(lines) |-> g[i]]
        /\ g[k - 1] = MatchAt(lines, k - 1, f)
        /\ \A i \in Places(lines) : i # k - 1 => g[i] = f[i]
    BY <2>1, <2>2
  <2> HIDE DEF g
  <2>4. ASSUME NEW i \in Places(lines), i >= k - 1 PROVE Equation(lines, g, i)
    <3>1. CASE i > N
      <4>1. i # k - 1 /\ i >= k
        BY <1>1, <2>2, <2>4, <3>1
      <4> QED BY <2>1, <2>3, <3>1, <4>1 DEF Equation
    <3>2. CASE ~ (i > N)
      <4>1. i \in 1..N /\ \A m \in (i + 1)..(N + 1) : m \in Places(lines) /\ m # k - 1
        BY <1>1, <2>2, <2>4, <3>2 DEF Places
      <4>2. MatchAt(lines, i, f) = MatchAt(lines, i, g)
        BY <2>3, <4>1, MatchIsLocal
      <4>3. i = k - 1 \/ (i # k - 1 /\ i >= k)
        BY <2>2, <2>4 DEF Places
      <4> QED BY <2>1, <2>3, <3>2, <4>2, <4>3 DEF Equation
    <3> QED BY <3>1, <3>2
  <2>5. Defined(lines, k - 1)
    BY <2>3, <2>4 DEF Defined
  <2> QED BY <2>2, <2>5
<1>4. S \in SUBSET (1..(N + 1))
  BY DEF Places
<1> HIDE DEF S, N
<1>5. 1 \in S
  BY <1>1, <1>2, <1>3, <1>4, Downwards
<1> QED BY <1>5 DEF S

LEMMA FoundEquation ==
  ASSUME NEW lines \in Seq(Lines), NEW i \in Places(lines)
  PROVE  Equation(lines, FoundFrom(lines), i)
<1> DEFINE IsFound(f) ==
             f = [k \in Places(lines) |-> IF k > Len(lines) THEN {} ELSE MatchAt(lines, k, f)]
<1>1. PICK f : /\ f = [k \in Places(lines) |-> f[k]]
               /\ \A k \in Places(lines) : k >= 1 => Equation(lines, f, k)
  BY DefinedEverywhere DEF Defined
<1>2. \A k \in Places(lines) : k >= 1
  BY DEF Places
<1>3. IsFound(f)
  BY <1>1, <1>2 DEF Equation
<1>4. FoundFrom(lines) = CHOOSE g : IsFound(g)
  BY DEF FoundFrom, Places
<1>5. IsFound(FoundFrom(lines))
  <2> HIDE DEF IsFound
  <2> QED BY <1>3, <1>4
<1> QED BY <1>5 DEF Equation

\* Matches of lines, by place, with the ordinal and the text of a comment's line.
Matches(lines) ==
  [at : 1..Len(lines), n : Ordinals, text : {Body, Empty} \union Lines]

LEMMA FoundType ==
  ASSUME NEW lines \in Seq(Lines)
  PROVE  \A m \in Found(lines) : m \in Matches(lines)
<1> DEFINE N == Len(lines)
           S == {k \in Places(lines) :
                   \A i \in Places(lines) : i >= k => FoundFrom(lines)[i] \subseteq Matches(lines)}
<1>1. N \in Nat
  OBVIOUS
<1>2. N + 1 \in S
  <2>1. N + 1 \in Places(lines) /\ \A i \in Places(lines) : i >= N + 1 => i > Len(lines)
    BY <1>1 DEF Places
  <2> QED BY <2>1, FoundEquation DEF Equation
<1>3. ASSUME NEW k \in S, k > 1 PROVE k - 1 \in S
  <2> DEFINE i == k - 1
  <2>1. i \in 1..N /\ i \in Places(lines) /\ ~ (i > Len(lines)) /\ i + 1 = k /\ k \in Places(lines)
    BY <1>1, <1>3 DEF Places
  <2>2. FoundFrom(lines)[i] = MatchAt(lines, i, FoundFrom(lines))
    BY <2>1, FoundEquation DEF Equation
  <2>3. \A m \in (i + 1)..(N + 1) : m \in Places(lines) /\ FoundFrom(lines)[m] \subseteq Matches(lines)
    <3>1. \A m \in (i + 1)..(N + 1) : m \in Places(lines) /\ m >= k
      BY <1>1, <2>1 DEF Places
    <3> QED BY <1>3, <3>1
  <2>4. NextLine(lines, i) = 0 \/ NextLine(lines, i) \in (i + 1)..N
    BY <2>1, NextLineLater
  <2>5. lines[i] \in Lines /\ (NextLine(lines, i) # 0 => lines[NextLine(lines, i)] \in Lines)
    BY <2>1, <2>4
  <2>6. lines[i].kind \in {"answer", "bare", "spaced"} => lines[i].n \in Ordinals
    BY <2>5 DEF Lines
  <2>7. FoundFrom(lines)[i] \subseteq Matches(lines)
    <3> HIDE DEF i, N
    <3>1. i + 1 \in (i + 1)..(N + 1)
          /\ (NextLine(lines, i) # 0 => NextLine(lines, i) + 1 \in (i + 1)..(N + 1))
      BY <1>1, <2>1, <2>4
    <3>2. i \in 1..Len(lines)
      BY <2>1 DEF N
    <3>3. ASSUME NEW text \in {Body, Empty} \union Lines, NEW rest \in (i + 1)..(N + 1),
                 lines[i].n \in Ordinals
          PROVE  {[at |-> i, n |-> lines[i].n, text |-> text]} \union FoundFrom(lines)[rest]
                   \subseteq Matches(lines)
      <4>1. [at |-> i, n |-> lines[i].n, text |-> text] \in Matches(lines)
        BY <3>2, <3>3 DEF Matches
      <4> QED BY <2>3, <4>1
    <3>4. CASE lines[i].kind = "answer"
      <4>1. FoundFrom(lines)[i] =
              {[at |-> i, n |-> lines[i].n, text |-> Body]} \union FoundFrom(lines)[i + 1]
        BY <2>2, <3>4 DEF MatchAt
      <4> QED BY <2>6, <3>1, <3>3, <3>4, <4>1
    <3>5. CASE lines[i].kind \in {"bare", "spaced"} /\ NextLine(lines, i) # 0
      <4>1. FoundFrom(lines)[i] =
              {[at |-> i, n |-> lines[i].n, text |-> lines[NextLine(lines, i)]]}
                \union FoundFrom(lines)[NextLine(lines, i) + 1]
        BY <2>2, <3>5 DEF MatchAt
      <4> QED BY <2>5, <2>6, <3>1, <3>3, <3>5, <4>1
    <3>6. CASE lines[i].kind = "spaced" /\ NextLine(lines, i) = 0
      <4>1. FoundFrom(lines)[i] =
              {[at |-> i, n |-> lines[i].n, text |-> Empty]} \union FoundFrom(lines)[i + 1]
        BY <2>2, <3>6 DEF MatchAt
      <4> QED BY <2>6, <3>1, <3>3, <3>6, <4>1
    <3>7. CASE lines[i].kind \notin {"answer", "bare", "spaced"}
                 \/ (lines[i].kind = "bare" /\ NextLine(lines, i) = 0)
      <4>1. FoundFrom(lines)[i] = FoundFrom(lines)[i + 1]
        BY <2>2, <3>7 DEF MatchAt
      <4> QED BY <2>3, <3>1, <4>1
    <3> QED BY <3>4, <3>5, <3>6, <3>7
  <2>8. \A m \in Places(lines) : m >= i => m = i \/ m >= k
    BY <2>1 DEF Places
  <2> QED BY <1>3, <2>1, <2>7, <2>8
<1>4. S \in SUBSET (1..(N + 1))
  BY DEF Places
<1>5. 1 \in S
  <2> HIDE DEF S, N
  <2> QED BY <1>1, <1>2, <1>3, <1>4, Downwards
<1>6. 1 \in Places(lines)
  BY <1>1 DEF Places
<1>7. FoundFrom(lines)[1] \subseteq Matches(lines)
  BY <1>5, <1>6 DEF Places
<1> QED BY <1>7 DEF Found

\* A comment without a header that has its body on another line.
Plain(lines) == \A i \in 1..Len(lines) : lines[i].kind \notin {"bare", "spaced"}

\* What such a comment says from line i on.
SaidFrom(lines, i) ==
  {[at |-> k, n |-> lines[k].n, text |-> Body] : k \in {m \in i..Len(lines) : lines[m].kind = "answer"}}

LEMMA FoundPlain ==
  ASSUME NEW lines \in Seq(Lines), Plain(lines)
  PROVE  Found(lines) = SaidFrom(lines, 1)
<1> DEFINE N == Len(lines)
           S == {k \in Places(lines) : FoundFrom(lines)[k] = SaidFrom(lines, k)}
<1>1. N \in Nat
  OBVIOUS
<1>2. N + 1 \in S
  <2>1. N + 1 \in Places(lines) /\ N + 1 > Len(lines) /\ (N + 1)..Len(lines) = {}
    BY <1>1 DEF Places
  <2> QED BY <2>1, FoundEquation DEF Equation, SaidFrom
<1>3. ASSUME NEW k \in S, k > 1 PROVE k - 1 \in S
  <2> DEFINE i == k - 1
  <2>1. i \in 1..N /\ i \in Places(lines) /\ ~ (i > Len(lines)) /\ i + 1 = k
    BY <1>1, <1>3 DEF Places
  <2>2. FoundFrom(lines)[i] = MatchAt(lines, i, FoundFrom(lines))
    BY <2>1, FoundEquation DEF Equation
  <2>3. i..N = {i} \union (k..N)
    BY <1>1, <2>1
  <2>4. lines[i].kind \notin {"bare", "spaced"}
    BY <2>1 DEF Plain
  <2>5. CASE lines[i].kind = "answer"
    <3>1. FoundFrom(lines)[i] = {[at |-> i, n |-> lines[i].n, text |-> Body]} \union FoundFrom(lines)[k]
      BY <2>1, <2>2, <2>5 DEF MatchAt
    <3>2. SaidFrom(lines, i) = {[at |-> i, n |-> lines[i].n, text |-> Body]} \union SaidFrom(lines, k)
      <4> HIDE DEF i
      <4> QED BY <2>3, <2>5 DEF SaidFrom
    <3> QED BY <1>3, <2>1, <3>1, <3>2
  <2>6. CASE lines[i].kind # "answer"
    <3>1. FoundFrom(lines)[i] = FoundFrom(lines)[k]
      BY <2>1, <2>2, <2>4, <2>6 DEF MatchAt
    <3>2. SaidFrom(lines, i) = SaidFrom(lines, k)
      <4> HIDE DEF i
      <4> QED BY <2>3, <2>6 DEF SaidFrom
    <3> QED BY <1>3, <2>1, <3>1, <3>2
  <2> QED BY <2>5, <2>6
<1>4. S \in SUBSET (1..(N + 1))
  BY DEF Places
<1>5. 1 \in S
  <2> HIDE DEF S, N
  <2> QED BY <1>1, <1>2, <1>3, <1>4, Downwards
<1> QED BY <1>5 DEF Found
-----------------------------------------------------------------------------
(* Types *)

LEMMA TypeInit == Init => TypeOK
BY AnswersAssumption DEF Init, TypeOK, NoComment, Commands, Lines, Rounds

\* Answers that are kept are to questions of a round that was asked.
LEMMA GoodType ==
  ASSUME TypeOK, NEW c \in Comments, comment[c].command.round \in 1..Len(asked)
  PROVE  \A m \in Good(c) : /\ m.n \in 1..asked[comment[c].command.round]
                            /\ m.n \in Ordinals
                            /\ m.text \in {Body, Empty} \union Lines
<1>1. comment[c].lines \in Seq(Lines)
  BY DEF TypeOK
<1> QED BY <1>1, FoundType DEF Good, Extracted, Matches

\* A line of a comment becomes a sequence of lines: SeqOf is a set of sequences.
LEMMA WrittenType ==
  ASSUME NEW k \in Nat, NEW lines \in SeqOf(Lines, k)
  PROVE  lines \in Seq(Lines)
BY DEF SeqOf

LEMMA TypeNext == TypeOK /\ [Next]_vars => TypeOK'
<1> SUFFICES ASSUME TypeOK, [Next]_vars PROVE TypeOK'
  OBVIOUS
<1> USE DEF TypeOK
<1>1. ASSUME NEW c \in Comments, Write(c) PROVE TypeOK'
  <2>1. PICK command \in Commands, lines \in SeqOf(Lines, MaxLines[c]) :
          /\ comment' = [comment EXCEPT ![c] = [command |-> command, lines |-> lines]]
          /\ status' = [status EXCEPT ![c] = IF command.kind = "none" THEN "ignored" ELSE "queued"]
    BY <1>1 DEF Write
  <2>2. lines \in Seq(Lines)
    BY WrittenType, AnswersAssumption
  <2> QED BY <1>1, <2>1, <2>2 DEF Write
<1>2. ASSUME NEW c \in Comments, Stub(c) \/ Read(c) \/ NothingAccepted(c) \/ Lost(c) \/ Stale(c)
      PROVE  TypeOK'
  <2>1. Session \in Sessions
    BY DEF Session, Sessions, Active
  <2> QED BY <1>2, <2>1 DEF Stub, Read, NothingAccepted, Lost, Stale, Handled
<1>3. ASSUME NEW c \in Comments, Accept(c) PROVE TypeOK'
  <2> USE <1>3 DEF Accept, Handled, OnTime, Unmoved, Session
  <2>1. comment[c].command.round \in 1..Len(asked)
    BY DEF Active, Rounds
  <2>2. /\ UNCHANGED comment
        /\ status' \in [Comments -> {"unwritten", "ignored", "queued", "reading", "stub", "nothing",
                                     "lost", "stale", "accepted"}]
        /\ seen' \in [Comments -> Sessions \union {NotRead}]
        /\ state' \in {"WAITING_ANSWERS", "READY_FOR_GO", "BLOCKED_MANUAL"}
    OBVIOUS
  <2>3. asked' \in Seq(Ordinals) /\ Len(asked') \in Rounds
        /\ \A n \in 1..Len(asked) : n \in 1..Len(asked') /\ asked'[n] = asked[n]
    <3>1. CASE asked' = asked
      BY <3>1
    <3>2. ASSUME NEW k \in Ordinals, asked' = Append(asked, k), Active < MaxRounds
          PROVE  <2>3
      <4>1. Len(asked) \in Nat /\ Len(asked') = Len(asked) + 1
        BY <3>2
      <4> QED BY <3>2, <4>1, AnswersAssumption DEF Active, Rounds
    <3> QED BY <3>1, <3>2
  <2>4. \A row \in rows' :
          /\ row.round \in 1..Len(asked) /\ row.n \in 1..asked[row.round]
          /\ row.text \in {Body, Empty} \union Lines
          /\ row.comment \in Comments
    BY <2>1, GoodType
  <2> QED BY <2>2, <2>3, <2>4
<1>4. CASE UNCHANGED vars
  BY <1>4 DEF vars
<1> QED BY <1>1, <1>2, <1>3, <1>4 DEF Next

\* Every row is an answer to a question that was asked, and comments are what they are.
THEOREM TypeCorrect == Spec => []TypeOK
BY TypeInit, TypeNext, PTL DEF Spec
-----------------------------------------------------------------------------
(* The rows of a round, the rows of a comment *)

\* The rows a comment was recorded with.
RowsOf(c) == {row \in rows : row.comment = c}

AsRows(c) ==
  {[round |-> comment[c].command.round, n |-> m.n, text |-> m.text, comment |-> c] : m \in Good(c)}

\* An accepted comment has the rows it reads as, with one row for each question, and its
\* round is over; nobody else has a row.
Recorded ==
  /\ \A c \in Comments : status[c] # "accepted" => RowsOf(c) = {}
  /\ \A c \in Comments : status[c] = "accepted" =>
       /\ RowsOf(c) = AsRows(c) /\ ~ Clash(c)
       /\ comment[c].command.round \in 1..Len(asked)
       /\ state = "WAITING_ANSWERS" => comment[c].command.round < Active
  /\ \A c, d \in Comments :
       status[c] = "accepted" /\ status[d] = "accepted"
         /\ comment[c].command.round = comment[d].command.round => c = d

IndInv == TypeOK /\ Recorded

\* What a comment reads as does not change while its round's questions do not.
LEMMA GoodStays ==
  ASSUME NEW c \in Comments, comment'[c] = comment[c],
         asked'[comment[c].command.round] = asked[comment[c].command.round]
  PROVE  Good(c)' = Good(c) /\ (Clash(c)' <=> Clash(c)) /\ AsRows(c)' = AsRows(c)
<1>1. Good(c)' = Good(c)
  BY DEF Good, Extracted, Found, FoundFrom, MatchAt, NextLine, SelectInSubSeq
<1> QED BY <1>1 DEF Clash, AsRows

LEMMA RecordedInit == Init => Recorded
BY DEF Init, Recorded, RowsOf

\* A comment that changes its status, and not to "accepted", adds no row.
LEMMA RecordedQuiet ==
  ASSUME IndInv, NEW c \in Comments, status[c] # "accepted", NEW to, to # "accepted",
         status' = [status EXCEPT ![c] = to], UNCHANGED <<state, asked, rows>>,
         \A d \in Comments : d # c => comment'[d] = comment[d]
  PROVE  Recorded'
<1> USE DEF IndInv, TypeOK
<1>1. \A d \in Comments : status'[d] = IF d = c THEN to ELSE status[d]
  OBVIOUS
<1>2. \A d \in Comments : status'[d] = "accepted" =>
        d # c /\ status[d] = "accepted" /\ comment'[d] = comment[d]
  BY <1>1
<1>3. \A d \in Comments : RowsOf(d)' = RowsOf(d)
  BY DEF RowsOf
<1>4. \A d \in Comments : status'[d] = "accepted" =>
        (Clash(d)' <=> Clash(d)) /\ AsRows(d)' = AsRows(d)
  BY <1>2, GoodStays
<1>5. \A d \in Comments : status'[d] # "accepted" => status[d] # "accepted"
  BY <1>1
<1> QED BY <1>2, <1>3, <1>4, <1>5 DEF Recorded, Active

LEMMA RecordedAccept == ASSUME IndInv, NEW c \in Comments, Accept(c) PROVE Recorded'
<1> USE DEF IndInv, TypeOK
<1>1. /\ status[c] = "reading" /\ status' = [status EXCEPT ![c] = "accepted"]
      /\ state = "WAITING_ANSWERS" /\ comment[c].command.round = Len(asked)
      /\ ~ Clash(c) /\ comment' = comment /\ rows' = rows \union AsRows(c)
  BY DEF Accept, Handled, OnTime, Unmoved, Session, Active, AsRows
<1>2. /\ \A n \in 1..Len(asked) : asked'[n] = asked[n] /\ n \in 1..Len(asked')
      /\ state' = "WAITING_ANSWERS" => Len(asked') = Len(asked) + 1
      /\ Len(asked) \in Nat /\ Len(asked) > 0
  <2>1. Len(asked) \in Nat /\ Len(asked) > 0
    BY AnswersAssumption DEF Rounds
  <2>2. CASE asked' = asked /\ state' # "WAITING_ANSWERS"
    BY <2>1, <2>2
  <2>3. ASSUME NEW k \in Ordinals, asked' = Append(asked, k)
        PROVE  /\ \A n \in 1..Len(asked) : asked'[n] = asked[n] /\ n \in 1..Len(asked')
               /\ Len(asked') = Len(asked) + 1
    BY <2>1, <2>3
  <2> QED BY <2>1, <2>2, <2>3 DEF Accept
<1>3. \A d \in Comments : status'[d] = IF d = c THEN "accepted" ELSE status[d]
  BY <1>1
<1>4. \A d \in Comments : comment[d].command.round \in 1..Len(asked) =>
        (Clash(d)' <=> Clash(d)) /\ AsRows(d)' = AsRows(d)
  BY <1>1, <1>2, GoodStays
<1>5. \A d \in Comments : d # c => RowsOf(d)' = RowsOf(d)
  BY <1>1 DEF RowsOf, AsRows
<1>6. RowsOf(c)' = AsRows(c)
  <2>1. RowsOf(c) = {}
    BY <1>1 DEF Recorded
  <2>2. \A row \in AsRows(c) : row.comment = c
    BY DEF AsRows
  <2>3. {row \in rows \union AsRows(c) : row.comment = c} = AsRows(c)
    BY <2>1, <2>2 DEF RowsOf
  <2> QED BY <1>1, <2>3 DEF RowsOf
<1>7. comment[c].command.round \in 1..Len(asked)
  BY <1>1, <1>2
<1>8. \A d \in Comments : d # c /\ status[d] = "accepted" =>
        comment[d].command.round \in 1..Len(asked) /\ comment[d].command.round < Len(asked)
  BY <1>1 DEF Recorded, Active
<1>9. ASSUME NEW d \in Comments, status'[d] # "accepted" PROVE RowsOf(d)' = {}
  BY <1>3, <1>5, <1>9 DEF Recorded
<1>10. ASSUME NEW d \in Comments, status'[d] = "accepted"
       PROVE  /\ RowsOf(d)' = AsRows(d)' /\ ~ Clash(d)'
              /\ comment'[d].command.round \in 1..Len(asked')
              /\ state' = "WAITING_ANSWERS" => comment'[d].command.round < Active'
  <2>1. CASE d = c
    BY <1>1, <1>2, <1>4, <1>6, <1>7, <2>1 DEF Active
  <2>2. CASE d # c
    <3>1. status[d] = "accepted"
      BY <1>3, <1>10, <2>2
    <3>2. RowsOf(d) = AsRows(d) /\ ~ Clash(d)
      BY <3>1 DEF Recorded
    <3> QED BY <1>1, <1>2, <1>4, <1>5, <1>8, <2>2, <3>1, <3>2 DEF Active
  <2> QED BY <2>1, <2>2
<1>11. ASSUME NEW d \in Comments, NEW e \in Comments, status'[d] = "accepted",
              status'[e] = "accepted",
              comment'[d].command.round = comment'[e].command.round
       PROVE  d = e
  <2>1. d # c => comment[d].command.round < Len(asked)
    BY <1>3, <1>8, <1>11
  <2>2. e # c => comment[e].command.round < Len(asked)
    BY <1>3, <1>8, <1>11
  <2>3. CASE d = c \/ e = c
    BY <1>1, <1>2, <1>11, <2>1, <2>2, <2>3
  <2>4. CASE d # c /\ e # c
    BY <1>1, <1>3, <1>11, <2>4 DEF Recorded
  <2> QED BY <2>3, <2>4
<1> QED BY <1>9, <1>10, <1>11 DEF Recorded

LEMMA RecordedNext == IndInv /\ [Next]_vars => Recorded'
<1> SUFFICES ASSUME IndInv, [Next]_vars PROVE Recorded'
  OBVIOUS
<1>1. ASSUME NEW c \in Comments,
             Write(c) \/ Stub(c) \/ Read(c) \/ NothingAccepted(c) \/ Lost(c) \/ Stale(c)
      PROVE  Recorded'
  <2>1. status[c] # "accepted" /\ UNCHANGED <<state, asked, rows>>
        /\ \A d \in Comments : d # c => comment'[d] = comment[d]
    BY <1>1 DEF Write, Stub, Read, NothingAccepted, Lost, Stale, Handled, IndInv, TypeOK
  <2>2. PICK to : to # "accepted" /\ status' = [status EXCEPT ![c] = to]
    <3>1. CASE Write(c)
      <4>1. PICK command \in Commands :
              status' = [status EXCEPT ![c] = IF command.kind = "none" THEN "ignored" ELSE "queued"]
        BY <3>1 DEF Write
      <4>2. status' = [status EXCEPT ![c] = "ignored"] \/ status' = [status EXCEPT ![c] = "queued"]
        BY <4>1
      <4> QED BY <4>2
    <3>2. CASE Stub(c) \/ Read(c) \/ NothingAccepted(c) \/ Lost(c) \/ Stale(c)
      BY <3>2 DEF Stub, Read, NothingAccepted, Lost, Stale, Handled
    <3> QED BY <1>1, <3>1, <3>2
  <2> QED BY <2>1, <2>2, RecordedQuiet
<1>2. CASE UNCHANGED vars
  <2>1. UNCHANGED <<comment, status, seen, state, asked, rows>>
    BY <1>2 DEF vars
  <2>2. \A c \in Comments :
          (Clash(c)' <=> Clash(c)) /\ AsRows(c)' = AsRows(c) /\ RowsOf(c)' = RowsOf(c)
    BY <2>1, GoodStays DEF RowsOf
  <2> QED BY <2>1, <2>2 DEF IndInv, Recorded, Active
<1> QED BY <1>1, <1>2, RecordedAccept DEF Next

LEMMA Inductive == Spec => []IndInv
BY TypeInit, TypeNext, RecordedInit, RecordedNext, PTL DEF Spec, IndInv

\* However many jobs have read a round when one of them records its answers, and however
\* late a comment is, the answers of a round are one comment's.
THEOREM OneCommentAnswers == Spec => []OneCommentPerRound
<1>1. IndInv => OneCommentPerRound
  <2> SUFFICES ASSUME IndInv, NEW r \in rows, NEW s \in rows, r.round = s.round
               PROVE  r.comment = s.comment /\ (r.n = s.n => r = s)
    BY DEF OneCommentPerRound
  <2> USE DEF IndInv
  <2>1. /\ r.comment \in Comments /\ r \in RowsOf(r.comment)
        /\ s.comment \in Comments /\ s \in RowsOf(s.comment)
    BY DEF TypeOK, RowsOf
  <2>2. status[r.comment] = "accepted" /\ status[s.comment] = "accepted"
    BY <2>1 DEF Recorded
  <2>3. r \in AsRows(r.comment) /\ s \in AsRows(s.comment)
    BY <2>1, <2>2 DEF Recorded
  <2>4. r.comment = s.comment
    BY <2>1, <2>2, <2>3 DEF Recorded, AsRows
  <2>5. ~ Clash(r.comment)
    BY <2>1, <2>2 DEF Recorded
  <2> QED BY <2>3, <2>4, <2>5 DEF AsRows, Clash
<1> QED BY <1>1, Inductive, PTL

\* A comment whose answers stand on the lines of their headers is recorded as it reads,
\* however long it is.
THEOREM PlainIsKept == Spec => []PlainAnswersAreKept
<1>1. IndInv => PlainAnswersAreKept
  <2> SUFFICES ASSUME IndInv, NEW c \in Comments, status[c] = "accepted",
                      \A i \in DOMAIN comment[c].lines :
                        comment[c].lines[i].kind \notin {"bare", "spaced"}
               PROVE  {[n |-> row.n, text |-> row.text] : row \in RowsOf(c)} =
                        {[n |-> line.n, text |-> Body] :
                           line \in {l \in {comment[c].lines[i] : i \in DOMAIN comment[c].lines} :
                                       l.kind = "answer"
                                         /\ l.n <= asked[comment[c].command.round]}}
    BY DEF PlainAnswersAreKept, RowsOf
  <2> DEFINE lines == comment[c].lines
             known == asked[comment[c].command.round]
  <2>1. lines \in Seq(Lines) /\ DOMAIN lines = 1..Len(lines)
    BY DEF IndInv, TypeOK
  <2>2. RowsOf(c) = AsRows(c) /\ comment[c].command.round \in 1..Len(asked) /\ known \in Nat
    <3>1. RowsOf(c) = AsRows(c) /\ comment[c].command.round \in 1..Len(asked)
      BY DEF IndInv, Recorded
    <3>2. asked \in Seq(Ordinals)
      BY DEF IndInv, TypeOK
    <3>3. known \in Ordinals
      BY <3>1, <3>2
    <3> QED BY <3>1, <3>3 DEF Ordinals
  <2>3. Found(lines) = SaidFrom(lines, 1)
    BY <2>1, FoundPlain DEF Plain
  <2>4. \A i \in 1..Len(lines) : lines[i].kind = "answer" =>
          lines[i].n \in Nat /\ (lines[i].n \in 1..known <=> lines[i].n <= known)
    BY <2>1, <2>2 DEF Lines, Ordinals
  <2>5. Good(c) = {m \in SaidFrom(lines, 1) : m.n \in 1..known}
    BY <2>3 DEF Good, Extracted
  <2> HIDE DEF lines, known
  <2>6. {[n |-> row.n, text |-> row.text] : row \in RowsOf(c)} =
          {[n |-> m.n, text |-> m.text] : m \in Good(c)}
    <3>1. ASSUME NEW m \in Good(c) PROVE \E row \in RowsOf(c) : row.n = m.n /\ row.text = m.text
      <4>1. [round |-> comment[c].command.round, n |-> m.n, text |-> m.text, comment |-> c]
              \in RowsOf(c)
        BY <2>2 DEF AsRows
      <4> QED BY <4>1
    <3>2. \A row \in RowsOf(c) : \E m \in Good(c) : row.n = m.n /\ row.text = m.text
      BY <2>2 DEF AsRows
    <3> QED BY <3>1, <3>2
  <2>7. {[n |-> m.n, text |-> m.text] : m \in Good(c)} =
          {[n |-> lines[i].n, text |-> Body] :
             i \in {k \in 1..Len(lines) : lines[k].kind = "answer" /\ lines[k].n <= known}}
    <3> DEFINE K == {k \in 1..Len(lines) : lines[k].kind = "answer" /\ lines[k].n <= known}
    <3>1. \A m \in Good(c) : \E k \in K : m.n = lines[k].n /\ m.text = Body
      BY <2>4, <2>5 DEF SaidFrom
    <3>2. ASSUME NEW k \in K PROVE \E m \in Good(c) : m.n = lines[k].n /\ m.text = Body
      <4>1. [at |-> k, n |-> lines[k].n, text |-> Body] \in Good(c)
        BY <2>4, <2>5, <3>2 DEF SaidFrom
      <4> QED BY <4>1
    <3> QED BY <3>1, <3>2
  <2> QED BY <2>1, <2>6, <2>7 DEF lines, known
<1> QED BY <1>1, Inductive, PTL
=============================================================================
