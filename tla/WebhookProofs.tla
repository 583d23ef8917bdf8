---------------------------- MODULE WebhookProofs ---------------------------
(***************************************************************************)
(* Theorems about the way of an event into the queue, for any numbers of   *)
(* edits, comments, deliveries, workers and failures.  An event has a      *)
(* budget: the free mark of its id, a delivery that holds the mark and     *)
(* has not routed it yet, or what was routed.  Only the expiry of a mark   *)
(* adds to it, and that is counted as a failure.  With one worker, edits   *)
(* in different seconds and no failure, the last edit is stored, queued or *)
(* in the hands of a job, so it is stored in the end.                      *)
(***************************************************************************)
EXTENDS Webhook, FiniteSetTheorems, TLAPS

HandlerStates == {"none", "marked", "duplicate", "ok", "ignored", "error"}

Marking(e) == {d \in Deliveries : d[1] = e /\ handler[d] = "marked"}

Free(e) == IF EventId(e) \in seen THEN 0 ELSE 1

Types ==
  /\ handler \in [Deliveries -> HandlerStates]
  /\ routed \in [Events -> Nat] /\ failures \in Nat

Budget == \A e \in Events : routed[e] + Cardinality(Marking(e)) + Free(e) <= 1 + failures

IndInv == Types /\ Budget

\* Deliveries of an event are finitely many.
LEMMA MarkingFinite ==
  ASSUME NEW e \in Events
  PROVE  IsFiniteSet(Marking(e)) /\ Cardinality(Marking(e)) \in Nat
<1> DEFINE f == [k \in 1..MaxTries |-> <<e, k>>]
           T == {<<e, k>> : k \in 1..MaxTries}
<1>1. IsFiniteSet(1..MaxTries)
  BY FS_Interval, WebhookAssumption
<1>2. IsFiniteSet(T)
  <2>1. f \in Surjection(1..MaxTries, T)
    BY DEF Surjection
  <2> HIDE DEF f, T
  <2> QED BY <1>1, <2>1, FS_Surjection
<1>3. Marking(e) \subseteq T
  BY DEF Marking, Deliveries
<1> QED BY <1>2, <1>3, FS_Subset, FS_CardinalityType

\* At the start every mark is free.
LEMMA InitInv == Init => IndInv
<1> SUFFICES ASSUME Init PROVE IndInv
  OBVIOUS
<1>1. \A e \in Events : Marking(e) = {} /\ Cardinality({}) = 0
  BY FS_EmptySet DEF Init, Marking
<1>2. \A e \in Events : Free(e) = 1 /\ routed[e] = 0
  BY DEF Init, Free
<1>3. Types
  BY DEF Init, Types, HandlerStates
<1>4. \A e \in Events : Cardinality(Marking(e)) = 0
  BY <1>1
<1>5. \A e \in Events : routed[e] + Cardinality(Marking(e)) + Free(e) <= 1 + failures
  <2> TAKE e \in Events
  <2>1. Cardinality(Marking(e)) = 0 /\ Free(e) = 1 /\ routed[e] = 0
    BY <1>2, <1>4
  <2> QED BY <2>1 DEF Init
<1> QED BY <1>3, <1>5 DEF IndInv, Budget

\* A delivery that stops holding the mark of its event.
LEMMA Unmark ==
  ASSUME Types, NEW d \in Deliveries, handler[d] = "marked",
         NEW to \in HandlerStates \ {"marked"}, handler' = [handler EXCEPT ![d] = to]
  PROVE  /\ handler' \in [Deliveries -> HandlerStates] /\ d[1] \in Events
         /\ Cardinality(Marking(d[1])') = Cardinality(Marking(d[1])) - 1
         /\ Cardinality(Marking(d[1])) \in Nat
         /\ \A e \in Events : e # d[1] => Marking(e)' = Marking(e)
<1> DEFINE q == d[1]
<1>1. d[1] \in Events
  BY DEF Deliveries
<1>2. PICK e \in Events : e = d[1]
  BY <1>1
<1>3. Marking(e)' = Marking(e) \ {d} /\ d \in Marking(e)
  BY <1>2 DEF Types, Marking
<1>4. Cardinality(Marking(e)') = Cardinality(Marking(e)) - 1 /\ Cardinality(Marking(e)) \in Nat
  BY <1>3, MarkingFinite, FS_RemoveElement
<1>5. \A f \in Events : f # d[1] => Marking(f)' = Marking(f)
  BY DEF Types, Marking
<1> QED BY <1>2, <1>4, <1>5 DEF Types

\* A step that leaves the deliveries, the marks and the counts alone.
LEMMA Quietly ==
  ASSUME IndInv, UNCHANGED <<handler, seen, routed, failures>>
  PROVE  IndInv'
BY DEF IndInv, Types, Budget, Marking, Free

\* Every step keeps the budget of every event.
LEMMA NextInv == IndInv /\ [Next]_vars => IndInv'
<1> SUFFICES ASSUME IndInv, [Next]_vars PROVE IndInv'
  OBVIOUS
<1> USE DEF IndInv
<1>1. CASE Edit \/ UNCHANGED vars \/ \E w \in Workers : WorkerSteps(w)
  BY <1>1, Quietly DEF Edit, vars, WorkerSteps, Begin, FetchTask, SaveCard, RunCommand
<1>2. ASSUME NEW w \in Workers, JobFails(w) PROVE IndInv'
  <2>1. UNCHANGED <<handler, seen, routed>> /\ failures' = failures + 1
    BY <1>2 DEF JobFails
  <2>2. \A e \in Events : Marking(e)' = Marking(e) /\ Free(e)' = Free(e)
    BY <2>1 DEF Marking, Free
  <2>3. Types' /\ Budget'
    BY <2>1, <2>2, MarkingFinite DEF Types, Budget, Free
  <2> QED BY <2>3
<1>3. ASSUME NEW d \in Deliveries, Receive(d) PROVE IndInv'
  <2>1. /\ handler[d] = "none" /\ handler' = [handler EXCEPT ![d] = "marked"]
        /\ EventId(d[1]) \notin seen /\ seen' = seen \union {EventId(d[1])}
        /\ UNCHANGED <<routed, failures>>
    BY <1>3 DEF Receive, Handle
  <2>2. PICK e \in Events : e = d[1]
    BY DEF Deliveries
  <2>3. Marking(e)' = Marking(e) \union {d} /\ d \notin Marking(e)
    BY <2>1, <2>2 DEF Marking, Types
  <2>4. Cardinality(Marking(e)') = Cardinality(Marking(e)) + 1
    BY <2>3, MarkingFinite, FS_AddElement
  <2>5. Free(e) = 1 /\ Free(e)' = 0
    BY <2>1, <2>2 DEF Free
  <2>6. \A f \in Events : f # e =>
          Marking(f)' = Marking(f) /\ Free(f) \in 0..1 /\ Free(f)' \in 0..1 /\ Free(f)' <= Free(f)
    BY <2>1, <2>2 DEF Marking, Free, Types
  <2>7. Types'
    BY <2>1 DEF Types, HandlerStates
  <2>8. ASSUME NEW f \in Events PROVE routed'[f] + Cardinality(Marking(f)') + Free(f)' <= 1 + failures'
    <3>1. routed[f] \in Nat /\ routed' = routed /\ failures' = failures /\ failures \in Nat
          /\ Cardinality(Marking(f)) \in Nat
          /\ routed[f] + Cardinality(Marking(f)) + Free(f) <= 1 + failures
      BY <2>1, MarkingFinite DEF Types, Budget
    <3>2. CASE f = e
      BY <2>4, <2>5, <3>1, <3>2
    <3>3. CASE f # e
      BY <2>6, <3>1, <3>3
    <3> QED BY <3>2, <3>3
  <2> QED BY <2>7, <2>8 DEF Budget
<1>4. ASSUME NEW d \in Deliveries, Duplicate(d) PROVE IndInv'
  <2>1. /\ handler[d] = "none" /\ handler' = [handler EXCEPT ![d] = "duplicate"]
        /\ UNCHANGED <<seen, routed, failures>>
    BY <1>4 DEF Duplicate, Handle
  <2>2. \A e \in Events : Marking(e)' = Marking(e) /\ Free(e)' = Free(e)
    BY <2>1 DEF Marking, Free, Types
  <2> QED BY <2>1, <2>2 DEF Types, Budget, HandlerStates
<1>5. ASSUME NEW d \in Deliveries,
             EnqueueIntake(d) \/ RouteCommand(d) \/ NoAuthor(d) \/ HandlerFails(d)
      PROVE  IndInv'
  <2>1. /\ handler[d] = "marked" /\ seen' = seen
        /\ \E to \in HandlerStates \ {"marked"} : handler' = [handler EXCEPT ![d] = to]
        /\ routed' = routed \/ routed' = [routed EXCEPT ![d[1]] = @ + 1]
        /\ failures' = failures \/ failures' = failures + 1
    BY <1>5 DEF EnqueueIntake, RouteCommand, NoAuthor, HandlerFails, Handle, HandlerStates
  <2>2. PICK e \in Events : e = d[1]
    BY DEF Deliveries
  <2>3. /\ handler' \in [Deliveries -> HandlerStates]
        /\ Cardinality(Marking(d[1])') = Cardinality(Marking(d[1])) - 1
        /\ \A f \in Events : f # d[1] => Marking(f)' = Marking(f)
    BY <2>1, Unmark
  <2>4. \A f \in Events : Free(f)' = Free(f) /\ Free(f) \in 0..1
    BY <2>1 DEF Free
  <2>5. Types'
    BY <2>1, <2>2, <2>3 DEF Types
  <2>6. ASSUME NEW f \in Events PROVE routed'[f] + Cardinality(Marking(f)') + Free(f)' <= 1 + failures'
    <3>1. routed[f] \in Nat /\ failures \in Nat /\ Cardinality(Marking(f)) \in Nat
          /\ routed[f] + Cardinality(Marking(f)) + Free(f) <= 1 + failures
      BY MarkingFinite DEF Types, Budget
    <3>2. CASE f = e
      <4>1. routed'[f] = routed[f] \/ routed'[f] = routed[f] + 1
        BY <2>1, <2>2, <3>2 DEF Types
      <4>2. Cardinality(Marking(f)') = Cardinality(Marking(f)) - 1
        BY <2>2, <2>3, <3>2
      <4> QED BY <2>1, <2>4, <3>1, <4>1, <4>2
    <3>3. CASE f # e
      <4>1. routed'[f] = routed[f] /\ Marking(f)' = Marking(f)
        BY <2>1, <2>2, <2>3, <3>3 DEF Types
      <4> QED BY <2>1, <2>4, <3>1, <4>1
    <3> QED BY <3>2, <3>3
  <2> QED BY <2>5, <2>6 DEF Budget
<1>6. ASSUME NEW d \in Deliveries, MarkExpires(d) PROVE IndInv'
  <2>1. UNCHANGED <<handler, routed>> /\ failures' = failures + 1
    BY <1>6 DEF MarkExpires
  <2>2. \A e \in Events : Marking(e)' = Marking(e) /\ Free(e)' <= Free(e) + 1
                          /\ Free(e) \in 0..1 /\ Free(e)' \in 0..1
    BY <2>1 DEF Marking, Free
  <2>3. Types' /\ Budget'
    BY <2>1, <2>2, MarkingFinite DEF Types, Budget
  <2> QED BY <2>3
<1> QED BY <1>1, <1>2, <1>3, <1>4, <1>5, <1>6 DEF Next

\* mark_seen is one SET NX: but for an expired mark, an event is routed once at most.
THEOREM RoutedAtMostOnce == Spec => []RoutedOnce
<1>1. IndInv => RoutedOnce
  BY MarkingFinite DEF IndInv, Types, Budget, Free, RoutedOnce
<1> QED BY <1>1, InitInv, NextInv, PTL DEF Spec
-----------------------------------------------------------------------------
(* The last edit, with one worker *)

Tries == 1..MaxTries

\* The assumption of LastEditSavedInOrder.
Orderly == Cardinality(Workers) = 1 /\ DistinctStamps /\ failures = 0

Shapes ==
  /\ handler \in [Deliveries -> HandlerStates] /\ failures \in Nat
  /\ content \in 0..MaxEdits /\ card \in 0..content
  /\ queue \in Seq(Events)
  /\ worker \in [Workers -> {"idle", "fetch", "save", "command"}] /\ raw \in [Workers -> 0..content]

\* An edit is delivered after it was made and never ignored; only a failure ends a
\* delivery with an error.
Answered ==
  \A e \in Events, k \in Tries :
    /\ handler[<<e, k>>] # "none" => Happened(e)
    /\ handler[<<e, k>>] = "ignored" => e[2] = "comment"
    /\ handler[<<e, k>>] = "error" => failures > 0

\* Behind a duplicate there is a mark, behind the mark of an edit a delivery of it.
Marks ==
  \A e \in Events :
    /\ \A k \in Tries : handler[<<e, k>>] = "duplicate" => EventId(e) \in seen
    /\ EventId(e) \in seen /\ e[2] = "edit" =>
         \E k \in Tries : handler[<<e, k>>] \in {"marked", "ok"}

\* What is saved next is not older than what is stored.
Saves == \A w \in Workers : worker[w] = "save" => raw[w] \in card..content

\* The last edit is stored, or a job will fetch or save it.
Underway ==
  \/ card = content
  \/ \E i \in DOMAIN queue : queue[i][2] = "edit"
  \/ \E w \in Workers : worker[w] = "fetch" \/ (worker[w] = "save" /\ raw[w] = content)

LastUnderway ==
  content \in Edits /\ (\E k \in Tries : handler[<<<<content, "edit">>, k>>] = "ok") => Underway

OrderInv == Shapes /\ Answered /\ (Orderly => Marks /\ Saves /\ LastUnderway)

\* Edits in different seconds have ids of their own.
LEMMA IdFacts ==
  ASSUME DistinctStamps, NEW e \in Events, NEW f \in Events, EventId(e) = EventId(f),
         e[2] = "edit"
  PROVE  e = f
<1>1. PICK m \in Edits : e = <<m, "edit">>
  BY DEF Events
<1>2. f[2] = "edit"
  BY DEF EventId
<1>3. PICK n \in Edits : f = <<n, "edit">>
  BY <1>2 DEF Events
<1> QED BY <1>1, <1>3 DEF EventId, DistinctStamps

\* A single worker.
LEMMA OneWorker ==
  ASSUME Cardinality(Workers) = 1
  PROVE  \E w \in Workers : Workers = {w}
BY FS_Singleton, WebhookAssumption

LEMMA OrderInit == Init => OrderInv
<1> SUFFICES ASSUME Init PROVE OrderInv
  OBVIOUS
<1>1. Shapes
  BY WebhookAssumption DEF Init, Shapes, HandlerStates
<1>2. \A e \in Events, k \in Tries : handler[<<e, k>>] = "none"
  BY DEF Init, Deliveries, Tries
<1>3. Answered /\ Marks /\ Saves
  BY <1>2 DEF Answered, Marks, Saves, Init
<1> QED BY <1>1, <1>3 DEF OrderInv, LastUnderway, Underway, Init

\* An event and the number of a try make a delivery.
LEMMA TryFacts == \A f \in Events, j \in Tries : <<f, j>> \in Deliveries
BY DEF Deliveries, Tries

\* A delivery that leaves the queue, the workers and the card alone.
LEMMA DeliveryOrder ==
  ASSUME OrderInv, NEW e \in Events, NEW k \in Tries,
         Receive(<<e, k>>) \/ Duplicate(<<e, k>>) \/ NoAuthor(<<e, k>>)
           \/ HandlerFails(<<e, k>>)
  PROVE  OrderInv'
<1> USE DEF OrderInv
<1>1. PICK to \in HandlerStates \ {"ok"} : handler' = [handler EXCEPT ![<<e, k>>] = to]
  BY DEF Receive, Duplicate, NoAuthor, HandlerFails, Handle, HandlerStates
<1>2. /\ handler' \in [Deliveries -> HandlerStates]
      /\ \A f \in Events, j \in Tries :
           handler'[<<f, j>>] = IF f = e /\ j = k THEN to ELSE handler[<<f, j>>]
  BY <1>1, TryFacts DEF Shapes
<1>3. /\ UNCHANGED <<content, queue, worker, raw, card>>
      /\ failures' \in {failures, failures + 1}
  BY DEF Receive, Duplicate, NoAuthor, HandlerFails
<1>4. Shapes'
  BY <1>2, <1>3 DEF Shapes
<1>5. /\ to \in {"marked", "duplicate"} => Happened(e) /\ handler[<<e, k>>] = "none"
      /\ to \notin {"marked", "duplicate"} => handler[<<e, k>>] = "marked"
      /\ to = "ignored" => e[2] = "comment"
      /\ to = "error" => failures' > 0
      /\ to # "none"
  <2>1. <<e, k>>[1] = e /\ <<e, k>> \in Deliveries
    BY DEF Deliveries, Tries
  <2>2. handler'[<<e, k>>] = to
    BY <1>2
  <2>3. CASE Receive(<<e, k>>)
    <3>1. to = "marked" /\ Happened(e) /\ handler[<<e, k>>] = "none"
      BY <2>1, <2>2, <2>3 DEF Receive, Handle, Shapes
    <3> QED BY <3>1
  <2>4. CASE Duplicate(<<e, k>>)
    <3>1. to = "duplicate" /\ Happened(e) /\ handler[<<e, k>>] = "none"
      BY <2>1, <2>2, <2>4 DEF Duplicate, Handle, Shapes
    <3> QED BY <3>1
  <2>5. CASE NoAuthor(<<e, k>>)
    <3>1. to = "ignored" /\ e[2] = "comment" /\ handler[<<e, k>>] = "marked"
      BY <2>1, <2>2, <2>5 DEF NoAuthor, Handle, Shapes
    <3> QED BY <3>1
  <2>6. CASE HandlerFails(<<e, k>>)
    <3>1. to = "error" /\ handler[<<e, k>>] = "marked" /\ failures' = failures + 1
      BY <2>1, <2>2, <2>6 DEF HandlerFails, Handle, Shapes
    <3> QED BY <3>1 DEF Shapes
  <2> QED BY <2>3, <2>4, <2>5, <2>6
<1>6. Answered'
  <2> SUFFICES ASSUME NEW f \in Events, NEW j \in Tries
               PROVE  /\ handler'[<<f, j>>] # "none" => Happened(f)'
                      /\ handler'[<<f, j>>] = "ignored" => f[2] = "comment"
                      /\ handler'[<<f, j>>] = "error" => failures' > 0
    BY DEF Answered
  <2>1. Happened(f)' = Happened(f)
    BY <1>3 DEF Happened
  <2>2. failures > 0 => failures' > 0
    BY <1>3 DEF Shapes
  <2>3. CASE f = e /\ j = k
    BY <1>2, <1>5, <2>1, <2>3 DEF Answered
  <2>4. CASE ~ (f = e /\ j = k)
    BY <1>2, <2>1, <2>2, <2>4 DEF Answered
  <2> QED BY <2>3, <2>4
<1>7. ASSUME Orderly' PROVE Marks' /\ Saves' /\ LastUnderway'
  <2>1. failures' = 0 /\ failures = 0 /\ Orderly
    BY <1>3, <1>7 DEF Orderly, Shapes
  <2>2. to \in {"marked", "duplicate", "ignored"}
    BY <1>5, <2>1 DEF HandlerStates
  <2>3. seen \subseteq seen' /\ (to \in {"marked", "duplicate"} => EventId(e) \in seen')
        /\ (seen' = seen \/ (to = "marked" /\ seen' = seen \union {EventId(e)}))
    <3>1. <<e, k>>[1] = e /\ handler'[<<e, k>>] = to
      BY <1>2
    <3>2. CASE Receive(<<e, k>>)
      <4>1. to = "marked" /\ seen' = seen \union {EventId(e)}
        <5>1. handler' = [handler EXCEPT ![<<e, k>>] = "marked"]
              /\ seen' = seen \union {EventId(e)}
          BY <3>1, <3>2 DEF Receive, Handle
        <5>2. <<e, k>> \in Deliveries
          BY DEF Deliveries, Tries
        <5> QED BY <3>1, <5>1, <5>2 DEF Shapes
      <4> QED BY <4>1
    <3>3. CASE Duplicate(<<e, k>>)
      BY <3>1, <3>3 DEF Duplicate
    <3>4. CASE NoAuthor(<<e, k>>)
      <4>1. handler' = [handler EXCEPT ![<<e, k>>] = "ignored"] /\ seen' = seen
        BY <3>4 DEF NoAuthor, Handle
      <4>2. <<e, k>> \in Deliveries
        BY DEF Deliveries, Tries
      <4>3. to = "ignored"
        BY <3>1, <4>1, <4>2 DEF Shapes
      <4> QED BY <4>1, <4>3
    <3>5. CASE HandlerFails(<<e, k>>)
      BY <2>1, <3>5 DEF HandlerFails
    <3> QED BY <3>2, <3>3, <3>4, <3>5
  <2>4. Marks'
    <3> SUFFICES ASSUME NEW f \in Events
                 PROVE  /\ \A j \in Tries : handler'[<<f, j>>] = "duplicate" => EventId(f) \in seen'
                        /\ EventId(f) \in seen' /\ f[2] = "edit" =>
                             \E j \in Tries : handler'[<<f, j>>] \in {"marked", "ok"}
      BY DEF Marks, EventId
    <3>1. \A j \in Tries : handler'[<<f, j>>] = "duplicate" => EventId(f) \in seen'
      BY <1>2, <2>1, <2>3 DEF Marks
    <3>2. ASSUME EventId(f) \in seen', f[2] = "edit"
          PROVE  \E j \in Tries : handler'[<<f, j>>] \in {"marked", "ok"}
      <4>1. CASE EventId(f) \in seen
        <5>1. PICK j \in Tries : handler[<<f, j>>] \in {"marked", "ok"}
          BY <2>1, <3>2, <4>1 DEF Marks
        <5>2. ~ (f = e /\ j = k)
          <6>1. f = e /\ j = k => handler[<<e, k>>] \in {"marked", "ok"}
            BY <5>1
          <6>2. f = e => to # "ignored"
            BY <1>5, <3>2, <6>1
          <6>3. to # "ignored" => handler[<<e, k>>] = "none"
            BY <1>5, <2>2
          <6> QED BY <6>1, <6>2, <6>3
        <5> QED BY <1>2, <5>1, <5>2
      <4>2. CASE EventId(f) \notin seen
        <5>1. to = "marked" /\ EventId(f) = EventId(e)
          BY <2>3, <3>2, <4>2
        <5>2. f = e
          BY <2>1, <3>2, <5>1, IdFacts DEF Orderly
        <5> QED BY <1>2, <5>1, <5>2
      <4> QED BY <4>1, <4>2
    <3> QED BY <3>1, <3>2
  <2>5. Saves'
    BY <1>3, <2>1 DEF Saves
  <2>6. LastUnderway'
    <3> SUFFICES ASSUME content \in Edits, NEW j \in Tries,
                        handler'[<<<<content, "edit">>, j>>] = "ok"
                 PROVE  Underway'
      BY <1>3 DEF LastUnderway
    <3>1. <<content, "edit">> \in Events
      BY DEF Events
    <3>2. handler[<<<<content, "edit">>, j>>] = "ok"
      BY <1>1, <1>2, <3>1
    <3>3. Underway
      BY <2>1, <3>2 DEF LastUnderway
    <3> QED BY <1>3, <3>3 DEF Underway
  <2> QED BY <2>4, <2>5, <2>6
<1> QED BY <1>4, <1>6, <1>7

\* A delivery that puts its event in the queue.
LEMMA RouteOrder ==
  ASSUME OrderInv, NEW e \in Events, NEW k \in Tries,
         EnqueueIntake(<<e, k>>) \/ RouteCommand(<<e, k>>)
  PROVE  OrderInv'
<1> USE DEF OrderInv
<1>1. /\ handler[<<e, k>>] = "marked" /\ handler' = [handler EXCEPT ![<<e, k>>] = "ok"]
      /\ queue' = Append(queue, e)
      /\ UNCHANGED <<content, seen, worker, raw, card, failures>>
  BY DEF EnqueueIntake, RouteCommand, Handle
<1>2. /\ handler' \in [Deliveries -> HandlerStates]
      /\ \A f \in Events, j \in Tries :
           handler'[<<f, j>>] = IF f = e /\ j = k THEN "ok" ELSE handler[<<f, j>>]
  BY <1>1, TryFacts DEF Shapes, HandlerStates
<1>3. /\ queue' \in Seq(Events) /\ Len(queue') = Len(queue) + 1
      /\ queue'[Len(queue')] = e /\ Len(queue') \in DOMAIN queue'
      /\ \A i \in DOMAIN queue : i \in DOMAIN queue' /\ queue'[i] = queue[i]
  BY <1>1 DEF Shapes
<1>4. Shapes'
  BY <1>1, <1>2, <1>3 DEF Shapes
<1>5. Answered'
  <2> SUFFICES ASSUME NEW f \in Events, NEW j \in Tries
               PROVE  /\ handler'[<<f, j>>] # "none" => Happened(f)'
                      /\ handler'[<<f, j>>] = "ignored" => f[2] = "comment"
                      /\ handler'[<<f, j>>] = "error" => failures' > 0
    BY DEF Answered
  <2>1. Happened(f)' = Happened(f)
    BY <1>1 DEF Happened
  <2>2. handler[<<e, k>>] # "none"
    BY <1>1
  <2> QED BY <1>1, <1>2, <2>1, <2>2 DEF Answered
<1>6. ASSUME Orderly' PROVE Marks' /\ Saves' /\ LastUnderway'
  <2>1. Orderly
    BY <1>1, <1>6 DEF Orderly
  <2>2. Marks'
    <3> SUFFICES ASSUME NEW f \in Events
                 PROVE  /\ \A j \in Tries : handler'[<<f, j>>] = "duplicate" => EventId(f) \in seen'
                        /\ EventId(f) \in seen' /\ f[2] = "edit" =>
                             \E j \in Tries : handler'[<<f, j>>] \in {"marked", "ok"}
      BY DEF Marks, EventId
    <3> QED BY <1>1, <1>2, <2>1 DEF Marks
  <2>3. Saves'
    BY <1>1, <2>1 DEF Saves
  <2>4. LastUnderway'
    <3> SUFFICES ASSUME content \in Edits, NEW j \in Tries,
                        handler'[<<<<content, "edit">>, j>>] = "ok"
                 PROVE  Underway'
      BY <1>1 DEF LastUnderway
    <3>1. <<content, "edit">> \in Events
      BY DEF Events
    <3>2. CASE e = <<content, "edit">>
      <4>1. queue'[Len(queue')][2] = "edit"
        BY <1>3, <3>2
      <4> QED BY <1>3, <4>1 DEF Underway
    <3>3. CASE e # <<content, "edit">>
      <4>1. Underway
        BY <1>2, <2>1, <3>1, <3>3 DEF LastUnderway
      <4>2. (\E i \in DOMAIN queue : queue[i][2] = "edit")
              => \E i \in DOMAIN queue' : queue'[i][2] = "edit"
        BY <1>3
      <4> QED BY <1>1, <4>1, <4>2 DEF Underway
    <3> QED BY <3>2, <3>3
  <2> QED BY <2>2, <2>3, <2>4
<1> QED BY <1>4, <1>5, <1>6

\* Workers, edits, failures: the deliveries stay as they are.
LEMMA AnsweredStays ==
  ASSUME OrderInv, UNCHANGED handler, content' \in {content, content + 1},
         failures' \in {failures, failures + 1}
  PROVE  Answered'
<1>1. \A e \in Events : Happened(e) => Happened(e)'
  <2> SUFFICES ASSUME NEW e \in Events, Happened(e) PROVE Happened(e)'
    OBVIOUS
  <2>1. CASE e[2] # "edit"
    BY <2>1 DEF Happened
  <2>2. CASE e[2] = "edit"
    <3>1. e[1] \in Edits
      BY <2>2 DEF Events
    <3> QED BY <2>2, <3>1, WebhookAssumption DEF Happened, OrderInv, Shapes, Edits
  <2> QED BY <2>1, <2>2
<1> SUFFICES ASSUME NEW f \in Events, NEW j \in Tries
             PROVE  /\ handler'[<<f, j>>] # "none" => Happened(f)'
                    /\ handler'[<<f, j>>] = "ignored" => f[2] = "comment"
                    /\ handler'[<<f, j>>] = "error" => failures' > 0
  BY DEF Answered
<1>2. failures > 0 => failures' > 0
  BY DEF OrderInv, Shapes
<1> QED BY <1>1, <1>2 DEF OrderInv, Answered

\* A new edit has no delivery yet.
LEMMA EditOrder == ASSUME OrderInv, Edit PROVE OrderInv'
<1> USE DEF OrderInv
<1>1. /\ content < MaxEdits /\ content' = content + 1
      /\ UNCHANGED <<seen, handler, queue, worker, raw, card, failures>>
  BY DEF Edit
<1>2. Shapes'
  BY <1>1, WebhookAssumption DEF Shapes
<1>3. Answered'
  BY <1>1, AnsweredStays
<1>4. ASSUME Orderly' PROVE Marks' /\ Saves' /\ LastUnderway'
  <2>1. Orderly
    BY <1>1, <1>4 DEF Orderly
  <2>2. Marks'
    BY <1>1, <2>1 DEF Marks, EventId
  <2>3. Saves'
    BY <1>1, <2>1 DEF Saves, Shapes
  <2>4. ASSUME content' \in Edits, NEW k \in Tries
        PROVE  handler'[<<<<content', "edit">>, k>>] # "ok"
    <3>1. <<content', "edit">> \in Events
      BY <2>4 DEF Events
    <3>2. ~ Happened(<<content', "edit">>)
      BY <1>1 DEF Happened, Shapes
    <3> QED BY <1>1, <3>1, <3>2 DEF Answered
  <2> QED BY <2>2, <2>3, <2>4 DEF LastUnderway
<1> QED BY <1>2, <1>3, <1>4

\* A worker that begins a job, fetches or ends.
LEMMA WorkerOrder == ASSUME OrderInv, NEW w \in Workers, WorkerSteps(w) PROVE OrderInv'
<1> USE DEF OrderInv
<1>1. UNCHANGED <<content, seen, handler, failures>>
  BY DEF WorkerSteps, Begin, FetchTask, SaveCard, RunCommand
<1>2. Answered'
  BY <1>1, AnsweredStays
<1>3. Orderly' => Orderly /\ Marks'
  BY <1>1 DEF Orderly, Marks, EventId
<1>4. Cardinality(Workers) = 1 => Workers = {w}
  BY OneWorker
<1>5. Orderly /\ Underway' => LastUnderway'
  BY DEF LastUnderway
<1>6. Orderly /\ (Underway => Underway') => LastUnderway'
  BY <1>1 DEF LastUnderway
<1>7. CASE Begin(w)
  <2>1. /\ worker[w] = "idle" /\ queue # <<>> /\ queue' = Tail(queue)
        /\ worker' = [worker EXCEPT ![w] = IF Head(queue)[2] = "edit" THEN "fetch"
                                                                   ELSE "command"]
        /\ UNCHANGED <<raw, card>>
    BY <1>7 DEF Begin
  <2>2. /\ queue' \in Seq(Events) /\ Len(queue) \in Nat
        /\ \A i \in DOMAIN queue : i = 1 \/ (i - 1 \in DOMAIN queue' /\ queue'[i - 1] = queue[i])
        /\ Head(queue) = queue[1]
    BY <2>1 DEF Shapes
  <2>3. Shapes'
    BY <1>1, <2>1, <2>2 DEF Shapes
  <2>4. Orderly => Saves'
    BY <1>1, <2>1 DEF Saves, Shapes
  <2>5. Underway => Underway'
    <3>1. CASE card = content
      BY <1>1, <2>1, <3>1 DEF Underway
    <3>2. ASSUME NEW i \in DOMAIN queue, queue[i][2] = "edit" PROVE Underway'
      <4>1. CASE i = 1
        <5>1. worker'[w] = "fetch"
          BY <2>1, <2>2, <3>2, <4>1 DEF Shapes
        <5> QED BY <5>1 DEF Underway
      <4>2. CASE i # 1
        <5>1. i - 1 \in DOMAIN queue' /\ queue'[i - 1][2] = "edit"
          BY <2>2, <3>2, <4>2
        <5> QED BY <5>1 DEF Underway
      <4> QED BY <4>1, <4>2
    <3>3. ASSUME NEW v \in Workers,
                 worker[v] = "fetch" \/ (worker[v] = "save" /\ raw[v] = content)
          PROVE  Underway'
      <4>1. v # w /\ worker'[v] = worker[v]
        BY <2>1, <3>3 DEF Shapes
      <4> QED BY <1>1, <2>1, <3>3, <4>1 DEF Underway
    <3> QED BY <3>1, <3>2, <3>3 DEF Underway
  <2> QED BY <1>2, <1>3, <1>6, <2>3, <2>4, <2>5
<1>8. CASE FetchTask(w)
  <2>1. /\ worker[w] = "fetch" /\ worker' = [worker EXCEPT ![w] = "save"]
        /\ raw' = [raw EXCEPT ![w] = content] /\ UNCHANGED <<queue, card>>
    BY <1>8 DEF FetchTask
  <2>2. Shapes'
    BY <1>1, <2>1 DEF Shapes
  <2>3. Orderly => Saves'
    BY <1>1, <2>1 DEF Saves, Shapes
  <2>4. worker'[w] = "save" /\ raw'[w] = content'
    BY <1>1, <2>1 DEF Shapes
  <2>5. Underway'
    BY <2>4 DEF Underway
  <2> QED BY <1>2, <1>3, <1>5, <2>2, <2>3, <2>5
<1>9. CASE SaveCard(w)
  <2>1. /\ worker[w] = "save" /\ worker' = [worker EXCEPT ![w] = "idle"]
        /\ card' = raw[w] /\ UNCHANGED <<queue, raw>>
    BY <1>9 DEF SaveCard
  <2>2. ASSUME Orderly PROVE Saves' /\ card' \in card..content /\ (Underway => Underway')
    <3>1. card' \in card..content
      BY <2>1, <2>2 DEF Saves
    <3>2. Workers = {w}
      BY <1>4, <2>2 DEF Orderly
    <3>3. Saves'
      BY <2>1, <3>2 DEF Saves, Shapes
    <3>4. CASE card = content \/ raw[w] = content
      <4>1. card' = content'
        BY <1>1, <2>1, <3>1, <3>4 DEF Shapes
      <4> QED BY <3>1, <3>3, <4>1 DEF Underway
    <3>5. CASE \E i \in DOMAIN queue : queue[i][2] = "edit"
      BY <2>1, <3>1, <3>3, <3>5 DEF Underway
    <3> QED BY <2>1, <3>1, <3>2, <3>3, <3>4, <3>5 DEF Underway
  <2>3. Shapes'
    BY <1>1, <2>1 DEF Shapes
  <2> QED BY <1>2, <1>3, <1>6, <2>2, <2>3
<1>10. CASE RunCommand(w)
  <2>1. /\ worker[w] = "command" /\ worker' = [worker EXCEPT ![w] = "idle"]
        /\ UNCHANGED <<queue, raw, card>>
    BY <1>10 DEF RunCommand
  <2>2. Shapes' /\ (Orderly => Saves')
    BY <1>1, <2>1 DEF Shapes, Saves
  <2>3. Underway => Underway'
    <3>1. \A v \in Workers : v = w \/ worker'[v] = worker[v]
      BY <2>1 DEF Shapes
    <3> QED BY <1>1, <2>1, <3>1 DEF Underway
  <2> QED BY <1>2, <1>3, <1>6, <2>2, <2>3
<1> QED BY <1>7, <1>8, <1>9, <1>10 DEF WorkerSteps

LEMMA OrderNext == OrderInv /\ [Next]_vars => OrderInv'
<1> SUFFICES ASSUME OrderInv, [Next]_vars PROVE OrderInv'
  OBVIOUS
<1>1. \A d \in Deliveries : \E e \in Events, k \in Tries : d = <<e, k>>
  BY DEF Deliveries, Tries
<1>2. ASSUME NEW d \in Deliveries, MarkExpires(d) PROVE OrderInv'
  <2>1. /\ UNCHANGED <<content, handler, queue, worker, raw, card>> /\ failures' = failures + 1
    BY <1>2 DEF MarkExpires
  <2>2. Answered'
    BY <2>1, AnsweredStays
  <2> QED BY <2>1, <2>2 DEF OrderInv, Shapes, Orderly
<1>3. ASSUME NEW w \in Workers, JobFails(w) PROVE OrderInv'
  <2>1. /\ UNCHANGED <<content, handler, queue, raw, card>> /\ failures' = failures + 1
        /\ worker' = [worker EXCEPT ![w] = "idle"]
    BY <1>3 DEF JobFails
  <2>2. Answered'
    BY <2>1, AnsweredStays
  <2> QED BY <2>1, <2>2 DEF OrderInv, Shapes, Orderly
<1>4. ASSUME UNCHANGED vars PROVE OrderInv'
  BY <1>4 DEF vars, OrderInv, Shapes, Answered, Orderly, Marks, Saves, LastUnderway, Underway,
              Happened, EventId, HandlerStates, Deliveries
<1>5. ASSUME NEW d \in Deliveries,
             \/ Receive(d) \/ Duplicate(d) \/ NoAuthor(d) \/ HandlerFails(d)
             \/ EnqueueIntake(d) \/ RouteCommand(d)
      PROVE  OrderInv'
  <2>1. PICK e \in Events, k \in Tries : d = <<e, k>>
    BY <1>1
  <2> QED BY <1>5, <2>1, DeliveryOrder, RouteOrder
<1> QED BY <1>2, <1>3, <1>4, <1>5, EditOrder, WorkerOrder DEF Next

\* One worker, distinct seconds, no failure: when all is quiet the card is the last edit's.
THEOREM LastEditIsSaved == Spec => []LastEditSavedInOrder
<1>1. OrderInv => LastEditSavedInOrder
  <2> SUFFICES ASSUME OrderInv, Orderly, Quiet PROVE card = content
    BY DEF Orderly, LastEditSavedInOrder
  <2> USE DEF OrderInv
  <2>1. CASE content = 0
    BY <2>1 DEF Shapes
  <2>2. CASE content # 0
    <3> DEFINE e == <<content, "edit">>
    <3>1. content \in Edits /\ e \in Events /\ Happened(e) /\ EventId(e) = EventId(e)
      BY <2>2 DEF Shapes, Edits, Events, Happened
    <3>2. 1 \in Tries /\ \A k \in Tries : <<e, k>> \in Deliveries
      BY <3>1, WebhookAssumption DEF Tries, Deliveries
    <3>3. handler[<<e, 1>>] \in {"duplicate", "ok"}
      <4>1. handler[<<e, 1>>] \in HandlerStates \ {"none", "marked"}
        BY <3>1, <3>2 DEF Quiet, Shapes
      <4>2. handler[<<e, 1>>] # "ignored" /\ handler[<<e, 1>>] # "error"
        <5>1. e[2] # "comment" /\ ~ (failures > 0)
          BY DEF Orderly
        <5> HIDE DEF e
        <5> QED BY <3>1, <3>2, <5>1 DEF Answered
      <4> QED BY <4>1, <4>2 DEF HandlerStates
    <3>4. \E k \in Tries : handler[<<e, k>>] = "ok"
      <4>1. CASE handler[<<e, 1>>] = "ok"
        BY <3>2, <4>1
      <4>2. CASE handler[<<e, 1>>] = "duplicate"
        <5>1. EventId(e) \in seen /\ e[2] = "edit"
          BY <3>1, <3>2, <4>2 DEF Marks
        <5>2. PICK k \in Tries : handler[<<e, k>>] \in {"marked", "ok"}
          BY <3>1, <5>1 DEF Marks
        <5> QED BY <3>2, <5>2 DEF Quiet
      <4> QED BY <3>3, <4>1, <4>2
    <3>5. Underway
      BY <3>1, <3>4 DEF LastUnderway
    <3> QED BY <3>5 DEF Underway, Quiet
  <2> QED BY <2>1, <2>2
<1> QED BY <1>1, OrderInit, OrderNext, PTL DEF Spec
=============================================================================
