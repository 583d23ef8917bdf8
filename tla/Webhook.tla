------------------------------- MODULE Webhook ------------------------------
(***************************************************************************)
(* How what happens to a task in Bitrix24 reaches the briefing: the        *)
(* deliveries of bitrix_webhook, the marks of mark_seen, the arq queue and *)
(* the workers' intake jobs, which fetch the task and save its card.       *)
(*                                                                         *)
(* Edit n gives the task its n-th content; its event carries a time stamp  *)
(* in seconds.  Bitrix24 may deliver an event several times and in any     *)
(* order.  Deliveries with a bad token or too large a body change nothing. *)
(***************************************************************************)
EXTENDS Naturals, Sequences, FiniteSets

CONSTANTS
  MaxEdits,      \* bound of the model: edits of the task
  Stamp,         \* [1..MaxEdits -> Nat]: the second of each edit
  Comments,      \* comments that hold a command
  MaxTries,      \* bound of the model: deliveries of an event
  Workers,       \* jobs that run at once: settings.worker_concurrency
  MaxFailures    \* bound of the model

Edits  == 1..MaxEdits
Events == (Edits \X {"edit"}) \union (Comments \X {"comment"})

ASSUME WebhookAssumption ==
  /\ {MaxEdits, MaxTries, MaxFailures} \subseteq Nat /\ MaxTries # 0
  /\ IsFiniteSet(Workers)
  /\ Stamp \in [Edits -> Nat]

VARIABLES
  content,    \* Bitrix24: edits made so far
  seen,       \* Redis: marks of event ids
  handler,    \* [Events \X tries -> state of the delivery]
  queue,      \* jobs not yet begun: the events that asked for them
  routed,     \* how often each event was put in the queue or decided
  worker,     \* what each worker does: idle, intake (before and after the fetch)
  raw,        \* the content an intake job has fetched
  card,       \* Postgres: the content the stored card was made from
  failures

vars == <<content, seen, handler, queue, routed, worker, raw, card, failures>>

Deliveries == Events \X (1..MaxTries)

EventIdWithoutStamp(e) == IF e[2] = "edit" THEN <<"edit", 0>> ELSE <<"comment", e[1]>>

\* ONTASKUPDATE:task:ts; an event without a task id goes by the hash of its body.
EventId(e) == IF e[2] = "edit" THEN <<"edit", Stamp[e[1]]>> ELSE <<"comment", e[1]>>

Init ==
  /\ content = 0 /\ card = 0
  /\ seen = {} /\ queue = <<>>
  /\ handler = [d \in Deliveries |-> "none"]
  /\ routed = [e \in Events |-> 0]
  /\ worker = [w \in Workers |-> "idle"] /\ raw = [w \in Workers |-> 0]
  /\ failures = 0

Edit ==
  /\ content < MaxEdits
  /\ content' = content + 1
  /\ UNCHANGED <<seen, handler, queue, routed, worker, raw, card, failures>>
-----------------------------------------------------------------------------
(* bitrix_webhook *)

Happened(e) == e[2] = "edit" => e[1] <= content

Handle(d, from, to) == handler[d] = from /\ handler' = [handler EXCEPT ![d] = to]

ReceiveUnmarked(d) ==
  /\ Happened(d[1]) /\ EventId(d[1]) \notin seen
  /\ Handle(d, "none", "marked")
  /\ UNCHANGED <<content, seen, queue, routed, worker, raw, card, failures>>

Receive(d) ==
  /\ Happened(d[1]) /\ EventId(d[1]) \notin seen
  /\ Handle(d, "none", "marked")
  /\ seen' = seen \union {EventId(d[1])}
  /\ UNCHANGED <<content, queue, routed, worker, raw, card, failures>>

Duplicate(d) ==
  /\ Happened(d[1]) /\ EventId(d[1]) \in seen
  /\ Handle(d, "none", "duplicate")
  /\ UNCHANGED <<content, seen, queue, routed, worker, raw, card, failures>>

EnqueueIntake(d) ==
  /\ d[1][2] = "edit" /\ Handle(d, "marked", "ok")
  /\ queue' = Append(queue, d[1]) /\ routed' = [routed EXCEPT ![d[1]] = @ + 1]
  /\ UNCHANGED <<content, seen, worker, raw, card, failures>>

\* get_comment_author names nobody: the command is not believed.
NoAuthor(d) ==
  /\ d[1][2] = "comment" /\ Handle(d, "marked", "ignored")
  /\ UNCHANGED <<content, seen, queue, routed, worker, raw, card, failures>>

RouteCommand(d) ==
  /\ d[1][2] = "comment" /\ Handle(d, "marked", "ok")
  /\ queue' = Append(queue, d[1]) /\ routed' = [routed EXCEPT ![d[1]] = @ + 1]
  /\ UNCHANGED <<content, seen, worker, raw, card, failures>>

\* The queue or Bitrix24 cannot be reached, or the process dies.
HandlerFails(d) ==
  /\ failures < MaxFailures
  /\ Handle(d, "marked", "error")
  /\ failures' = failures + 1
  /\ UNCHANGED <<content, seen, queue, routed, worker, raw, card>>

\* A mark expires after idempotency_ttl_sec.
MarkExpires(d) ==
  /\ failures < MaxFailures
  /\ handler[d] \in {"ok", "ignored", "error"} /\ EventId(d[1]) \in seen
  /\ seen' = seen \ {EventId(d[1])}
  /\ failures' = failures + 1
  /\ UNCHANGED <<content, handler, queue, routed, worker, raw, card>>
-----------------------------------------------------------------------------
(* The workers *)

Begin(w) ==
  /\ worker[w] = "idle" /\ queue # <<>>
  /\ worker' = [worker EXCEPT ![w] = IF Head(queue)[2] = "edit" THEN "fetch" ELSE "command"]
  /\ queue' = Tail(queue)
  /\ UNCHANGED <<content, seen, handler, routed, raw, card, failures>>

\* run_task_phase reads the task before it opens its transaction.
FetchTask(w) ==
  /\ worker[w] = "fetch"
  /\ raw' = [raw EXCEPT ![w] = content]
  /\ worker' = [worker EXCEPT ![w] = "save"]
  /\ UNCHANGED <<content, seen, handler, queue, routed, card, failures>>

SaveNothing(w) ==
  /\ worker[w] = "save"
  /\ worker' = [worker EXCEPT ![w] = "idle"]
  /\ UNCHANGED <<content, seen, handler, queue, routed, raw, card, failures>>

\* intake_task reads the task row afresh, so its version is current.
SaveCard(w) ==
  /\ worker[w] = "save"
  /\ card' = raw[w]
  /\ worker' = [worker EXCEPT ![w] = "idle"]
  /\ UNCHANGED <<content, seen, handler, queue, routed, raw, failures>>

RunCommand(w) ==
  /\ worker[w] = "command"
  /\ worker' = [worker EXCEPT ![w] = "idle"]
  /\ UNCHANGED <<content, seen, handler, queue, routed, raw, card, failures>>

\* The job raises; arq does not retry.
JobFails(w) ==
  /\ worker[w] # "idle" /\ failures < MaxFailures
  /\ worker' = [worker EXCEPT ![w] = "idle"]
  /\ failures' = failures + 1
  /\ UNCHANGED <<content, seen, handler, queue, routed, raw, card>>

WorkerSteps(w) == Begin(w) \/ FetchTask(w) \/ SaveCard(w) \/ RunCommand(w)

Next ==
  \/ Edit
  \/ \E d \in Deliveries :
       \/ Receive(d) \/ Duplicate(d) \/ EnqueueIntake(d) \/ NoAuthor(d) \/ RouteCommand(d)
       \/ HandlerFails(d) \/ MarkExpires(d)
  \/ \E w \in Workers : WorkerSteps(w) \/ JobFails(w)

Spec == Init /\ [][Next]_vars /\ \A w \in Workers : WF_vars(WorkerSteps(w))
-----------------------------------------------------------------------------
(* Properties *)

\* Contents and cards are edits that happened, and a job is queued at most once per
\* delivery.
TypeOK ==
  /\ content \in 0..MaxEdits /\ card \in 0..MaxEdits
  /\ seen \subseteq {EventId(e) : e \in Events}
  /\ handler \in [Deliveries -> {"none", "marked", "duplicate", "ok", "ignored", "error"}]
  /\ queue \in Seq(Events) /\ routed \in [Events -> 0..MaxTries]
  /\ worker \in [Workers -> {"idle", "fetch", "save", "command"}]
  /\ raw \in [Workers -> 0..MaxEdits]
  /\ failures \in 0..MaxFailures

\* While marks live and nothing fails, an event is put in the queue once at most,
\* however often and however concurrently it is delivered.  (mark_seen: SET NX)
RoutedOnce == \A e \in Events : routed[e] <= 1 + failures

DistinctStamps == \A m, n \in Edits : Stamp[m] = Stamp[n] => m = n

\* Every event was delivered, and nothing is under way.
Quiet ==
  /\ \A e \in Events : Happened(e) => handler[<<e, 1>>] # "none"
  /\ \A d \in Deliveries : handler[d] # "marked"
  /\ queue = <<>> /\ \A w \in Workers : worker[w] = "idle"

\* With one job at a time, edits in different seconds and no failure, the card is made
\* from the last edit once all is done, in whatever order the events came.
\* (run_task_phase fetches the task, it does not trust the event)
LastEditSavedInOrder ==
  Cardinality(Workers) = 1 /\ DistinctStamps /\ failures = 0 /\ Quiet => card = content

\* An edit whose event was answered with ok is in the card in the end, or a later one is.
\* (the queue, run_task_phase)
AckedEditIsSaved ==
  \A n \in Edits :
    (\E k \in 1..MaxTries : handler[<<<<n, "edit">>, k>>] = "ok")
      ~> (card >= n \/ failures > 0)

\* In every case, as long as nothing fails.  (docs/deployment/scaling.md:28)
LastEditSaved == failures = 0 /\ Quiet => card = content

\* A delivery that is answered as a duplicate belongs to an event that was taken over, or
\* still is.  (state.py:68, the docstring of mark_seen)
DuplicateWasTaken ==
  \A d \in Deliveries : handler[d] = "duplicate" =>
    \E e \in Deliveries : EventId(e[1]) = EventId(d[1])
                            /\ handler[e] \in {"marked", "ok", "ignored"}
=============================================================================
