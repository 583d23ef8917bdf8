-------------------------- MODULE DeliveryContract --------------------------
(***************************************************************************)
(* What the delivery of an approved task promises, whatever drains, jobs,  *)
(* edits and failures there are.  The intent is marked as sent only after  *)
(* it was enqueued, and is enqueued again only for a drain that overlapped *)
(* or for a failure.  The author is told of the merge requests of a plan   *)
(* before the task names one of them, and a plan is recorded on the very   *)
(* row it was made from: comparing and recording are one step.             *)
(***************************************************************************)
EXTENDS Naturals

CONSTANT Overlap      \* runs of the relay at the same time

VARIABLES
  intent,     \* of the outbox row: "pending" or "sent"
  starts,     \* jobs the intent was enqueued as
  row,        \* the task: its card, status, merge request and phase
  told,       \* merge requests the author was told of
  offers,     \* plans that were told and are not recorded yet, each with its row
  faults

vars == <<intent, starts, row, told, offers, faults>>

Init ==
  /\ intent = "pending" /\ starts = 0
  /\ row = [card |-> 0, status |-> "active", mr |-> 0, phase |-> "briefing"]
  /\ told = {} /\ offers = {}
  /\ faults = 0

Enqueue ==
  /\ starts < Overlap + faults
  /\ starts' = starts + 1
  /\ UNCHANGED <<intent, row, told, offers, faults>>

Mark ==
  /\ starts > 0
  /\ intent' = "sent"
  /\ UNCHANGED <<starts, row, told, offers, faults>>

\* A plan with a merge request names one that was told; another leaves the row's as it is.
Names(offer, mrs) == IF offer.phase = "ci" THEN offer.mr \in mrs ELSE offer.mr = offer.from.mr

Tell ==
  /\ starts > 0
  /\ told \subseteq told'
  /\ offers' = {} \/ (\E offer \in offers' : offers' = {offer} /\ Names(offer, told'))
  /\ UNCHANGED <<intent, starts, row, faults>>

Record ==
  /\ \E offer \in offers :
       /\ offer.from = row
       /\ row' = [row EXCEPT !.mr = offer.mr, !.phase = offer.phase]
  /\ offers' = {}
  /\ UNCHANGED <<intent, starts, told, faults>>

Edit ==
  /\ row' = [row EXCEPT !.card = @ + 1]
  /\ UNCHANGED <<intent, starts, told, offers, faults>>

Cancel ==
  /\ row' = [row EXCEPT !.status = "cancelled"]
  /\ UNCHANGED <<intent, starts, told, offers, faults>>

\* What was told stays told, what was not recorded may be lost.
Fault ==
  /\ faults' = faults + 1
  /\ offers' \in {offers, {}}
  /\ UNCHANGED <<intent, starts, row, told>>

Next == Enqueue \/ Mark \/ Tell \/ Record \/ Edit \/ Cancel \/ Fault

Spec == Init /\ [][Next]_vars
=============================================================================
