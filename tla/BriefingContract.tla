-------------------------- MODULE BriefingContract --------------------------
(***************************************************************************)
(* What the briefing of one task promises, whatever handlers run and fail: *)
(* the committed session only ever waits for answers, is ready for /go, or *)
(* has ended; rounds are asked one after another, at most MaxRounds of     *)
(* them; and the intent to start coding is recorded exactly when the       *)
(* session is approved, in the same step.                                  *)
(***************************************************************************)
EXTENDS Naturals

CONSTANT MaxRounds      \* settings.max_briefing_rounds

VARIABLES
  state,      \* the committed state of the briefing session
  rounds,     \* rounds of questions asked so far
  intents     \* recorded intents to start the plan phase

vars == <<state, rounds, intents>>

Init == state = "ABSENT" /\ rounds = 0 /\ intents = 0

\* Intake finds the task complete ...
OpenReady ==
  /\ state = "ABSENT"
  /\ state' = "READY_FOR_GO"
  /\ UNCHANGED <<rounds, intents>>

\* ... or asks about what is missing.
OpenRound ==
  /\ state = "ABSENT"
  /\ state' = "WAITING_ANSWERS"
  /\ rounds' = 1
  /\ UNCHANGED intents

NextRound ==
  /\ state = "WAITING_ANSWERS"
  /\ rounds < MaxRounds
  /\ rounds' = rounds + 1
  /\ UNCHANGED <<state, intents>>

Complete ==
  /\ state = "WAITING_ANSWERS"
  /\ state' = "READY_FOR_GO"
  /\ UNCHANGED <<rounds, intents>>

GiveUp ==
  /\ state = "WAITING_ANSWERS"
  /\ rounds >= MaxRounds
  /\ state' = "BLOCKED_MANUAL"
  /\ UNCHANGED <<rounds, intents>>

Approve ==
  /\ state = "READY_FOR_GO"
  /\ state' = "APPROVED"
  /\ intents' = intents + 1
  /\ UNCHANGED rounds

Cancel ==
  /\ state \in {"WAITING_ANSWERS", "READY_FOR_GO"}
  /\ state' = "CANCELLED"
  /\ UNCHANGED <<rounds, intents>>

Next ==
  OpenReady \/ OpenRound \/ NextRound \/ Complete \/ GiveUp \/ Approve \/ Cancel

Spec == Init /\ [][Next]_vars
=============================================================================
