---------------------------- MODULE BriefingFsm ----------------------------
(***************************************************************************)
(* The server-side automaton of app/briefing_state_machine.py: which       *)
(* transitions of a briefing session are legal.  Applying one to a row is  *)
(* the store's business (Transition in module Briefing).                   *)
(***************************************************************************)
EXTENDS Naturals, Sequences

AllStates ==
  {"NEW", "QUESTIONS_GENERATED", "WAITING_ANSWERS", "ANSWERS_RECEIVED",
   "COMPLETENESS_CHECK", "NEEDS_MORE_INFO", "READY_FOR_GO", "GO_AUTH_CHECK",
   "APPROVED", "PLAN_GATE", "EXPIRED_WAITING_ANSWERS", "BLOCKED_MANUAL",
   "CANCELLED", "ERROR"}

\* TERMINAL: no new session for the task, and it stops counting as active.
Terminal == {"APPROVED", "PLAN_GATE", "BLOCKED_MANUAL", "CANCELLED", "ERROR"}

\* _ANY_TARGETS: emergency targets of every state that is not terminal.
AnyTargets == {"BLOCKED_MANUAL", "CANCELLED", "ERROR"}

\* _EDGES, as a relation.
Edges ==
  {<<"NEW", "QUESTIONS_GENERATED">>, <<"NEW", "COMPLETENESS_CHECK">>,
   <<"QUESTIONS_GENERATED", "WAITING_ANSWERS">>,
   <<"WAITING_ANSWERS", "ANSWERS_RECEIVED">>,
   <<"WAITING_ANSWERS", "EXPIRED_WAITING_ANSWERS">>,
   <<"ANSWERS_RECEIVED", "COMPLETENESS_CHECK">>,
   <<"COMPLETENESS_CHECK", "NEEDS_MORE_INFO">>,
   <<"COMPLETENESS_CHECK", "READY_FOR_GO">>,
   <<"NEEDS_MORE_INFO", "WAITING_ANSWERS">>,
   <<"READY_FOR_GO", "GO_AUTH_CHECK">>, <<"READY_FOR_GO", "WAITING_ANSWERS">>,
   <<"GO_AUTH_CHECK", "APPROVED">>, <<"GO_AUTH_CHECK", "READY_FOR_GO">>,
   <<"APPROVED", "PLAN_GATE">>,
   <<"EXPIRED_WAITING_ANSWERS", "WAITING_ANSWERS">>}

AllowedTargets(state) ==
  {t \in AllStates : <<state, t>> \in Edges}
    \union (IF state \in Terminal THEN {} ELSE AnyTargets)

\* can_transition / assert_transition.
CanTransition(src, dst) == dst \in AllowedTargets(src)

\* A handler that calls transition several times in one transaction walks a
\* path; the first illegal step raises InvalidTransition and undoes all of it.
LegalPath(path) ==
  \A i \in 1..(Len(path) - 1) : CanTransition(path[i], path[i + 1])
=============================================================================
