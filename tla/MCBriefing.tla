----------------------------- MODULE MCBriefing -----------------------------
(***************************************************************************)
(* Small instances of Briefing for TLC, handlers interleaved freely: one   *)
(* list field and two string fields to brief about and two /go comments    *)
(* (MC...); or, for liveness, one round, two fields to brief about and one *)
(* /go comment (Live...).                                                  *)
(***************************************************************************)
EXTENDS Briefing, TLC

CONSTANTS c1, c2

MCFields == {"repo", "goal", "area", "reviewer"}
MCIntakeRequired == {"repo"}
MCListFields == {"area"}
MCUsers == {"author", "lead", "guest"}
MCCommenter == c1 :> "author" @@ c2 :> "guest"
MCMaintainers == {}

LiveFields == {"repo", "goal", "reviewer"}
LiveIntakeRequired == {"repo"}
LiveUsers == {"author", "lead"}
LiveCommenter == c1 :> "author"
NoFields == {}
NoUsers == {}

MCProcs == Permutations(Procs)
=============================================================================
