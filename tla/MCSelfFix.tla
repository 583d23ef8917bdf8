----------------------------- MODULE MCSelfFix ------------------------------
(***************************************************************************)
(* Two tasks, the second with branches in both projects, whose recorded    *)
(* merge requests have numbers of their own (MCMrOf) or the same number    *)
(* (MCSameIid).  Three deliveries of two to four events.                   *)
(***************************************************************************)
EXTENDS SelfFix, TLC

CONSTANTS t1, t2, app, lib, e1, e2, e3, e4, d1, d2, d3

MCTasks == {t1, t2}
MCForks == {t2}
MCRepos == {app, lib}
MCDeliveries == {d1, d2, d3}
MCSym == Permutations(MCDeliveries)

\* Nothing is claimed once Redis is lost, so what follows need not be explored.
RedisKept == flushes = 0

MCMrOf == [t \in MCTasks |-> IF t = t1 THEN <<app, 7>> ELSE <<lib, 8>>]
MCSameIid == [t \in MCTasks |-> IF t = t1 THEN <<app, 7>> ELSE <<lib, 7>>]

MCEvents == {e1, e2, e3, e4}
MCAbout == [e \in MCEvents |-> IF e = e4 THEN <<lib, 8>> ELSE <<app, 7>>]
MCAboutSame == [e \in MCEvents |-> IF e = e4 THEN <<lib, 7>> ELSE <<app, 7>>]
MCKind == [e \in MCEvents |->
  CASE e = e1 -> "pipeline" [] e = e2 -> "ai_fix" [] e = e3 -> "ai_resolve"
    [] e = e4 -> "pipeline"]
=============================================================================
