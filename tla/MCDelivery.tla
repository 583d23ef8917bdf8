----------------------------- MODULE MCDelivery -----------------------------
(***************************************************************************)
(* Delivery of a task: in one repository, with two overlapping drains and  *)
(* two plan jobs; or in two repositories with one job.                     *)
(***************************************************************************)
EXTENDS Delivery

CONSTANTS app, lib, d1, d2

MCOneRepo == <<app>>
MCTwoRepos == <<app, lib>>
MCLastIid == [r \in Repos |-> IF r = app THEN 10 ELSE 20]
=============================================================================
