------------------------------ MODULE MCGates ------------------------------
(* Gates with the budgets and sizes of a small repository. *)
EXTENDS Gates

\* Below, between and above the limits on files; the middle one fits the budget of lines.
MCSizes == {1, 2, 3}
=============================================================================
