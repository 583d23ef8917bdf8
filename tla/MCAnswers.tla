----------------------------- MODULE MCAnswers -----------------------------
(* Answers with a long first comment and a short second one. *)
EXTENDS Answers, TLC

CONSTANTS c1, c2

MCMaxLines == (c1 :> 3) @@ (c2 :> 1)
=============================================================================
