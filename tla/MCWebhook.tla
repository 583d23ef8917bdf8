----------------------------- MODULE MCWebhook ------------------------------
(***************************************************************************)
(* Two edits and one comment, each delivered up to twice; edits in         *)
(* different seconds or in the same one.                                   *)
(***************************************************************************)
EXTENDS Webhook

CONSTANTS c1, w1, w2

MCStamp == [n \in 1..MaxEdits |-> n]
MCSameSecond == [n \in 1..MaxEdits |-> 1]
=============================================================================
