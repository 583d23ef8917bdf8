------------------------------ MODULE MCCoding ------------------------------
(***************************************************************************)
(* The coding loops on a repository with a file, a path that has no file   *)
(* yet, and a path that is refused.  Two iterations, two checks.  Others   *)
(* may leave the new path, or another text of the file, on the branch.     *)
(***************************************************************************)
EXTENDS Coding

CONSTANTS a, b, env, blank, old, new, lint, test

MCChecks == {lint, test}

MCPaths == {a, b, env}
MCUnsafe == {env}
MCTexts == {blank, old, new}
MCOriginal == [p \in MCPaths |-> IF p = b THEN NoFile ELSE old]
MCHeads == {[MCOriginal EXCEPT ![b] = new], [MCOriginal EXCEPT ![a] = new]}
=============================================================================
