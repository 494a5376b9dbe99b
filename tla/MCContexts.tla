----------------------------- MODULE MCContexts -----------------------------
(***************************************************************************)
(* Contexts for TLC: a kernel task, a user process and its child.          *)
(***************************************************************************)
EXTENDS Contexts

ParentAndChild == [t \in UserTasks |-> IF t = 3 THEN 2 ELSE 0]

=============================================================================
