---------------------------- MODULE MCDelegation ----------------------------
(***************************************************************************)
(* Delegation with two children, one of which may be the planner, and two  *)
(* or three turns: enough for two children of one turn to end in any order *)
(* or to outlive their turn, and for a chain of two continuations.         *)
(***************************************************************************)
EXTENDS Delegation, TLC

CONSTANTS c1, c2

MCChild == {c1, c2}
Alike == Permutations(MCChild)

\* Turns that delegate one task each; children and starts may fail.
Calm == {"child_error", "early_failure", "relaunch_error"}

\* The same with turns that fail or are stopped, and children that are killed.
Rough == Troubles \ {"message"}

\* Two delegations in parallel, crossed by messages, stops, kill_agent and failing turns.
Crossed == {"message", "stop", "kill", "root_error"}
=============================================================================
