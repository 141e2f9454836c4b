-------------------------- MODULE MCPluginManager --------------------------
(* Four starts of a plugin: one that serves, one turned away, one aborted,  *)
(* and one after them.                                                      *)
EXTENDS PluginManager, TLC

CONSTANTS r1, r2, r3, r4

MCRun == {r1, r2, r3, r4}
Symmetry == Permutations(MCRun)
=============================================================================
