------------------------------ MODULE MCBridge ------------------------------
(* One item and two connections of the worker.                              *)
EXTENDS Bridge

CONSTANTS i1, s1, s2

MCItem == {i1}
MCSession == {s1, s2}
=============================================================================
