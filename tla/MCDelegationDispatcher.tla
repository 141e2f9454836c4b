----------------------- MODULE MCDelegationDispatcher -----------------------
(***************************************************************************)
(* A session whose root sends two sequential requests to agents of one     *)
(* ward, each of which delegates further: the first sequentially, which    *)
(* makes a queue of two, the second in parallel.  Both may wait for their  *)
(* child while they hold the only two permits.                             *)
(***************************************************************************)
EXTENDS DelegationDispatcher, TLC

CONSTANTS d1, d2, d3, d4, s1, w

MCRequest   == {d1, d2, d3, d4}
MCSession   == {s1}
MCSessionOf == [r \in MCRequest |-> s1]
MCParallel  == {d4}
MCWardOf    == [r \in {d1, d2} |-> w]
MCParent    == d1 :> Root @@ d2 :> Root @@ d3 :> d1 @@ d4 :> d2
=============================================================================
