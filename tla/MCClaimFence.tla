---------------------------- MODULE MCClaimFence ----------------------------
(***************************************************************************)
(* ClaimFence with three claiming threads.  One worker has one claim in    *)
(* flight; three show a claim in every phase while the fence closes.       *)
(***************************************************************************)
EXTENDS ClaimFence

CONSTANTS c1, c2, c3

MCClaimer == {c1, c2, c3}
=============================================================================
