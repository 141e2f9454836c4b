---------------------------- MODULE MCWorkWorker ----------------------------
(* Two workers of one target and one item that may be tried twice.          *)
EXTENDS WorkWorker, TLC

CONSTANTS a, nokey, main, nobody, w1, w2

MCId == {a}
MCDraft == a :> [target |-> main, priority |-> 0, maxAttempts |-> 2, key |-> nokey,
                 corr |-> main]
MCWorker == {w1, w2}
MCLeases == {4}
Workers == Permutations(MCWorker)
=============================================================================
