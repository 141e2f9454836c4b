---------------------------- MODULE MCWorkQueue ----------------------------
(***************************************************************************)
(* A small instance of WorkQueue: two drafts under one dedupe key and one  *)
(* urgent draft without, on one target, at most two attempts each.         *)
(***************************************************************************)
EXTENDS WorkQueue

CONSTANTS a, b, c, key, main, x, y

MCId == {a, b, c}
MCLeases == {2}

MCDraft ==
  [i \in MCId |->
     [target |-> main, priority |-> IF i = c THEN 1 ELSE 0,
      maxAttempts |-> IF i = c THEN 1 ELSE 2,
      key |-> IF i = c THEN NoKey ELSE key,
      corr |-> IF i = b THEN y ELSE x]]

\* The table of powers of two is retry_delay on its whole domain.
ASSUME RetryDelayIsCappedPower ==
  \A n \in 1..20 : RetryDelay(n) = IF 2^(n-1) < 300 THEN 2^(n-1) ELSE 300
=============================================================================
