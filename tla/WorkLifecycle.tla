--------------------------- MODULE WorkLifecycle ---------------------------
(***************************************************************************)
(* What the durable work store promises about one item of work, whatever   *)
(* the leases, retries, clocks and races underneath: an item is accepted   *)
(* once, tried at most maxAttempts times, and ends in exactly one of three *)
(* outcomes, which is then never revised.  An outcome "completed" is       *)
(* possible only after a try.  One transaction of the store may move       *)
(* several items, so a step lets every item evolve on its own.             *)
(***************************************************************************)
EXTENDS Naturals

CONSTANTS Id,           \* ids of the submitted drafts
          TryLimit      \* [Id -> Nat]: the number of tries an id is allowed

VARIABLES outcome,  \* [Id -> Outcomes]
          tries     \* [Id -> Nat]: leases granted so far

lifeVars == <<outcome, tries>>

Ends     == {"completed", "dead_letter", "canceled"}
Outcomes == {"unknown", "open"} \cup Ends

Init ==
  /\ outcome = [i \in Id |-> "unknown"]
  /\ tries   = [i \in Id |-> 0]

Stays(i)  == outcome'[i] = outcome[i] /\ tries'[i] = tries[i]

Submit(i) ==
  /\ outcome[i] = "unknown" /\ outcome'[i] = "open"
  /\ tries'[i] = tries[i]

Try(i) ==
  /\ outcome[i] = "open" /\ outcome'[i] = "open"
  /\ tries[i] < TryLimit[i]
  /\ tries'[i] = tries[i] + 1

Finish(i) ==
  /\ outcome[i] = "open" /\ outcome'[i] \in Ends
  /\ outcome'[i] = "completed" => tries[i] > 0
  /\ tries'[i] = tries[i]

Next ==
  /\ outcome' \in [Id -> Outcomes]
  /\ tries' \in [Id -> Nat]
  /\ \A i \in Id : Stays(i) \/ Submit(i) \/ Try(i) \/ Finish(i)

Spec == Init /\ [][Next]_lifeVars
=============================================================================
