----------------------------- MODULE ClaimFence -----------------------------
(***************************************************************************)
(* WorkClaimCancellation (services/execution-state/src/work.rs): the fence *)
(* that lets a worker's shutdown stop its claims of work without waiting   *)
(* for slow transactions.  shutdown calls signal (raise the flag, then     *)
(* interrupt the connections registered so far) and settle (take the write *)
(* side of the commit gate once); a claim may commit only under the read   *)
(* side, after looking at the flag again.                                  *)
(*                                                                         *)
(* Every atomic access is a step: threads interleave between any two.      *)
(***************************************************************************)
EXTENDS FiniteSets

CONSTANT Claimer   \* threads that run claim_next_cancellable, one call at a time

VARIABLES
  pc,          \* [Claimer -> ClaimPC]
  shutdown,    \* where the shutdown thread is
  cancelled,   \* the AtomicBool
  registered,  \* the interrupts map: claimers whose connection is in it
  targets,     \* signal's snapshot of the map, connections left to interrupt
  readers,     \* claimers that hold the read side of commit_gate
  leased       \* claimers whose last call returned an item

vars == <<pc, shutdown, cancelled, registered, targets, readers, leased>>

ClaimPC == {"idle", "entered", "registering", "connected", "running",
            "awaiting_gate", "holding_gate", "committing"}

ShutdownPC == {"up", "flagged", "interrupting", "settling", "settled"}

\* The claim returns: the transaction is over, the registration and the gate
\* guard are dropped.
Return(c) ==
  /\ pc' = [pc EXCEPT ![c] = "idle"]
  /\ registered' = registered \ {c}
  /\ readers' = readers \ {c}

Init ==
  /\ pc         = [c \in Claimer |-> "idle"]
  /\ shutdown   = "up"
  /\ cancelled  = FALSE
  /\ registered = {}
  /\ targets    = {}
  /\ readers    = {}
  /\ leased     = {}

-----------------------------------------------------------------------------
(* claim_next_cancellable *)

\* The first look at the flag, before anything is touched.
Enter(c) ==
  /\ pc[c] = "idle"
  /\ leased' = leased \ {c}
  /\ pc' = [pc EXCEPT ![c] = IF cancelled THEN "idle" ELSE "entered"]
  /\ UNCHANGED <<shutdown, cancelled, registered, targets, readers>>

\* register_interrupt, first half: the handle goes into the map.
Register(c) ==
  /\ pc[c] = "entered"
  /\ registered' = registered \cup {c}
  /\ pc' = [pc EXCEPT ![c] = "registering"]
  /\ UNCHANGED <<shutdown, cancelled, targets, readers, leased>>

\* register_interrupt, second half: a late registrant interrupts itself.  No
\* statement runs on the connection yet, so SQLite ignores the interrupt.
Registered(c) ==
  /\ pc[c] = "registering"
  /\ pc' = [pc EXCEPT ![c] = "connected"]
  /\ UNCHANGED <<shutdown, cancelled, registered, targets, readers, leased>>

\* The second look at the flag, before the transaction begins.
Begin(c) ==
  /\ pc[c] = "connected"
  /\ IF cancelled THEN Return(c)
     ELSE pc' = [pc EXCEPT ![c] = "running"] /\ UNCHANGED <<registered, readers>>
  /\ UNCHANGED <<shutdown, cancelled, targets, leased>>

\* The statements of the transaction are done, or one of them failed (an
\* interrupt, a busy database) and the call returns an error.
RunStatements(c) ==
  /\ pc[c] = "running"
  /\ \/ pc' = [pc EXCEPT ![c] = "awaiting_gate"] /\ UNCHANGED <<registered, readers>>
     \/ Return(c)
  /\ UNCHANGED <<shutdown, cancelled, targets, leased>>

\* Faulty variant of EnterGate: the flag is looked at before the gate is taken.
CheckBeforeGate(c) ==
  /\ pc[c] = "awaiting_gate"
  /\ IF cancelled THEN Return(c)
     ELSE pc' = [pc EXCEPT ![c] = "committing"] /\ UNCHANGED <<registered, readers>>
  /\ UNCHANGED <<shutdown, cancelled, targets, leased>>

\* commit_if_active: take the read side of the gate.  settle takes and drops
\* the write side in one step here, so no reader ever finds a writer inside.
EnterGate(c) ==
  /\ pc[c] = "awaiting_gate"
  /\ readers' = readers \cup {c}
  /\ pc' = [pc EXCEPT ![c] = "holding_gate"]
  /\ UNCHANGED <<shutdown, cancelled, registered, targets, leased>>

\* Faulty variant of Decide: a denied claim forgets to drop the gate guard.
DecideKeepsGate(c) ==
  /\ pc[c] = "holding_gate"
  /\ pc' = [pc EXCEPT ![c] = IF cancelled THEN "idle" ELSE "committing"]
  /\ registered' = IF cancelled THEN registered \ {c} ELSE registered
  /\ UNCHANGED <<shutdown, cancelled, targets, readers, leased>>

\* Faulty variant of Decide: a denied claim waits instead of returning.
DecideIfActive(c) ==
  /\ pc[c] = "holding_gate" /\ ~cancelled
  /\ pc' = [pc EXCEPT ![c] = "committing"]
  /\ UNCHANGED <<shutdown, cancelled, registered, targets, readers, leased>>

\* commit_if_active: the look at the flag that counts, under the gate.
Decide(c) ==
  /\ pc[c] = "holding_gate"
  /\ IF cancelled THEN Return(c)
     ELSE pc' = [pc EXCEPT ![c] = "committing"] /\ UNCHANGED <<registered, readers>>
  /\ UNCHANGED <<shutdown, cancelled, targets, leased>>

\* tx.commit() under the gate; it may find nothing to lease, or fail.
Commit(c) ==
  /\ pc[c] = "committing"
  /\ Return(c)
  /\ leased' \in {leased, leased \cup {c}}
  /\ UNCHANGED <<shutdown, cancelled, targets>>

-----------------------------------------------------------------------------
(* WorkWorkerHandle::shutdown *)

\* signal: the flag goes up first ...
RaiseFlag ==
  /\ shutdown = "up"
  /\ cancelled' = TRUE
  /\ shutdown' = "flagged"
  /\ UNCHANGED <<pc, registered, targets, readers, leased>>

\* ... then the map is copied under its mutex ...
Snapshot ==
  /\ shutdown = "flagged"
  /\ targets' = registered
  /\ shutdown' = "interrupting"
  /\ UNCHANGED <<pc, cancelled, registered, readers, leased>>

\* ... and each connection is interrupted: a statement it runs may be aborted.
Interrupt(c) ==
  /\ shutdown = "interrupting" /\ c \in targets
  /\ targets' = targets \ {c}
  /\ \/ pc[c] = "running" /\ Return(c)
     \/ UNCHANGED <<pc, registered, readers>>
  /\ UNCHANGED <<shutdown, cancelled, leased>>

SignalDone ==
  /\ shutdown = "interrupting" /\ targets = {}
  /\ shutdown' = "settling"
  /\ UNCHANGED <<pc, cancelled, registered, targets, readers, leased>>

\* settle: the write side is granted once no reader holds the gate.
Settle ==
  /\ shutdown = "settling" /\ readers = {}
  /\ shutdown' = "settled"
  /\ UNCHANGED <<pc, cancelled, registered, targets, readers, leased>>

Claim(c) ==
  \/ Enter(c) \/ Register(c) \/ Registered(c) \/ Begin(c)
  \/ RunStatements(c) \/ EnterGate(c) \/ Decide(c) \/ Commit(c)

Shutdown ==
  RaiseFlag \/ Snapshot \/ (\E c \in Claimer : Interrupt(c)) \/ SignalDone \/ Settle

Next == Shutdown \/ \E c \in Claimer : Claim(c)

Spec == Init /\ [][Next]_vars

\* Threads that have begun a call run on (a commit ends: SQLite's busy timeout is
\* five seconds), and a shutdown that was begun goes on.  Nothing forces anyone to
\* begin: neither Enter nor RaiseFlag is fair.
Fairness ==
  /\ WF_vars(Shutdown /\ shutdown # "up")
  /\ \A c \in Claimer : WF_vars(Claim(c) /\ pc[c] # "idle")

FairSpec == Spec /\ Fairness

-----------------------------------------------------------------------------
(* Properties *)

TypeOK ==
  /\ pc \in [Claimer -> ClaimPC]
  /\ shutdown \in ShutdownPC
  /\ cancelled \in BOOLEAN
  /\ registered \subseteq Claimer /\ targets \subseteq Claimer
  /\ readers \subseteq Claimer /\ leased \subseteq Claimer

\* Once settle has returned, no claim leases an item any more: the lease of an
\* item that a claim reports after that was committed before, and the worker may
\* wind up without a new item appearing behind its back.
NoLeaseAfterSettle ==
  [][shutdown = "settled" => \A c \in Claimer : c \in leased' => c \in leased]_vars

\* The guards follow the threads: a connection is in the interrupts map exactly
\* while its claim is under way, and the gate is held exactly by those that decide
\* or commit, on every way out of the call.
GuardsMatchThreads ==
  /\ registered = {c \in Claimer : pc[c] \notin {"idle", "entered"}}
  /\ readers = {c \in Claimer : pc[c] \in {"holding_gate", "committing"}}

\* A signalled shutdown settles, however many claims are on their way: a claim
\* inside its statements does not hold the gate, and one that does lets go.
ShutdownSettles == shutdown = "flagged" ~> shutdown = "settled"

\* A call that was begun comes back, whether or not a shutdown crosses it.
ClaimsReturn == \A c \in Claimer : pc[c] # "idle" ~> pc[c] = "idle"
=============================================================================
