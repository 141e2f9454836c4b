-------------------------- MODULE ClaimFenceProofs --------------------------
(***************************************************************************)
(* The claim fence holds for any number of claiming threads.               *)
(***************************************************************************)
EXTENDS ClaimFence, TLAPS

\* Once the write side has been taken, nobody is past the last look at the flag:
\* whoever looks later finds it raised.
NobodyPastTheGate ==
  /\ shutdown # "up" => cancelled
  /\ shutdown = "settled" => \A c \in Claimer : pc[c] # "committing"

IInv == TypeOK /\ GuardsMatchThreads /\ NobodyPastTheGate

LEMMA InvInit == Init => IInv
  BY DEF Init, IInv, TypeOK, ClaimPC, ShutdownPC, GuardsMatchThreads, NobodyPastTheGate

LEMMA ShutdownStep == IInv /\ Shutdown => IInv'
<1> SUFFICES ASSUME IInv, Shutdown PROVE IInv'
  OBVIOUS
<1> USE DEF IInv, TypeOK, ClaimPC, ShutdownPC, GuardsMatchThreads, NobodyPastTheGate
<1>1. CASE RaiseFlag
  BY <1>1 DEF RaiseFlag
<1>2. CASE Snapshot
  BY <1>2 DEF Snapshot
<1>3. ASSUME NEW c \in Claimer, Interrupt(c) PROVE IInv'
  BY <1>3 DEF Interrupt, Return
<1>4. CASE SignalDone
  BY <1>4 DEF SignalDone
<1>5. CASE Settle
  BY <1>5 DEF Settle
<1> QED
  BY <1>1, <1>2, <1>3, <1>4, <1>5 DEF Shutdown

LEMMA ClaimStep == ASSUME IInv, NEW c \in Claimer, Claim(c) PROVE IInv'
<1> USE DEF IInv, TypeOK, ClaimPC, GuardsMatchThreads, NobodyPastTheGate
<1>1. CASE Enter(c)
  BY <1>1 DEF Enter
<1>2. CASE Register(c)
  BY <1>2 DEF Register
<1>3. CASE Registered(c)
  BY <1>3 DEF Registered
<1>4. CASE Begin(c)
  BY <1>4 DEF Begin, Return
<1>5. CASE RunStatements(c)
  BY <1>5 DEF RunStatements, Return
<1>6. CASE EnterGate(c)
  BY <1>6 DEF EnterGate
<1>7. CASE Decide(c)
  BY <1>7 DEF Decide, Return, ShutdownPC
<1>8. CASE Commit(c)
  BY <1>8 DEF Commit, Return
<1> QED
  BY <1>1, <1>2, <1>3, <1>4, <1>5, <1>6, <1>7, <1>8 DEF Claim

THEOREM Invariant == Spec => []IInv
<1>1. IInv /\ [Next]_vars => IInv'
  <2>1. IInv /\ UNCHANGED vars => IInv'
    BY DEF vars, IInv, TypeOK, GuardsMatchThreads, NobodyPastTheGate
  <2> QED
    BY <2>1, ShutdownStep, ClaimStep DEF Next
<1> QED
  BY <1>1, InvInit, PTL DEF Spec

\* The types, and the map of connections and the gate follow the threads.
THEOREM GuardsFollow == Spec => []GuardsMatchThreads
<1>1. IInv => GuardsMatchThreads
  BY DEF IInv
<1> QED
  BY <1>1, Invariant, PTL

THEOREM TypeCorrect == Spec => []TypeOK
<1>1. IInv => TypeOK
  BY DEF IInv
<1> QED
  BY <1>1, Invariant, PTL

\* After settle has returned no claim leases an item: the fence of the worker's
\* shutdown, for any number of claims in flight.
THEOREM Fenced == Spec => NoLeaseAfterSettle
<1>1. ASSUME IInv, Next, shutdown = "settled", NEW c \in Claimer, c \in leased'
      PROVE c \in leased
  <2>1. CASE Shutdown
    BY <1>1, <2>1 DEF Shutdown, RaiseFlag, Snapshot, Interrupt, SignalDone, Settle
  <2>2. ASSUME NEW d \in Claimer, Claim(d) PROVE c \in leased
    BY <1>1, <2>2 DEF Claim, Enter, Register, Registered, Begin, RunStatements, EnterGate,
                      Decide, Commit, IInv, NobodyPastTheGate
  <2> QED
    BY <1>1, <2>1, <2>2 DEF Next
<1>2. IInv /\ [Next]_vars =>
        [shutdown = "settled" => \A c \in Claimer : c \in leased' => c \in leased]_vars
  BY <1>1
<1> QED
  BY <1>2, Invariant, PTL DEF Spec, NoLeaseAfterSettle
=============================================================================
