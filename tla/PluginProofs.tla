---------------------------- MODULE PluginProofs ----------------------------
(* Proofs about PluginManager, for any number of starts.                    *)
EXTENDS PluginManager, TLAPS

\* The start that an entry says "starting" for is one of the plugin's.
SaidByStart == state = "starting" => said \in Run

PInv == TypeOK /\ ServingIsRegistered /\ SaidByStart /\ StartingIsLive

USE PluginAssumption

\* A run goes on, enters the registry with the step or serves as before, and says
\* nothing about the entry.
LEMMA RunMoves ==
  ASSUME PInv, NEW r \in Run, NEW p \in Phase, Move(r, p),
         p \notin {"unused", "done", "aborted"},
         p \in {"registered", "running"} => reg' = r,
         (\E q \in Run : q # r /\ Serves(q)) => reg' = reg,
         reg' \in Run \cup {None}, calls' \in SUBSET Run,
         UNCHANGED <<state, handle, said>>
  PROVE  PInv'
<1>1. /\ task'[r] = p /\ \A q \in Run : q # r => task'[q] = task[q]
      /\ task' \in [Run -> Phase]
  BY DEF PInv, TypeOK, Move
<1>2. TypeOK' /\ SaidByStart'
  BY <1>1 DEF PInv, TypeOK, SaidByStart
<1>3. ServingIsRegistered'
  BY <1>1 DEF PInv, ServingIsRegistered, Serves
<1>4. StartingIsLive'
  BY <1>1 DEF PInv, SaidByStart, StartingIsLive, Live, Phase
<1> QED
  BY <1>2, <1>3, <1>4 DEF PInv

\* A run ends or is aborted, and the entry does not say "starting".
LEMMA RunEnds ==
  ASSUME PInv, task' \in [Run -> Phase],
         \A q \in Run : task'[q] = task[q] \/ task'[q] \in {"done", "aborted"},
         state' \in State \ {"starting"}, handle' \in Run \cup {None},
         UNCHANGED <<calls, reg, said>>
  PROVE  PInv'
<1>1. TypeOK' /\ SaidByStart' /\ StartingIsLive'
  BY DEF PInv, TypeOK, SaidByStart, StartingIsLive
<1>2. ServingIsRegistered'
  BY DEF PInv, ServingIsRegistered, Serves
<1> QED
  BY <1>1, <1>2 DEF PInv

LEMMA PInvariant == Spec => []PInv
<1>1. Init => PInv
  BY DEF Init, PInv, TypeOK, State, Phase, ServingIsRegistered, Serves, SaidByStart,
         StartingIsLive
<1>2. ASSUME PInv, [Next]_vars PROVE PInv'
  <2>0. TypeOK /\ ServingIsRegistered
    BY <1>2 DEF PInv
  <2>1. CASE Stop
    BY <1>2, <2>0, <2>1, RunEnds DEF Stop, Move, TypeOK, State, Phase
  <2>2. ASSUME NEW r \in Run, Start(r) PROVE PInv'
    <3>1. /\ task'[r] = "called" /\ \A q \in Run : q # r => task'[q] = task[q]
          /\ task' \in [Run -> Phase]
      BY <2>0, <2>2 DEF Start, Move, TypeOK, Phase
    <3>2. TypeOK'
      BY <2>0, <2>2, <3>1 DEF Start, TypeOK, State
    <3>3. ServingIsRegistered'
      BY <2>0, <2>2, <3>1 DEF Start, ServingIsRegistered, Serves
    <3> QED
      BY <2>2, <3>1, <3>2, <3>3 DEF PInv, Start, SaidByStart, StartingIsLive
  <2>3. ASSUME NEW r \in Run, StoreHandle(r) PROVE PInv'
    BY <1>2, <2>3
    DEF StoreHandle, PInv, TypeOK, ServingIsRegistered, Serves, SaidByStart, StartingIsLive, Live
  <2>4. ASSUME NEW r \in Run, Launch(r) \/ NoHello(r) \/ Forget(r) \/ Spawn(r) PROVE PInv'
    BY <1>2, <2>0, <2>4, RunMoves DEF Launch, NoHello, Forget, Spawn, TypeOK, Phase
  <2>5. ASSUME NEW r \in Run, Register(r) PROVE PInv'
    <3>1. CASE reg = None
      <4>1. \A q \in Run : ~ Serves(q)
        BY <2>0, <3>1 DEF ServingIsRegistered
      <4> QED
        BY <1>2, <2>0, <2>5, <3>1, <4>1, RunMoves DEF Register, TypeOK, Phase
    <3>2. CASE reg # None
      BY <1>2, <2>0, <2>5, <3>2, RunMoves DEF Register, TypeOK, Phase
    <3> QED
      BY <3>1, <3>2
  <2>6. ASSUME NEW r \in Run, HelloAck(r) PROVE PInv'
    <3>1. reg = r
      BY <2>0, <2>6 DEF HelloAck, ServingIsRegistered, Serves
    <3> QED
      BY <1>2, <2>0, <2>6, <3>1, RunMoves DEF HelloAck, TypeOK, Phase
  <2>7. ASSUME NEW r \in Run, CleanUp(r) PROVE PInv'
    <3>1. \A q \in Run : Serves(q) => q = r
      BY <2>0, <2>7 DEF CleanUp, ServingIsRegistered, Serves
    <3> QED
      BY <1>2, <2>0, <2>7, <3>1, RunMoves DEF CleanUp, TypeOK, Phase
  <2>8. ASSUME NEW r \in Run, Returns(r) PROVE PInv'
    BY <1>2, <2>0, <2>8, RunMoves DEF Returns, TypeOK, Phase
  <2>9. ASSUME NEW r \in Run, Ended(r) \/ Failed(r) PROVE PInv'
    <3>1. Move(r, "done") /\ state' \in State \ {"starting"}
      BY <2>9 DEF Ended, Failed, State
    <3>2. handle' \in Run \cup {None} /\ UNCHANGED <<calls, reg, said>>
      BY <2>0, <2>9 DEF Ended, Failed, TypeOK
    <3> QED
      BY <1>2, <2>0, <3>1, <3>2, RunEnds DEF Move, TypeOK, Phase
  <2>10. CASE UNCHANGED vars
    BY <1>2, <2>10
    DEF vars, PInv, TypeOK, ServingIsRegistered, Serves, SaidByStart, StartingIsLive, Live
  <2> QED
    BY <1>2, <2>1, <2>2, <2>3, <2>4, <2>5, <2>6, <2>7, <2>8, <2>9, <2>10 DEF Next
<1> QED BY <1>1, <1>2, PTL DEF Spec

\* The entry, the tasks and the registry keep their types.
THEOREM TypeCorrect == Spec => []TypeOK
<1>1. PInv => TypeOK
  BY DEF PInv
<1> QED BY <1>1, PInvariant, PTL

\* However many starts, stops and restarts overlap, one run at most serves, and it is
\* the one the registry sends to.
THEOREM ServerIsRegistered == Spec => []ServingIsRegistered
<1>1. PInv => ServingIsRegistered
  BY DEF PInv
<1> QED BY <1>1, PInvariant, PTL

\* An entry is never left "starting" by a run that was spawned: the start that said so
\* last still has its run ahead of it or under way, or lost its caller at the lock of
\* the bus.
THEOREM StartingMoves == Spec => []StartingIsLive
<1>1. PInv => StartingIsLive
  BY DEF PInv
<1> QED BY <1>1, PInvariant, PTL
=============================================================================
