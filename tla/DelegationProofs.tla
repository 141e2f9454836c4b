-------------------------- MODULE DelegationProofs --------------------------
(***************************************************************************)
(* Proofs about Delegation, for any finite number of children, any number  *)
(* of turns and whatever trouble crosses them.                             *)
(*                                                                         *)
(* The count of a session is written by every kind of task: turns add to   *)
(* it; children, resets and turns in Root mode that fail take away; a      *)
(* continuation that fails leaves it as it is.  What bounds it from above  *)
(* is where the children are: a child is owed from its registration until  *)
(* it counts itself off (Stages), so Owed grows by one exactly when the    *)
(* count does and shrinks by one only when the count does.                 *)
(*                                                                         *)
(* Turns that delegate one task each, and are not crossed by a message     *)
(* (OneEach), pass the session on like a baton: from the last turn that    *)
(* has begun (k) to its child, from the child to the watcher, from the     *)
(* watcher to turn k + 1 (Baton); a turn that fails or is cancelled never  *)
(* asks for the next one, whether it disowns its child (turn 1) or leaves  *)
(* it to end by itself (a continuation), and so drops the baton for good.  *)
(* If moreover no turn fails or is stopped (RunsItsCourse), count, flag,   *)
(* rows and status agree with who holds it (Regular): what the resets of   *)
(* the watcher assume, and what try_complete_session reads, is then true.  *)
(***************************************************************************)
EXTENDS Delegation, FiniteSetTheorems, TLAPS

\* Labels of a child that has not counted itself off, and those at which it has
\* not been through the registry's exit yet.
Uncounted == {"none", "created", "requested", "working", "finishing", "failing",
              "querying", "querying_queued", "closing", "reporting",
              "reporting_error", "counting"}
Enlisted  == {"working", "finishing", "querying", "querying_queued", "closing",
              "reporting"}

Stage(c) ==
  /\ pc[c] \in Uncounted => c \notin counted
  /\ pc[c] \in Enlisted => c \in registry \cup disowned
  /\ pc[c] = "counting" \/ c \in counted => c \in reported \cup disowned

Stages == \A c \in Child : Stage(c)

IsOwed(c) == pc[c] \notin {"none", "created"} /\ c \notin counted

\* A child is registered, listed or disowned after its row is there.
Enrolled(c) == c \in registry \cup disowned \/ \E n \in Turn : c \in orphans[n]
RowsFirst == \A c \in Child : Enrolled(c) => pc[c] # "none"

IInv == TypeOK /\ Stages /\ RowsFirst /\ PendingNeverOverstates

LEMMA TasksDistinct ==
  /\ Root \notin Child /\ Watcher # User
  /\ \A c \in Child : c \notin Turn /\ c # Watcher /\ c # User
  /\ \A n \in Turn : n # Watcher /\ n # User
BY DelegationAssumption

LEMMA InitIInv == Init => IInv
<1> SUFFICES ASSUME Init PROVE IInv
  OBVIOUS
<1> USE DEF Init
<1>1. TypeOK
  <2>1. pc \in [Task -> ChildPC \cup TurnPC \cup StartPC]
    BY DEF ChildPC, TurnPC, StartPC
  <2>2. exec \in [Execution -> ExecStatus]
    BY DEF ExecStatus, Live
  <2>3. by \in [Child -> 0..MaxTurns]
    BY DelegationAssumption
  <2>4. rooted \subseteq Turn
    BY DelegationAssumption DEF Turn
  <2> QED
    BY <2>1, <2>2, <2>3, <2>4 DEF TypeOK
<1>2. Stages
  BY TasksDistinct, DelegationAssumption DEF Stages, Stage, Uncounted, Enlisted, Task, Turn
<1>3. PendingNeverOverstates
  <2>1. Owed \subseteq Child
    BY DEF Owed
  <2>2. IsFiniteSet(Owed)
    BY <2>1, FS_Subset, DelegationAssumption
  <2> QED
    BY <2>2, FS_CardinalityType DEF PendingNeverOverstates
<1>4. RowsFirst
  BY DEF RowsFirst, Enrolled
<1> QED
  BY <1>1, <1>2, <1>3, <1>4 DEF IInv

-----------------------------------------------------------------------------
(* Types                                                                   *)

LEMMA TypeStep == TypeOK /\ [Next]_vars => TypeOK'
<1> SUFFICES ASSUME TypeOK, [Next]_vars PROVE TypeOK'
  OBVIOUS
<1> DEFINE L == ChildPC \cup TurnPC \cup StartPC
<1>move. ASSUME NEW t, NEW l \in L, Goto(t, l) PROVE pc' \in [Task -> L]
  BY <1>move DEF Goto, TypeOK
<1> USE DEF TypeOK, dbVars, memVars, logVars, Live, Ended, ExecStatus, Execution
<1>less. LessOne(pending) \in Nat
  BY DEF LessOne
<1>row. \A t \in Task : RowOf(t) \in Execution
  BY DEF RowOf, Task
<1>over. ASSUME NEW s \in Ended, Terminate(s)
         PROVE  session' \in {"running"} \cup Ended /\ exec' \in [Execution -> ExecStatus]
  BY <1>over DEF Terminate
<1>1. CASE UNCHANGED vars
  BY <1>1 DEF vars
<1>2. ASSUME NEW n \in Turn, NEW c \in Child, CreateExecution(n, c) PROVE TypeOK'
  BY <1>2, <1>move, DelegationAssumption DEF CreateExecution, ChildPC, Turn
<1>3. ASSUME NEW c \in Child, Register(c) \/ Start(c) \/ Finish(c) \/ Report(c) PROVE TypeOK'
  BY <1>3, <1>move DEF Register, Start, Finish, Report, ChildPC
<1>4. ASSUME NEW c \in Child, CountOff(c) \/ Tally(c) \/ Announce(c) PROVE TypeOK'
  BY <1>4, <1>move, <1>less DEF CountOff, Tally, Announce, ChildPC
<1>5. ASSUME NEW c \in Child, Suppress(c) \/ BlameParent(c) \/ Leave(c) PROVE TypeOK'
  BY <1>5, <1>move DEF Suppress, BlameParent, Leave, ChildPC
<1>6. ASSUME NEW t \in Task, CompleteExecution(t) \/ CrashExecution(t) PROVE TypeOK'
  BY <1>6, <1>move, <1>row DEF CompleteExecution, CrashExecution, ChildPC, TurnPC
<1>7. ASSUME NEW t \in Task, QueryRunning(t) \/ QueryQueued(t) PROVE TypeOK'
  BY <1>7, <1>move DEF QueryRunning, QueryQueued, AfterTry, ChildPC, TurnPC
<1>8. ASSUME NEW t \in Task, CompleteSession(t) \/ CrashSession(t) PROVE TypeOK'
  BY <1>8, <1>move, <1>over
  DEF CompleteSession, CrashSession, CleanUp, AfterTry, ChildPC, TurnPC, StartPC
<1>9. ASSUME NEW n \in Turn, EndTurn(n) \/ Recheck(n) \/ RequestContinuation(n) PROVE TypeOK'
  BY <1>9, <1>move DEF EndTurn, Recheck, RequestContinuation, TurnPC
<1>10. ASSUME NEW n \in Turn, ListOrphans(n) \/ CancelDone(n) \/ EndOrCancel(n) PROVE TypeOK'
  BY <1>10, <1>move DEF ListOrphans, CancelDone, EndOrCancel, TurnPC
<1>11. ASSUME NEW n \in Turn, NEW c \in Child, CancelOrphan(n, c) PROVE TypeOK'
  BY <1>11, <1>less DEF CancelOrphan
<1>12. ASSUME NEW n \in Turn, CancelExecutions(n) \/ CancelSession(n) PROVE TypeOK'
  <2>1. CASE CancelExecutions(n)
    BY <2>1, <1>move DEF CancelExecutions, TurnPC
  <2>2. CASE CancelSession(n)
    BY <2>2, <1>move, <1>over DEF CancelSession, TurnPC
  <2> QED
    BY <1>12, <2>1, <2>2
<1>13. ASSUME NEW n \in Turn, FailTurn(n) \/ Stop(n) PROVE TypeOK'
  BY <1>13, <1>move DEF FailTurn, CleanUp, Stop, TurnPC
<1>14. ASSUME NEW c \in Child, FailEarly(c) \/ Kill(c) PROVE TypeOK'
  BY <1>14, <1>move DEF FailEarly, Kill, ChildPC
<1>15. CASE Receive \/ Message \/ FailLaunch
  <2>1. CASE Receive
    <3>1. ready - 1 \in Nat
      BY <2>1 DEF Receive
    <3>2. pc' \in [Task -> L]
      BY <2>1, <1>move DEF Receive, StartPC
    <3> QED
      BY <2>1, <3>1, <3>2 DEF Receive
  <2>2. CASE Message
    BY <2>2, <1>move DEF Message, StartPC
  <2>3. CASE FailLaunch
    BY <2>3, <1>move DEF FailLaunch, StartPC
  <2> QED
    BY <1>15, <2>1, <2>2, <2>3
<1>16. ASSUME NEW t \in {Watcher, User}, Reopen(t) \/ Revive(t) \/ ResetTracking(t) PROVE TypeOK'
  <2>1. CASE Reopen(t)
    BY <2>1, <1>move DEF Reopen, StartPC
  <2>2. CASE Revive(t)
    BY <2>2, <1>move DEF Revive, StartPC
  <2>3. CASE ResetTracking(t)
    BY <2>3, <1>move DEF ResetTracking, StartPC
  <2> QED
    BY <1>16, <2>1, <2>2, <2>3
<1>17. ASSUME NEW t \in {Watcher, User}, Launch(t) PROVE TypeOK'
  BY <1>17 DEF Launch, StartPC, TurnPC
<1> QED
  BY <1>1, <1>2, <1>3, <1>4, <1>5, <1>6, <1>7, <1>8, <1>9, <1>10, <1>11, <1>12,
     <1>13, <1>14, <1>15, <1>16, <1>17
  DEF Next, Delegate, Mishap, ChildStep, TurnStep, StartStep, Task

-----------------------------------------------------------------------------
(* Whom a step moves                                                       *)

\* A step of a child moves no other child.
LEMMA ChildMovesAlone ==
  ASSUME TypeOK, NEW c \in Child, NEW d \in Child, c # d,
         \/ ChildStep(c) \/ FailEarly(c) \/ Kill(c)
         \/ \E n \in Turn : CreateExecution(n, c)
  PROVE  /\ pc'[d] = pc[d]
         /\ d \in counted' <=> d \in counted
         /\ d \in registry => d \in registry'
         /\ reported \subseteq reported' /\ disowned' = disowned
<1>kept. ASSUME NEW l, Goto(c, l) PROVE pc'[d] = pc[d]
  BY <1>kept DEF Goto, TypeOK
<1> USE DEF dbVars, memVars, logVars
<1>1. CASE ChildStep(c)
  BY <1>1, <1>kept
  DEF ChildStep, Register, Start, Finish, CompleteExecution, QueryRunning, QueryQueued,
    CompleteSession, CrashExecution, CrashSession, Report, CountOff, Tally, Announce,
    Suppress, BlameParent, Leave
<1>2. CASE FailEarly(c) \/ Kill(c)
  BY <1>2, <1>kept DEF FailEarly, Kill
<1>3. CASE \E n \in Turn : CreateExecution(n, c)
  BY <1>3, <1>kept DEF CreateExecution
<1> QED
  BY <1>1, <1>2, <1>3

\* What the turns, the watcher and the user do.
RootStep ==
  \/ \E n \in Turn : TurnStep(n) \/ FailTurn(n) \/ Stop(n)
  \/ \E t \in {Watcher, User} : StartStep(t)
  \/ Receive \/ Message \/ FailLaunch

\* It moves no child, and takes none out of the registry without disowning it.
LEMMA RootMovesNoChild ==
  ASSUME TypeOK, NEW d \in Child, RootStep
  PROVE  /\ pc'[d] = pc[d]
         /\ d \in registry => d \in registry' \cup disowned'
         /\ disowned \subseteq disowned'
         /\ counted' = counted /\ reported' = reported
<1>kept. ASSUME NEW t \in Task, t \notin Child, NEW l, Goto(t, l) PROVE pc'[d] = pc[d]
  BY <1>kept DEF Goto, TypeOK
<1> USE DEF dbVars, memVars, logVars
<1>1. ASSUME NEW n \in Turn, TurnStep(n) \/ FailTurn(n) \/ Stop(n)
      PROVE  pc'[d] = pc[d] /\ disowned \subseteq disowned'
             /\ (d \in registry => d \in registry' \cup disowned')
             /\ counted' = counted /\ reported' = reported
  <2>1. n \in Task /\ n \notin Child
    BY TasksDistinct DEF Task
  <2> QED
    BY <1>1, <1>kept, <2>1
    DEF TurnStep, EndTurn, Recheck, RequestContinuation, CompleteExecution, QueryRunning,
      QueryQueued, CompleteSession, CrashExecution, CrashSession, ListOrphans,
      CancelOrphan, CancelDone, EndOrCancel, CancelExecutions, CancelSession, FailTurn,
      Stop
<1>2. ASSUME NEW t \in {Watcher, User}, StartStep(t)
      PROVE  pc'[d] = pc[d] /\ UNCHANGED <<registry, disowned, counted, reported>>
  <2>1. t \in Task /\ t \notin Child /\ d \in Task
    BY TasksDistinct DEF Task
  <2>2. CASE Launch(t)
    <3>1. PICK n \in Turn : pc' = [pc EXCEPT ![t] = "idle", ![n] = "working"]
      BY <2>2 DEF Launch
    <3>2. n # d
      BY TasksDistinct
    <3> QED
      BY <2>1, <2>2, <3>1, <3>2 DEF Launch, TypeOK
  <2>3. CASE ~ Launch(t)
    BY <1>2, <2>1, <2>3, <1>kept
    DEF StartStep, Reopen, Revive, ResetTracking, CrashExecution, CrashSession
  <2> QED
    BY <2>2, <2>3
<1>3. CASE Receive \/ Message \/ FailLaunch
  BY <1>3, <1>kept, TasksDistinct DEF Receive, Message, FailLaunch, Task
<1> QED
  BY <1>1, <1>2, <1>3 DEF RootStep

LEMMA WhoMoves ==
  ASSUME [Next]_vars
  PROVE  \/ UNCHANGED vars \/ RootStep
         \/ \E c \in Child : \/ ChildStep(c) \/ FailEarly(c) \/ Kill(c)
                             \/ \E n \in Turn : CreateExecution(n, c)
BY DEF Next, Delegate, Mishap, RootStep

-----------------------------------------------------------------------------
(* Stages                                                                  *)

LEMMA OtherChild ==
  ASSUME NEW d \in Child, Stage(d), pc'[d] = pc[d],
         d \in counted' => d \in counted,
         d \in registry => d \in registry' \cup disowned',
         reported \subseteq reported', disowned \subseteq disowned'
  PROVE  Stage(d)'
BY DEF Stage

LEMMA StageStep == TypeOK /\ Stages /\ [Next]_vars => Stages'
<1> SUFFICES ASSUME TypeOK, Stages, [Next]_vars, NEW d \in Child PROVE Stage(d)'
  BY DEF Stages
<1>stage. Stage(d)
  BY DEF Stages
<1>moved. ASSUME NEW l, Goto(d, l) PROVE pc'[d] = l
  BY <1>moved DEF Goto, TypeOK, Task
<1> USE DEF dbVars, memVars, logVars
<1>1. CASE UNCHANGED vars
  BY <1>1, <1>stage, OtherChild DEF vars
<1>2. CASE RootStep
  BY <1>2, <1>stage, RootMovesNoChild, OtherChild
<1>3. ASSUME NEW c \in Child, c # d,
             \/ ChildStep(c) \/ FailEarly(c) \/ Kill(c)
             \/ \E n \in Turn : CreateExecution(n, c)
      PROVE  Stage(d)'
  BY <1>3, <1>stage, ChildMovesAlone, OtherChild
<1>4. CASE FailEarly(d) \/ Kill(d) \/ \E n \in Turn : CreateExecution(n, d)
  BY <1>4, <1>stage, <1>moved DEF CreateExecution, FailEarly, Kill, Stage, Uncounted, Enlisted
<1>5. CASE ChildStep(d)
  <2> USE <1>stage, <1>moved DEF Stage, Uncounted, Enlisted
  <2>1. CASE Register(d) \/ Start(d) \/ Finish(d)
    BY <2>1 DEF Register, Start, Finish
  <2>2. CASE CompleteExecution(d) \/ CrashExecution(d)
    BY <2>2 DEF CompleteExecution, CrashExecution
  <2>3. CASE QueryRunning(d) \/ QueryQueued(d)
    BY <2>3 DEF QueryRunning, QueryQueued, AfterTry
  <2>4. CASE CompleteSession(d) \/ CrashSession(d)
    BY <2>4, TasksDistinct DEF CompleteSession, CrashSession, AfterTry
  <2>5. CASE Report(d)
    BY <2>5 DEF Report
  <2>6. CASE CountOff(d) \/ Tally(d) \/ Announce(d)
    BY <2>6 DEF CountOff, Tally, Announce
  <2>7. CASE Suppress(d) \/ BlameParent(d) \/ Leave(d)
    BY <2>7 DEF Suppress, BlameParent, Leave
  <2> QED
    BY <1>5, <2>1, <2>2, <2>3, <2>4, <2>5, <2>6, <2>7 DEF ChildStep
<1> QED
  BY <1>1, <1>2, <1>3, <1>4, <1>5, WhoMoves

-----------------------------------------------------------------------------
(* Rows come first                                                         *)

LEMMA RowsFirstStep == TypeOK /\ RowsFirst /\ [Next]_vars => RowsFirst'
<1> SUFFICES ASSUME TypeOK, RowsFirst, [Next]_vars, NEW d \in Child, Enrolled(d)'
             PROVE  pc'[d] # "none"
  BY DEF RowsFirst
<1>row. Enrolled(d) => pc[d] # "none"
  BY DEF RowsFirst
<1>moved. ASSUME NEW l, Goto(d, l) PROVE pc'[d] = l
  BY <1>moved DEF Goto, TypeOK, Task
<1> USE DEF dbVars, memVars, logVars
<1>1. CASE UNCHANGED vars
  BY <1>1, <1>row DEF vars, Enrolled
<1>2. CASE RootStep
  <2>1. Enrolled(d)
    BY <1>2
    DEF RootStep, TurnStep, EndTurn, Recheck, RequestContinuation, CompleteExecution,
      QueryRunning, QueryQueued, CompleteSession, CrashExecution, CrashSession, ListOrphans,
      CancelOrphan, CancelDone, EndOrCancel, CancelExecutions, CancelSession, FailTurn,
      Stop, StartStep, Reopen, Revive, ResetTracking, Launch, Receive, Message, FailLaunch,
      Enrolled, TypeOK
  <2> QED
    BY <1>2, <1>row, <2>1, RootMovesNoChild
<1>3. ASSUME NEW c \in Child, c # d,
             \/ ChildStep(c) \/ FailEarly(c) \/ Kill(c)
             \/ \E n \in Turn : CreateExecution(n, c)
      PROVE  pc'[d] # "none"
  <2>1. Enrolled(d)
    BY <1>3
    DEF ChildStep, Register, Start, Finish, CompleteExecution, QueryRunning, QueryQueued,
      CompleteSession, CrashExecution, CrashSession, Report, CountOff, Tally, Announce,
      Suppress, BlameParent, Leave, FailEarly, Kill, CreateExecution, Enrolled
  <2> QED
    BY <1>3, <1>row, <2>1, ChildMovesAlone
<1>4. CASE FailEarly(d) \/ Kill(d) \/ \E n \in Turn : CreateExecution(n, d)
  BY <1>4, <1>moved DEF CreateExecution, FailEarly, Kill
<1>5. CASE ChildStep(d)
  BY <1>5, <1>moved, TasksDistinct
  DEF ChildStep, Register, Start, Finish, CompleteExecution, QueryRunning, QueryQueued,
    CompleteSession, CrashExecution, CrashSession, Report, CountOff, Tally, Announce,
    Suppress, BlameParent, Leave, AfterTry
<1> QED
  BY <1>1, <1>2, <1>3, <1>4, <1>5, WhoMoves

-----------------------------------------------------------------------------
(* The count                                                               *)

LEMMA OwedSame ==
  ASSUME \A d \in Child : IsOwed(d)' <=> IsOwed(d) PROVE Owed' = Owed
BY DEF Owed, IsOwed

\* The count and what it counts go up and down together, or the count falls alone.
LEMMA OwedStep ==
  ASSUME TypeOK, Stages, [Next]_vars
  PROVE  \/ Owed' = Owed /\ pending' \in 0..pending
         \/ \E c \in Child : c \notin Owed /\ Owed' = Owed \cup {c} /\ pending' = pending + 1
         \/ \E c \in Child : c \in Owed /\ Owed' = Owed \ {c} /\ pending' = LessOne(pending)
<1> USE DEF dbVars, memVars, logVars
<1>nat. pending \in Nat
  BY DEF TypeOK
<1>moved. ASSUME NEW c \in Child, NEW l, Goto(c, l) PROVE pc'[c] = l
  BY <1>moved DEF Goto, TypeOK, Task
<1>1. CASE UNCHANGED vars
  BY <1>1, <1>nat DEF vars, Owed
<1>2. CASE RootStep
  <2>1. Owed' = Owed
    BY <1>2, RootMovesNoChild DEF Owed
  <2>2. pending' \in {pending, 0, LessOne(pending)}
    BY <1>2
    DEF RootStep, TurnStep, EndTurn, Recheck, RequestContinuation, CompleteExecution,
      QueryRunning, QueryQueued, CompleteSession, CrashExecution, CrashSession, ListOrphans,
      CancelOrphan, CancelDone, EndOrCancel, CancelExecutions, CancelSession, FailTurn,
      Stop, StartStep, Reopen, Revive, ResetTracking, Launch, Receive, Message, FailLaunch
  <2> QED
    BY <1>nat, <2>1, <2>2 DEF LessOne
<1>3. ASSUME NEW c \in Child, Register(c)
      PROVE  c \notin Owed /\ Owed' = Owed \cup {c} /\ pending' = pending + 1
  <2>1. \A d \in Child \ {c} : IsOwed(d)' <=> IsOwed(d)
    BY <1>3, ChildMovesAlone DEF IsOwed, ChildStep
  <2>2. ~ IsOwed(c) /\ IsOwed(c)'
    BY <1>3, <1>moved DEF IsOwed, Register, Stages, Stage, Uncounted
  <2> QED
    BY <1>3, <2>1, <2>2 DEF Register, Owed, IsOwed
<1>4. ASSUME NEW c \in Child, CountOff(c)
      PROVE  c \in Owed /\ Owed' = Owed \ {c} /\ pending' = LessOne(pending)
  <2>1. \A d \in Child \ {c} : IsOwed(d)' <=> IsOwed(d)
    BY <1>4, ChildMovesAlone DEF IsOwed, ChildStep
  <2>2. IsOwed(c) /\ ~ IsOwed(c)'
    BY <1>4 DEF IsOwed, CountOff, Stages, Stage, Uncounted
  <2> QED
    BY <1>4, <2>1, <2>2 DEF CountOff, Owed, IsOwed
<1>5. ASSUME NEW c \in Child, ~ Register(c), ~ CountOff(c),
             \/ ChildStep(c) \/ FailEarly(c) \/ Kill(c)
             \/ \E n \in Turn : CreateExecution(n, c)
      PROVE  Owed' = Owed /\ pending' = pending
  <2>1. \A d \in Child \ {c} : IsOwed(d)' <=> IsOwed(d)
    BY <1>5, ChildMovesAlone DEF IsOwed
  <2>2. pending' = pending /\ counted' = counted
    BY <1>5
    DEF ChildStep, Start, Finish, CompleteExecution, QueryRunning, QueryQueued,
      CompleteSession, CrashExecution, CrashSession, Report, Tally, Announce,
      Suppress, BlameParent, Leave, FailEarly, Kill, CreateExecution
  <2>3. pc[c] \notin {"none", "created"} <=> pc'[c] \notin {"none", "created"}
    BY <1>5, <1>moved, TasksDistinct
    DEF ChildStep, Start, Finish, CompleteExecution, QueryRunning, QueryQueued, AfterTry,
      CompleteSession, CrashExecution, CrashSession, Report, Tally, Announce,
      Suppress, BlameParent, Leave, FailEarly, Kill, CreateExecution
  <2> QED
    BY <2>1, <2>2, <2>3 DEF Owed, IsOwed
<1> QED
  BY <1>nat, <1>1, <1>2, <1>3, <1>4, <1>5, WhoMoves DEF ChildStep

LEMMA CountStep ==
  ASSUME TypeOK, Stages, PendingNeverOverstates, [Next]_vars
  PROVE  PendingNeverOverstates'
<1>1. Owed \subseteq Child /\ IsFiniteSet(Owed) /\ Cardinality(Owed) \in Nat
  BY FS_Subset, FS_CardinalityType, DelegationAssumption DEF Owed
<1>2. pending \in Nat /\ pending <= Cardinality(Owed)
  BY DEF TypeOK, PendingNeverOverstates
<1>3. CASE Owed' = Owed /\ pending' \in 0..pending
  BY <1>1, <1>2, <1>3 DEF PendingNeverOverstates
<1>4. ASSUME NEW c \in Child, c \notin Owed, Owed' = Owed \cup {c}, pending' = pending + 1
      PROVE  PendingNeverOverstates'
  <2>1. Cardinality(Owed \cup {c}) = Cardinality(Owed) + 1
    BY <1>1, <1>4, FS_AddElement
  <2> QED
    BY <1>1, <1>2, <1>4, <2>1 DEF PendingNeverOverstates
<1>5. ASSUME NEW c \in Child, c \in Owed, Owed' = Owed \ {c}, pending' = LessOne(pending)
      PROVE  PendingNeverOverstates'
  <2>1. Cardinality(Owed \ {c}) = Cardinality(Owed) - 1
    BY <1>1, <1>5, FS_RemoveElement
  <2>2. Cardinality(Owed \ {c}) \in Nat
    BY <1>1, FS_RemoveElement, FS_CardinalityType
  <2> QED
    BY <1>1, <1>2, <1>5, <2>1, <2>2 DEF PendingNeverOverstates, LessOne
<1> QED
  BY <1>3, <1>4, <1>5, OwedStep

-----------------------------------------------------------------------------
(* One delegation per turn: who holds the baton                            *)

\* Turns delegate one task each, and no message crosses them.  They may fail, be
\* stopped and cancelled; children may fail, early or late, or be killed; and a
\* continuation may fail to start.
OneEach == PerTurn = 1 /\ "message" \notin Trouble

\* Labels of a turn that has left the session to others: it asks for nothing more.
Behind == {"querying", "querying_queued", "closing", "trailing", "revoking",
           "resetting", "over"}

AfterCount == {"tallying", "announcing", "suppressing", "blaming", "crashing", "leaving"}

\* The watcher has, or is about to get, the event that starts the next turn.
Handing == ready > 0 \/ pc[Watcher] # "idle"

\* A child that has nothing left to do for the session, and may be followed.
Passed(c) ==
  /\ pc[c] \in {"leaving", "gone"} /\ c \in counted \cap reported
  /\ c \notin early \cap Planner

\* k is the last turn that has begun, and those before it have left.
TurnsUpTo(k) ==
  /\ \A n \in Turn : pc[n] # "none" <=> n <= k
  /\ \A n \in Turn : n < k => pc[n] \in Behind

OneChild(k) == \A c, d \in Child : by[c] = k /\ by[d] = k => c = d

\* The children of turns before k are through.  If turn k has failed and disowned
\* its child, it never asks for a continuation.  A continuation that fails does not
\* pass by the label at which children are disowned.
ChildUpTo(k, c) ==
  /\ by[c] <= k /\ (by[c] = 0 <=> pc[c] = "none")
  /\ by[c] \in 1..(k-1) => Passed(c)
  /\ pc[c] \in AfterCount => c \in counted
  /\ pc[c] \in {"tallying", "announcing"} => c \notin early \cap Planner
  /\ by[c] = k /\ c \in disowned => pc[k] \in {"cancelling"} \cup Behind /\ ~ wanted

\* The watcher is called once, after turn k has asked and its child is through.
CalledBy(k) ==
  /\ ready \in {0, 1} /\ (ready = 1 => pc[Watcher] = "idle")
  /\ Handing => pc[k] \in Behind /\ \A c \in Child : by[c] = k => Passed(c)
  /\ pc[Watcher] # "idle" => ~ wanted
  /\ wanted => pc[k] \in Behind

Baton(k) ==
  /\ pc[User] = "idle" /\ TurnsUpTo(k) /\ OneChild(k)
  /\ (\A c \in Child : ChildUpTo(k, c)) /\ CalledBy(k)

BInv == \E k \in Turn : Baton(k)

LEMMA InitBaton == Init => Baton(1) /\ 1 \in Turn
<1> SUFFICES ASSUME Init PROVE Baton(1) /\ 1 \in Turn
  OBVIOUS
<1> USE DEF Init
<1>0. 1 \in Turn /\ 1 \in Task /\ Watcher \in Task /\ User \in Task /\ MaxTurns \in Nat
      /\ Watcher # 1 /\ User # 1 /\ Watcher # User /\ 1 \notin Child
  BY DelegationAssumption, TasksDistinct DEF Turn, Task
<1>1. /\ pc[1] = "working" /\ pc[Watcher] = "idle" /\ pc[User] = "idle"
      /\ \A n \in Turn : n # 1 => pc[n] = "none"
      /\ \A c \in Child : pc[c] = "none"
  <2>1. \A n \in Turn : n \in Task /\ n # Watcher /\ n # User
    BY TasksDistinct DEF Task
  <2>2. \A c \in Child : c \in Task /\ c # Watcher /\ c # User /\ c # 1
    BY <1>0, TasksDistinct DEF Task
  <2> QED
    BY <1>0, <2>1, <2>2
<1>2. OneChild(1)
  BY <1>1 DEF OneChild
<1>3. TurnsUpTo(1)
  <2>1. \A n \in Turn : (n <= 1 <=> n = 1) /\ ~ n < 1
    BY <1>0 DEF Turn
  <2> QED
    BY <1>0, <1>1, <2>1 DEF TurnsUpTo
<1>4. \A c \in Child : ChildUpTo(1, c)
  BY <1>1 DEF ChildUpTo, AfterCount
<1>5. CalledBy(1)
  BY <1>1 DEF CalledBy, Handing
<1> QED
  BY <1>0, <1>1, <1>2, <1>3, <1>4, <1>5 DEF Baton

\* What a label that changes leaves alone.
LEMMA ChildFrame ==
  ASSUME TypeOK, NEW c \in Child, NEW l, Goto(c, l)
  PROVE  /\ pc'[c] = l /\ \A d \in Child : d # c => pc'[d] = pc[d]
         /\ \A n \in Turn : pc'[n] = pc[n]
         /\ pc'[Watcher] = pc[Watcher] /\ pc'[User] = pc[User]
BY TasksDistinct DEF TypeOK, Goto, Task

LEMMA TurnFrame ==
  ASSUME TypeOK, NEW n \in Turn, NEW l, Goto(n, l)
  PROVE  /\ pc'[n] = l /\ \A m \in Turn : m # n => pc'[m] = pc[m]
         /\ \A d \in Child : pc'[d] = pc[d]
         /\ pc'[Watcher] = pc[Watcher] /\ pc'[User] = pc[User]
BY TasksDistinct DEF TypeOK, Goto, Task

LEMMA WatcherFrame ==
  ASSUME TypeOK, NEW l, Goto(Watcher, l)
  PROVE  /\ pc'[Watcher] = l /\ pc'[User] = pc[User]
         /\ \A n \in Turn : pc'[n] = pc[n]
         /\ \A d \in Child : pc'[d] = pc[d]
BY TasksDistinct DEF TypeOK, Goto, Task

\* A child that still has something to do is the current turn's.
LEMMA OfThisTurn ==
  ASSUME TypeOK, NEW k \in Turn, Baton(k), NEW c \in Child,
         pc[c] \notin {"none", "leaving", "gone"}
  PROVE  by[c] = k /\ ~ Handing
<1>1. by[c] \in 0..MaxTurns /\ k \in 1..MaxTurns /\ MaxTurns \in Nat
  BY DelegationAssumption DEF TypeOK, Turn
<1>2. ChildUpTo(k, c) /\ CalledBy(k)
  BY DEF Baton
<1>3. by[c] # 0 /\ by[c] <= k /\ by[c] \notin 1..(k-1)
  BY <1>2 DEF ChildUpTo, Passed
<1>4. by[c] = k
  BY <1>1, <1>3
<1> QED
  BY <1>2, <1>4 DEF CalledBy, Passed

\* So is a turn that has not left.
LEMMA ThisTurn ==
  ASSUME NEW k \in Turn, Baton(k), NEW n \in Turn, pc[n] # "none"
  PROVE  n = k \/ (n < k /\ pc[n] \in Behind)
<1>1. n \in Nat /\ k \in Nat
  BY DelegationAssumption DEF Turn
<1>2. n <= k /\ (n < k => pc[n] \in Behind)
  BY DEF Baton, TurnsUpTo
<1> QED
  BY <1>1, <1>2

-----------------------------------------------------------------------------
(* The child holds it                                                      *)

\* A child winds up in order, and calls the watcher only for a turn that has asked.
LEMMA ChildMoves ==
  ASSUME TypeOK, Stages, NEW k \in Turn, Baton(k),
         NEW c \in Child, NEW l, Goto(c, l), l # "none",
         pc[c] \notin {"none", "gone"}, pc[c] = "leaving" => l = "gone",
         l \in AfterCount => c \in counted',
         l \in {"tallying", "announcing"} => c \notin early' \cap Planner,
         early' = early \/ (early' = early \cup {c} /\ pc[c] = "requested"),
         counted \subseteq counted', reported \subseteq reported',
         UNCHANGED <<by, disowned>>,
         wanted' => wanted,
         \/ ready' = ready
         \/ /\ wanted /\ ready' = ready + 1 /\ l = "leaving"
            /\ pc[c] = "announcing"
  PROVE  Baton(k)'
<1>0. TurnsUpTo(k) /\ OneChild(k) /\ ChildUpTo(k, c) /\ CalledBy(k) /\ k \in Nat
  BY DelegationAssumption DEF Baton, Turn
<1>1. /\ pc'[c] = l /\ \A d \in Child : d # c => pc'[d] = pc[d]
      /\ \A n \in Turn : pc'[n] = pc[n]
      /\ pc'[Watcher] = pc[Watcher] /\ pc'[User] = pc[User]
  BY ChildFrame
<1>2. TurnsUpTo(k)' /\ OneChild(k)' /\ pc'[User] = "idle"
  BY <1>0, <1>1 DEF Baton, TurnsUpTo, OneChild
<1>3. \A d \in Child : Passed(d) => Passed(d)'
  BY <1>1 DEF Passed
<1>4. ASSUME NEW d \in Child PROVE ChildUpTo(k, d)'
  <2>1. ChildUpTo(k, d)
    BY DEF Baton
  <2>2. CASE d = c
    BY <1>0, <1>1, <1>3, <2>1, <2>2 DEF ChildUpTo
  <2>3. CASE d # c
    BY <1>1, <1>3, <2>1, <2>3 DEF ChildUpTo
  <2> QED
    BY <2>2, <2>3
<1>5. CalledBy(k)'
  <2>1. CASE ready' = ready
    <3>1. Handing' <=> Handing
      BY <1>1, <2>1 DEF Handing
    <3>2. Handing => pc'[k] \in Behind /\ \A d \in Child : by'[d] = k => Passed(d)'
      BY <1>0, <1>1, <1>3 DEF CalledBy
    <3> QED
      BY <1>0, <1>1, <2>1, <3>1, <3>2 DEF CalledBy
  <2>2. CASE wanted /\ ready' = ready + 1 /\ l = "leaving" /\ pc[c] = "announcing"
    <3>1. by[c] = k /\ ~ Handing
      BY <2>2, OfThisTurn
    <3>2. ready = 0 /\ pc[Watcher] = "idle" /\ pc[k] \in Behind
      BY <1>0, <2>2, <3>1 DEF CalledBy, Handing
    <3>3. c \in counted /\ c \in reported
      BY <1>0, <2>2, <3>1 DEF ChildUpTo, AfterCount, Stages, Stage
    <3>4. Passed(c)'
      BY <1>0, <1>1, <2>2, <3>3 DEF Passed, ChildUpTo
    <3>5. \A d \in Child : by'[d] = k => Passed(d)'
      BY <1>0, <3>1, <3>4 DEF OneChild
    <3> QED
      BY <1>0, <1>1, <2>2, <3>2, <3>5 DEF CalledBy
  <2> QED
    BY <2>1, <2>2
<1> QED
  BY <1>2, <1>4, <1>5 DEF Baton

\* The turn that works has no child yet, or none any more that it may add to.
LEMMA CreateKeeps ==
  ASSUME OneEach, TypeOK, RowsFirst, NEW k \in Turn, Baton(k), NEW n \in Turn,
         NEW c \in Child, CreateExecution(n, c)
  PROVE  Baton(k)' /\ n = k /\ \A d \in Child : by[d] # k
<1> USE DEF memVars
<1>0. TurnsUpTo(k) /\ CalledBy(k) /\ k \in Nat \ {0}
  BY DelegationAssumption DEF Baton, Turn
<1>1. n = k /\ pc[k] = "working"
  BY ThisTurn DEF CreateExecution, Behind
<1>2. \A d \in Child : by[d] # k
  <2> DEFINE D == {d \in Child : by[d] = n}
  <2>1. IsFiniteSet(D) /\ Cardinality(D) < 1
    BY FS_Subset, DelegationAssumption DEF CreateExecution, OneEach
  <2>2. Cardinality(D) = 0
    BY <2>1, FS_CardinalityType
  <2>3. D = {}
    BY <2>1, <2>2, FS_EmptySet
  <2> QED
    BY <1>1, <2>3
<1>3. /\ pc'[c] = "created" /\ \A d \in Child : d # c => pc'[d] = pc[d]
      /\ \A m \in Turn : pc'[m] = pc[m]
      /\ pc'[Watcher] = pc[Watcher] /\ pc'[User] = pc[User]
  BY ChildFrame DEF CreateExecution
<1>4. by'[c] = k /\ \A d \in Child : d # c => by'[d] = by[d]
  BY <1>1 DEF CreateExecution, TypeOK
<1>5. TurnsUpTo(k)' /\ OneChild(k)' /\ pc'[User] = "idle"
  BY <1>2, <1>3, <1>4 DEF Baton, TurnsUpTo, OneChild
<1>6. c \notin disowned
  BY DEF RowsFirst, Enrolled, CreateExecution
<1>7. ASSUME NEW d \in Child PROVE ChildUpTo(k, d)'
  <2>1. ChildUpTo(k, d) /\ UNCHANGED <<early, counted, reported, disowned, wanted>>
    BY DEF Baton, CreateExecution
  <2>2. CASE d = c
    BY <1>0, <1>3, <1>4, <1>6, <2>1, <2>2 DEF ChildUpTo, AfterCount
  <2>3. CASE d # c
    BY <1>3, <1>4, <2>1, <2>3 DEF ChildUpTo, Passed
  <2> QED
    BY <2>2, <2>3
<1>8. CalledBy(k)'
  BY <1>0, <1>1, <1>3 DEF CalledBy, Handing, Behind, CreateExecution
<1> QED
  BY <1>1, <1>2, <1>5, <1>7, <1>8 DEF Baton

LEMMA ChildKeeps ==
  ASSUME OneEach, TypeOK, Stages, RowsFirst, NEW k \in Turn, Baton(k), NEW c \in Child,
         \/ ChildStep(c) \/ FailEarly(c) \/ Kill(c)
         \/ \E n \in Turn : CreateExecution(n, c)
  PROVE  Baton(k)'
<1> USE DEF dbVars, memVars, logVars, AfterCount
<1>c. ChildUpTo(k, c)
  BY DEF Baton
<1>1. CASE \E n \in Turn : CreateExecution(n, c)
  BY <1>1, CreateKeeps
<1>2. CASE Register(c) \/ Start(c)
  BY <1>2, ChildMoves DEF Register, Start
<1>3. CASE Finish(c) \/ Kill(c)
  BY <1>3, ChildMoves DEF Finish, Kill
<1>4. CASE FailEarly(c)
  BY <1>4, ChildMoves DEF FailEarly
<1>5. CASE CompleteExecution(c) \/ CrashExecution(c)
  BY <1>5, ChildMoves DEF CompleteExecution, CrashExecution
<1>6. CASE QueryRunning(c) \/ QueryQueued(c)
  BY <1>6, ChildMoves DEF QueryRunning, QueryQueued, AfterTry
<1>7. CASE CompleteSession(c)
  BY <1>7, ChildMoves DEF CompleteSession, AfterTry
<1>8. CASE CrashSession(c)
  <2>1. Goto(c, "leaving") /\ pc[c] = "crashing"
    BY <1>8, TasksDistinct DEF CrashSession
  <2> QED
    BY <1>8, <1>c, <2>1, ChildMoves DEF CrashSession, ChildUpTo
<1>9. CASE Report(c)
  BY <1>9, ChildMoves DEF Report
<1>10. CASE CountOff(c)
  <2>1. PICK l \in {"suppressing", "tallying"} :
          Goto(c, l) /\ (l = "tallying" => c \notin early \cap Planner)
    BY <1>10 DEF CountOff
  <2> QED
    BY <1>10, <2>1, ChildMoves DEF CountOff
<1>11. CASE Tally(c)
  <2>1. PICK l \in {"announcing", "leaving"} : Goto(c, l)
    BY <1>11 DEF Tally
  <2> QED
    BY <1>11, <1>c, <2>1, ChildMoves DEF Tally, ChildUpTo
<1>12. CASE Announce(c)
  BY <1>12, <1>c, ChildMoves DEF Announce, ChildUpTo
<1>13. CASE Suppress(c) \/ BlameParent(c)
  BY <1>13, <1>c, ChildMoves DEF Suppress, BlameParent, ChildUpTo
<1>14. CASE Leave(c)
  BY <1>14, ChildMoves DEF Leave
<1> QED
  BY <1>1, <1>2, <1>3, <1>4, <1>5, <1>6, <1>7, <1>8, <1>9, <1>10, <1>11, <1>12, <1>13,
     <1>14
  DEF ChildStep

-----------------------------------------------------------------------------
(* The turn holds it                                                       *)

LEMMA TurnMoves ==
  ASSUME TypeOK, NEW k \in Turn, Baton(k), NEW n \in Turn, pc[n] # "none",
         NEW l, Goto(n, l), l # "none", pc[n] \in Behind => l \in Behind,
         pc[n] = "cancelling" => l \in Behind,
         wanted' => wanted \/ (pc[n] \in {"asking", "reasking"} /\ l \in Behind),
         UNCHANGED <<ready, by, early, counted, reported, disowned>>
  PROVE  Baton(k)'
<1>0. TurnsUpTo(k) /\ OneChild(k) /\ CalledBy(k) /\ k \in Nat
  BY DelegationAssumption DEF Baton, Turn
<1>1. /\ pc'[n] = l /\ \A m \in Turn : m # n => pc'[m] = pc[m]
      /\ \A d \in Child : pc'[d] = pc[d]
      /\ pc'[Watcher] = pc[Watcher] /\ pc'[User] = pc[User]
  BY TurnFrame
<1>2. n = k \/ (n < k /\ pc[n] \in Behind)
  BY ThisTurn
<1>3. pc[k] \in Behind => pc'[k] \in Behind
  BY <1>1
<1>4. TurnsUpTo(k)' /\ OneChild(k)' /\ pc'[User] = "idle"
  <2>1. \A m \in Turn : pc'[m] # "none" <=> m <= k
    BY <1>0, <1>1 DEF TurnsUpTo
  <2>2. \A m \in Turn : m < k => pc'[m] \in Behind
    BY <1>0, <1>1 DEF TurnsUpTo
  <2> QED
    BY <1>0, <1>1, <2>1, <2>2 DEF Baton, TurnsUpTo, OneChild
<1>5. wanted' => wanted \/ (pc[k] \in {"asking", "reasking"} /\ pc'[k] \in Behind)
  BY <1>1, <1>2 DEF Behind
<1>6. ASSUME NEW d \in Child PROVE ChildUpTo(k, d)'
  <2>1. ChildUpTo(k, d)
    BY DEF Baton
  <2>2. Passed(d) => Passed(d)'
    BY <1>1 DEF Passed
  <2>3. pc[k] = "cancelling" => pc'[k] \in {"cancelling"} \cup Behind
    BY <1>1
  <2> QED
    BY <1>1, <1>3, <1>5, <2>1, <2>2, <2>3 DEF ChildUpTo, Behind
<1>7. CalledBy(k)'
  <2>1. Handing' <=> Handing
    BY <1>1 DEF Handing
  <2>2. Handing => pc[k] \in Behind /\ \A c \in Child : by[c] = k => Passed(c)
    BY <1>0 DEF CalledBy
  <2>3. Handing => pc'[k] \in Behind /\ \A c \in Child : by'[c] = k => Passed(c)'
    BY <1>1, <1>3, <2>2 DEF Passed
  <2>4. pc'[Watcher] # "idle" => ~ wanted'
    BY <1>0, <1>1, <1>5, <2>2 DEF CalledBy, Handing, Behind
  <2> QED
    BY <1>0, <1>1, <1>3, <1>5, <2>1, <2>3, <2>4 DEF CalledBy
<1> QED
  BY <1>4, <1>6, <1>7 DEF Baton

\* Only turn k can be taking children out of the registry, and it has not asked.
LEMMA CancelKeeps ==
  ASSUME TypeOK, NEW k \in Turn, Baton(k), NEW n \in Turn, NEW c \in Child,
         CancelOrphan(n, c)
  PROVE  Baton(k)'
<1>1. n = k /\ pc[k] = "cancelling"
  BY ThisTurn DEF CancelOrphan, Behind
<1>2. ~ wanted /\ wanted' = wanted
  BY <1>1 DEF Baton, CalledBy, Behind, CancelOrphan
<1>3. UNCHANGED <<ready, pc, by, early, counted, reported>>
  BY DEF CancelOrphan
<1>4. TurnsUpTo(k)' /\ OneChild(k)' /\ pc'[User] = "idle"
  BY <1>3 DEF Baton, TurnsUpTo, OneChild
<1>5. CalledBy(k)'
  BY <1>2, <1>3 DEF Baton, CalledBy, Handing, Passed
<1>6. ASSUME NEW d \in Child PROVE ChildUpTo(k, d)'
  BY <1>1, <1>2, <1>3 DEF Baton, ChildUpTo, Passed
<1> QED
  BY <1>4, <1>5, <1>6 DEF Baton

LEMMA TurnKeeps ==
  ASSUME TypeOK, NEW k \in Turn, Baton(k), NEW n \in Turn,
         TurnStep(n) \/ FailTurn(n) \/ Stop(n)
  PROVE  Baton(k)'
<1> USE DEF dbVars, memVars, logVars
<1>1. CASE EndTurn(n) \/ Recheck(n)
  BY <1>1, TurnMoves DEF EndTurn, Recheck, Behind
<1>2. CASE RequestContinuation(n)
  BY <1>2, TurnMoves DEF RequestContinuation, Behind
<1>3. CASE CompleteExecution(n)
  <2>1. Goto(n, "rechecking")
    BY <1>3, TasksDistinct DEF CompleteExecution
  <2> QED
    BY <1>3, <2>1, TurnMoves DEF CompleteExecution, Behind
<1>4. CASE QueryRunning(n) \/ QueryQueued(n)
  BY <1>4, TasksDistinct, TurnMoves DEF QueryRunning, QueryQueued, AfterTry, Behind
<1>5. CASE CompleteSession(n)
  BY <1>5, TasksDistinct, TurnMoves DEF CompleteSession, AfterTry, Behind
<1>6. CASE CrashExecution(n)
  <2>1. Goto(n, "crashing")
    BY <1>6, TasksDistinct DEF CrashExecution
  <2> QED
    BY <1>6, <2>1, TurnMoves DEF CrashExecution, Behind
<1>7. CASE CrashSession(n)
  BY <1>7, TurnMoves DEF CrashSession, CleanUp, Behind
<1>8. CASE ListOrphans(n) \/ CancelDone(n)
  BY <1>8, TurnMoves DEF ListOrphans, CancelDone, Behind
<1>9. CASE \E c \in Child : CancelOrphan(n, c)
  BY <1>9, CancelKeeps
<1>10. CASE EndOrCancel(n)
  BY <1>10, TurnMoves DEF EndOrCancel, Behind
<1>11. CASE CancelExecutions(n) \/ CancelSession(n)
  BY <1>11, TurnMoves DEF CancelExecutions, CancelSession, Behind
<1>12. CASE FailTurn(n)
  BY <1>12, TurnMoves DEF FailTurn, CleanUp, Behind
<1>13. CASE Stop(n)
  <2>1. UNCHANGED <<wanted, ready, pc, by, early, counted, reported, disowned>>
    BY <1>13 DEF Stop
  <2>2. TurnsUpTo(k)' /\ OneChild(k)' /\ CalledBy(k)' /\ pc'[User] = "idle"
    BY <2>1 DEF Baton, TurnsUpTo, OneChild, CalledBy, Handing, Passed
  <2>3. \A d \in Child : ChildUpTo(k, d)'
    BY <2>1 DEF Baton, ChildUpTo, Passed
  <2> QED
    BY <2>2, <2>3 DEF Baton
<1> QED
  BY <1>1, <1>2, <1>3, <1>4, <1>5, <1>6, <1>7, <1>8, <1>9, <1>10, <1>11, <1>12, <1>13
  DEF TurnStep

-----------------------------------------------------------------------------
(* The watcher holds it                                                    *)

LEMMA WatcherMoves ==
  ASSUME TypeOK, NEW k \in Turn, Baton(k), Handing, NEW l, Goto(Watcher, l),
         \/ pc[Watcher] # "idle" /\ ready' = ready /\ (wanted' => wanted)
         \/ pc[Watcher] = "idle" /\ ready' = ready - 1 /\ ~ wanted',
         UNCHANGED <<by, early, counted, reported, disowned>>
  PROVE  Baton(k)'
<1>0. TurnsUpTo(k) /\ OneChild(k) /\ CalledBy(k)
  BY DEF Baton
<1>1. /\ pc'[Watcher] = l /\ pc'[User] = pc[User]
      /\ \A n \in Turn : pc'[n] = pc[n]
      /\ \A d \in Child : pc'[d] = pc[d]
  BY WatcherFrame
<1>2. pc[k] \in Behind /\ \A c \in Child : by[c] = k => Passed(c)
  BY <1>0 DEF CalledBy
<1>3. ready' = 0 /\ ~ wanted'
  BY <1>0 DEF CalledBy, Handing, TypeOK
<1>4. OneChild(k)' /\ TurnsUpTo(k)' /\ pc'[User] = "idle"
  BY <1>0, <1>1 DEF Baton, OneChild, TurnsUpTo
<1>5. \A d \in Child : Passed(d) => Passed(d)'
  BY <1>1 DEF Passed
<1>6. \A d \in Child : ChildUpTo(k, d)'
  BY <1>1, <1>3, <1>5 DEF Baton, ChildUpTo
<1>7. CalledBy(k)'
  BY <1>1, <1>2, <1>3, <1>5 DEF CalledBy
<1> QED
  BY <1>4, <1>6, <1>7 DEF Baton

LEMMA LaunchKeeps ==
  ASSUME TypeOK, NEW k \in Turn, Baton(k), Launch(Watcher)
  PROVE  /\ k + 1 \in Turn /\ Baton(k + 1)'
         /\ pc'[Watcher] = "idle" /\ pc'[k+1] = "working"
         /\ \A m \in Turn : m # k + 1 => pc'[m] = pc[m]
         /\ \A d \in Child : pc'[d] = pc[d]
<1> USE DEF memVars, logVars
<1>0. TurnsUpTo(k) /\ CalledBy(k) /\ OneChild(k) /\ k \in Nat \ {0} /\ MaxTurns \in Nat
  BY DelegationAssumption DEF Baton, Turn
<1>1. PICK n \in Turn : /\ Begun = 1..(n-1)
                        /\ pc' = [pc EXCEPT ![Watcher] = "idle", ![n] = "working"]
  BY DEF Launch
<1>2. n = k + 1
  <2>1. Begun = {m \in Turn : m <= k}
    BY <1>0 DEF Begun, TurnsUpTo
  <2>2. k \in Begun /\ \A m \in Begun : m <= k
    BY <2>1, <1>0
  <2>3. k \in 1..(n-1) /\ n \in Nat /\ n \in 1..MaxTurns
    BY <1>1, <2>2 DEF Turn
  <2>4. n - 1 \in 1..(n-1)
    BY <2>3, <1>0
  <2>5. n - 1 <= k
    BY <1>1, <2>2, <2>4
  <2> QED
    BY <1>0, <2>3, <2>5
<1>3. /\ pc'[Watcher] = "idle" /\ pc'[k+1] = "working" /\ k + 1 \in Turn
      /\ \A m \in Turn : m # k + 1 => pc'[m] = pc[m]
      /\ \A d \in Child : pc'[d] = pc[d]
      /\ pc'[User] = pc[User]
  BY <1>1, <1>2, TasksDistinct DEF TypeOK, Task
<1>4. /\ pc[k] \in Behind /\ ready = 0 /\ ~ wanted
      /\ \A c \in Child : by[c] = k => Passed(c)
  <2>1. pc[Watcher] = "launching"
    BY DEF Launch
  <2> QED
    BY <1>0, <2>1 DEF CalledBy, Handing
<1>5. UNCHANGED <<wanted, ready, by, early, counted, reported, disowned>>
  BY DEF Launch
<1>6. ASSUME NEW d \in Child
      PROVE  by[d] \in 0..k /\ ChildUpTo(k, d) /\ (by[d] # 0 => Passed(d))
  <2>1. ChildUpTo(k, d) /\ by[d] \in 0..MaxTurns
    BY DEF Baton, TypeOK
  <2>2. by[d] \in 0..k
    BY <1>0, <2>1 DEF ChildUpTo
  <2> QED
    BY <1>0, <1>4, <2>1, <2>2 DEF ChildUpTo
<1>7. OneChild(k+1)' /\ pc'[User] = "idle"
  BY <1>0, <1>3, <1>5, <1>6 DEF Baton, OneChild
<1>8. TurnsUpTo(k+1)'
  <2>1. ASSUME NEW m \in Turn
        PROVE  /\ pc'[m] # "none" <=> m <= k + 1
               /\ m < k + 1 => pc'[m] \in Behind
    <3>1. m \in Nat /\ (m <= k + 1 <=> m <= k \/ m = k + 1) /\ (m < k + 1 <=> m < k \/ m = k)
      BY <1>0 DEF Turn
    <3>2. CASE m = k + 1
      BY <1>0, <1>3, <3>1, <3>2
    <3>3. CASE m # k + 1
      BY <1>0, <1>3, <1>4, <3>1, <3>3 DEF TurnsUpTo
    <3> QED
      BY <3>2, <3>3
  <2> QED
    BY <1>3, <2>1 DEF TurnsUpTo
<1>9. \A d \in Child : ChildUpTo(k+1, d)'
  <2> SUFFICES ASSUME NEW d \in Child PROVE ChildUpTo(k+1, d)'
    OBVIOUS
  <2>1. Passed(d) => Passed(d)'
    BY <1>3, <1>5 DEF Passed
  <2> QED
    BY <1>0, <1>3, <1>5, <1>6, <2>1 DEF ChildUpTo
<1>10. CalledBy(k+1)'
  BY <1>3, <1>4, <1>5 DEF CalledBy, Handing
<1> QED
  BY <1>3, <1>7, <1>8, <1>9, <1>10 DEF Baton

\* A message is out of the question (OneEach), so is the start of its turn.
LEMMA WatcherKeeps ==
  ASSUME OneEach, TypeOK, NEW k \in Turn, Baton(k), ~ Launch(Watcher),
         \/ Receive \/ Message \/ FailLaunch
         \/ \E t \in {Watcher, User} : StartStep(t)
  PROVE  Baton(k)'
<1> USE DEF dbVars, memVars, logVars
<1>0. pc[User] = "idle"
  BY DEF Baton
<1>1. CASE Receive
  <2>1. Handing /\ pc[Watcher] = "idle" /\ ready' = ready - 1 /\ ~ wanted'
    BY <1>1 DEF Receive, Handing
  <2> QED
    BY <1>1, <2>1, WatcherMoves DEF Receive
<1>2. CASE Message \/ StartStep(User)
  BY <1>0, <1>2 DEF Message, OneEach, StartStep, Reopen, Revive, ResetTracking, Launch,
                    CrashExecution, CrashSession
<1>3. ASSUME pc[Watcher] # "idle" PROVE Handing
  BY <1>3 DEF Handing
<1>4. CASE FailLaunch \/ Reopen(Watcher) \/ Revive(Watcher)
  BY <1>3, <1>4, WatcherMoves DEF FailLaunch, Reopen, Revive
<1>5. CASE ResetTracking(Watcher)
  BY <1>3, <1>5, WatcherMoves DEF ResetTracking
<1>6. CASE CrashExecution(Watcher) \/ CrashSession(Watcher)
  BY <1>3, <1>6, WatcherMoves DEF CrashExecution, CrashSession
<1> QED
  BY <1>1, <1>2, <1>4, <1>5, <1>6 DEF StartStep

-----------------------------------------------------------------------------
(* Turns that run their course: what the count and the rows then say       *)

\* Moreover no turn fails or is stopped; children may still fail, and be killed,
\* and a continuation may still fail to start.
RunsItsCourse ==
  OneEach /\ Trouble \subseteq {"child_error", "early_failure", "relaunch_error", "kill"}

Winding == {"finishing", "rechecking", "querying", "querying_queued", "closing"}
Resting == {"trailing", "over"}
AtWork  == Uncounted \ {"none", "created", "querying_queued", "closing"}

\* Turns before k are at rest, and no child sees the session idle.
Orderly(k) ==
  /\ stopped = {} /\ disowned = {}
  /\ \A n \in Turn : n < k => pc[n] \in Resting
  /\ pc[k] \in {"working", "asking"} \cup Winding \cup Resting
  /\ \A c \in Child : /\ pc[c] \notin {"querying_queued", "closing"}
                      /\ pc[c] = "created" => pc[k] = "working"

Counts(k) ==
  \/ pending = 0 /\ \A c \in Child : ~ IsOwed(c)
  \/ pending = 1 /\ \E c \in Child : by[c] = k /\ IsOwed(c)

\* A session that is completed, or on its way to it, is with nobody.
Settled(k) ==
  pc[k] \in Winding \/ session = "completed" =>
    pc[k] \notin {"working", "asking"} /\ pending = 0 /\ ~ wanted /\ ~ Handing

\* The root's row runs until the child of turn k has been counted off.
RootRow(k) ==
  /\ exec[Root] \in {"running"} \cup Ended
  /\ (pc[k] = "working" \/ \E c \in Child : by[c] = k)
       /\ (\A c \in Child : by[c] = k => c \notin counted)
     => exec[Root] = "running"

Regular(k) == Orderly(k) /\ Counts(k) /\ Settled(k) /\ RootRow(k)

RInv == \E k \in Turn : Baton(k) /\ Regular(k)

LEMMA InitRInv == Init => RInv
<1> SUFFICES ASSUME Init PROVE Regular(1)
  BY InitBaton DEF RInv
<1>1. 1 \in Turn /\ Baton(1)
  BY InitBaton
<1>2. /\ pc[1] = "working" /\ ~ Handing /\ \A c \in Child : pc[c] = "none"
  BY <1>1, TasksDistinct, DelegationAssumption DEF Init, Handing, Task, Turn
<1>3. Orderly(1)
  <2>1. \A n \in Turn : ~ n < 1
    BY DEF Turn
  <2> QED
    BY <1>2, <2>1 DEF Orderly, Init
<1>4. Counts(1) /\ Settled(1)
  BY <1>2 DEF Counts, IsOwed, Settled, Winding, Init
<1>5. RootRow(1)
  BY DEF RootRow, Execution, Init
<1> QED
  BY <1>3, <1>4, <1>5 DEF Regular

\* The watcher is called, and a continuation asked for, only when turn k rests.
LEMMA RestsBefore ==
  ASSUME NEW k \in Turn, Baton(k), Regular(k), Handing \/ wanted
  PROVE  pc[k] \in Resting /\ session # "completed"
BY DEF Baton, CalledBy, Regular, Orderly, Settled, Behind, Winding

LEMMA OwedIsThisTurns ==
  ASSUME TypeOK, NEW k \in Turn, Baton(k), NEW c \in Child, IsOwed(c)
  PROVE  by[c] = k
<1>1. by[c] \in 0..MaxTurns /\ k \in 1..MaxTurns /\ MaxTurns \in Nat
  BY DelegationAssumption DEF TypeOK, Turn
<1>2. by[c] # 0 /\ by[c] <= k /\ by[c] \notin 1..(k-1)
  BY DEF Baton, ChildUpTo, IsOwed, Passed
<1> QED
  BY <1>1, <1>2

\* When the count is zero and the turn has ended, its child is through.
LEMMA NobodyOut ==
  ASSUME TypeOK, NEW k \in Turn, Baton(k), Regular(k), pending = 0, pc[k] # "working",
         NEW c \in Child, by[c] = k
  PROVE  c \in counted
<1>1. ~ IsOwed(c) /\ ChildUpTo(k, c) /\ k # 0
  BY DEF Baton, Regular, Counts, Turn
<1>2. pc[c] # "none" /\ pc[c] # "created"
  BY <1>1 DEF Regular, Orderly, ChildUpTo
<1> QED
  BY <1>1, <1>2 DEF IsOwed

-----------------------------------------------------------------------------
(* ... through the steps of a child                                        *)

LEMMA RegularWhileChildWorks ==
  ASSUME TypeOK, NEW k \in Turn, Regular(k), NEW c \in Child, pc[c] \in AtWork,
         NEW l \in AtWork \cup {"gone"}, Goto(c, l),
         UNCHANGED <<session, pending, wanted, ready, stopped, disowned, by, counted>>,
         exec'[Root] = exec[Root]
  PROVE  Regular(k)'
<1>1. /\ pc'[c] = l /\ \A d \in Child : d # c => pc'[d] = pc[d]
      /\ \A n \in Turn : pc'[n] = pc[n]
      /\ pc'[Watcher] = pc[Watcher] /\ pc'[User] = pc[User]
  BY ChildFrame
<1>2. Orderly(k)'
  BY <1>1 DEF Regular, Orderly, AtWork, Uncounted
<1>3. Counts(k)'
  <2>1. \A d \in Child : IsOwed(d)' <=> IsOwed(d)
    BY <1>1 DEF IsOwed, AtWork, Uncounted
  <2> QED
    BY <2>1 DEF Regular, Counts
<1>4. Settled(k)' /\ RootRow(k)'
  BY <1>1 DEF Regular, Settled, Handing, RootRow
<1> QED
  BY <1>2, <1>3, <1>4 DEF Regular

\* After it has been counted off it changes no row but the root's, which nobody
\* needs any more.
LEMMA RegularAfterCount ==
  ASSUME TypeOK, NEW k \in Turn, Baton(k), Regular(k), NEW c \in Child, pc[c] \in AfterCount,
         NEW l \in AfterCount \cup {"gone"}, Goto(c, l),
         UNCHANGED <<pending, stopped, disowned, by, counted>>,
         exec'[Root] = exec[Root] \/ (pc[c] # "leaving" /\ exec'[Root] \in Ended),
         session' \in {session, "crashed"},
         wanted' => wanted,
         ready' = ready \/ wanted
  PROVE  Regular(k)'
<1>1. /\ pc'[c] = l /\ \A d \in Child : d # c => pc'[d] = pc[d]
      /\ \A n \in Turn : pc'[n] = pc[n]
      /\ pc'[Watcher] = pc[Watcher] /\ pc'[User] = pc[User]
  BY ChildFrame
<1>2. c \in counted /\ (pc[c] # "leaving" => by[c] = k)
  BY OfThisTurn DEF Baton, ChildUpTo, AfterCount
<1>3. Orderly(k)'
  BY <1>1 DEF Regular, Orderly, AfterCount
<1>4. Counts(k)'
  <2>1. \A d \in Child : IsOwed(d)' <=> IsOwed(d)
    BY <1>1, <1>2 DEF IsOwed, AfterCount
  <2> QED
    BY <2>1 DEF Regular, Counts
<1>5. Settled(k)'
  <2>1. CASE wanted
    BY <1>1, <2>1, RestsBefore DEF Settled, Resting, Winding
  <2>2. CASE ready' = ready
    BY <1>1, <2>2 DEF Regular, Settled, Handing
  <2> QED
    BY <2>1, <2>2
<1>6. RootRow(k)'
  <2>1. CASE exec'[Root] = exec[Root]
    BY <1>1, <2>1 DEF Regular, RootRow
  <2>2. CASE pc[c] # "leaving" /\ exec'[Root] \in Ended
    BY <1>2, <2>2 DEF RootRow
  <2> QED
    BY <2>1, <2>2
<1> QED
  BY <1>3, <1>4, <1>5, <1>6 DEF Regular

LEMMA CreateKeepsRegular ==
  ASSUME OneEach, TypeOK, RowsFirst, NEW k \in Turn, Baton(k), Regular(k), NEW n \in Turn,
         NEW c \in Child, CreateExecution(n, c)
  PROVE  Regular(k)'
<1> USE DEF memVars
<1>1. n = k /\ pc[k] = "working" /\ (\A d \in Child : by[d] # k)
  BY CreateKeeps DEF CreateExecution
<1>2. /\ pc'[c] = "created" /\ \A d \in Child : d # c => pc'[d] = pc[d]
      /\ \A m \in Turn : pc'[m] = pc[m]
      /\ pc'[Watcher] = pc[Watcher] /\ pc'[User] = pc[User]
  BY ChildFrame DEF CreateExecution
<1>3. Orderly(k)'
  BY <1>1, <1>2 DEF Regular, Orderly, CreateExecution
<1>4. Counts(k)'
  BY <1>1, <1>2 DEF Regular, Counts, IsOwed, CreateExecution
<1>5. Settled(k)'
  BY <1>1, <1>2 DEF Regular, Settled, Handing, Winding, CreateExecution
<1>6. RootRow(k)'
  <2>1. exec[Root] = "running"
    BY <1>1 DEF Regular, RootRow
  <2>2. exec'[Root] = "running"
    BY <2>1, TasksDistinct DEF CreateExecution, TypeOK, Execution
  <2> QED
    BY <2>2 DEF RootRow
<1> QED
  BY <1>3, <1>4, <1>5, <1>6 DEF Regular

LEMMA RegisterKeepsRegular ==
  ASSUME TypeOK, Stages, NEW k \in Turn, Baton(k), Regular(k), NEW c \in Child, Register(c)
  PROVE  Regular(k)'
<1> USE DEF memVars, logVars
<1>1. by[c] = k /\ pc[k] = "working" /\ c \notin counted /\ pc[c] = "created"
  BY OfThisTurn DEF Regular, Orderly, Register, Stages, Stage, Uncounted
<1>2. /\ pc'[c] = "requested" /\ \A d \in Child : d # c => pc'[d] = pc[d]
      /\ \A m \in Turn : pc'[m] = pc[m]
      /\ pc'[Watcher] = pc[Watcher] /\ pc'[User] = pc[User]
  BY ChildFrame DEF Register
<1>3. Orderly(k)'
  BY <1>2 DEF Regular, Orderly, Register
<1>4. Counts(k)'
  <2>1. \A d \in Child : by[d] = k => ~ IsOwed(d)
    BY <1>1 DEF Baton, OneChild, IsOwed
  <2>2. pending' = 1 /\ by'[c] = k /\ IsOwed(c)'
    BY <1>1, <1>2, <2>1 DEF Regular, Counts, IsOwed, Register
  <2> QED
    BY <2>2 DEF Counts
<1>5. Settled(k)'
  BY <1>1, <1>2 DEF Regular, Settled, Winding, Register
<1>6. RootRow(k)'
  BY <1>2 DEF Regular, RootRow, Register
<1> QED
  BY <1>3, <1>4, <1>5, <1>6 DEF Regular

LEMMA CountOffKeepsRegular ==
  ASSUME TypeOK, Stages, NEW k \in Turn, Baton(k), Regular(k), NEW c \in Child, CountOff(c)
  PROVE  Regular(k)'
<1> USE DEF memVars
<1>1. by[c] = k /\ ~ Handing /\ c \notin counted /\ pc[c] = "counting"
  BY OfThisTurn DEF CountOff, Stages, Stage, Uncounted
<1>2. PICK l \in {"suppressing", "tallying"} : Goto(c, l)
  BY DEF CountOff
<1>3. /\ pc'[c] = l /\ \A d \in Child : d # c => pc'[d] = pc[d]
      /\ \A m \in Turn : pc'[m] = pc[m]
      /\ pc'[Watcher] = pc[Watcher] /\ pc'[User] = pc[User]
  BY <1>2, ChildFrame
<1>4. Orderly(k)'
  BY <1>3 DEF Regular, Orderly, CountOff
<1>5. Counts(k)' /\ pending' = 0
  <2>1. IsOwed(c)
    BY <1>1 DEF IsOwed
  <2>2. pending = 1
    BY <2>1 DEF Regular, Counts
  <2>3. \A d \in Child : IsOwed(d) => d = c
    BY <1>1, OwedIsThisTurns DEF Baton, OneChild
  <2>4. pending' = 0
    BY <2>2 DEF CountOff, LessOne
  <2>5. \A d \in Child : ~ IsOwed(d)'
    <3> SUFFICES ASSUME NEW d \in Child, IsOwed(d)' PROVE FALSE
      OBVIOUS
    <3>1. d # c
      BY DEF CountOff, IsOwed
    <3> QED
      BY <1>3, <2>3, <3>1 DEF CountOff, IsOwed
  <2> QED
    BY <2>4, <2>5 DEF Counts
<1>6. Settled(k)'
  BY <1>3, <1>5 DEF Regular, Settled, Handing, CountOff
<1>7. RootRow(k)'
  BY <1>1, <1>3 DEF Regular, RootRow, CountOff
<1> QED
  BY <1>4, <1>5, <1>6, <1>7 DEF Regular

\* Whoever asks for running rows while the child of turn k is out sees the root's.
LEMMA RootIsSeen ==
  ASSUME TypeOK, Stages, NEW k \in Turn, Baton(k), Regular(k), NEW c \in Child,
         pc[c] = "querying"
  PROVE  exec[Root] = "running"
<1>1. by[c] = k /\ c \notin counted
  BY OfThisTurn DEF Stages, Stage, Uncounted
<1>2. \A d \in Child : by[d] = k => d \notin counted
  BY <1>1 DEF Baton, OneChild
<1> QED
  BY <1>1, <1>2 DEF Regular, RootRow

LEMMA ChildKeepsRegular ==
  ASSUME OneEach, TypeOK, Stages, RowsFirst, NEW k \in Turn, Baton(k), Regular(k),
         NEW c \in Child,
         \/ ChildStep(c) \/ FailEarly(c) \/ Kill(c)
         \/ \E n \in Turn : CreateExecution(n, c)
  PROVE  Regular(k)'
<1> USE DEF dbVars, memVars, logVars
<1>row. \A x : Root \in Execution /\ c # Root /\ RowOf(c) = c
               /\ [exec EXCEPT ![c] = x][Root] = exec[Root]
  BY TasksDistinct DEF Execution, RowOf, TypeOK
<1>1. CASE Start(c)
  BY <1>1, <1>row, RegularWhileChildWorks DEF Start, AtWork, Uncounted
<1>2. CASE Finish(c) \/ Kill(c)
  BY <1>2, RegularWhileChildWorks DEF Finish, Kill, AtWork, Uncounted
<1>3. CASE CompleteExecution(c) \/ CrashExecution(c)
  BY <1>3, <1>row, RegularWhileChildWorks DEF CompleteExecution, CrashExecution, AtWork, Uncounted
<1>4. CASE QueryRunning(c)
  <2>1. Goto(c, "reporting")
    BY <1>4, RootIsSeen DEF QueryRunning, AfterTry, Execution
  <2> QED
    BY <1>4, <2>1, RegularWhileChildWorks DEF QueryRunning, AtWork, Uncounted
<1>5. CASE QueryQueued(c) \/ CompleteSession(c)
  BY <1>5 DEF Regular, Orderly, QueryQueued, CompleteSession
<1>6. CASE Report(c)
  BY <1>6, RegularWhileChildWorks DEF Report, AtWork, Uncounted
<1>7. CASE FailEarly(c)
  <2>1. exec' = exec \/ exec' = [exec EXCEPT ![c] = "running"]
    BY <1>7 DEF FailEarly
  <2>2. exec'[Root] = exec[Root]
    BY <1>row, <2>1
  <2> QED
    BY <1>7, <2>2, RegularWhileChildWorks DEF FailEarly, AtWork, Uncounted
<1>8. CASE Tally(c) \/ Announce(c)
  BY <1>8, RegularAfterCount DEF Tally, Announce, AfterCount
<1>9. CASE Suppress(c)
  BY <1>9, RegularAfterCount DEF Suppress, AfterCount
<1>10. CASE BlameParent(c)
  <2>1. exec'[Root] \in Ended
    BY <1>10, <1>row DEF BlameParent, TypeOK, Ended
  <2> QED
    BY <1>10, <2>1, RegularAfterCount DEF BlameParent, AfterCount
<1>11. CASE CrashSession(c)
  <2>1. exec'[Root] = exec[Root] \/ exec'[Root] \in Ended
    BY <1>11, <1>row DEF CrashSession, Terminate, Ended
  <2>2. Goto(c, "leaving") /\ pc[c] = "crashing" /\ session' = "crashed"
    BY <1>11, TasksDistinct DEF CrashSession, Terminate
  <2> QED
    BY <1>11, <2>1, <2>2, RegularAfterCount DEF CrashSession, AfterCount
<1>12. CASE Leave(c)
  BY <1>12, RegularAfterCount DEF Leave, AfterCount
<1> QED
  BY <1>1, <1>2, <1>3, <1>4, <1>5, <1>6, <1>7, <1>8, <1>9, <1>10, <1>11, <1>12,
     CreateKeepsRegular, RegisterKeepsRegular, CountOffKeepsRegular
  DEF ChildStep

-----------------------------------------------------------------------------
(* ... of a turn                                                           *)

LEMMA RegularTurnMoves ==
  ASSUME TypeOK, NEW k \in Turn, Baton(k), Regular(k),
         NEW l \in {"asking"} \cup Winding \cup Resting, Goto(k, l),
         \A c \in Child : pc[c] # "created",
         l = "asking" => pc[k] = "working",
         l \in Winding => pc[k] \notin Resting /\ pending = 0,
         session' = session \/ (session' = "completed" /\ pc[k] = "closing"),
         wanted' = wanted \/ (pc[k] = "asking" /\ l = "trailing"),
         exec'[Root] = exec[Root] \/ (pc[k] \in Winding /\ exec'[Root] \in Ended),
         UNCHANGED <<pending, ready, stopped, disowned, by, counted>>
  PROVE  Regular(k)'
<1>0. Orderly(k) /\ Settled(k) /\ RootRow(k) /\ k \in Nat
  BY DelegationAssumption DEF Regular, Turn
<1>1. /\ pc'[k] = l /\ \A m \in Turn : m # k => pc'[m] = pc[m]
      /\ \A d \in Child : pc'[d] = pc[d]
      /\ pc'[Watcher] = pc[Watcher] /\ pc'[User] = pc[User]
  BY TurnFrame
<1>2. Orderly(k)'
  BY <1>0, <1>1 DEF Orderly
<1>3. Counts(k)'
  BY <1>1 DEF Regular, Counts, IsOwed
<1>4. Settled(k)'
  <2>1. Handing' <=> Handing
    BY <1>1 DEF Handing
  <2>2. CASE l \in Winding
    <3>1. pc[k] \notin Resting /\ pending = 0 /\ l \notin {"trailing", "working", "asking"}
      BY <2>2 DEF Winding
    <3>2. ~ Handing /\ ~ wanted
      BY <3>1, RestsBefore
    <3> QED
      BY <1>1, <2>1, <3>1, <3>2 DEF Settled
  <2>3. CASE session' = "completed"
    <3>1. pc[k] \notin {"working", "asking"} /\ pending = 0 /\ ~ wanted /\ ~ Handing
      BY <1>0, <2>3 DEF Settled, Winding
    <3>2. l \notin {"working", "asking"}
      BY <3>1 DEF Winding, Resting
    <3> QED
      BY <1>1, <2>1, <3>1, <3>2 DEF Settled
  <2> QED
    BY <1>1, <2>2, <2>3 DEF Settled
<1>5. RootRow(k)'
  <2>1. l # "working"
    BY DEF Winding, Resting
  <2>2. CASE exec'[Root] = exec[Root]
    BY <1>0, <1>1, <2>1, <2>2 DEF RootRow
  <2>3. CASE pc[k] \in Winding /\ exec'[Root] \in Ended
    <3>1. pending = 0 /\ pc[k] # "working"
      BY <1>0, <2>3 DEF Settled
    <3>2. \A c \in Child : by[c] = k => c \in counted
      BY <3>1, NobodyOut
    <3> QED
      BY <1>1, <2>1, <2>3, <3>2 DEF RootRow
  <2> QED
    BY <2>2, <2>3
<1> QED
  BY <1>2, <1>3, <1>4, <1>5 DEF Regular

\* An earlier turn only comes to its end.
LEMMA RegularEarlierTurn ==
  ASSUME TypeOK, NEW k \in Turn, Regular(k), NEW n \in Turn, n < k, Goto(n, "over"),
         UNCHANGED <<dbVars, ready, stopped, logVars>>
  PROVE  Regular(k)'
<1> USE DEF dbVars, logVars
<1>1. n # k /\ k \in Nat
  BY DelegationAssumption DEF Turn
<1>2. /\ pc'[n] = "over" /\ \A m \in Turn : m # n => pc'[m] = pc[m]
      /\ \A d \in Child : pc'[d] = pc[d]
      /\ pc'[Watcher] = pc[Watcher] /\ pc'[User] = pc[User] /\ pc'[k] = pc[k]
  BY <1>1, TurnFrame
<1>3. Orderly(k)'
  BY <1>2 DEF Regular, Orderly, Resting
<1>4. Counts(k)' /\ Settled(k)' /\ RootRow(k)'
  BY <1>2 DEF Regular, Counts, IsOwed, Settled, Handing, RootRow
<1> QED
  BY <1>3, <1>4 DEF Regular

LEMMA TurnKeepsRegular ==
  ASSUME RunsItsCourse, TypeOK, NEW k \in Turn, Baton(k), Regular(k), NEW n \in Turn,
         TurnStep(n) \/ FailTurn(n) \/ Stop(n)
  PROVE  Regular(k)'
<1> USE DEF dbVars, memVars, logVars
<1>0. Orderly(k) /\ Settled(k) /\ stopped = {}
  BY DEF Regular, Orderly
<1>1. n = k \/ (n < k /\ pc[n] \in Resting) \/ pc[n] = "none"
  BY <1>0, ThisTurn DEF Orderly
<1>2. pc[n] \notin {"failing", "crashing", "listing", "cancelling", "revoking", "resetting",
                    "reasking"}
  BY <1>0, <1>1 DEF Orderly, Winding, Resting
<1>3. CASE EndOrCancel(n)
  <2>1. Goto(n, "over") /\ stopped' = stopped /\ pc[n] = "trailing"
    BY <1>0, <1>3 DEF EndOrCancel
  <2>2. CASE n = k
    <3>1. \A c \in Child : pc[c] # "created"
      BY <1>0, <2>1, <2>2 DEF Orderly
    <3> QED
      BY <1>3, <2>1, <2>2, <3>1, RegularTurnMoves DEF EndOrCancel, Resting, Winding
  <2>3. CASE n < k
    BY <1>3, <2>1, <2>3, RegularEarlierTurn DEF EndOrCancel
  <2> QED
    BY <1>1, <2>1, <2>2, <2>3
<1>4. ASSUME pc[n] \notin Resting, pc[n] # "none"
      PROVE  n = k /\ (pc[k] # "working" => \A c \in Child : pc[c] # "created")
  BY <1>0, <1>1, <1>4 DEF Orderly
<1>5. CASE EndTurn(n)
  <2>1. n = k /\ pc[k] = "working" /\ \A c \in Child : pc[c] # "created"
    BY <1>4, <1>5, OfThisTurn DEF EndTurn, Resting
  <2>2. Goto(k, "asking") \/ (Goto(k, "finishing") /\ pending = 0)
    BY <1>5, <2>1 DEF EndTurn, TypeOK
  <2> QED
    BY <1>5, <2>1, <2>2, RegularTurnMoves DEF EndTurn, Resting, Winding
<1>6. ASSUME pc[k] \in Winding PROVE pending = 0 /\ pc[k] \notin Resting
  BY <1>0, <1>6 DEF Settled, Winding, Resting
<1>7. CASE Recheck(n)
  <2>1. n = k /\ pc[k] = "rechecking" /\ \A c \in Child : pc[c] # "created"
    BY <1>4, <1>7 DEF Recheck, Resting
  <2>2. pending = 0 /\ Goto(k, "querying")
    BY <1>6, <1>7, <2>1 DEF Recheck, Winding
  <2> QED
    BY <1>7, <2>1, <2>2, RegularTurnMoves DEF Recheck, Resting, Winding
<1>8. CASE RequestContinuation(n)
  <2>1. n = k /\ pc[k] = "asking" /\ \A c \in Child : pc[c] # "created"
    BY <1>2, <1>4, <1>8 DEF RequestContinuation, Resting
  <2> QED
    BY <1>8, <2>1, RegularTurnMoves DEF RequestContinuation, Resting, Winding
<1>9. CASE CompleteExecution(n)
  <2>1. n = k /\ pc[k] = "finishing" /\ \A c \in Child : pc[c] # "created"
    BY <1>4, <1>9 DEF CompleteExecution, Resting
  <2>2. exec'[Root] \in Ended /\ Goto(k, "rechecking")
    BY <1>9, <2>1, TasksDistinct DEF CompleteExecution, TypeOK, Ended, Execution, RowOf
  <2> QED
    BY <1>6, <1>9, <2>1, <2>2, RegularTurnMoves DEF CompleteExecution, Resting, Winding
<1>10. CASE QueryRunning(n) \/ QueryQueued(n)
  <2>1. /\ n = k /\ pc[k] \in {"querying", "querying_queued"}
        /\ \A c \in Child : pc[c] # "created"
    BY <1>4, <1>10 DEF QueryRunning, QueryQueued, Resting
  <2>2. Goto(k, "trailing") \/ Goto(k, "querying_queued") \/ Goto(k, "closing")
    BY <1>10, <2>1, TasksDistinct DEF QueryRunning, QueryQueued, AfterTry
  <2> QED
    BY <1>6, <1>10, <2>1, <2>2, RegularTurnMoves DEF QueryRunning, QueryQueued, Resting, Winding
<1>11. CASE CompleteSession(n)
  <2>1. n = k /\ pc[k] = "closing" /\ \A c \in Child : pc[c] # "created"
    BY <1>4, <1>11 DEF CompleteSession, Resting
  <2>2. Goto(k, "trailing") /\ session' = "completed"
    BY <1>11, <2>1, TasksDistinct DEF CompleteSession, AfterTry, Terminate
  <2>3. exec'[Root] = exec[Root] \/ exec'[Root] \in Ended
    BY <1>11 DEF CompleteSession, Terminate, Execution, Ended
  <2> QED
    BY <1>6, <1>11, <2>1, <2>2, <2>3, RegularTurnMoves DEF CompleteSession, Resting, Winding
<1>12. CASE \/ CrashExecution(n) \/ CrashSession(n) \/ ListOrphans(n)
            \/ (\E c \in Child : CancelOrphan(n, c)) \/ CancelDone(n)
            \/ CancelExecutions(n) \/ CancelSession(n)
  BY <1>2, <1>12 DEF CrashExecution, CrashSession, ListOrphans, CancelOrphan, CancelDone,
                     CancelExecutions, CancelSession
<1>13. CASE FailTurn(n) \/ Stop(n)
  BY <1>0, <1>13 DEF FailTurn, Stop, RunsItsCourse
<1> QED
  BY <1>3, <1>5, <1>7, <1>8, <1>9, <1>10, <1>11, <1>12, <1>13 DEF TurnStep

-----------------------------------------------------------------------------
(* ... and of the watcher                                                  *)

LEMMA RegularWatcherMoves ==
  ASSUME TypeOK, NEW k \in Turn, Baton(k), Regular(k), Handing, NEW l, Goto(Watcher, l),
         pending' \in {pending, 0}, session' = "completed" => session = "completed",
         exec'[Root] = exec[Root] \/ exec'[Root] \in Ended,
         UNCHANGED <<stopped, disowned, by, counted>>
  PROVE  Regular(k)'
<1>1. /\ pc'[Watcher] = l /\ pc'[User] = pc[User]
      /\ \A n \in Turn : pc'[n] = pc[n]
      /\ \A d \in Child : pc'[d] = pc[d]
  BY WatcherFrame
<1>2. pc[k] \in Resting /\ session # "completed" /\ \A c \in Child : by[c] = k => Passed(c)
  BY RestsBefore DEF Baton, CalledBy
<1>3. Orderly(k)'
  BY <1>1 DEF Regular, Orderly
<1>4. Counts(k)'
  <2>1. pending = 0 /\ \A c \in Child : ~ IsOwed(c)
    BY <1>2 DEF Regular, Counts, IsOwed, Passed
  <2> QED
    BY <1>1, <2>1 DEF Counts, IsOwed
<1>5. Settled(k)'
  BY <1>1, <1>2 DEF Settled, Resting, Winding
<1>6. RootRow(k)'
  <2>1. pc'[k] # "working" /\ \A c \in Child : by'[c] = k => c \in counted'
    BY <1>1, <1>2 DEF Passed, Resting
  <2> QED
    BY <2>1 DEF Regular, RootRow
<1> QED
  BY <1>3, <1>4, <1>5, <1>6 DEF Regular

LEMMA LaunchKeepsRegular ==
  ASSUME TypeOK, NEW k \in Turn, Baton(k), Regular(k), Launch(Watcher)
  PROVE  Regular(k+1)'
<1> USE DEF memVars, logVars
<1>0. k \in Nat \ {0} /\ k + 1 \in Turn /\ pc'[k+1] = "working"
      /\ pc'[Watcher] = "idle" /\ Baton(k+1)'
  BY LaunchKeeps, DelegationAssumption DEF Turn
<1>1. /\ \A m \in Turn : m # k + 1 => pc'[m] = pc[m]
      /\ \A d \in Child : pc'[d] = pc[d]
  BY LaunchKeeps
<1>2. Handing
  BY DEF Handing, Launch
<1>3. pc[k] \in Resting /\ session # "completed" /\ \A c \in Child : by[c] = k => Passed(c)
  BY <1>2, RestsBefore DEF Baton, CalledBy
<1>4. UNCHANGED <<session, pending, wanted, ready, stopped, disowned, by, counted>>
  BY DEF Launch
<1>5. Orderly(k+1)'
  <2>1. ASSUME NEW m \in Turn, m < k + 1 PROVE pc'[m] \in Resting
    <3>1. m # k + 1 /\ (m < k \/ m = k)
      BY <1>0, <2>1 DEF Turn
    <3> QED
      BY <1>1, <1>3, <3>1 DEF Regular, Orderly
  <2> QED
    BY <1>0, <1>1, <1>4, <2>1 DEF Regular, Orderly
<1>6. Counts(k+1)'
  <2>1. pending = 0 /\ \A c \in Child : ~ IsOwed(c)
    BY <1>3 DEF Regular, Counts, IsOwed, Passed
  <2> QED
    BY <1>1, <1>4, <2>1 DEF Counts, IsOwed
<1>7. Settled(k+1)'
  BY <1>0, <1>3, <1>4 DEF Settled, Winding
<1>8. RootRow(k+1)'
  <2>1. exec'[Root] = "running"
    BY TasksDistinct DEF Regular, RootRow, Launch, TypeOK, Execution
  <2> QED
    BY <2>1 DEF RootRow
<1> QED
  BY <1>5, <1>6, <1>7, <1>8 DEF Regular

LEMMA WatcherKeepsRegular ==
  ASSUME OneEach, TypeOK, NEW k \in Turn, Baton(k), Regular(k), ~ Launch(Watcher),
         \/ Receive \/ Message \/ FailLaunch
         \/ \E t \in {Watcher, User} : StartStep(t)
  PROVE  Regular(k)'
<1> USE DEF dbVars, memVars, logVars
<1>0. pc[User] = "idle"
  BY DEF Baton
<1>1. CASE Receive
  <2>1. Handing
    BY <1>1 DEF Receive, Handing
  <2> QED
    BY <1>1, <2>1, RegularWatcherMoves DEF Receive
<1>2. CASE Message \/ StartStep(User)
  BY <1>0, <1>2 DEF Message, OneEach, StartStep, Reopen, Revive, ResetTracking, Launch,
                    CrashExecution, CrashSession
<1>3. ASSUME pc[Watcher] # "idle" PROVE Handing
  BY <1>3 DEF Handing
<1>4. CASE FailLaunch \/ Reopen(Watcher) \/ ResetTracking(Watcher)
  BY <1>3, <1>4, RegularWatcherMoves DEF FailLaunch, Reopen, ResetTracking
<1>5. CASE Revive(Watcher)
  BY <1>3, <1>5, RegularWatcherMoves DEF Revive
<1>6. CASE CrashExecution(Watcher)
  <2>1. exec'[Root] \in Ended /\ Goto(Watcher, "crashing")
    BY <1>6, DelegationAssumption DEF CrashExecution, RowOf, TypeOK, Ended, Execution
  <2> QED
    BY <1>3, <1>6, <2>1, RegularWatcherMoves DEF CrashExecution
<1>7. CASE CrashSession(Watcher)
  <2>1. exec'[Root] = exec[Root] \/ exec'[Root] \in Ended
    BY <1>7 DEF CrashSession, Terminate, Execution, Ended
  <2>2. Goto(Watcher, "idle") /\ session' = "crashed"
    BY <1>7, DelegationAssumption DEF CrashSession, Terminate
  <2> QED
    BY <1>3, <1>7, <2>1, <2>2, RegularWatcherMoves DEF CrashSession
<1> QED
  BY <1>1, <1>2, <1>4, <1>5, <1>6, <1>7 DEF StartStep

-----------------------------------------------------------------------------
(* The theorems                                                            *)

\* What is true of every state, whatever of the troubles of the model arise and
\* in whatever order.
THEOREM Invariant == Spec => []IInv
<1>1. IInv /\ [Next]_vars => IInv'
  BY TypeStep, StageStep, RowsFirstStep, CountStep DEF IInv
<1> QED
  BY InitIInv, <1>1, PTL DEF Spec

\* Every variable keeps its type: decrement_pending_delegations holds the count
\* at zero although a failed turn in Root mode and the child itself may both count
\* the child off, and a reset may have come before either.
THEOREM TypeCorrect == Spec => []TypeOK
<1>1. IInv => TypeOK
  BY DEF IInv
<1> QED
  BY Invariant, <1>1, PTL

\* register_delegation runs once and before the spawn, complete_delegation once
\* at the child's end: the count never exceeds the delegations still to come.  The
\* bound does not rest on cancel_session_delegations, which only turns in Root mode
\* run: a continuation that fails leaves its child both counted and owed.
THEOREM CountNeverOverstates == Spec => []PendingNeverOverstates
<1>1. IInv => PendingNeverOverstates
  BY DEF IInv
<1> QED
  BY Invariant, <1>1, PTL

\* handle_delegation_success and _failure write the message before the caller
\* counts the child off; the exception, a child that was disowned, is one that a
\* turn in Root mode took out of the registry, never a failing continuation.
THEOREM ReportedBeforeCounted == Spec => []CountedHasReported
<1>1. IInv => CountedHasReported
  BY DEF IInv, Stages, Stage, CountedHasReported, TypeOK
<1> QED
  BY Invariant, <1>1, PTL

\* With one delegation per turn the session is at any time with one turn, with
\* that turn's child, with the watcher, or with nobody any more: also when turns
\* fail or are stopped, in Root mode with their children cancelled, as
\* continuations with their children still at work.
THEOREM BatonInvariant == ASSUME OneEach PROVE Spec => []BInv
<1>1. ASSUME BInv, UNCHANGED vars PROVE BInv'
  <2>1. PICK k \in Turn : Baton(k)
    BY <1>1 DEF BInv
  <2>2. UNCHANGED <<wanted, ready, pc, by, early, counted, reported, disowned>>
    BY <1>1 DEF vars, dbVars, memVars, logVars
  <2>3. TurnsUpTo(k)' /\ OneChild(k)' /\ CalledBy(k)' /\ pc'[User] = "idle"
    BY <2>1, <2>2 DEF Baton, TurnsUpTo, OneChild, CalledBy, Handing, Passed
  <2>4. \A c \in Child : ChildUpTo(k, c)'
    BY <2>1, <2>2 DEF Baton, ChildUpTo, Passed
  <2> QED
    BY <2>3, <2>4 DEF BInv, Baton
<1>2. ASSUME IInv, BInv, Next PROVE BInv'
  <2>1. TypeOK /\ Stages /\ RowsFirst
    BY <1>2 DEF IInv
  <2>2. PICK k \in Turn : Baton(k)
    BY <1>2 DEF BInv
  <2>3. CASE \E c \in Child : \/ ChildStep(c) \/ FailEarly(c) \/ Kill(c)
                              \/ \E n \in Turn : CreateExecution(n, c)
    BY <2>1, <2>2, <2>3, ChildKeeps DEF BInv
  <2>4. CASE \E n \in Turn : TurnStep(n) \/ FailTurn(n) \/ Stop(n)
    BY <2>1, <2>2, <2>4, TurnKeeps DEF BInv
  <2>5. CASE /\ ~ Launch(Watcher)
             /\ \/ Receive \/ Message \/ FailLaunch
                \/ \E t \in {Watcher, User} : StartStep(t)
    BY <2>1, <2>2, <2>5, WatcherKeeps DEF BInv
  <2>6. CASE Launch(Watcher)
    BY <2>1, <2>2, <2>6, LaunchKeeps DEF BInv
  <2> QED
    BY <1>2, <2>3, <2>4, <2>5, <2>6 DEF Next, Delegate, Mishap
<1>3. IInv /\ BInv /\ [Next]_vars => BInv'
  BY <1>1, <1>2
<1>4. Init => BInv
  BY InitBaton DEF BInv
<1> QED
  BY <1>3, <1>4, Invariant, PTL DEF Spec

\* Continuations follow one another: the watcher is not called before the turn
\* that asked has ended, and starts one turn per call.
THEOREM OneTurn == ASSUME OneEach PROVE Spec => []OneTurnAtATime
<1>1. BInv => OneTurnAtATime
  <2> SUFFICES ASSUME BInv, NEW m \in Turn, NEW n \in Turn,
                      pc[m] = "working", pc[n] = "working"
               PROVE  m = n
    BY DEF OneTurnAtATime
  <2>1. PICK k \in Turn : Baton(k)
    BY DEF BInv
  <2> QED
    BY <2>1, ThisTurn DEF Behind
<1> QED
  BY <1>1, BatonInvariant, PTL

\* What a turn delegated is there to be read when any later turn starts: a turn
\* that has failed is not followed by another, so neither a child it has disowned
\* (Root mode) nor one it has left at work (a continuation) is missed by a turn.
THEOREM ResultsSeen == ASSUME OneEach PROVE Spec => []ContinuationSeesResults
<1>1. BInv => ContinuationSeesResults
  <2> SUFFICES ASSUME BInv, NEW n \in Begun, NEW c \in Child, by[c] \in 1..(n-1)
               PROVE  c \in reported
    BY DEF ContinuationSeesResults
  <2>1. PICK k \in Turn : Baton(k)
    BY DEF BInv
  <2>2. n \in Turn /\ n <= k
    BY <2>1 DEF Begun, Baton, TurnsUpTo
  <2>3. by[c] \in 1..(k-1)
    BY <2>2, DelegationAssumption DEF Turn
  <2> QED
    BY <2>1, <2>3 DEF Baton, ChildUpTo, Passed
<1> QED
  BY <1>1, BatonInvariant, PTL

\* A planner that could not start was the last the session delegated to, and the
\* turn that did was its last.
THEOREM GateClosed == ASSUME OneEach PROVE Spec => []GateStaysClosed
<1>1. IInv /\ BInv => GateStaysClosed
  <2> SUFFICES ASSUME IInv, BInv, NEW c \in early \cap Planner, NEW n \in Begun, c \in counted
               PROVE  n <= by[c]
    BY DEF GateStaysClosed
  <2>1. PICK k \in Turn : Baton(k)
    BY DEF BInv
  <2>2. c \in Child /\ ChildUpTo(k, c) /\ by[c] \in 0..MaxTurns
    BY <2>1 DEF IInv, TypeOK, Baton
  <2>3. pc[c] # "none"
    BY <2>2 DEF IInv, Stages, Stage, Uncounted
  <2>4. by[c] # 0 /\ by[c] <= k /\ by[c] \notin 1..(k-1)
    BY <2>2, <2>3 DEF ChildUpTo, Passed
  <2>5. by[c] = k
    BY <2>2, <2>4, DelegationAssumption DEF Turn
  <2> QED
    BY <2>1, <2>5 DEF Begun, Baton, TurnsUpTo
<1> QED
  BY <1>1, Invariant, BatonInvariant, PTL

\* Of turns that run their course: the count, the flag, the rows and the status of
\* the session agree with who holds it.
THEOREM RegularInvariant == ASSUME RunsItsCourse PROVE Spec => []RInv
<1>0. OneEach
  BY DEF RunsItsCourse
<1>1. ASSUME RInv, UNCHANGED vars PROVE RInv'
  <2>1. PICK k \in Turn : Baton(k) /\ Regular(k)
    BY <1>1 DEF RInv
  <2>2. UNCHANGED <<session, exec, pending, wanted, ready, stopped, pc, by, early, counted,
                    reported, disowned>>
    BY <1>1 DEF vars, dbVars, memVars, logVars
  <2>3. TurnsUpTo(k)' /\ OneChild(k)' /\ CalledBy(k)' /\ pc'[User] = "idle"
    BY <2>1, <2>2 DEF Baton, TurnsUpTo, OneChild, CalledBy, Handing, Passed
  <2>4. \A c \in Child : ChildUpTo(k, c)'
    BY <2>1, <2>2 DEF Baton, ChildUpTo, Passed
  <2>5. Regular(k)'
    BY <2>1, <2>2 DEF Regular, Orderly, Counts, IsOwed, Settled, Handing, RootRow
  <2> QED
    BY <2>3, <2>4, <2>5 DEF RInv, Baton
<1>2. ASSUME IInv, RInv, Next PROVE RInv'
  <2>1. TypeOK /\ Stages /\ RowsFirst
    BY <1>2 DEF IInv
  <2>2. PICK k \in Turn : Baton(k) /\ Regular(k)
    BY <1>2 DEF RInv
  <2>3. CASE \E c \in Child : \/ ChildStep(c) \/ FailEarly(c) \/ Kill(c)
                              \/ \E n \in Turn : CreateExecution(n, c)
    BY <1>0, <2>1, <2>2, <2>3, ChildKeeps, ChildKeepsRegular DEF RInv
  <2>4. CASE \E n \in Turn : TurnStep(n) \/ FailTurn(n) \/ Stop(n)
    BY <2>1, <2>2, <2>4, TurnKeeps, TurnKeepsRegular DEF RInv
  <2>5. CASE /\ ~ Launch(Watcher)
             /\ \/ Receive \/ Message \/ FailLaunch
                \/ \E t \in {Watcher, User} : StartStep(t)
    BY <1>0, <2>1, <2>2, <2>5, WatcherKeeps, WatcherKeepsRegular DEF RInv
  <2>6. CASE Launch(Watcher)
    <3>1. k + 1 \in Turn /\ Baton(k+1)' /\ Regular(k+1)'
      BY <2>1, <2>2, <2>6, LaunchKeeps, LaunchKeepsRegular
    <3> QED
      BY <3>1 DEF RInv
  <2> QED
    BY <1>2, <2>3, <2>4, <2>5, <2>6 DEF Next, Delegate, Mishap
<1>3. IInv /\ RInv /\ [Next]_vars => RInv'
  BY <1>1, <1>2
<1> QED
  BY InitRInv, <1>3, Invariant, PTL DEF Spec

\* reset_delegation_tracking, which a continuation runs whether or not the session
\* was over, never takes away a delegation that is still out.
THEOREM ExactPending == ASSUME RunsItsCourse PROVE Spec => []PendingIsExact
<1>1. IInv /\ RInv => PendingIsExact
  <2> SUFFICES ASSUME IInv, RInv PROVE PendingIsExact
    OBVIOUS
  <2>1. TypeOK
    BY DEF IInv
  <2>2. PICK k \in Turn : Baton(k) /\ Regular(k)
    BY DEF RInv
  <2>3. CASE pending = 0 /\ \A c \in Child : ~ IsOwed(c)
    <3>1. Owed = {}
      BY <2>3 DEF Owed, IsOwed
    <3> QED
      BY <2>3, <3>1, FS_EmptySet DEF PendingIsExact
  <2>4. CASE pending = 1 /\ \E c \in Child : by[c] = k /\ IsOwed(c)
    <3>1. PICK c \in Child : by[c] = k /\ IsOwed(c)
      BY <2>4
    <3>2. \A d \in Child : IsOwed(d) => d = c
      BY <2>1, <2>2, <3>1, OwedIsThisTurns DEF Baton, OneChild
    <3>3. Owed = {c}
      BY <3>1, <3>2 DEF Owed, IsOwed
    <3> QED
      BY <2>4, <3>3, FS_Singleton DEF PendingIsExact
  <2> QED
    BY <2>2, <2>3, <2>4 DEF Regular, Counts
<1> QED
  BY <1>1, Invariant, RegularInvariant, PTL

\* try_complete_session, statement by statement, completes a session only when no
\* turn works on it and no delegation is out.
THEOREM CompletedDone == ASSUME RunsItsCourse PROVE Spec => []CompletedMeansDone
<1>1. RInv => CompletedMeansDone
  <2> SUFFICES ASSUME RInv, session = "completed"
               PROVE  Owed = {} /\ \A n \in Turn : pc[n] # "working"
    BY DEF CompletedMeansDone
  <2>1. PICK k \in Turn : Baton(k) /\ Regular(k)
    BY DEF RInv
  <2>2. pending = 0 /\ pc[k] # "working"
    BY <2>1 DEF Regular, Settled
  <2>3. Owed = {}
    BY <2>1, <2>2 DEF Regular, Counts, Owed, IsOwed
  <2>4. \A n \in Turn : pc[n] # "working"
    BY <2>1, <2>2, ThisTurn DEF Behind
  <2> QED
    BY <2>3, <2>4
<1> QED
  BY <1>1, RegularInvariant, PTL
=============================================================================
