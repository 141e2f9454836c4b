---------------------------- MODULE WorkerProofs ----------------------------
(***************************************************************************)
(* Proofs about WorkWorker, for any number of workers and items, any       *)
(* limits that WorkerAssumption allows, and any lag of the clocks: the     *)
(* types, that the workers use the store only as WorkQueue allows, and     *)
(* that a running handler is covered by its lease and alone.               *)
(*                                                                         *)
(* The argument: each claim hands its task a lease that outlasts the next  *)
(* heartbeat by what a renewal may take (Covers); Prompt keeps the clock   *)
(* behind the heartbeat (OnTime); and a row under such a lease is neither  *)
(* recovered nor claimed, so there is one task at work on it (OneAtWork).  *)
(***************************************************************************)
EXTENDS WorkWorker, WorkQueueProofs

LEMMA GrantType == \A g \in Grant : g[1] \in Id /\ g[2] \in 1..20
  BY DEF Grant

LEMMA Numbers ==
  /\ Lease \in Nat \ {0} /\ Beat \in Nat \ {0} /\ Poll \in Nat \ {0}
  /\ Patience \in Nat \ {0} /\ ClaimTime \in Nat /\ Yield \in Nat
  /\ Lag \in Nat /\ Lag <= ClaimTime /\ 2 * Beat + ClaimTime + Yield < Lease
  BY WorkerAssumption, QueueAssumption

LEMMA RecentType == TypeOK => \A t \in Recent : t \in Nat /\ t <= now /\ now <= t + Lag
  BY DEF Recent, TypeOK

-----------------------------------------------------------------------------
(* Types.                                                                  *)

LEMMA SpentType == NoTask \in Task /\ Spent \in Task
  BY DEF NoTask, Spent, Task, TaskPhase, Report

LEMMA PastType == ASSUME NEW t \in Task PROVE Past(t) \in Task
  BY SpentType DEF Past, Task, TaskPhase

LEMMA LoopType ==
  ASSUME WorkerTypeOK, NEW w \in Worker, NEW p \in LoopPhase, NEW u \in Nat, Goto(w, p, u)
  PROVE  loop' \in [Worker -> LoopPhase] /\ until' \in [Worker -> Nat]
  BY DEF Goto, WorkerTypeOK

LEMMA AbortedType ==
  ASSUME TypeOK, WorkerTypeOK, NEW g \in Grant, NEW then \in {"none", "retry"}
  PROVE  Aborted(g, then) \in Task
<1>1. now + Yield \in Nat /\ task[g] \in Task
  BY Numbers DEF TypeOK, WorkerTypeOK
<1> QED
  BY <1>1 DEF Aborted, Task, TaskPhase

LEMMA LoopStepType ==
  ASSUME TypeOK, WorkerTypeOK, NEW w \in Worker, LoopStep(w)
  PROVE  WorkerTypeOK'
<1>0. now \in Nat /\ now + Poll \in Nat /\ now + ClaimTime \in Nat /\ until[w] \in Nat
      /\ now + Beat \in Nat /\ now + Patience \in Nat /\ 0 \in Nat
  BY Numbers DEF TypeOK, WorkerTypeOK
<1>1. CASE Start(w) \/ StoreError(w) \/ Ask(w) \/ Wake(w)
  <2>1. UNCHANGED <<halt, task>> /\ \E p \in LoopPhase, u \in Nat : Goto(w, p, u)
    BY <1>0, <1>1 DEF Start, StoreError, Ask, Wake, NextPoll, LoopPhase
  <2> QED
    BY <2>1, LoopType DEF WorkerTypeOK
<1>2. CASE Check(w)
  <2>1. UNCHANGED halt /\ \E p \in LoopPhase, u \in Nat : Goto(w, p, u)
    BY <1>0, <1>2 DEF Check, LoopPhase
  <2>2. task' \in [Grant -> Task]
    BY <1>2, SpentType DEF Check, Dropped, WorkerTypeOK
  <2> QED
    BY <2>1, <2>2, LoopType DEF WorkerTypeOK
<1>3. CASE Spawn(w)
  <2>1. UNCHANGED halt /\ Goto(w, "top", 0)
    BY <1>3 DEF Spawn
  <2>2. PICK g \in Held(w) :
          \/ task' = [task EXCEPT ![g].phase = "live", ![g].beat = FirstBeat,
                                  ![g].due = now + Patience]
          \/ \E verdict \in {"permanent", "retry"} :
               task' = [task EXCEPT ![g].phase = "reporting", ![g].call = verdict]
    BY <1>3 DEF Spawn
  <2>3. g \in Grant /\ task[g] \in Task /\ task \in [Grant -> Task]
    BY DEF Held, WorkerTypeOK
  <2>4. task' \in [Grant -> Task]
    BY <1>0, <2>2, <2>3 DEF FirstBeat, Task, TaskPhase, Report
  <2> QED
    BY <1>0, <2>1, <2>4, LoopType DEF WorkerTypeOK, LoopPhase
<1>4. ASSUME NEW t \in Recent, Recover(w, t) PROVE WorkerTypeOK'
  BY <1>0, <1>4, LoopType DEF Recover, WorkerTypeOK, LoopPhase
<1>5. ASSUME NEW t \in Task PROVE Given(t) \in [Grant -> Task]
  BY DEF Given, WorkerTypeOK
<1>6. ASSUME NEW t \in Recent, Claim(w, t) PROVE WorkerTypeOK'
  <2>1. UNCHANGED halt /\ \E p \in LoopPhase, u \in Nat : Goto(w, p, u)
    BY <1>0, <1>6 DEF Claim, LoopPhase, NextPoll
  <2>2. [NoTask EXCEPT !.worker = w, !.phase = "held"] \in Task
    BY DEF NoTask, Task, TaskPhase, Report
  <2> QED
    BY <1>5, <1>6, <2>1, <2>2, LoopType DEF Claim, WorkerTypeOK
<1>7. ASSUME NEW t \in Recent, OrphanedClaim(w, t) PROVE WorkerTypeOK'
  BY <1>0, <1>5, <1>7, SpentType, LoopType DEF OrphanedClaim, WorkerTypeOK, LoopPhase
<1> QED
  BY <1>1, <1>2, <1>3, <1>4, <1>6, <1>7 DEF LoopStep

LEMMA HaltStepType ==
  ASSUME TypeOK, WorkerTypeOK, NEW w \in Worker, HaltStep(w)
  PROVE  WorkerTypeOK'
<1>0. now + Poll \in Nat /\ 0 \in Nat
  BY Numbers DEF TypeOK
<1>1. CASE Signal(w) \/ SettleAndTell(w)
  BY <1>1 DEF Signal, SettleAndTell, WorkerTypeOK, HaltPhase
<1>2. CASE Refused(w) \/ Drained(w)
  <2>1. UNCHANGED <<halt, task>> /\ \E p \in LoopPhase, u \in Nat : Goto(w, p, u)
    BY <1>0, <1>2 DEF Refused, Drained, LoopPhase, NextPoll
  <2> QED
    BY <2>1, LoopType DEF WorkerTypeOK
<1>3. CASE Leave(w)
  <2>1. task' \in [Grant -> Task]
    BY <1>3, SpentType DEF Leave, Dropped, WorkerTypeOK
  <2> QED
    BY <1>0, <1>3, <2>1, LoopType DEF Leave, WorkerTypeOK, LoopPhase
<1>4. CASE Abort(w)
  <2>1. UNCHANGED halt /\ \E p \in LoopPhase, u \in Nat : Goto(w, p, u)
    BY <1>0, <1>4 DEF Abort, LoopPhase
  <2>2. ASSUME NEW g \in Grant
        PROVE /\ task[g] \in Task /\ Aborted(g, "none") \in Task
              /\ [task[g] EXCEPT !.then = "none"] \in Task /\ Past(task[g]) \in Task
    <3>1. task[g] \in Task
      BY DEF WorkerTypeOK
    <3> QED
      BY <3>1, AbortedType, PastType DEF Task
  <2>3. task' \in [Grant -> Task]
    BY <1>4, <2>2 DEF Abort
  <2> QED
    BY <2>1, <2>3, LoopType DEF WorkerTypeOK
<1>5. CASE Crash(w)
  <2>1. task' \in [Grant -> Task]
    BY <1>5, SpentType DEF Crash, WorkerTypeOK
  <2> QED
    BY <1>0, <1>5, <2>1, LoopType DEF Crash, WorkerTypeOK, LoopPhase
<1> QED
  BY <1>1, <1>2, <1>3, <1>4, <1>5 DEF HaltStep

LEMMA TaskStepType ==
  ASSUME TypeOK, WorkerTypeOK, NEW g \in Grant, TaskStep(g)
  PROVE  WorkerTypeOK'
<1>0. task[g] \in Task /\ task[g].beat + Beat \in Nat
  BY Numbers DEF WorkerTypeOK, Task
<1>1. /\ Spent \in Task /\ Past(task[g]) \in Task
      /\ Aborted(g, "none") \in Task /\ Aborted(g, "retry") \in Task
  BY <1>0, SpentType, PastType, AbortedType
<1>2. UNCHANGED <<loop, until, halt>>
  BY DEF TaskStep, Finish, Expire, Heartbeat, NotRenewed, GiveUp, Stopped, RenewalDone, Reported
<1>3. SUFFICES \E t \in Task : Become(g, t)
  BY <1>2 DEF Become, WorkerTypeOK
<1>4. CASE Finish(g)
  BY <1>0, <1>4 DEF Finish, Task, TaskPhase
<1>5. CASE Expire(g) \/ GiveUp(g)
  BY <1>1, <1>5 DEF Expire, GiveUp
<1>6. CASE Heartbeat(g)
  BY <1>0, <1>6 DEF Heartbeat, Task
<1>7. CASE NotRenewed(g)
  <2>1. ASSUME NEW t \in Task PROVE [t EXCEPT !.call = "none"] \in Task
    BY DEF Task
  <2> QED
    BY <1>0, <1>1, <1>7, <2>1 DEF NotRenewed
<1>8. CASE Stopped(g)
  <2>1. [task[g] EXCEPT !.phase = "reporting", !.call = "retry", !.then = "none",
                        !.beat = 0, !.due = 0] \in Task
    BY <1>0 DEF Task, TaskPhase, Report
  <2> QED
    BY <1>1, <1>8, <2>1 DEF Stopped
<1>9. ASSUME NEW t \in Recent, RenewalDone(g, t) PROVE \E u \in Task : Become(g, u)
  <2>1. [task[g] EXCEPT !.call = "none", !.beat = @ + Beat] \in Task
    BY <1>0 DEF Task
  <2> QED
    BY <1>1, <1>9, <2>1 DEF RenewalDone
<1>10. ASSUME NEW t \in Recent, Reported(g, t) PROVE \E u \in Task : Become(g, u)
  BY <1>1, <1>10 DEF Reported
<1> QED
  BY <1>4, <1>5, <1>6, <1>7, <1>8, <1>9, <1>10 DEF TaskStep

LEMMA WorkerTypeStep ==
  ASSUME TypeOK, WorkerTypeOK, [WorkerNext]_allVars PROVE WorkerTypeOK'
<1>1. CASE UNCHANGED allVars
  BY <1>1 DEF allVars, WorkerTypeOK
<1>2. CASE WorkerTick \/ Others
  BY <1>2 DEF WorkerTick, Others, workerVars, WorkerTypeOK
<1> QED
  BY <1>1, <1>2, LoopStepType, HaltStepType, TaskStepType DEF WorkerNext

-----------------------------------------------------------------------------
(* The workers call the store as WorkQueue allows.                         *)

\* A call is out only while the task has a use for it, or was given up; a claim
\* not made has no worker.
CallsFit ==
  \A g \in Grant :
    /\ task[g].phase = "none" => task[g].worker = Nobody
    /\ task[g].call = "renew" => task[g].phase \in {"live", "aborting", "over"}
    /\ task[g].call \in Report => task[g].phase \in {"reporting", "over"}

\* Tasks are those of claims that have been made.
Numbered == \A g \in Grant : task[g].phase # "none" => g[2] <= claims[g[1]]

\* A target for which nothing was ever submitted: calls for it change nothing.
LEMMA NoSuchTarget ==
  ASSUME TypeOK, Target \notin Targets, NEW t \in Recent
  PROVE  /\ RecoverExpired(Target, t) => UNCHANGED vars
         /\ \A d : ClaimNext(Target, t, d) => UNCHANGED vars
<1>1. \A i \in Id : Draft[i].target # Target
  BY DEF Targets
<1>2. RecoveredTable(Target, t) = row
  BY <1>1 DEF RecoveredTable, Recovered, TypeOK
<1>3. \A i \in Id : ~Claimable(row, i, Target, t)
  BY <1>1 DEF Claimable
<1> QED
  BY <1>2, <1>3 DEF RecoverExpired, ClaimNext, FirstInLine, vars

LEMMA StoreStep ==
  ASSUME TypeOK, CallsFit, Numbered, [WorkerNext]_allVars PROVE [Next]_vars
<1>a. Lease \in Leases
  BY WorkerAssumption
<1>b. ASSUME NEW t \in Recent PROVE /\ RecoverExpired(Target, t) => [Next]_vars
                                    /\ ClaimNext(Target, t, Lease) => [Next]_vars
  <2>1. CASE Target \in Targets
    BY <1>a, <2>1 DEF Next
  <2>2. CASE Target \notin Targets
    BY <2>2, NoSuchTarget
  <2> QED
    BY <2>1, <2>2
<1>c. ASSUME NEW g \in Grant, task[g].call # "none", task[g].call \in {"renew"} \cup Report
      PROVE g[1] \in Id /\ g[2] \in 1..claims[g[1]]
  <2>1. g[2] <= claims[g[1]] /\ claims[g[1]] \in Nat
    BY <1>c, GrantType DEF CallsFit, Numbered, TypeOK
  <2> QED
    BY <2>1, GrantType
<1>1. CASE UNCHANGED allVars
  BY <1>1 DEF allVars, vars
<1>2. CASE WorkerTick \/ Others
  BY <1>2 DEF WorkerTick, Others, Next
<1>3. ASSUME NEW w \in Worker, LoopStep(w) PROVE [Next]_vars
  BY <1>3, <1>b DEF LoopStep, Start, StoreError, Ask, Check, Spawn, Wake, Recover, Claim, OrphanedClaim
<1>4. ASSUME NEW w \in Worker, HaltStep(w) PROVE UNCHANGED vars
  BY <1>4 DEF HaltStep, Signal, SettleAndTell, Refused, Leave, Drained, Abort, Crash
<1>5. ASSUME NEW g \in Grant, TaskStep(g) PROVE [Next]_vars
  <2>1. CASE Finish(g) \/ Expire(g) \/ Heartbeat(g) \/ NotRenewed(g) \/ GiveUp(g) \/ Stopped(g)
    BY <2>1 DEF Finish, Expire, Heartbeat, NotRenewed, GiveUp, Stopped
  <2>2. ASSUME NEW t \in Recent, RenewalDone(g, t) PROVE [Next]_vars
    BY <1>a, <1>c, <2>2 DEF RenewalDone, Next
  <2>3. ASSUME NEW t \in Recent, Reported(g, t) PROVE [Next]_vars
    BY <1>c, <2>3 DEF Reported, Next
  <2> QED
    BY <1>5, <2>1, <2>2, <2>3 DEF TaskStep
<1> QED
  BY <1>1, <1>2, <1>3, <1>4, <1>5 DEF WorkerNext

-----------------------------------------------------------------------------
(* What a step does to one task.                                           *)

\* Claimed, and in the hands of the loop.
Takes(g) ==
  /\ task[g].phase = "none" /\ g \in New
  /\ \E w \in Worker :
       /\ loop[w] = "asking" /\ loop'[w] = "granted" /\ until'[w] = until[w]
       /\ task'[g] = [NoTask EXCEPT !.worker = w, !.phase = "held"]
       /\ row'[g[1]].status = "leased" /\ row'[g[1]].token = g[2]
       /\ row'[g[1]].expires + ClaimTime >= until[w] + Lease
  /\ \E t \in Recent : Claimable(RecoveredTable(Target, t), g[1], Target, t)

Begins(g) ==
  /\ task[g].phase = "held" /\ loop[task[g].worker] = "cleared"
  /\ task'[g] = [task[g] EXCEPT !.phase = "live", !.beat = now + Beat,
                                !.due = now + Patience]

Beats(g) ==
  /\ task[g].phase = "live" /\ task[g].call = "none" /\ task[g].beat = now
  /\ task'[g] = [task[g] EXCEPT !.call = "renew"]

Extends(g) ==
  /\ task[g].phase \in {"live", "aborting"} /\ task[g].call = "renew"
  /\ task'[g] = [task[g] EXCEPT !.call = "none", !.beat = @ + Beat]
  /\ row'[g[1]].status = "leased" /\ row'[g[1]].token = g[2]
  /\ row'[g[1]].expires >= task[g].beat + Lease

\* Told to stop, or told once more.
Stops(g) ==
  /\ task'[g].phase = "aborting" /\ task'[g].beat = task[g].beat
  /\ task'[g].call \in {"none", task[g].call}
  /\ \/ task[g].phase = "live" /\ task'[g].due = now + Yield
     \/ task[g].phase = "aborting" /\ task'[g].due = task[g].due

\* No handler any more, or never one.
Leaves(g) ==
  /\ task[g].phase # "none" \/ g \in New
  /\ \/ task'[g].phase = "over" /\ task'[g].call \in {"none", task[g].call}
     \/ task'[g].phase = "reporting" /\ task'[g].call \in Report

TaskEffect(g) ==
  \/ task'[g] = task[g] \/ Takes(g) \/ Begins(g) \/ Beats(g) \/ Extends(g)
  \/ Stops(g) \/ Leaves(g)

\* The claims a step makes are new, and there is a row leased for them.
LEMMA NewClaim ==
  ASSUME TypeOK, Numbered, NEW t \in Recent, ClaimNext(Target, t, Lease), NEW g \in New
  PROVE  /\ g \in Grant /\ task[g].phase = "none"
         /\ Claimable(RecoveredTable(Target, t), g[1], Target, t)
         /\ row'[g[1]].status = "leased" /\ row'[g[1]].token = g[2]
         /\ row'[g[1]].expires = t + Lease
<1>1. /\ g \in Grant /\ g[1] \in Id /\ g[2] = claims[g[1]] + 1 /\ claims'[g[1]] = g[2]
      /\ claims \in [Id -> Nat]
  BY GrantType DEF New, TypeOK
<1>2. task[g].phase = "none"
  BY <1>1 DEF Numbered
<1>3. t \in Nat /\ claims[g[1]] # claims[g[1]] + 1
  BY <1>1, RecentType
<1>4. RecoveredTable(Target, t) \in [Id -> Row]
  BY <1>3, TableType
<1>5. PICK i \in FirstInLine(RecoveredTable(Target, t), Target, t) :
        /\ row' = [RecoveredTable(Target, t) EXCEPT ![i] =
                     LeasedUntil(RecoveredTable(Target, t)[i], claims[i] + 1, t + Lease)]
        /\ claims' = [claims EXCEPT ![i] = @ + 1]
  BY <1>1, <1>3 DEF ClaimNext
<1>6. i \in Id /\ Claimable(RecoveredTable(Target, t), i, Target, t)
  BY DEF FirstInLine
<1>7. i = g[1]
  BY <1>1, <1>3, <1>5, <1>6
<1>8. row'[i] = LeasedUntil(RecoveredTable(Target, t)[i], claims[i] + 1, t + Lease)
      /\ RecoveredTable(Target, t)[i] \in Row
  BY <1>4, <1>5, <1>6
<1> QED
  BY <1>1, <1>2, <1>6, <1>7, <1>8, RowAfter

\* A claim's task is given, the others are left alone.
LEMMA GivenEffect ==
  ASSUME NEW t, task' = Given(t), NEW g \in Grant
  PROVE  task'[g] = IF g \in New THEN t ELSE task[g]
  BY DEF Given

LEMMA LoopStepEffect ==
  ASSUME TypeOK, WorkerTypeOK, CallsFit, Numbered, NEW w \in Worker, LoopStep(w),
         NEW g \in Grant
  PROVE  TaskEffect(g)
<1>0. task[g] \in Task /\ task \in [Grant -> Task] /\ g[1] \in Id
  BY GrantType DEF WorkerTypeOK
<1>1. CASE UNCHANGED task
  BY <1>1 DEF TaskEffect
<1>2. CASE Check(w)
  <2>1. task'[g] = task[g] \/ (task[g].phase = "held" /\ task'[g] = Spent)
    BY <1>2 DEF Check, Dropped, Held
  <2> QED
    BY <2>1 DEF TaskEffect, Leaves, Spent, NoTask
<1>3. CASE Spawn(w)
  <2>1. PICK h \in Held(w) :
          \/ task' = [task EXCEPT ![h].phase = "live", ![h].beat = FirstBeat,
                                  ![h].due = now + Patience]
          \/ \E verdict \in {"permanent", "retry"} :
               task' = [task EXCEPT ![h].phase = "reporting", ![h].call = verdict]
    BY <1>3 DEF Spawn
  <2>2. h \in Grant /\ task[h].phase = "held" /\ loop[task[h].worker] = "cleared"
    BY <1>3 DEF Held, Spawn
  <2>3. CASE g # h
    <3>1. task'[g] = task[g]
      BY <1>0, <2>1, <2>2, <2>3
    <3> QED
      BY <3>1 DEF TaskEffect
  <2>4. CASE g = h
    <3>1. CASE task' = [task EXCEPT ![h].phase = "live", ![h].beat = FirstBeat,
                                    ![h].due = now + Patience]
      BY <1>0, <2>2, <2>4, <3>1 DEF TaskEffect, Begins, FirstBeat, Task
    <3>2. ASSUME NEW verdict \in {"permanent", "retry"},
                 task' = [task EXCEPT ![h].phase = "reporting", ![h].call = verdict]
          PROVE TaskEffect(g)
      BY <1>0, <2>2, <2>4, <3>2 DEF TaskEffect, Leaves, Task, Report
    <3> QED
      BY <2>1, <3>1, <3>2
  <2> QED
    BY <2>3, <2>4
<1>4. ASSUME NEW t \in Recent, Claim(w, t) PROVE TaskEffect(g)
  <2>0. task'[g] = IF g \in New THEN [NoTask EXCEPT !.worker = w, !.phase = "held"]
                   ELSE task[g]
    BY <1>4, GivenEffect DEF Claim
  <2>1. CASE g \notin New
    BY <2>0, <2>1 DEF TaskEffect
  <2>2. CASE g \in New
    <3>1. /\ task[g].phase = "none" /\ row'[g[1]].status = "leased" /\ row'[g[1]].token = g[2]
          /\ row'[g[1]].expires = t + Lease
          /\ Claimable(RecoveredTable(Target, t), g[1], Target, t)
      BY <1>4, <2>2, NewClaim DEF Claim
    <3>2. /\ loop[w] = "asking" /\ Goto(w, "granted", until[w]) /\ t + ClaimTime >= until[w]
      BY <1>4, <2>2 DEF Claim
    <3>3. loop'[w] = "granted" /\ until'[w] = until[w] /\ until[w] \in Nat
      BY <3>2 DEF Goto, WorkerTypeOK
    <3>4. t + Lease + ClaimTime >= until[w] + Lease
      BY <3>2, <3>3, RecentType, Numbers
    <3>5. row'[g[1]].expires + ClaimTime >= until[w] + Lease
      BY <3>1, <3>4
    <3> QED
      BY <2>0, <2>2, <3>1, <3>2, <3>3, <3>5 DEF TaskEffect, Takes
  <2> QED
    BY <2>1, <2>2
<1>5. ASSUME NEW t \in Recent, OrphanedClaim(w, t) PROVE TaskEffect(g)
  <2>1. task'[g] = IF g \in New THEN Spent ELSE task[g]
    BY <1>5, GivenEffect DEF OrphanedClaim
  <2> QED
    BY <2>1 DEF TaskEffect, Leaves, Spent, NoTask
<1> QED
  BY <1>1, <1>2, <1>3, <1>4, <1>5
     DEF LoopStep, Start, StoreError, Ask, Wake, Recover

LEMMA HaltStepEffect ==
  ASSUME TypeOK, WorkerTypeOK, CallsFit, NEW w \in Worker, HaltStep(w), NEW g \in Grant
  PROVE  TaskEffect(g)
<1>0. task[g] \in Task /\ task \in [Grant -> Task]
  BY DEF WorkerTypeOK
<1>1. CASE UNCHANGED task
  BY <1>1 DEF TaskEffect
<1>2. CASE Leave(w)
  <2>1. task'[g] = task[g] \/ (task[g].phase = "held" /\ task'[g] = Spent)
    BY <1>2 DEF Leave, Dropped, Held
  <2> QED
    BY <2>1 DEF TaskEffect, Leaves, Spent, NoTask
<1>3. CASE Abort(w) \/ Crash(w)
  <2>1. Past(task[g]).phase = "over" /\ Past(task[g]).call = task[g].call
    BY <1>0 DEF Past, Spent, NoTask, Task
  <2>2. \/ task'[g] = task[g]
        \/ task[g].phase = "live" /\ task'[g] = Aborted(g, "none")
        \/ task[g].phase = "aborting" /\ task'[g] = [task[g] EXCEPT !.then = "none"]
        \/ task[g].worker = w /\ task'[g] \in {Spent, Past(task[g])}
    BY <1>3 DEF Abort, Crash
  <2>3. CASE task[g].phase = "live" /\ task'[g] = Aborted(g, "none")
    BY <1>0, <2>3 DEF TaskEffect, Stops, Aborted, Task
  <2>4. CASE task[g].phase = "aborting" /\ task'[g] = [task[g] EXCEPT !.then = "none"]
    BY <1>0, <2>4 DEF TaskEffect, Stops, Task
  <2>5. CASE task[g].worker = w /\ task'[g] \in {Spent, Past(task[g])}
    <3>1. task[g].phase # "none"
      BY <2>5, WorkerAssumption DEF CallsFit
    <3> QED
      BY <2>1, <2>5, <3>1 DEF TaskEffect, Leaves, Spent, NoTask
  <2> QED
    BY <2>2, <2>3, <2>4, <2>5 DEF TaskEffect
<1> QED
  BY <1>1, <1>2, <1>3 DEF HaltStep, Signal, SettleAndTell, Refused, Drained

LEMMA TaskStepEffect ==
  ASSUME TypeOK, WorkerTypeOK, CallsFit, NEW h \in Grant, TaskStep(h), NEW g \in Grant
  PROVE  TaskEffect(g)
<1>0. /\ task[g] \in Task /\ task \in [Grant -> Task] /\ task[g].beat \in Nat
      /\ row \in [Id -> Row] /\ g[1] \in Id
  BY GrantType DEF WorkerTypeOK, Task, TypeOK
<1>1. CASE g # h
  BY <1>1 DEF TaskStep, Finish, Expire, Heartbeat, NotRenewed, GiveUp, Stopped, RenewalDone,
              Reported, Become, TaskEffect, WorkerTypeOK
<1>2. ASSUME NEW t, Become(g, t) PROVE task'[g] = t
  BY <1>0, <1>2 DEF Become
<1>3. CASE g = h
  <2>a. Past(task[g]).phase = "over" /\ Past(task[g]).call = task[g].call
    BY <1>0 DEF Past, Spent, NoTask, Task
  <2>b. Spent.phase = "over" /\ Spent.call = "none"
    BY DEF Spent, NoTask
  <2>c. ASSUME NEW then \in {"none", "retry"}
        PROVE /\ Aborted(g, then).phase = "aborting" /\ Aborted(g, then).beat = task[g].beat
              /\ Aborted(g, then).call = task[g].call /\ Aborted(g, then).due = now + Yield
              /\ [Aborted(g, then) EXCEPT !.call = "none"].phase = "aborting"
              /\ [Aborted(g, then) EXCEPT !.call = "none"].beat = task[g].beat
              /\ [Aborted(g, then) EXCEPT !.call = "none"].call = "none"
              /\ [Aborted(g, then) EXCEPT !.call = "none"].due = now + Yield
    BY <1>0 DEF Aborted, Task
  <2>1. CASE Finish(g)
    BY <1>0, <1>2, <2>1 DEF Finish, Waits, TaskEffect, Leaves, Task
  <2>2. CASE Expire(g) \/ GiveUp(g)
    BY <1>2, <2>2, <2>c DEF Expire, GiveUp, TaskEffect, Stops
  <2>3. CASE Heartbeat(g)
    BY <1>2, <2>3 DEF Heartbeat, Waits, TaskEffect, Beats
  <2>4. CASE NotRenewed(g)
    <3>1. task[g].call = "renew" /\ task[g].phase \in {"live", "aborting", "over"}
      BY <2>4 DEF NotRenewed, CallsFit
    <3>2. CASE task[g].phase = "live"
      BY <1>2, <2>4, <2>c, <3>2 DEF NotRenewed, TaskEffect, Stops
    <3>3. CASE task[g].phase = "aborting"
      BY <1>0, <1>2, <2>4, <3>3 DEF NotRenewed, TaskEffect, Stops, Task
    <3>4. CASE task[g].phase = "over"
      BY <1>2, <2>4, <2>b, <3>4 DEF NotRenewed, TaskEffect, Leaves
    <3> QED
      BY <3>1, <3>2, <3>3, <3>4
  <2>5. CASE Stopped(g)
    BY <1>0, <1>2, <2>5, <2>a DEF Stopped, TaskEffect, Leaves, Task, Report
  <2>6. ASSUME NEW t \in Recent, RenewalDone(g, t) PROVE TaskEffect(g)
    <3>1. task[g].call = "renew" /\ task[g].phase \in {"live", "aborting", "over"}
      BY <2>6 DEF RenewalDone, CallsFit
    <3>2. /\ row'[g[1]].status = "leased" /\ row'[g[1]].token = g[2]
          /\ row'[g[1]].expires = t + Lease /\ t >= task[g].beat
      BY <1>0, <2>6 DEF RenewalDone, RenewLease, HoldsLease, Row
    <3>3. row'[g[1]].expires >= task[g].beat + Lease
      BY <1>0, <3>2, RecentType, Numbers
    <3>4. CASE task[g].phase = "over"
      BY <1>2, <2>6, <2>b, <3>4 DEF RenewalDone, TaskEffect, Leaves
    <3>5. CASE task[g].phase \in {"live", "aborting"}
      BY <1>2, <2>6, <3>1, <3>2, <3>3, <3>5 DEF RenewalDone, TaskEffect, Extends
    <3> QED
      BY <3>1, <3>4, <3>5
  <2>7. ASSUME NEW t \in Recent, Reported(g, t) PROVE TaskEffect(g)
    <3>1. task[g].phase \in {"reporting", "over"}
      BY <2>7 DEF Reported, CallsFit
    <3> QED
      BY <1>2, <2>7, <2>b, <3>1 DEF Reported, TaskEffect, Leaves
  <2> QED
    BY <1>3, <2>1, <2>2, <2>3, <2>4, <2>5, <2>6, <2>7 DEF TaskStep
<1> QED
  BY <1>1, <1>3

LEMMA EveryTask ==
  ASSUME TypeOK, WorkerTypeOK, CallsFit, Numbered, [WorkerNext]_allVars, NEW g \in Grant
  PROVE  TaskEffect(g)
<1>1. CASE UNCHANGED allVars \/ WorkerTick \/ Others
  BY <1>1 DEF allVars, WorkerTick, Others, workerVars, TaskEffect
<1> QED
  BY <1>1, LoopStepEffect, HaltStepEffect, TaskStepEffect DEF WorkerNext

-----------------------------------------------------------------------------
(* The invariant.                                                          *)

AtWork(g) == task[g].phase \in {"held", "live", "aborting"}

\* The moment up to which the lease of a task at work has been secured.
Secured(g) == IF task[g].phase = "held" THEN until[task[g].worker] + Lease - ClaimTime
              ELSE task[g].beat + Lease - Beat - ClaimTime

Covered(g, u) ==
  \/ row[g[1]].status \in Terminal
  \/ row[g[1]].status = "leased" /\ row[g[1]].token = g[2] /\ row[g[1]].expires >= u

Covers == \A g \in Grant : AtWork(g) => Covered(g, Secured(g))

Timed == {"asking", "granted", "cleared", "waiting", "backoff"}

OnTime ==
  /\ \A w \in Worker : loop[w] \in Timed => now <= until[w]
  /\ \A g \in Grant :
       /\ task[g].phase = "live" =>
            now <= task[g].beat + (IF task[g].call = "renew" THEN Beat ELSE 0)
       /\ task[g].phase = "aborting" =>
            now <= task[g].due /\ task[g].due <= task[g].beat + Beat + Yield

InHand ==
  /\ \A g \in Grant : task[g].phase = "held" =>
       task[g].worker \in Worker /\ loop[task[g].worker] \in {"granted", "cleared"}
  /\ \A g, h \in Grant : task[g].phase = "held" /\ task[h].phase = "held"
                         /\ task[g].worker = task[h].worker => g = h

OneAtWork == \A g, h \in Grant : AtWork(g) /\ AtWork(h) /\ g[1] = h[1] => g = h

WInv == /\ IInv /\ WorkerTypeOK /\ CallsFit /\ Numbered
        /\ OnTime /\ InHand /\ Covers /\ OneAtWork

\* A task at work is secured beyond the present.
LEMMA SecuredAhead ==
  ASSUME WInv, NEW g \in Grant, AtWork(g)
  PROVE  Secured(g) \in Int /\ Secured(g) > now
<1>1. /\ task[g] \in Task /\ task[g].beat \in Nat /\ task[g].due \in Nat /\ now \in Nat
      /\ until \in [Worker -> Nat]
  BY DEF WInv, IInv, TypeOK, WorkerTypeOK, Task
<1>2. CASE task[g].phase = "held"
  <2>1. task[g].worker \in Worker /\ now <= until[task[g].worker]
    BY <1>2 DEF WInv, InHand, OnTime, Timed
  <2> QED
    BY <1>1, <1>2, <2>1, Numbers DEF Secured
<1>3. CASE task[g].phase = "live"
  <2>1. now <= task[g].beat + Beat
    BY <1>1, <1>3, Numbers DEF WInv, OnTime
  <2> QED
    BY <1>1, <1>3, <2>1, Numbers DEF Secured
<1>4. CASE task[g].phase = "aborting"
  <2>1. now <= task[g].due /\ task[g].due <= task[g].beat + Beat + Yield
    BY <1>4 DEF WInv, OnTime
  <2> QED
    BY <1>1, <1>4, <2>1, Numbers DEF Secured
<1> QED
  BY <1>2, <1>3, <1>4 DEF AtWork

LEMMA CallsStep ==
  ASSUME WInv, [WorkerNext]_allVars PROVE CallsFit' /\ Numbered'
<1>1. /\ TypeOK /\ WorkerTypeOK /\ CallsFit /\ Numbered /\ TypeOK' /\ WorkerTypeOK'
  BY StoreStep, TypeStep, WorkerTypeStep DEF WInv, IInv
<1>2. ASSUME NEW g \in Grant
      PROVE /\ task'[g].phase = "none" => task'[g].worker = Nobody
            /\ task'[g].call = "renew" => task'[g].phase \in {"live", "aborting", "over"}
            /\ task'[g].call \in Report => task'[g].phase \in {"reporting", "over"}
            /\ task'[g].phase # "none" => g[2] <= claims'[g[1]]
  <2>1. /\ task[g].phase = "none" => task[g].worker = Nobody
        /\ task[g].call = "renew" => task[g].phase \in {"live", "aborting", "over"}
        /\ task[g].call \in Report => task[g].phase \in {"reporting", "over"}
        /\ task[g].phase # "none" => g[2] <= claims[g[1]]
        /\ task[g] \in Task
    BY <1>1 DEF CallsFit, Numbered, WorkerTypeOK
  <2>2. /\ claims[g[1]] \in Nat /\ claims'[g[1]] \in {claims[g[1]], claims[g[1]] + 1}
        /\ g[1] \in Id /\ g[2] \in 1..20
    <3>1. ItemStep(g[1]) /\ claims[g[1]] \in Nat
      BY <1>1, GrantType, StoreStep, StepPerItem DEF WInv, TypeOK
    <3> QED
      BY <3>1, GrantType DEF ItemStep, Kept, SameHistory, Submitted, Released, Granted, Renewed,
                             Judged, Withdrawn, Corrupted
  <2>3. TaskEffect(g)
    BY <1>1, EveryTask
  <2>4. g \in New => g[2] <= claims'[g[1]]
    BY <2>2 DEF New
  <2>5. CASE task'[g] = task[g]
    BY <2>1, <2>2, <2>5
  <2>6. CASE Takes(g)
    BY <2>4, <2>6 DEF Takes, NoTask, Report
  <2>7. CASE Begins(g)
    BY <2>1, <2>2, <2>7 DEF Begins, Task
  <2>8. CASE Beats(g)
    BY <2>1, <2>2, <2>8 DEF Beats, Task, Report
  <2>9. CASE Extends(g)
    BY <2>1, <2>2, <2>9 DEF Extends, Task, Report
  <2>10. CASE Stops(g)
    BY <2>1, <2>2, <2>10 DEF Stops, Report
  <2>11. CASE Leaves(g)
    BY <2>1, <2>2, <2>4, <2>11 DEF Leaves, Report
  <2> QED
    BY <2>3, <2>5, <2>6, <2>7, <2>8, <2>9, <2>10, <2>11 DEF TaskEffect
<1> QED
  BY <1>2 DEF CallsFit, Numbered

LEMMA NowStays ==
  ASSUME TypeOK, [WorkerNext]_allVars
  PROVE  \/ WorkerTick /\ now' = now + 1
         \/ now' = now
<1>1. \A w \in Worker : LoopStep(w) => now' = now
  BY DEF LoopStep, Start, StoreError, Ask, Check, Spawn, Wake, Recover, Claim, OrphanedClaim,
         RecoverExpired, ClaimNext, vars
<1>2. \A w \in Worker : HaltStep(w) => now' = now
  BY DEF HaltStep, Signal, SettleAndTell, Refused, Leave, Drained, Abort, Crash, vars
<1>3. \A g \in Grant : TaskStep(g) => now' = now
  BY DEF TaskStep, Finish, Expire, Heartbeat, NotRenewed, GiveUp, Stopped, RenewalDone, Reported,
         RenewLease, Complete, Fail, vars
<1>4. Others => now' = now
  BY DEF Others, Enqueue, CancelScoped, Corrupt
<1> QED
  BY <1>1, <1>2, <1>3, <1>4 DEF WorkerNext, WorkerTick, Tick, allVars

\* What the loop waits for is not past.
LEMMA LoopsOnTime ==
  ASSUME WInv, [WorkerNext]_allVars, NEW w \in Worker, loop'[w] \in Timed
  PROVE  now' <= until'[w]
<1>0. /\ TypeOK /\ now \in Nat /\ until \in [Worker -> Nat] /\ loop \in [Worker -> LoopPhase]
      /\ now <= now + Poll /\ now <= now + ClaimTime
      /\ loop[w] \in Timed => now <= until[w]
  BY Numbers DEF WInv, IInv, TypeOK, WorkerTypeOK, OnTime
<1>1. CASE WorkerTick
  BY <1>0, <1>1 DEF WorkerTick, Prompt, Tick, workerVars, Timed
<1>2. CASE now' = now /\ UNCHANGED <<loop, until>>
  BY <1>0, <1>2
<1>3. ASSUME NEW v \in Worker, LoopStep(v), now' = now PROVE now' <= until'[w]
  <2>1. \E p \in LoopPhase, u \in Nat :
          /\ Goto(v, p, u)
          /\ p \in Timed => now <= u
    <3>1. CASE Start(v) \/ StoreError(v) \/ Ask(v) \/ Wake(v) \/ Spawn(v)
      <4>1. now + Poll \in Nat /\ now + ClaimTime \in Nat /\ 0 \in Nat
        BY <1>0, Numbers
      <4>2. CASE Start(v) \/ Wake(v) \/ Spawn(v)
        BY <4>1, <4>2 DEF Start, Wake, Spawn, Timed, LoopPhase
      <4>3. CASE StoreError(v)
        BY <1>0, <4>1, <4>3 DEF StoreError, NextPoll, Timed, LoopPhase
      <4>4. CASE Ask(v)
        BY <1>0, <4>1, <4>4 DEF Ask, Timed, LoopPhase
      <4> QED
        BY <3>1, <4>2, <4>3, <4>4
    <3>2. CASE Check(v)
      <4>1. now <= until[v] /\ until[v] \in Nat
        BY <1>0, <3>2 DEF Check, WInv, OnTime, Timed
      <4> QED
        BY <3>2, <4>1 DEF Check, LoopPhase, Timed
    <3>3. ASSUME NEW t \in Recent, Recover(v, t) \/ OrphanedClaim(v, t)
          PROVE \E p \in LoopPhase, u \in Nat : Goto(v, p, u) /\ (p \in Timed => now <= u)
      BY <3>3 DEF Recover, OrphanedClaim, LoopPhase, Timed
    <3>4. ASSUME NEW t \in Recent, Claim(v, t)
          PROVE \E p \in LoopPhase, u \in Nat : Goto(v, p, u) /\ (p \in Timed => now <= u)
      <4>1. now <= until[v] /\ until[v] \in Nat /\ now + Poll \in Nat
        BY <1>0, <3>4, Numbers DEF Claim, WInv, OnTime, Timed
      <4> QED
        BY <1>0, <3>4, <4>1 DEF Claim, NextPoll, LoopPhase, Timed
    <3> QED
      BY <1>3, <3>1, <3>2, <3>3, <3>4 DEF LoopStep
  <2> QED
    BY <1>0, <1>3, <2>1 DEF Goto
<1>4. ASSUME NEW v \in Worker, HaltStep(v), now' = now PROVE now' <= until'[w]
  <2>1. CASE UNCHANGED <<loop, until>>
    BY <1>2, <1>4, <2>1
  <2>2. CASE \E p \in LoopPhase, u \in Nat : Goto(v, p, u) /\ (p \in Timed => now <= u)
    BY <1>0, <1>4, <2>2 DEF Goto
  <2>3. now + Poll \in Nat
    BY <1>0, Numbers
  <2>4. CASE Signal(v) \/ SettleAndTell(v)
    BY <2>1, <2>4 DEF Signal, SettleAndTell
  <2>5. CASE Refused(v) \/ Leave(v) \/ Drained(v)
    BY <1>0, <2>2, <2>3, <2>5 DEF Refused, Leave, Drained, NextPoll, LoopPhase, Timed
  <2>6. CASE Abort(v) \/ Crash(v)
    BY <2>2, <2>6 DEF Abort, Crash, LoopPhase, Timed
  <2> QED
    BY <1>4, <2>4, <2>5, <2>6 DEF HaltStep
<1>5. ASSUME NEW g \in Grant, TaskStep(g) PROVE UNCHANGED <<loop, until>>
  BY <1>5 DEF TaskStep, Finish, Expire, Heartbeat, NotRenewed, GiveUp, Stopped, RenewalDone,
              Reported
<1> QED
  BY <1>0, <1>1, <1>2, <1>3, <1>4, <1>5, NowStays DEF WorkerNext, Others, workerVars, allVars

\* Neither a heartbeat nor the end of a handler that was told to stop is past.
LEMMA TasksOnTime ==
  ASSUME WInv, [WorkerNext]_allVars, NEW g \in Grant
  PROVE  /\ task'[g].phase = "live" =>
              now' <= task'[g].beat + (IF task'[g].call = "renew" THEN Beat ELSE 0)
         /\ task'[g].phase = "aborting" =>
              now' <= task'[g].due /\ task'[g].due <= task'[g].beat + Beat + Yield
<1>0. /\ TypeOK /\ WorkerTypeOK /\ CallsFit /\ Numbered
      /\ task[g] \in Task /\ task[g].beat \in Nat /\ task[g].due \in Nat /\ now \in Nat
      /\ task[g].phase = "live" =>
           now <= task[g].beat + (IF task[g].call = "renew" THEN Beat ELSE 0)
      /\ task[g].phase = "aborting" =>
           now <= task[g].due /\ task[g].due <= task[g].beat + Beat + Yield
      /\ Beat \in Nat /\ Yield \in Nat /\ Patience \in Nat
  BY Numbers DEF WInv, IInv, TypeOK, WorkerTypeOK, Task, OnTime
<1>1. CASE WorkerTick /\ now' = now + 1
  <2>1. task' = task
    BY <1>1 DEF WorkerTick, workerVars
  <2>2. /\ Alive(g) => now < task[g].due
        /\ task[g].phase = "live" =>
             now < task[g].beat + (IF task[g].call = "renew" THEN Beat ELSE 0)
    BY <1>1 DEF WorkerTick, Prompt
  <2> QED
    BY <1>0, <1>1, <2>1, <2>2 DEF Alive
<1>2. CASE now' = now
  <2>1. CASE task'[g] = task[g]
    BY <1>0, <1>2, <2>1
  <2>2. CASE Takes(g)
    BY <2>2 DEF Takes, NoTask
  <2>3. CASE Begins(g)
    <3>1. /\ task'[g].phase = "live" /\ task'[g].beat = now + Beat
      BY <1>0, <2>3 DEF Begins, Task
    <3> QED
      BY <1>0, <1>2, <3>1
  <2>4. CASE Beats(g)
    <3>1. task'[g].phase = "live" /\ task'[g].beat = now /\ task[g].beat = now
      BY <1>0, <2>4 DEF Beats, Task
    <3> QED
      BY <1>0, <1>2, <3>1
  <2>5. CASE Extends(g)
    <3>1. /\ task'[g].phase = task[g].phase /\ task'[g].beat = task[g].beat + Beat
          /\ task'[g].due = task[g].due /\ task'[g].call = "none" /\ task[g].call = "renew"
      BY <1>0, <2>5 DEF Extends, Task
    <3> QED
      BY <1>0, <1>2, <3>1
  <2>6. CASE Stops(g)
    <3>1. CASE task[g].phase = "live"
      <4>1. now <= task[g].beat + Beat
        BY <1>0, <3>1
      <4> QED
        BY <1>0, <1>2, <2>6, <3>1, <4>1 DEF Stops
    <3>2. CASE task[g].phase = "aborting"
      BY <1>0, <1>2, <2>6, <3>2 DEF Stops
    <3> QED
      BY <2>6, <3>1, <3>2 DEF Stops
  <2>7. CASE Leaves(g)
    BY <2>7 DEF Leaves
  <2> QED
    BY <1>0, <2>1, <2>2, <2>3, <2>4, <2>5, <2>6, <2>7, EveryTask DEF TaskEffect
<1> QED
  BY <1>0, <1>1, <1>2, NowStays

LEMMA OnTimeStep == ASSUME WInv, [WorkerNext]_allVars PROVE OnTime'
  BY LoopsOnTime, TasksOnTime DEF OnTime, Timed

-----------------------------------------------------------------------------
(* What the loop holds.                                                    *)

\* A claim that is in hand and stays there keeps its loop.
LEMMA HeldStays ==
  ASSUME WInv, [WorkerNext]_allVars, NEW g \in Grant,
         task[g].phase = "held", task'[g].phase = "held"
  PROVE  /\ task'[g] = task[g]
         /\ loop'[task[g].worker] \in {"granted", "cleared"}
         /\ until'[task[g].worker] = until[task[g].worker]
<1> DEFINE w == task[g].worker
<1>0. /\ TypeOK /\ WorkerTypeOK /\ CallsFit /\ Numbered
      /\ w \in Worker /\ loop[w] \in {"granted", "cleared"}
      /\ loop \in [Worker -> LoopPhase] /\ until \in [Worker -> Nat] /\ task[g] \in Task
  BY DEF WInv, IInv, InHand, WorkerTypeOK
<1>1. task'[g] = task[g]
  <2>1. TaskEffect(g)
    BY <1>0, EveryTask
  <2> QED
    BY <2>1, <1>0 DEF TaskEffect, Takes, Begins, Beats, Extends, Stops, Leaves, Task
<1>2. ASSUME UNCHANGED <<loop, until>>
      PROVE loop'[w] \in {"granted", "cleared"} /\ until'[w] = until[w]
  BY <1>0, <1>2
<1>3. ASSUME NEW v \in Worker, v # w, NEW p, NEW u, Goto(v, p, u)
      PROVE loop'[w] \in {"granted", "cleared"} /\ until'[w] = until[w]
  BY <1>0, <1>3 DEF Goto
<1>4. ASSUME NEW v \in Worker, LoopStep(v)
      PROVE loop'[w] \in {"granted", "cleared"} /\ until'[w] = until[w]
  <2>1. CASE v # w
    <3>1. \E p, u : Goto(v, p, u)
      BY <1>4 DEF LoopStep, Start, StoreError, Ask, Check, Spawn, Wake, Recover, Claim,
                  OrphanedClaim
    <3> QED
      BY <1>3, <2>1, <3>1
  <2>2. CASE v = w
    <3>1. Check(w) \/ Spawn(w)
      BY <1>0, <1>4, <2>2 DEF LoopStep, Start, StoreError, Ask, Wake, Recover, Claim,
                              OrphanedClaim
    <3>2. g \in Held(w)
      BY DEF Held
    <3>3. ASSUME Check(w) PROVE Goto(w, "cleared", until[w])
      <4>1. Dropped(w)[g] = Spent
        BY <3>2 DEF Dropped
      <4>2. task' # Dropped(w)
        BY <1>1, <4>1 DEF Spent, NoTask
      <4> QED
        BY <3>3, <4>2 DEF Check
    <3>4. ~Spawn(w)
      <4>1. \A h \in Held(w) : h = g
        BY DEF Held, WInv, InHand
      <4>2. ASSUME NEW h \in Grant, h = g, NEW verdict,
                   \/ task' = [task EXCEPT ![h].phase = "live", ![h].beat = FirstBeat,
                                           ![h].due = now + Patience]
                   \/ task' = [task EXCEPT ![h].phase = "reporting", ![h].call = verdict]
            PROVE task'[g].phase # "held"
        BY <1>0, <4>2 DEF WorkerTypeOK, Task
      <4> QED
        BY <3>2, <4>1, <4>2 DEF Spawn, Held
    <3> QED
      BY <1>0, <3>1, <3>3, <3>4 DEF Goto
  <2> QED
    BY <2>1, <2>2
<1>5. ASSUME NEW v \in Worker, HaltStep(v)
      PROVE loop'[w] \in {"granted", "cleared"} /\ until'[w] = until[w]
  <2>1. CASE Signal(v) \/ SettleAndTell(v)
    BY <1>2, <2>1 DEF Signal, SettleAndTell
  <2>2. CASE Refused(v) \/ Drained(v)
    <3>1. v # w /\ \E p, u : Goto(v, p, u)
      BY <1>0, <2>2 DEF Refused, Drained
    <3> QED
      BY <1>3, <3>1
  <2>3. CASE Leave(v) \/ Abort(v) \/ Crash(v)
    <3>1. \E p, u : Goto(v, p, u)
      BY <2>3 DEF Leave, Abort, Crash
    <3>2. CASE v = w
      <4>1. Dropped(w)[g].phase = "over" /\ Past(task[g]).phase = "over" /\ Spent.phase = "over"
        BY <1>0 DEF Dropped, Held, Past, Spent, NoTask, Task
      <4>2. task'[g].phase = "over"
        BY <2>3, <3>2, <4>1 DEF Leave, Abort, Crash
      <4> QED
        BY <1>1, <4>2
    <3> QED
      BY <1>3, <3>1, <3>2
  <2> QED
    BY <1>5, <2>1, <2>2, <2>3 DEF HaltStep
<1>6. ASSUME NEW h \in Grant, TaskStep(h) PROVE UNCHANGED <<loop, until>>
  BY <1>6 DEF TaskStep, Finish, Expire, Heartbeat, NotRenewed, GiveUp, Stopped, RenewalDone,
              Reported
<1> QED
  BY <1>1, <1>2, <1>4, <1>5, <1>6 DEF WorkerNext, WorkerTick, Others, workerVars, allVars

\* A step makes at most one claim.
LEMMA OneClaim ==
  ASSUME TypeOK, [Next]_vars, NEW g \in New, NEW h \in New PROVE g = h
<1>0. /\ g \in Grant /\ h \in Grant /\ g[1] \in Id /\ h[1] \in Id
      /\ claims'[g[1]] = claims[g[1]] + 1 /\ claims'[h[1]] = claims[h[1]] + 1
      /\ g[2] = claims[g[1]] + 1 /\ h[2] = claims[h[1]] + 1
      /\ claims \in [Id -> Nat]
  BY GrantType DEF New, TypeOK
<1>1. claims' # claims
  BY <1>0
<1>2. \E t \in Recent, x \in Targets, d \in Leases : ClaimNext(x, t, d)
  BY <1>1 DEF Next, vars, Tick, storeVars, Corrupt, CancelScoped, Enqueue, RecoverExpired,
              Complete, RenewLease, Fail
<1>3. PICK i : claims' = [claims EXCEPT ![i] = @ + 1]
  BY <1>1, <1>2 DEF ClaimNext
<1>4. g[1] = i /\ h[1] = i
  BY <1>0, <1>3
<1> QED
  BY <1>0, <1>4 DEF Grant

LEMMA InHandStep == ASSUME WInv, [WorkerNext]_allVars PROVE InHand'
<1>0. /\ TypeOK /\ WorkerTypeOK /\ CallsFit /\ Numbered
      /\ \A g \in Grant : TaskEffect(g) /\ task[g] \in Task
  BY EveryTask DEF WInv, IInv, WorkerTypeOK
<1>1. ASSUME NEW g \in Grant, task'[g].phase = "held" PROVE task[g].phase = "held" \/ Takes(g)
  <2>1. TaskEffect(g) /\ task[g] \in Task
    BY <1>0
  <2> QED
    BY <1>1, <2>1 DEF TaskEffect, Begins, Beats, Extends, Stops, Leaves, Task
<1>2. ASSUME NEW g \in Grant, task'[g].phase = "held"
      PROVE task'[g].worker \in Worker /\ loop'[task'[g].worker] \in {"granted", "cleared"}
  <2>1. CASE task[g].phase = "held"
    BY <1>2, <2>1, HeldStays DEF WInv, InHand
  <2>2. CASE Takes(g)
    BY <2>2 DEF Takes, NoTask
  <2> QED
    BY <1>1, <1>2, <2>1, <2>2
<1>3. ASSUME NEW g \in Grant, NEW h \in Grant, Takes(g), task[h].phase = "held",
             task'[h].phase = "held"
      PROVE task'[g].worker # task'[h].worker
  <2>1. loop[task'[g].worker] = "asking"
    BY <1>3 DEF Takes, NoTask
  <2>2. loop[task'[h].worker] \in {"granted", "cleared"}
    BY <1>3, HeldStays DEF WInv, InHand
  <2> QED
    BY <2>1, <2>2
<1>4. ASSUME NEW g \in Grant, NEW h \in Grant, task'[g].phase = "held", task'[h].phase = "held",
             task'[g].worker = task'[h].worker
      PROVE g = h
  <2>1. CASE Takes(g) /\ Takes(h)
    BY <1>0, <2>1, StoreStep, OneClaim DEF Takes
  <2>2. CASE task[g].phase = "held" /\ task[h].phase = "held"
    BY <1>4, <2>2, HeldStays DEF WInv, InHand
  <2> QED
    BY <1>1, <1>3, <1>4, <2>1, <2>2
<1> QED
  BY <1>2, <1>4 DEF InHand

-----------------------------------------------------------------------------
(* The lease covers the handler.                                           *)

\* What the store may do to a row that is leased to a task at work.
LEMMA StoreKeeps ==
  ASSUME TypeOK, NEW g \in Grant, NEW u \in Int, now < u, Covered(g, u),
         \/ UNCHANGED row
         \/ \E t \in Recent : RecoverExpired(Target, t) \/ ClaimNext(Target, t, Lease)
         \/ \E i \in Id : Corrupt(i) \/ \E t \in Recent : Enqueue(i, t)
         \/ \E c \in Corrs : CancelScoped(c)
         \/ \E h \in Grant, t \in Recent :
              /\ h # g
              /\ \/ RenewLease(h[1], h[2], t, Lease) \/ Complete(h[1], h[2], t)
                 \/ \E b \in BOOLEAN : Fail(h[1], h[2], t, b)
  PROVE  Covered(g, u)'
<1> DEFINE i == g[1]
<1>0. /\ i \in Id /\ row \in [Id -> Row] /\ row[i] \in Row /\ now \in Nat
      /\ row[i].expires \in Nat
      /\ row[i].status \in Terminal \/ row[i].status = "leased"
      /\ row[i].status = "leased" => row[i].token = g[2] /\ row[i].expires >= u
  BY GrantType DEF TypeOK, Covered, Row, Terminal
<1>1. CASE row'[i] = row[i]
  BY <1>1 DEF Covered
<1>2. ASSUME row'[i].status \in Terminal PROVE Covered(g, u)'
  BY <1>2 DEF Covered
<1>3. ASSUME NEW t \in Recent
      PROVE /\ RecoveredTable(Target, t) \in [Id -> Row]
            /\ ~Claimable(RecoveredTable(Target, t), i, Target, t)
            /\ \/ RecoveredTable(Target, t)[i] = row[i]
               \/ RecoveredTable(Target, t)[i].status \in Terminal
  <2>1. t \in Nat /\ t <= now
    BY RecentType
  <2>2. RecoveredTable(Target, t)[i] = Recovered(i, Target, t)
        /\ RecoveredTable(Target, t) \in [Id -> Row]
    BY <1>0, <2>1, TableType
  <2>3. row[i].status = "leased" => ~(row[i].expires <= t)
    BY <1>0, <2>1
  <2>4. Ended(row[i], "dead_letter").status = "dead_letter"
    BY <1>0, RowAfter
  <2>5. Recovered(i, Target, t) = row[i] \/ Recovered(i, Target, t).status = "dead_letter"
    BY <1>0, <2>1, <2>3, <2>4 DEF Recovered
  <2> QED
    BY <1>0, <2>2, <2>5 DEF Claimable, Terminal
<1>4. ASSUME NEW t \in Recent, RecoverExpired(Target, t) PROVE Covered(g, u)'
  BY <1>1, <1>2, <1>3, <1>4 DEF RecoverExpired
<1>5. ASSUME NEW t \in Recent, ClaimNext(Target, t, Lease) PROVE Covered(g, u)'
  <2>1. row'[i] = RecoveredTable(Target, t)[i]
    <3>1. CASE row' = RecoveredTable(Target, t)
      BY <3>1
    <3>2. ASSUME NEW j \in FirstInLine(RecoveredTable(Target, t), Target, t), NEW r,
                 row' = [RecoveredTable(Target, t) EXCEPT ![j] = r]
          PROVE row'[i] = RecoveredTable(Target, t)[i]
      <4>1. j # i
        BY <1>3 DEF FirstInLine
      <4> QED
        BY <1>0, <1>3, <3>2, <4>1
    <3> QED
      BY <1>5, <3>1, <3>2 DEF ClaimNext
  <2> QED
    BY <1>1, <1>2, <1>3, <2>1
<1>6. ASSUME NEW j \in Id, Corrupt(j) \/ \E t \in Recent : Enqueue(j, t)
      PROVE Covered(g, u)'
  <2>1. CASE j # i
    BY <1>0, <1>1, <1>6, <2>1 DEF Corrupt, Enqueue
  <2>2. CASE j = i /\ Corrupt(i)
    <3>1. /\ row'[i].status = row[i].status /\ row'[i].token = row[i].token
          /\ row'[i].expires = row[i].expires
      BY <1>0, <2>2 DEF Corrupt, Row
    <3> QED
      BY <3>1 DEF Covered
  <2>3. CASE j = i /\ \E t \in Recent : Enqueue(i, t)
    BY <1>0, <2>3 DEF Enqueue, Terminal
  <2> QED
    BY <1>6, <2>1, <2>2, <2>3
<1>7. ASSUME NEW c \in Corrs, CancelScoped(c) PROVE Covered(g, u)'
  <2>1. PICK j \in Id : row' = [row EXCEPT ![j] = Ended(row[j], "canceled")]
    BY <1>7 DEF CancelScoped
  <2>2. CASE j # i
    BY <1>0, <1>1, <2>1, <2>2
  <2>3. CASE j = i
    BY <1>0, <1>2, <2>1, <2>3, RowAfter DEF Terminal
  <2> QED
    BY <2>2, <2>3
<1>8. ASSUME NEW h \in Grant, NEW t \in Recent, h # g,
             \/ RenewLease(h[1], h[2], t, Lease) \/ Complete(h[1], h[2], t)
             \/ \E b \in BOOLEAN : Fail(h[1], h[2], t, b)
      PROVE Covered(g, u)'
  <2>1. h[1] = i => h[2] # g[2]
    BY <1>8 DEF Grant
  <2>2. HoldsLease(h[1], h[2], t) /\ \E r : row' = [row EXCEPT ![h[1]] = r]
    BY <1>8 DEF RenewLease, Complete, Fail
  <2>3. h[1] # i
    BY <1>0, <2>1, <2>2 DEF HoldsLease, Terminal
  <2> QED
    BY <1>0, <1>1, <2>2, <2>3
<1> QED
  BY <1>1, <1>4, <1>5, <1>6, <1>7, <1>8

\* A task that stays at work is covered as before, whatever anyone does, or its
\* lease is renewed.
LEMMA CoverKept ==
  ASSUME WInv, [WorkerNext]_allVars, NEW g \in Grant, AtWork(g), AtWork(g)',
         NEW u \in Int, u = Secured(g)
  PROVE  Covered(g, u)' \/ Extends(g)
<1>0. /\ TypeOK /\ WorkerTypeOK /\ CallsFit /\ Numbered /\ now < u /\ Covered(g, u)
      /\ task[g] \in Task /\ TaskEffect(g)
  BY EveryTask, SecuredAhead DEF WInv, IInv, Covers, WorkerTypeOK
<1>a. UNCHANGED row => Covered(g, u)'
  BY <1>0 DEF Covered
<1>1. CASE UNCHANGED allVars \/ WorkerTick
  BY <1>1, <1>a DEF allVars, WorkerTick, Tick, storeVars
<1>2. CASE Others
  BY <1>0, <1>2, StoreKeeps DEF Others
<1>3. ASSUME NEW w \in Worker, LoopStep(w) PROVE Covered(g, u)'
  <2>1. UNCHANGED vars \/ \E t \in Recent : RecoverExpired(Target, t) \/ ClaimNext(Target, t, Lease)
    BY <1>3 DEF LoopStep, Start, StoreError, Ask, Check, Spawn, Wake, Recover, Claim,
                OrphanedClaim
  <2> QED
    BY <1>0, <1>a, <2>1, StoreKeeps DEF vars
<1>4. ASSUME NEW w \in Worker, HaltStep(w) PROVE Covered(g, u)'
  BY <1>4, <1>a DEF HaltStep, Signal, SettleAndTell, Refused, Leave, Drained, Abort, Crash, vars
<1>5. ASSUME NEW h \in Grant, TaskStep(h), h # g PROVE Covered(g, u)'
  <2>1. CASE UNCHANGED vars
    BY <1>a, <2>1 DEF vars
  <2>2. ASSUME NEW t \in Recent, RenewalDone(h, t) \/ Reported(h, t), ~UNCHANGED vars
        PROVE Covered(g, u)'
    <3>1. \/ RenewLease(h[1], h[2], t, Lease) \/ Complete(h[1], h[2], t)
          \/ \E b \in BOOLEAN : Fail(h[1], h[2], t, b)
      BY <2>2 DEF RenewalDone, Reported
    <3> QED
      BY <1>0, <1>5, <3>1, StoreKeeps
  <2> QED
    BY <1>5, <2>1, <2>2
       DEF TaskStep, Finish, Expire, Heartbeat, NotRenewed, GiveUp, Stopped
<1>6. ASSUME TaskStep(g) PROVE Covered(g, u)' \/ Extends(g)
  <2>1. CASE UNCHANGED vars
    BY <1>a, <2>1 DEF vars
  <2>2. ASSUME NEW t \in Recent, RenewalDone(g, t) PROVE Extends(g)
    <3>1. task[g].call = "renew" /\ task[g].phase \in {"live", "aborting"}
      BY <1>0, <2>2 DEF RenewalDone, CallsFit, AtWork
    <3>2. task'[g] = [task[g] EXCEPT !.call = "none", !.beat = @ + Beat]
      BY <2>2, <3>1, <1>0 DEF RenewalDone, Become, WorkerTypeOK
    <3>3. task'[g].call = "none"
      BY <1>0, <3>2 DEF Task
    <3>4. task'[g] # task[g]
      BY <3>1, <3>3
    <3>5. CASE Stops(g)
      <4>1. task'[g].beat = task[g].beat + Beat
        BY <1>0, <3>2 DEF Task
      <4> QED
        BY <1>0, <3>5, <4>1, Numbers DEF Stops, Task
    <3> QED
      BY <1>0, <3>1, <3>3, <3>4, <3>5 DEF TaskEffect, Takes, Begins, Beats, Leaves, AtWork
  <2>3. ASSUME NEW t \in Recent, Reported(g, t) PROVE FALSE
    BY <1>0, <2>3 DEF Reported, CallsFit, AtWork
  <2> QED
    BY <1>6, <2>1, <2>2, <2>3
       DEF TaskStep, Finish, Expire, Heartbeat, NotRenewed, GiveUp, Stopped
<1> QED
  BY <1>1, <1>2, <1>3, <1>4, <1>5, <1>6 DEF WorkerNext

LEMMA CoversStep == ASSUME WInv, [WorkerNext]_allVars PROVE Covers'
<1> SUFFICES ASSUME NEW g \in Grant, AtWork(g)' PROVE Covered(g, Secured(g))'
  BY DEF Covers
<1>0. /\ TypeOK /\ WorkerTypeOK /\ TaskEffect(g) /\ task[g] \in Task /\ task[g].beat \in Nat
      /\ until \in [Worker -> Nat] /\ TypeOK' /\ row'[g[1]].expires \in Nat
  BY EveryTask, StoreStep, TypeStep, GrantType DEF WInv, IInv, WorkerTypeOK, TypeOK, Task, Row
<1>a. ASSUME NEW u \in Int, NEW v \in Int, v <= u, Covered(g, u)' PROVE Covered(g, v)'
  BY <1>0, <1>a DEF Covered
<1>1. CASE Takes(g)
  <2>1. PICK w \in Worker :
          /\ until'[w] = until[w]
          /\ task'[g] = [NoTask EXCEPT !.worker = w, !.phase = "held"]
          /\ row'[g[1]].status = "leased" /\ row'[g[1]].token = g[2]
          /\ row'[g[1]].expires + ClaimTime >= until[w] + Lease
    BY <1>1 DEF Takes
  <2>2. task'[g].phase = "held" /\ task'[g].worker = w
    BY <2>1 DEF NoTask
  <2>3. Secured(g)' = until[w] + Lease - ClaimTime
    BY <2>1, <2>2 DEF Secured
  <2>4. until[w] \in Nat /\ row'[g[1]].expires >= until[w] + Lease - ClaimTime
    BY <1>0, <2>1, Numbers
  <2> QED
    BY <2>1, <2>3, <2>4 DEF Covered
<1>2. CASE Extends(g)
  <2>1. task'[g].phase = task[g].phase /\ task'[g].beat = task[g].beat + Beat
    BY <1>0, <1>2 DEF Extends, Task
  <2>2. Secured(g)' = task[g].beat + Beat + Lease - Beat - ClaimTime
    BY <1>2, <2>1 DEF Secured, Extends
  <2>3. row'[g[1]].expires >= Secured(g)'
    BY <1>0, <1>2, <2>2, Numbers DEF Extends
  <2> QED
    BY <1>2, <2>3 DEF Covered, Extends
<1>3. CASE ~Takes(g) /\ ~Extends(g)
  <2>1. AtWork(g)
    BY <1>0, <1>3 DEF TaskEffect, Begins, Beats, Stops, Leaves, AtWork
  <2>2. Secured(g) \in Int /\ Secured(g) > now
    BY <2>1, SecuredAhead
  <2>4. PICK u \in Int : u = Secured(g)
    BY <2>2
  <2>5. Covered(g, u)'
    BY <1>3, <2>1, <2>4, CoverKept
  <2>6. Secured(g)' \in Int /\ Secured(g)' <= u
    <3>1. CASE task'[g] = task[g]
      <4>1. CASE task[g].phase = "held"
        <5>1. until'[task[g].worker] = until[task[g].worker]
          BY <3>1, <4>1, HeldStays
        <5> QED
          BY <2>2, <2>4, <3>1, <4>1, <5>1 DEF Secured
      <4>2. CASE task[g].phase # "held"
        BY <2>2, <2>4, <3>1, <4>2 DEF Secured
      <4> QED
        BY <4>1, <4>2
    <3>2. CASE Begins(g)
      <4>1. task'[g].phase = "live" /\ task'[g].beat = now + Beat /\ now \in Nat
        BY <1>0, <3>2 DEF Begins, Task, TypeOK
      <4>2. task[g].phase = "held" /\ task[g].worker \in Worker
            /\ loop[task[g].worker] \in Timed
        BY <3>2 DEF Begins, WInv, InHand, Timed
      <4>3. now <= until[task[g].worker] /\ until[task[g].worker] \in Nat
        BY <1>0, <4>2 DEF WInv, OnTime
      <4>4. Secured(g)' = now + Beat + Lease - Beat - ClaimTime
        BY <4>1 DEF Secured
      <4>5. Secured(g) = until[task[g].worker] + Lease - ClaimTime
        BY <4>2 DEF Secured
      <4> QED
        BY <2>4, <4>1, <4>3, <4>4, <4>5, Numbers
    <3>3. CASE Beats(g) \/ Stops(g)
      <4>1. /\ task'[g].phase \in {"live", "aborting"} /\ task[g].phase \in {"live", "aborting"}
            /\ task'[g].beat = task[g].beat
        BY <1>0, <3>3 DEF Beats, Stops, Task
      <4> QED
        BY <2>2, <2>4, <4>1 DEF Secured
    <3>4. CASE Leaves(g)
      BY <3>4 DEF Leaves, AtWork
    <3> QED
      BY <1>0, <1>3, <3>1, <3>2, <3>3, <3>4 DEF TaskEffect
  <2>7. PICK v \in Int : v = Secured(g)'
    BY <2>6
  <2>8. Covered(g, v)'
    BY <1>a, <2>5, <2>6, <2>7
  <2> QED
    BY <2>7, <2>8 DEF Covered
<1> QED
  BY <1>1, <1>2, <1>3

LEMMA OneAtWorkStep == ASSUME WInv, [WorkerNext]_allVars PROVE OneAtWork'
<1>0. TypeOK /\ WorkerTypeOK /\ CallsFit /\ Numbered
  BY DEF WInv, IInv
<1>1. ASSUME NEW g \in Grant, AtWork(g)' PROVE AtWork(g) \/ Takes(g)
  BY <1>0, <1>1, EveryTask DEF TaskEffect, Begins, Beats, Extends, Stops, Leaves, AtWork
<1>2. ASSUME NEW g \in Grant, NEW h \in Grant, Takes(g), AtWork(h), g[1] = h[1] PROVE FALSE
  <2>1. PICK t \in Recent : Claimable(RecoveredTable(Target, t), g[1], Target, t)
    BY <1>2 DEF Takes
  <2>2. /\ Secured(h) \in Int /\ Secured(h) > now /\ Covered(h, Secured(h)) /\ t \in Nat /\ t <= now
        /\ now \in Nat /\ h[1] \in Id /\ row[h[1]] \in Row /\ row[h[1]].expires \in Nat
    BY <1>0, <1>2, SecuredAhead, RecentType, GrantType DEF WInv, Covers, TypeOK, Row
  <2>3. RecoveredTable(Target, t)[h[1]] = Recovered(h[1], Target, t)
    BY <1>0, <2>2, TableType
  <2>4. Ended(row[h[1]], "dead_letter").status = "dead_letter"
    BY <2>2, RowAfter
  <2>5. row[h[1]].status = "leased" => ~(row[h[1]].expires <= t)
    BY <2>2 DEF Covered, Terminal
  <2>6. Recovered(h[1], Target, t).status # "pending"
    BY <2>2, <2>4, <2>5 DEF Recovered, Covered, Terminal
  <2> QED
    BY <1>2, <2>1, <2>3, <2>6 DEF Claimable
<1>3. ASSUME NEW g \in Grant, NEW h \in Grant, Takes(g), Takes(h) PROVE g = h
  BY <1>0, <1>3, StoreStep, OneClaim DEF Takes
<1>4. ASSUME NEW g \in Grant, NEW h \in Grant, AtWork(g)', AtWork(h)', g[1] = h[1]
      PROVE g = h
  <2>1. (AtWork(g) \/ Takes(g)) /\ (AtWork(h) \/ Takes(h))
    BY <1>1, <1>4
  <2>2. CASE AtWork(g) /\ AtWork(h)
    BY <1>4, <2>2 DEF WInv, OneAtWork
  <2> QED
    BY <1>2, <1>3, <1>4, <2>1, <2>2
<1> QED
  BY <1>4 DEF OneAtWork

LEMMA WInvInit == WorkerInit => WInv
<1> SUFFICES ASSUME WorkerInit PROVE WInv
  OBVIOUS
<1>1. IInv
  BY InvInit DEF WorkerInit
<1>2. \A g \in Grant : task[g] = NoTask
  BY DEF WorkerInit
<1>3. WorkerTypeOK
  BY SpentType DEF WorkerInit, WorkerTypeOK, LoopPhase, HaltPhase
<1>4. \A w \in Worker : loop[w] = "off"
  BY DEF WorkerInit
<1> QED
  BY <1>1, <1>2, <1>3, <1>4
     DEF WInv, CallsFit, Numbered, OnTime, InHand, Covers, OneAtWork, AtWork, NoTask, Timed, Report

LEMMA WInvStep == WInv /\ [WorkerNext]_allVars => WInv'
<1> SUFFICES ASSUME WInv, [WorkerNext]_allVars PROVE WInv'
  OBVIOUS
<1>1. IInv'
  BY StoreStep, InvStep DEF WInv, IInv
<1>2. WorkerTypeOK'
  BY WorkerTypeStep DEF WInv, IInv
<1> QED
  BY <1>1, <1>2, CallsStep, OnTimeStep, InHandStep, CoversStep, OneAtWorkStep DEF WInv

THEOREM WorkerInvariant == WorkerSpec => []WInv
  BY WInvInit, WInvStep, PTL DEF WorkerSpec

\* Every variable of the workers has its type, through every action.
THEOREM WorkerTypeCorrect == WorkerSpec => []WorkerTypeOK
<1>1. WInv => WorkerTypeOK
  BY DEF WInv
<1> QED
  BY <1>1, WorkerInvariant, PTL

\* What workers do to the store, over any number of workers, shutdowns and
\* crashes, is what WorkQueue allows, so its theorems hold here.
THEOREM WorkersUseTheStore == WorkerSpec => StoreSpec
<1>1. WorkerInit => Init
  BY DEF WorkerInit
<1>2. WInv /\ [WorkerNext]_allVars => [Next]_vars
  BY StoreStep DEF WInv, IInv
<1> QED
  BY <1>1, <1>2, WorkerInvariant, PTL DEF WorkerSpec, StoreSpec

\* So every work item has one outcome, whoever works on it.
THEOREM WorkersKeepTheLifecycle == WorkerSpec => Lifecycle
<1>1. Spec <=> StoreSpec
  BY DEF Spec, StoreSpec
<1> QED
  BY <1>1, WorkersUseTheStore, Implements

\* process_item's heartbeat, renewal budget and time-out keep a handler within
\* its lease, for every combination of limits WorkWorkerLimits::new accepts that
\* leaves ClaimTime and Yield.
THEOREM LeaseCovers == WorkerSpec => []LeaseCoversHandler
<1>1. WInv => LeaseCoversHandler
  <2> SUFFICES ASSUME WInv, NEW g \in Grant, Alive(g)
               PROVE \/ row[g[1]].status \in Terminal
                     \/ /\ row[g[1]].status = "leased" /\ row[g[1]].token = g[2]
                        /\ row[g[1]].expires > now
    BY DEF LeaseCoversHandler
  <2>1. AtWork(g)
    BY DEF Alive, AtWork
  <2>2. Covered(g, Secured(g)) /\ Secured(g) \in Int /\ Secured(g) > now
    BY <2>1, SecuredAhead DEF WInv, Covers
  <2>3. row[g[1]].expires \in Nat /\ now \in Nat
    BY GrantType DEF WInv, IInv, TypeOK, Row
  <2> QED
    BY <2>2, <2>3 DEF Covered
<1> QED
  BY <1>1, WorkerInvariant, PTL

\* No two handlers of one item, across workers, lease losses and shutdowns.
THEOREM OneHandlerOnly == WorkerSpec => []OneHandler
<1>1. WInv => OneHandler
  BY DEF WInv, OneAtWork, AtWork, OneHandler, Alive
<1> QED
  BY <1>1, WorkerInvariant, PTL

-----------------------------------------------------------------------------
(* Nobody sleeps over work.                                                *)

\* A loop that waits wakes within a poll interval.
WakesSoon == \A w \in Worker : loop[w] = "waiting" => until[w] <= now + Poll

\* A row that waits or is leased after a step did so before and is due no
\* earlier, or it is due now, clocks that lag allowed for.
LEMMA DueLater ==
  ASSUME TypeOK, [WorkerNext]_allVars, NEW i \in Id, row'[i].status \in {"pending", "leased"}
  PROVE  \/ row[i].status \in {"pending", "leased"} /\ Due(i)' >= Due(i)
         \/ Due(i)' + ClaimTime >= now
<1>0. /\ row \in [Id -> Row] /\ row[i] \in Row /\ row[i].expires \in Nat /\ now \in Nat
      /\ row[i].available \in Nat /\ row[i].attempts \in Nat /\ claims[i] \in Nat
  BY DEF TypeOK, Row
<1>a. \A t \in Recent : t \in Nat /\ t + ClaimTime >= now /\ t + Lease + ClaimTime >= now
  BY RecentType, Numbers, <1>0
<1>b. ASSUME row'[i] = row[i] PROVE Due(i)' >= Due(i) /\ row[i].status \in {"pending", "leased"}
  BY <1>0, <1>b DEF Due
<1>c. \A s \in Terminal : s \notin {"pending", "leased"}
  BY DEF Terminal
<1>d. ASSUME NEW r \in Row, NEW s \in Terminal, row'[i] = Ended(r, s) PROVE FALSE
  BY <1>c, <1>d, RowAfter
<1>e. ASSUME NEW r \in Row, NEW u, NEW t \in Recent, u \in Nat, u >= t, row'[i] = Requeued(r, u)
      PROVE Due(i)' + ClaimTime >= now
  <2>1. row'[i].status = "pending" /\ row'[i].available = u
    BY <1>e DEF Requeued, Row
  <2> QED
    BY <1>0, <1>a, <1>e, <2>1, Numbers DEF Due
<1>f. ASSUME NEW t \in Recent
      PROVE /\ RecoveredTable(Target, t) \in [Id -> Row]
            /\ RecoveredTable(Target, t)[i] \in {row[i], Ended(row[i], "dead_letter"), Requeued(row[i], t)}
  BY <1>a, TableType DEF Recovered
<1> DEFINE Goal == \/ row[i].status \in {"pending", "leased"} /\ Due(i)' >= Due(i)
                   \/ Due(i)' + ClaimTime >= now
<1>g. ASSUME NEW t \in Recent, row'[i] = RecoveredTable(Target, t)[i] PROVE Goal
  <2>1. CASE row'[i] = Requeued(row[i], t)
    <3>1. t \in Nat /\ t >= t
      BY <1>a
    <3> QED
      BY <1>0, <1>e, <2>1, <3>1
  <2> QED
    BY <1>0, <1>b, <1>d, <1>f, <1>g, <2>1 DEF Terminal
<1>1. CASE UNCHANGED row
  BY <1>1, <1>b
<1>2. ASSUME NEW t \in Recent, RecoverExpired(Target, t) PROVE Goal
  BY <1>2, <1>g DEF RecoverExpired
<1>3. ASSUME NEW t \in Recent, ClaimNext(Target, t, Lease) PROVE Goal
  <2>1. CASE row'[i] = RecoveredTable(Target, t)[i]
    BY <1>g, <2>1
  <2>2. ASSUME NEW r \in Row, NEW n, row'[i] = LeasedUntil(r, n, t + Lease) PROVE Goal
    <3>1. row'[i].status = "leased" /\ row'[i].expires = t + Lease
      BY <2>2, RowAfter
    <3> QED
      BY <1>a, <3>1 DEF Due
  <2>3. CASE row'[i] # RecoveredTable(Target, t)[i]
    <3>1. RecoveredTable(Target, t) \in [Id -> Row] /\ RecoveredTable(Target, t)[i] \in Row
      BY <1>f
    <3>2. \/ row'[i] = LeasedUntil(RecoveredTable(Target, t)[i], claims[i] + 1, t + Lease)
          \/ row'[i] = Ended(RecoveredTable(Target, t)[i], "dead_letter")
      BY <1>3, <2>3, <3>1 DEF ClaimNext, FirstInLine
    <3> QED
      BY <1>d, <2>2, <3>1, <3>2 DEF Terminal
  <2> QED
    BY <2>1, <2>3
<1>4. ASSUME NEW j \in Id, Corrupt(j) PROVE Goal
  <2>1. CASE j # i
    BY <1>0, <1>4, <1>b, <2>1 DEF Corrupt
  <2>2. CASE j = i
    <3>1. /\ row'[i].status = row[i].status /\ row'[i].expires = row[i].expires
          /\ row'[i].available = row[i].available
      BY <1>0, <1>4, <2>2 DEF Corrupt, Row
    <3> QED
      BY <1>0, <3>1 DEF Due
  <2> QED
    BY <2>1, <2>2
<1>5. ASSUME NEW j \in Id, NEW t \in Recent, Enqueue(j, t) PROVE Goal
  <2>1. CASE j # i
    BY <1>0, <1>5, <1>b, <2>1 DEF Enqueue
  <2>2. CASE j = i
    <3>1. row'[i].status = "pending" /\ row'[i].available = t
      BY <1>0, <1>5, <2>2 DEF Enqueue, NoRow
    <3> QED
      BY <1>a, <3>1 DEF Due
  <2> QED
    BY <2>1, <2>2
<1>6. ASSUME NEW c \in Corrs, CancelScoped(c) PROVE Goal
  <2>1. PICK j \in Id : row' = [row EXCEPT ![j] = Ended(row[j], "canceled")]
    BY <1>6 DEF CancelScoped
  <2> QED
    BY <1>0, <1>b, <1>d, <2>1 DEF Terminal
<1>7. ASSUME NEW g \in Grant, NEW t \in Recent, RenewLease(g[1], g[2], t, Lease) PROVE Goal
  <2>1. CASE g[1] # i
    BY <1>0, <1>7, <1>b, <2>1 DEF RenewLease
  <2>2. CASE g[1] = i
    <3>1. row'[i].status = "leased" /\ row'[i].expires = t + Lease
      BY <1>0, <1>7, <2>2 DEF RenewLease, HoldsLease, Row
    <3> QED
      BY <1>a, <3>1 DEF Due
  <2> QED
    BY <2>1, <2>2
<1>8. ASSUME NEW g \in Grant, NEW t \in Recent, Complete(g[1], g[2], t) PROVE Goal
  <2>1. row' = [row EXCEPT ![g[1]] = Ended(row[g[1]], "completed")]
    BY <1>8 DEF Complete
  <2> QED
    BY <1>0, <1>b, <1>d, <2>1 DEF Terminal
<1>9. ASSUME NEW g \in Grant, NEW t \in Recent, NEW b \in BOOLEAN, Fail(g[1], g[2], t, b) PROVE Goal
  <2>1. CASE g[1] # i
    BY <1>0, <1>9, <1>b, <2>1 DEF Fail
  <2>2. CASE g[1] = i
    <3>1. RetryDelay(row[i].attempts) \in Nat
      BY <1>0, DelayType
    <3>2. t + RetryDelay(row[i].attempts) \in Nat /\ t + RetryDelay(row[i].attempts) >= t
      BY <1>a, <3>1
    <3>3. \/ row'[i] = Requeued(row[i], t + RetryDelay(row[i].attempts))
          \/ row'[i] = [Ended(row[i], "dead_letter") EXCEPT !.available = t]
      BY <1>0, <1>9, <2>2 DEF Fail
    <3>4. [Ended(row[i], "dead_letter") EXCEPT !.available = t].status = "dead_letter"
      BY <1>0 DEF Ended, Row
    <3> QED
      BY <1>0, <1>e, <3>2, <3>3, <3>4
  <2> QED
    BY <2>1, <2>2
<1> HIDE DEF Goal
<1>10. ASSUME NEW w \in Worker, LoopStep(w) PROVE Goal
  <2>1. UNCHANGED vars \/ \E t \in Recent : RecoverExpired(Target, t) \/ ClaimNext(Target, t, Lease)
    BY <1>10 DEF LoopStep, Start, StoreError, Ask, Check, Spawn, Wake, Recover, Claim,
                 OrphanedClaim
  <2> QED
    BY <1>1, <1>2, <1>3, <2>1 DEF vars, Goal
<1>11. ASSUME NEW w \in Worker, HaltStep(w) PROVE UNCHANGED row
  BY <1>11 DEF HaltStep, Signal, SettleAndTell, Refused, Leave, Drained, Abort, Crash, vars
<1>12. ASSUME NEW g \in Grant, TaskStep(g) PROVE Goal
  <2>1. \/ UNCHANGED vars
        \/ \E t \in Recent : \/ RenewLease(g[1], g[2], t, Lease) \/ Complete(g[1], g[2], t)
                             \/ \E b \in BOOLEAN : Fail(g[1], g[2], t, b)
    BY <1>12 DEF TaskStep, Finish, Expire, Heartbeat, NotRenewed, GiveUp, Stopped, RenewalDone,
                 Reported
  <2> QED
    BY <1>1, <1>7, <1>8, <1>9, <2>1 DEF vars, Goal
<1>13. WorkerTick \/ UNCHANGED allVars => UNCHANGED row
  BY DEF WorkerTick, Tick, storeVars, allVars
<1>14. Others => Goal
  BY <1>4, <1>5, <1>6 DEF Others
<1> QED
  BY <1>1, <1>10, <1>11, <1>12, <1>13, <1>14 DEF WorkerNext, Goal

\* A claim that finds nothing leaves no row that is due.
LEMMA NothingDue ==
  ASSUME IInv, NEW t \in Recent, ClaimNext(Target, t, Lease),
         \A i \in Id : ~Claimable(RecoveredTable(Target, t), i, Target, t),
         NEW i \in Id, Draft[i].target = Target, row'[i].status \in {"pending", "leased"}
  PROVE  Due(i)' >= t
<1>0. /\ TypeOK /\ t \in Nat /\ row[i] \in Row /\ row[i].attempts \in Nat /\ row[i].expires \in Nat
      /\ row[i].available \in Nat
      /\ row[i].status = "pending" => row[i].attempts < Limit(i)
  BY RecentType DEF IInv, PendingIsClaimable, TypeOK, Row
<1>1. row' = RecoveredTable(Target, t)
  BY DEF ClaimNext, FirstInLine
<1>2. row'[i] = Recovered(i, Target, t)
  BY <1>0, <1>1, TableType
<1>3. ~(row'[i].status = "pending" /\ row'[i].available <= t /\ row'[i].attempts < Limit(i))
  BY <1>1 DEF Claimable
<1>4. CASE row[i].status # "leased"
  <2>1. row'[i] = row[i] /\ row[i].status = "pending"
    BY <1>2, <1>4 DEF Recovered
  <2> QED
    BY <1>0, <1>3, <2>1 DEF Due
<1>5. CASE row[i].status = "leased" /\ row'[i] = row[i] /\ ~(row[i].expires <= t)
  BY <1>0, <1>5 DEF Due
<1>6. CASE row'[i] = Requeued(row[i], t)
  <2>1. row'[i].status = "pending" /\ row'[i].available = t
    BY <1>0, <1>6, RowAfter DEF Requeued, Row
  <2> QED
    BY <1>0, <2>1 DEF Due
<1>7. Ended(row[i], "dead_letter").status = "dead_letter"
  BY <1>0, RowAfter
<1>8. CASE row[i].status = "leased"
  <2>1. \/ row'[i] = Ended(row[i], "dead_letter") \/ row'[i] = Requeued(row[i], t)
        \/ row'[i] = row[i] /\ row[i].expires > t
    BY <1>2, <1>8 DEF Recovered
  <2> QED
    BY <1>0, <1>5, <1>6, <1>7, <1>8, <2>1
<1> QED
  BY <1>4, <1>8

\* How a loop comes to wait: it has found nothing, or its worker is shutting down and
\* the claim was refused.
LEMMA Waiting ==
  ASSUME TypeOK, WorkerTypeOK, [WorkerNext]_allVars, NEW w \in Worker, loop'[w] = "waiting"
  PROVE  \/ loop[w] = "waiting" /\ until'[w] = until[w]
         \/ /\ until'[w] = now + Poll
            /\ \/ halt'[w] # "no"
               \/ \E t \in Recent :
                    /\ ClaimNext(Target, t, Lease)
                    /\ \A i \in Id : ~Claimable(RecoveredTable(Target, t), i, Target, t)
<1>0. loop \in [Worker -> LoopPhase] /\ until \in [Worker -> Nat]
  BY DEF WorkerTypeOK
<1>1. CASE UNCHANGED <<loop, until>>
  BY <1>1
<1>2. ASSUME NEW v \in Worker, NEW p, NEW u, Goto(v, p, u)
      PROVE \/ v = w /\ p = "waiting" /\ until'[w] = u
            \/ loop[w] = "waiting" /\ until'[w] = until[w]
  BY <1>0, <1>2 DEF Goto
<1>3. ASSUME NEW v \in Worker, NEW t \in Recent, Claim(v, t),
             ~(loop[w] = "waiting" /\ until'[w] = until[w])
      PROVE /\ until'[w] = now + Poll
            /\ \A i \in Id : ~Claimable(RecoveredTable(Target, t), i, Target, t)
  <2>1. CASE New # {}
    BY <1>2, <1>3, <2>1 DEF Claim
  <2>2. CASE New = {} /\ ~ \A i \in Id : ~Claimable(RecoveredTable(Target, t), i, Target, t)
    <3>1. Goto(v, "backoff", NextPoll)
      BY <1>3, <2>2 DEF Claim
    <3> QED
      BY <1>2, <1>3, <3>1
  <2>3. CASE New = {} /\ \A i \in Id : ~Claimable(RecoveredTable(Target, t), i, Target, t)
    BY <1>2, <1>3, <2>3 DEF Claim, NextPoll
  <2> QED
    BY <2>1, <2>2, <2>3
<1>4. ASSUME NEW v \in Worker, NEW p \in LoopPhase \ {"waiting"}, NEW u, Goto(v, p, u)
      PROVE loop[w] = "waiting" /\ until'[w] = until[w]
  BY <1>2, <1>4
<1>5. ASSUME NEW v \in Worker, LoopStep(v), ~ \E t \in Recent : Claim(v, t)
      PROVE loop[w] = "waiting" /\ until'[w] = until[w]
  <2>1. \E p \in LoopPhase \ {"waiting"} : \E u : Goto(v, p, u)
    BY <1>5 DEF LoopStep, Start, StoreError, Ask, Check, Spawn, Wake, Recover, OrphanedClaim,
                LoopPhase
  <2> QED
    BY <1>4, <2>1
<1>6. ASSUME NEW v \in Worker, HaltStep(v), ~UNCHANGED <<loop, until>>
      PROVE \/ loop[w] = "waiting" /\ until'[w] = until[w]
            \/ until'[w] = now + Poll /\ halt'[w] # "no"
  <2>1. CASE Goto(v, "waiting", NextPoll) /\ halt'[v] # "no"
    BY <1>2, <2>1 DEF NextPoll
  <2>2. CASE Refused(v) /\ loop[v] # "orphaned"
    BY <2>1, <2>2 DEF Refused
  <2>3. CASE ~(Refused(v) /\ loop[v] # "orphaned")
    <3>1. \E p \in LoopPhase \ {"waiting"} : \E u : Goto(v, p, u)
      BY <1>6, <2>3
      DEF HaltStep, Signal, SettleAndTell, Refused, Leave, Drained, Abort, Crash, LoopPhase
    <3> QED
      BY <1>4, <3>1
  <2> QED
    BY <2>2, <2>3
<1>7. ASSUME NEW g \in Grant, TaskStep(g) PROVE UNCHANGED <<loop, until>>
  BY <1>7 DEF TaskStep, Finish, Expire, Heartbeat, NotRenewed, GiveUp, Stopped, RenewalDone,
              Reported
<1> QED
  BY <1>1, <1>3, <1>5, <1>6, <1>7 DEF Claim, WorkerNext, WorkerTick, Others, workerVars, allVars

\* A shutdown that has begun is not taken back.
LEMMA StaysHalted ==
  ASSUME WorkerTypeOK, [WorkerNext]_allVars, NEW w \in Worker, halt'[w] = "no"
  PROVE  halt[w] = "no"
<1>1. ASSUME NEW v \in Worker, Signal(v) \/ SettleAndTell(v) PROVE halt[w] = "no"
  BY <1>1 DEF Signal, SettleAndTell, WorkerTypeOK
<1>2. ASSUME NEW v \in Worker, HaltStep(v), ~Signal(v), ~SettleAndTell(v) PROVE UNCHANGED halt
  BY <1>2 DEF HaltStep, Refused, Leave, Drained, Abort, Crash
<1>3. ASSUME NEW v \in Worker, LoopStep(v) PROVE UNCHANGED halt
  BY <1>3 DEF LoopStep, Start, StoreError, Ask, Check, Spawn, Wake, Recover, Claim,
              OrphanedClaim
<1>4. ASSUME NEW g \in Grant, TaskStep(g) PROVE UNCHANGED halt
  BY <1>4 DEF TaskStep, Finish, Expire, Heartbeat, NotRenewed, GiveUp, Stopped, RenewalDone,
              Reported
<1> QED
  BY <1>1, <1>2, <1>3, <1>4 DEF WorkerNext, WorkerTick, Others, workerVars, allVars

LEMMA SleepStep ==
  WInv /\ WakesSoon /\ NoOversleep /\ [WorkerNext]_allVars => WakesSoon' /\ NoOversleep'
<1> SUFFICES ASSUME WInv, WakesSoon, NoOversleep, [WorkerNext]_allVars
             PROVE  WakesSoon' /\ NoOversleep'
  OBVIOUS
<1>0. /\ IInv /\ TypeOK /\ WorkerTypeOK /\ now \in Nat /\ until \in [Worker -> Nat] /\ TypeOK'
      /\ (now' = now \/ now' = now + 1)
  BY NowStays, StoreStep, TypeStep DEF WInv, IInv, TypeOK, WorkerTypeOK
<1>1. ASSUME NEW w \in Worker, loop'[w] = "waiting" PROVE until'[w] <= now' + Poll
  BY <1>0, <1>1, Waiting, Numbers DEF WakesSoon
<1>2. ASSUME NEW w \in Worker, NEW i \in Id, halt'[w] = "no", loop'[w] = "waiting",
             Draft[i].target = Target, row'[i].status \in {"pending", "leased"}
      PROVE until'[w] <= Due(i)' + Poll + ClaimTime
  <2>0. Due(i)' \in Nat /\ until[w] \in Nat /\ row'[i] \in Row /\ row[i] \in Row
    BY <1>0 DEF Due, TypeOK, Row
  <2>in. halt[w] = "no"
    BY <1>0, <1>2, StaysHalted
  <2>1. CASE loop[w] = "waiting" /\ until'[w] = until[w]
    <3>1. until[w] <= now + Poll
      BY <2>1 DEF WakesSoon
    <3>2. CASE row[i].status \in {"pending", "leased"} /\ Due(i)' >= Due(i)
      <4>1. until[w] <= Due(i) + Poll + ClaimTime /\ Due(i) \in Nat
        BY <1>2, <2>in, <2>0, <2>1, <3>2 DEF NoOversleep, Due, Row
      <4> QED
        BY <2>0, <2>1, <3>2, <4>1, Numbers
    <3>3. CASE Due(i)' + ClaimTime >= now
      BY <1>0, <2>0, <2>1, <3>1, <3>3, Numbers
    <3> QED
      BY <1>0, <1>2, <3>2, <3>3, DueLater
  <2>2. ASSUME until'[w] = now + Poll, NEW t \in Recent, ClaimNext(Target, t, Lease),
               \A j \in Id : ~Claimable(RecoveredTable(Target, t), j, Target, t)
        PROVE until'[w] <= Due(i)' + Poll + ClaimTime
    <3>1. Due(i)' >= t
      BY <1>0, <1>2, <2>2, NothingDue
    <3>2. t \in Nat /\ now <= t + ClaimTime
      BY <1>0, RecentType, Numbers
    <3> QED
      BY <1>0, <2>0, <2>2, <3>1, <3>2, Numbers
  <2> QED
    BY <1>0, <1>2, <2>1, <2>2, Waiting
<1> QED
  BY <1>1, <1>2 DEF WakesSoon, NoOversleep, Due

\* run() waits one poll interval at a time: whatever happens to a row, the loop of a
\* worker that is not shutting down is awake again within that interval of the row's
\* being ready.
THEOREM NobodyOversleeps == WorkerSpec => []NoOversleep
<1>1. WorkerInit => WakesSoon /\ NoOversleep
  BY DEF WorkerInit, WakesSoon, NoOversleep
<1> QED
  BY <1>1, WorkerInvariant, SleepStep, PTL DEF WorkerSpec
=============================================================================
