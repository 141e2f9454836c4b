----------------------------- MODULE WorkWorker -----------------------------
(***************************************************************************)
(* The workers of the durable queue (gateway/gateway-bus/src/worker.rs)    *)
(* over the store of WorkQueue.  A worker is one loop that recovers and    *)
(* claims, and one task for each claim: it runs the handler, renews the    *)
(* lease at every heartbeat, and reports the handler's verdict once.       *)
(* Store calls run on threads of their own, so a call whose caller has     *)
(* given up still takes place.  Several workers serve one target: two      *)
(* daemons over one file, or one being shut down beside its successor.     *)
(*                                                                         *)
(* Time is the store's.  A runtime that keeps its timers is assumed: the   *)
(* clock does not pass a moment at which a heartbeat, a time-out or a poll *)
(* is due (Prompt).  ClaimTime and Yield bound what the code does not: the *)
(* time from the reading of the clock for a claim to the start of its      *)
(* handler, and the time an aborted handler needs to reach an await.       *)
(***************************************************************************)
EXTENDS WorkQueue, FiniteSets

CONSTANTS
  Worker,       \* worker instances
  Nobody,       \* none of them
  Target,       \* the target they serve
  Concurrency,  \* limits.concurrency
  Lease,        \* limits.lease_duration
  Beat,         \* limits.heartbeat_interval
  Patience,     \* limits.handler_timeout
  Poll,         \* limits.poll_interval
  ClaimTime,    \* bound on the way from a claim's clock to its handler
  Yield         \* bound on the time an aborted handler runs on

\* WorkWorkerLimits::new asks for 2 * Beat < Lease; what is left of the lease
\* must also hold ClaimTime and Yield.
ASSUME WorkerAssumption ==
  /\ Lease \in Leases /\ Nobody \notin Worker
  /\ Concurrency \in Nat \ {0} /\ Beat \in Nat \ {0} /\ Poll \in Nat \ {0}
  /\ Patience \in Nat \ {0} /\ ClaimTime \in Nat /\ Yield \in Nat
  /\ Lag <= ClaimTime
  /\ 2 * Beat + ClaimTime + Yield < Lease

VARIABLES
  loop,   \* [Worker -> LoopPhase]: where run() is; "recover" is the head of the
          \* loop with needs_recovery, "top" without
  until,  \* [Worker -> Nat]: when what the loop waits for is due
  halt,   \* [Worker -> HaltPhase]: how far shutdown() is
  task    \* [Grant -> Task]: process_item for the n-th claim of item i

workerVars == <<loop, until, halt, task>>
allVars    == <<row, now, claims, accepted, loop, until, halt, task>>

LoopPhase == {"off", "recover", "top", "asking", "granted", "cleared", "waiting",
              "backoff", "draining", "orphaned", "stopped"}
HaltPhase == {"no", "signalled", "told"}
TaskPhase == {"none", "held", "live", "aborting", "reporting", "over"}
Report    == {"complete", "retry", "permanent"}

\* A claim of item i is known by its number, which is its token.
Grant == {g \in Id \X (1..20) : g[2] <= Limit(g[1])}

Task == [worker : Worker \cup {Nobody}, phase : TaskPhase,
         call : {"none", "renew"} \cup Report,  \* the store call that is out
         beat : Nat,                            \* the heartbeat due or answered for
         due  : Nat,                            \* when the handler's time is up
         then : {"none", "retry"}]              \* what follows an abort

NoTask == [worker |-> Nobody, phase |-> "none", call |-> "none", beat |-> 0,
           due |-> 0, then |-> "none"]

\* A task that is over, with the call it may have left behind.
Spent   == [NoTask EXCEPT !.phase = "over"]
Past(t) == IF t.call = "none" THEN Spent ELSE [t EXCEPT !.phase = "over", !.due = 0]

Alive(g)  == task[g].phase \in {"live", "aborting"}
Busy(g)   == Alive(g) \/ task[g].phase = "reporting"
Active(w) == {g \in Grant : Busy(g) /\ task[g].worker = w}
Room(w)   == Cardinality(Active(w)) < Concurrency
Held(w)   == {g \in Grant : task[g].phase = "held" /\ task[g].worker = w}

\* The claim in the hands of the loop is dropped.
Dropped(w) == [g \in Grant |-> IF g \in Held(w) THEN Spent ELSE task[g]]

-----------------------------------------------------------------------------
(* The loop.                                                               *)

\* Go to phase p; what is waited for is due at time u.
Goto(w, p, u) ==
  /\ loop' = [loop EXCEPT ![w] = p]
  /\ until' = [until EXCEPT ![w] = u]

Start(w) ==
  /\ loop[w] = "off"
  /\ Goto(w, "recover", 0)
  /\ UNCHANGED <<vars, halt, task>>

NextPollLate == now + 4 * Poll   \* faulty variant
NextPoll     == now + Poll

\* The store answers with an error: the loop backs off for a poll interval.
StoreError(w) ==
  /\ loop[w] = "asking" \/ (loop[w] = "recover" /\ Room(w))
  /\ Goto(w, "backoff", NextPoll)
  /\ UNCHANGED <<vars, halt, task>>

Recover(w, t) ==
  /\ loop[w] = "recover" /\ Room(w)
  /\ RecoverExpired(Target, t)
  /\ Goto(w, "top", 0)
  /\ UNCHANGED <<halt, task>>

Ask(w) ==
  /\ loop[w] = "top" /\ Room(w)
  /\ Goto(w, "asking", now + ClaimTime)
  /\ UNCHANGED <<vars, halt, task>>

\* The claims a step has made, and the tasks when each of them begins as t.
New == {g \in Grant : g[2] = claims[g[1]] + 1 /\ claims'[g[1]] = g[2]}
Given(t) == [g \in Grant |-> IF g \in New THEN t ELSE task[g]]

\* The claim commits, with the clock as it was when the call began or later.
\* Once settle() has returned no claim of the worker commits (ClaimFence).  No
\* item: the loop waits; an unreadable one is an error.
Claim(w, t) ==
  /\ loop[w] = "asking" /\ halt[w] \in {"no", "signalled"}
  /\ t + ClaimTime >= until[w]
  /\ ClaimNext(Target, t, Lease)
  /\ task' = Given([NoTask EXCEPT !.worker = w, !.phase = "held"])
  /\ IF New # {} THEN Goto(w, "granted", until[w])
     ELSE IF \A i \in Id : ~Claimable(RecoveredTable(Target, t), i, Target, t)
     THEN Goto(w, "waiting", NextPoll)
     ELSE Goto(w, "backoff", NextPoll)
  /\ UNCHANGED halt

\* The claim of a loop that was aborted while it waited still takes place.
OrphanedClaim(w, t) ==
  /\ loop[w] = "orphaned" /\ halt[w] = "signalled"
  /\ ClaimNext(Target, t, Lease)
  /\ task' = Given(Spent)
  /\ Goto(w, "stopped", 0)
  /\ UNCHANGED halt

\* The claim is back with an item.  A shutdown that has begun drops it: the row
\* stays leased and nobody works on it.
Check(w) ==
  /\ loop[w] = "granted"
  /\ IF halt[w] = "no"
     THEN /\ Goto(w, "cleared", until[w])
          /\ UNCHANGED task
     ELSE /\ Goto(w, "draining", 0)
          /\ task' = Dropped(w)
  /\ UNCHANGED <<vars, halt>>

\* When the handler's first heartbeat is due.
FirstBeatLate == now + 3 * Beat   \* faulty variants
FirstBeatPast == now - Beat
FirstBeat     == now + Beat

\* process_item is spawned: the handler starts, or is refused and a verdict is
\* reported without it (permanent; after a panic of the gates, for a retry).
Spawn(w) ==
  /\ loop[w] = "cleared"
  /\ \E g \in Held(w) :
       \/ task' = [task EXCEPT ![g].phase = "live", ![g].beat = FirstBeat,
                               ![g].due = now + Patience]
       \/ \E verdict \in {"permanent", "retry"} :
            task' = [task EXCEPT ![g].phase = "reporting", ![g].call = verdict]
  /\ Goto(w, "top", 0)
  /\ UNCHANGED <<vars, halt>>

\* A wake-up, the poll interval, or the end of a task; after an error only the
\* interval.
Wake(w) ==
  /\ loop[w] = "waiting" \/ (loop[w] = "backoff" /\ until[w] = now)
  /\ Goto(w, "recover", 0)
  /\ UNCHANGED <<vars, halt, task>>

-----------------------------------------------------------------------------
(* A task.                                                                 *)

Become(g, t) == task' = [task EXCEPT ![g] = t]

\* The handler is told to stop; it runs on for Yield at most.  then is what the
\* task will report.
Aborted(g, then) ==
  [task[g] EXCEPT !.phase = "aborting", !.due = now + Yield, !.then = then]

Waits(g) == task[g].phase = "live" /\ task[g].call = "none"

\* The handler ends with a verdict of its own, or panics ("retry").
Finish(g) ==
  /\ Waits(g)
  /\ \E verdict \in Report :
       Become(g, [task[g] EXCEPT !.phase = "reporting", !.call = verdict,
                                 !.beat = 0, !.due = 0])
  /\ UNCHANGED <<vars, loop, until, halt>>

\* The handler's time is up: it is aborted and a retry reported.  While a renewal
\* is out, nothing is reported.
Expire(g) ==
  /\ task[g].phase = "live" /\ task[g].due = now
  /\ Become(g, Aborted(g, IF Waits(g) THEN "retry" ELSE "none"))
  /\ UNCHANGED <<vars, loop, until, halt>>

Heartbeat(g) ==
  /\ Waits(g) /\ task[g].beat = now
  /\ Become(g, [task[g] EXCEPT !.call = "renew"])
  /\ UNCHANGED <<vars, loop, until, halt>>

\* Faulty variant: the lease is written without a look at the row's token.
RenewalUnchecked(g, t) ==
  /\ task[g].call = "renew" /\ t >= task[g].beat
  /\ row' = [row EXCEPT ![g[1]].expires = t + Lease]
  /\ Become(g, [task[g] EXCEPT !.call = "none", !.beat = @ + Beat])
  /\ UNCHANGED <<now, claims, accepted, loop, until, halt>>

\* The store renews, with its clock read after the call began.  The next
\* heartbeat is one interval after the one answered for.
RenewalDone(g, t) ==
  /\ task[g].call = "renew" /\ t >= task[g].beat
  /\ RenewLease(g[1], g[2], t, Lease)
  /\ Become(g, IF task[g].phase = "over" THEN Spent
               ELSE [task[g] EXCEPT !.call = "none", !.beat = @ + Beat])
  /\ UNCHANGED <<loop, until, halt>>

\* Faulty variant: a refused renewal is logged, and the handler runs on.
NotRenewedRunsOn(g) ==
  /\ task[g].call = "renew"
  /\ Become(g, [task[g] EXCEPT !.call = "none", !.beat = @ + Beat])
  /\ UNCHANGED <<vars, loop, until, halt>>

\* The store refuses, or fails: the handler is aborted and nothing reported.
NotRenewed(g) ==
  /\ task[g].call = "renew"
  /\ Become(g, IF task[g].phase = "live" THEN [Aborted(g, "none") EXCEPT !.call = "none"]
               ELSE IF task[g].phase = "over" THEN Spent
               ELSE [task[g] EXCEPT !.call = "none"])
  /\ UNCHANGED <<vars, loop, until, halt>>

\* No answer for one heartbeat interval (renewal_budget); the call stays out.
GiveUp(g) ==
  /\ task[g].phase = "live" /\ task[g].call = "renew" /\ task[g].beat + Beat = now
  /\ Become(g, Aborted(g, "none"))
  /\ UNCHANGED <<vars, loop, until, halt>>

\* abort_and_wait is through; a time-out is reported, all else left to the lease.
Stopped(g) ==
  /\ task[g].phase = "aborting"
  /\ IF task[g].then = "retry"
     THEN Become(g, [task[g] EXCEPT !.phase = "reporting", !.call = "retry",
                                    !.then = "none", !.beat = 0, !.due = 0])
     ELSE Become(g, Past(task[g]))
  /\ UNCHANGED <<vars, loop, until, halt>>

\* The one call that reports: the store takes it, or refuses or fails, and the
\* task is over in any case.
Reported(g, t) ==
  /\ task[g].call \in Report
  /\ \/ task[g].call = "complete" /\ Complete(g[1], g[2], t)
     \/ task[g].call = "retry" /\ Fail(g[1], g[2], t, TRUE)
     \/ task[g].call = "permanent" /\ Fail(g[1], g[2], t, FALSE)
     \/ UNCHANGED vars
  /\ Become(g, Spent)
  /\ UNCHANGED <<loop, until, halt>>

-----------------------------------------------------------------------------
(* Shutting down, and dying.                                               *)

\* shutdown(): the flag is raised; settle() waits for a claim that is under way,
\* and then a message tells the loop, which hears it where it next waits.
Signal(w) ==
  /\ halt[w] = "no" /\ loop[w] \notin {"off", "stopped"}
  /\ halt' = [halt EXCEPT ![w] = "signalled"]
  /\ UNCHANGED <<vars, loop, until, task>>

SettleAndTell(w) ==
  /\ halt[w] = "signalled" /\ loop[w] # "stopped"
  /\ halt' = [halt EXCEPT ![w] = "told"]
  /\ UNCHANGED <<vars, loop, until, task>>

\* A claim that finds the flag raised returns Ok(None), as one that finds no item:
\* the loop waits, whatever is ready.  (A claim that settle() interrupts in a
\* statement returns an error: StoreError.)
Refused(w) ==
  /\ loop[w] \in {"asking", "orphaned"} /\ halt[w] # "no"
  /\ IF loop[w] = "orphaned" THEN Goto(w, "stopped", 0)
     ELSE Goto(w, "waiting", NextPoll)
  /\ UNCHANGED <<vars, halt, task>>

\* The loop hears of the shutdown wherever it waits, a claim's answer included.
Leave(w) ==
  /\ halt[w] = "told"
  /\ loop[w] \in {"recover", "top", "granted", "waiting", "backoff"}
  /\ Goto(w, "draining", 0)
  /\ task' = Dropped(w)
  /\ UNCHANGED <<vars, halt>>

Drained(w) ==
  /\ loop[w] = "draining" /\ Active(w) = {}
  /\ Goto(w, "stopped", 0)
  /\ UNCHANGED <<vars, halt, task>>

\* The time for the shutdown is over, in whatever phase: the loop and its tasks
\* are aborted.  Handlers run on to their next await, and calls that are out stay
\* out.
Abort(w) ==
  /\ halt[w] \in {"signalled", "told"} /\ loop[w] \notin {"off", "orphaned", "stopped"}
  /\ Goto(w, IF loop[w] = "asking" THEN "orphaned" ELSE "stopped", 0)
  /\ task' = [g \in Grant |->
       IF task[g].worker # w THEN task[g]
       ELSE CASE task[g].phase = "live"     -> Aborted(g, "none")
              [] task[g].phase = "aborting" -> [task[g] EXCEPT !.then = "none"]
              [] OTHER                      -> Past(task[g])]
  /\ UNCHANGED <<vars, halt>>

\* The process dies, its threads with it.
Crash(w) ==
  /\ loop[w] \notin {"off", "stopped"}
  /\ Goto(w, "stopped", 0)
  /\ task' = [g \in Grant |-> IF task[g].worker = w THEN Spent ELSE task[g]]
  /\ UNCHANGED <<vars, halt>>

-----------------------------------------------------------------------------
\* Whatever is due is done before the clock goes on.
Prompt ==
  /\ \A w \in Worker :
       /\ loop[w] \in {"recover", "top"} => ~Room(w)
       /\ loop[w] \in {"asking", "granted", "cleared", "waiting", "backoff"} => now < until[w]
  /\ \A g \in Grant :
       /\ Alive(g) => now < task[g].due
       /\ task[g].phase = "live" =>
            now < task[g].beat + (IF task[g].call = "renew" THEN Beat ELSE 0)

WorkerTick == Prompt /\ Tick /\ UNCHANGED workerVars

\* Others enqueue and cancel, and the file may be damaged.
Others ==
  /\ UNCHANGED workerVars
  /\ \/ \E i \in Id, t \in Recent : Enqueue(i, t)
     \/ \E c \in Corrs : CancelScoped(c)
     \/ \E i \in Id : Corrupt(i)

WorkerInit ==
  /\ Init
  /\ loop  = [w \in Worker |-> "off"]
  /\ until = [w \in Worker |-> 0]
  /\ halt  = [w \in Worker |-> "no"]
  /\ task  = [g \in Grant |-> NoTask]

LoopStep(w) ==
  \/ Start(w) \/ StoreError(w) \/ Ask(w) \/ Check(w) \/ Spawn(w) \/ Wake(w)
  \/ \E t \in Recent : Recover(w, t) \/ Claim(w, t) \/ OrphanedClaim(w, t)

HaltStep(w) ==
  \/ Signal(w) \/ SettleAndTell(w) \/ Refused(w) \/ Leave(w) \/ Drained(w)
  \/ Abort(w) \/ Crash(w)

TaskStep(g) ==
  \/ Finish(g) \/ Expire(g) \/ Heartbeat(g) \/ NotRenewed(g) \/ GiveUp(g) \/ Stopped(g)
  \/ \E t \in Recent : RenewalDone(g, t) \/ Reported(g, t)

WorkerNext ==
  \/ WorkerTick
  \/ Others
  \/ \E w \in Worker : LoopStep(w) \/ HaltStep(w)
  \/ \E g \in Grant : TaskStep(g)

WorkerSpec == WorkerInit /\ [][WorkerNext]_allVars

-----------------------------------------------------------------------------
(* Properties *)

\* Every variable of the workers has its type.
WorkerTypeOK ==
  /\ loop \in [Worker -> LoopPhase] /\ halt \in [Worker -> HaltPhase]
  /\ until \in [Worker -> Nat]
  /\ task \in [Grant -> Task]

\* While a handler runs, even one that is being aborted, the row is leased to the
\* claim it runs for, or the item is over (canceled, or damaged and given up).
\* Heartbeat, renewal budget and time-out together see to it, however late
\* renewals come, and a worker that shuts down or dies leaves nothing running.
LeaseCoversHandler ==
  \A g \in Grant : Alive(g) =>
    \/ row[g[1]].status \in Terminal
    \/ /\ row[g[1]].status = "leased" /\ row[g[1]].token = g[2]
       /\ row[g[1]].expires > now

\* No item is ever worked on by two handlers at once.
OneHandler ==
  \A g, h \in Grant : Alive(g) /\ Alive(h) /\ g[1] = h[1] => g = h

\* When an item's row is there for the taking.
Due(i) == IF row[i].status = "pending" THEN row[i].available ELSE row[i].expires

\* No worker in service sleeps over work: one that found nothing is awake again soon
\* after any row becomes ready, or loses its lease because its worker crashed, gave
\* up, or dropped the claim while it shut down.  A worker whose own shutdown has
\* begun is no help: its claims are refused, and it may wait beside a ready row.
NoOversleep ==
  \A w \in Worker, i \in Id :
    /\ halt[w] = "no" /\ loop[w] = "waiting"
    /\ Draft[i].target = Target /\ row[i].status \in {"pending", "leased"}
    => until[w] <= Due(i) + Poll + ClaimTime

\* What the workers do to the store is what the store allows: every run of the
\* workers is a run of WorkQueue.
StoreSpec == Init /\ [][Next]_vars
=============================================================================
