------------------------ MODULE DelegationDispatcher ------------------------
(***************************************************************************)
(* The task that gets delegations under way (runner/delegation_dispatcher, *)
(* with ExecCtx::spawn_delegation and the permit and ward lock it handles).*)
(* Requests arrive in a mailbox.  A parallel one is dispatched at once, a  *)
(* sequential one if its session is not active, else it joins the queue of *)
(* its session.  To dispatch is to start a task that takes a permit of the *)
(* global semaphore, then, for a ward agent, the ward's lock, starts the   *)
(* child and tells the dispatcher that it is done.  The child goes on by   *)
(* itself and keeps the permit to its end.                                 *)
(*                                                                         *)
(* Ward agents are the only children that may delegate, and wait for what  *)
(* they delegated with wait_agent, holding their permit.  The semaphore    *)
(* and the lock serve their waiters in any order.                          *)
(***************************************************************************)
EXTENDS Naturals, Sequences, FiniteSets

CONSTANTS
  Request,    \* delegation requests, each sent once
  Session,
  SessionOf,  \* [Request -> Session]
  Parallel,   \* the requests with parallel: true
  WardOf,     \* the ward of a request to a ward agent; its domain is those
  Parent,     \* [Request -> DOMAIN WardOf \cup {Root}]: who sends it
  Root,
  Permits     \* max_parallel_agents

ASSUME DispatcherAssumption ==
  /\ IsFiniteSet(Request) /\ SessionOf \in [Request -> Session]
  /\ Parallel \subseteq Request /\ DOMAIN WardOf \subseteq Request
  /\ Root \notin Request /\ Parent \in [Request -> DOMAIN WardOf \cup {Root}]
  /\ Permits \in Nat \ {0}

VARIABLES
  mailbox,  \* delegation_rx
  closed,   \* every sender of it is gone
  rx_open,  \* what the dispatcher knows of that
  active,   \* active_sessions
  queued,   \* [Session -> Seq(Request)]; absent sessions have empty queues
  done,     \* done_rx: sessions of dispatched requests that are done
  exited,   \* the dispatcher's loop has ended
  stage,    \* [Request -> Stage]: the request and the task that dispatches it
  work,     \* [Request -> {"none", "running", "over"}]: the child's own task
  permit,   \* requests that hold a permit
  guard,    \* requests that hold the lock of their ward
  waits,    \* requests their parent is blocked on in wait_agent
  waited,   \* history: those it has been; bound: it waits for each once
  arrived   \* history: requests in the order they were received

loopVars == <<rx_open, active, queued, exited, arrived>>
holdVars == <<permit, guard, waits, waited>>
vars     == <<mailbox, closed, loopVars, done, stage, work, holdVars>>

Undispatched == {"new", "sent", "queued"}
UnderWay     == {"waiting", "locking", "spawning", "notifying"}
Stage        == Undispatched \cup UnderWay \cup {"told"}

WardAgents == DOMAIN WardOf
Of(s)      == {r \in Request : SessionOf[r] = s}
At(r, st)  == stage' = [stage EXCEPT ![r] = st]

Init ==
  /\ mailbox = <<>> /\ closed = FALSE
  /\ rx_open = TRUE /\ active = {} /\ queued = [s \in Session |-> <<>>]
  /\ done = <<>> /\ exited = FALSE /\ arrived = <<>>
  /\ stage = [r \in Request |-> "new"] /\ work = [r \in Request |-> "none"]
  /\ permit = {} /\ guard = {} /\ waits = {} /\ waited = {}

-----------------------------------------------------------------------------
(* Those who delegate                                                      *)

\* The agent's delegate tool; a parent that is blocked sends nothing.
Send(r) ==
  /\ ~ closed /\ stage[r] = "new"
  /\ Parent[r] \in Request => /\ work[Parent[r]] = "running"
                              /\ \A d \in waits : Parent[d] # Parent[r]
  /\ mailbox' = Append(mailbox, r)
  /\ At(r, "sent")
  /\ UNCHANGED <<closed, loopVars, done, work, holdVars>>

\* The last sender goes: no child, which could delegate, is left.
Close ==
  /\ ~ closed
  /\ \A r \in Request : work[r] # "running" /\ stage[r] \notin UnderWay \ {"notifying"}
  /\ closed' = TRUE
  /\ UNCHANGED <<mailbox, loopVars, done, stage, work, holdVars>>

\* wait_agent, for a child that has not ended ...
Wait(r) ==
  /\ Parent[r] \in Request /\ work[Parent[r]] = "running"
  /\ stage[r] # "new" /\ work[r] # "over" /\ r \notin waited
  /\ \A d \in waits : Parent[d] # Parent[r]
  /\ waits' = waits \cup {r} /\ waited' = waited \cup {r}
  /\ UNCHANGED <<mailbox, closed, loopVars, done, stage, work, permit, guard>>

\* Faulty variant: wait_agent without a timeout.
WaitToTheEnd(r) ==
  /\ r \in waits /\ work[r] = "over"
  /\ waits' = waits \ {r}
  /\ UNCHANGED <<mailbox, closed, loopVars, done, stage, work, permit, guard, waited>>

\* ... returns with its result, or on a timeout.
StopWaiting(r) ==
  /\ r \in waits
  /\ waits' = waits \ {r}
  /\ UNCHANGED <<mailbox, closed, loopVars, done, stage, work, permit, guard, waited>>

-----------------------------------------------------------------------------
(* The loop of the dispatcher                                              *)

Idle(act, que) == act = {} /\ \A s \in Session : que[s] = <<>>

\* A request arrives: dispatched, or queued behind the active one.
Receive ==
  /\ ~ exited /\ rx_open /\ mailbox # <<>>
  /\ LET r == Head(mailbox)
         s == SessionOf[r]
     IN /\ mailbox' = Tail(mailbox)
        /\ arrived' = Append(arrived, r)
        /\ \/ r \in Parallel /\ At(r, "waiting") /\ UNCHANGED <<active, queued>>
           \/ /\ r \notin Parallel /\ s \in active
              /\ queued' = [queued EXCEPT ![s] = Append(@, r)]
              /\ At(r, "queued") /\ UNCHANGED active
           \/ /\ r \notin Parallel /\ s \notin active
              /\ active' = active \cup {s}
              /\ At(r, "waiting") /\ UNCHANGED queued
  /\ UNCHANGED <<closed, rx_open, exited, done, work, holdVars>>

ReceiveClosed ==
  /\ ~ exited /\ rx_open /\ closed /\ mailbox = <<>>
  /\ rx_open' = FALSE
  /\ exited' = Idle(active, queued)
  /\ UNCHANGED <<mailbox, closed, active, queued, arrived, done, stage, work, holdVars>>

\* Faulty variants: the newest of the queue is dispatched; the loop ends once
\* the channel is closed, queue or not; the dispatched request stays queued.
HandleDoneNewest ==
  /\ ~ exited /\ done # <<>>
  /\ LET s == Head(done) IN
       /\ done' = Tail(done)
       /\ IF queued[s] = <<>>
          THEN /\ active' = active \ {s} /\ UNCHANGED <<queued, stage>>
          ELSE /\ active' = active \cup {s}
               /\ queued' = [queued EXCEPT ![s] = SubSeq(@, 1, Len(@) - 1)]
               /\ At(queued[s][Len(queued[s])], "waiting")
  /\ exited' = (~ rx_open /\ Idle(active', queued'))
  /\ UNCHANGED <<mailbox, closed, rx_open, arrived, work, holdVars>>
HandleDoneHasty ==
  /\ ~ exited /\ done # <<>>
  /\ LET s == Head(done) IN
       /\ done' = Tail(done)
       /\ IF queued[s] = <<>>
          THEN /\ active' = active \ {s} /\ UNCHANGED <<queued, stage>>
          ELSE /\ active' = active \cup {s}
               /\ queued' = [queued EXCEPT ![s] = Tail(@)]
               /\ At(Head(queued[s]), "waiting")
  /\ exited' = closed
  /\ UNCHANGED <<mailbox, closed, rx_open, arrived, work, holdVars>>
HandleDoneKeeping ==
  /\ ~ exited /\ done # <<>>
  /\ LET s == Head(done) IN
       /\ done' = Tail(done)
       /\ IF queued[s] = <<>>
          THEN /\ active' = active \ {s} /\ UNCHANGED stage
          ELSE /\ active' = active \cup {s} /\ At(Head(queued[s]), "waiting")
  /\ exited' = (~ rx_open /\ Idle(active', queued))
  /\ UNCHANGED <<mailbox, closed, rx_open, queued, arrived, work, holdVars>>

\* A dispatched request is done, sequential or parallel: the session is not
\* active any more, unless the next of its queue is dispatched.
HandleDone ==
  /\ ~ exited /\ done # <<>>
  /\ LET s == Head(done) IN
       /\ done' = Tail(done)
       /\ IF queued[s] = <<>>
          THEN /\ active' = active \ {s} /\ UNCHANGED <<queued, stage>>
          ELSE /\ active' = active \cup {s}
               /\ queued' = [queued EXCEPT ![s] = Tail(@)]
               /\ At(Head(queued[s]), "waiting")
  /\ exited' = (~ rx_open /\ Idle(active', queued'))
  /\ UNCHANGED <<mailbox, closed, rx_open, arrived, work, holdVars>>

-----------------------------------------------------------------------------
(* The task of a dispatched request, and the child                         *)

AcquirePermit(r) ==
  /\ stage[r] = "waiting" /\ Cardinality(permit) < Permits
  /\ permit' = permit \cup {r}
  /\ At(r, IF r \in WardAgents THEN "locking" ELSE "spawning")
  /\ UNCHANGED <<mailbox, closed, loopVars, done, work, guard, waits, waited>>

AcquireWardLock(r) ==
  /\ stage[r] = "locking" /\ \A g \in guard : WardOf[g] # WardOf[r]
  /\ guard' = guard \cup {r}
  /\ At(r, "spawning")
  /\ UNCHANGED <<mailbox, closed, loopVars, done, work, permit, waits, waited>>

\* Faulty variant: the permit is held as the ward's lock is, by the spawning task.
SpawnUnpermitted(r) ==
  /\ stage[r] = "spawning"
  /\ work' = [work EXCEPT ![r] = "running"]
  /\ guard' = guard \ {r} /\ permit' = permit \ {r}
  /\ At(r, "notifying")
  /\ UNCHANGED <<mailbox, closed, loopVars, done, waits, waited>>

\* spawn_delegated_agent returns when the child's task is started; the guard of
\* the ward's lock is dropped with the call, the permit goes to the child.
Spawn(r) ==
  /\ stage[r] = "spawning"
  /\ work' = [work EXCEPT ![r] = "running"]
  /\ guard' = guard \ {r}
  /\ At(r, "notifying")
  /\ UNCHANGED <<mailbox, closed, loopVars, done, permit, waits, waited>>

\* Faulty variant: an error leaves the task before the run-loop is told.
SpawnFailsQuietly(r) ==
  /\ stage[r] = "spawning"
  /\ work' = [work EXCEPT ![r] = "over"]
  /\ guard' = guard \ {r} /\ permit' = permit \ {r}
  /\ At(r, "told")
  /\ UNCHANGED <<mailbox, closed, loopVars, done, waits, waited>>

\* It fails: the permit is dropped with the request.
SpawnFails(r) ==
  /\ stage[r] = "spawning"
  /\ work' = [work EXCEPT ![r] = "over"]
  /\ guard' = guard \ {r} /\ permit' = permit \ {r}
  /\ At(r, "notifying")
  /\ UNCHANGED <<mailbox, closed, loopVars, done, waits, waited>>

\* done_tx.send, whether it failed or not; nobody listens after the loop's end.
Notify(r) ==
  /\ stage[r] = "notifying"
  /\ done' = IF exited THEN done ELSE Append(done, SessionOf[r])
  /\ At(r, "told")
  /\ UNCHANGED <<mailbox, closed, loopVars, work, holdVars>>

\* The child ends, unless it is blocked, and its permit comes back.
ChildEnds(r) ==
  /\ work[r] = "running" /\ \A d \in waits : Parent[d] # r
  /\ work' = [work EXCEPT ![r] = "over"]
  /\ permit' = permit \ {r}
  /\ UNCHANGED <<mailbox, closed, loopVars, done, stage, guard, waits, waited>>

-----------------------------------------------------------------------------
Loop == Receive \/ ReceiveClosed \/ HandleDone

Dispatch(r) ==
  AcquirePermit(r) \/ AcquireWardLock(r) \/ Spawn(r) \/ SpawnFails(r) \/ Notify(r)

Next ==
  \/ Loop \/ Close
  \/ \E r \in Request : Send(r) \/ Wait(r) \/ StopWaiting(r) \/ Dispatch(r) \/ ChildEnds(r)

Spec == Init /\ [][Next]_vars

\* As long as the loop, a task that dispatches or a child can go on, one of them
\* does: the runtime runs what is runnable, executors return, timeouts fire, and
\* the semaphore and the locks wake a waiter.  Nobody has to send or to close.
Progress ==
  \/ Loop
  \/ \E r \in Request : Dispatch(r) \/ StopWaiting(r) \/ ChildEnds(r)

FairSpec == Spec /\ WF_vars(Progress)

-----------------------------------------------------------------------------
(* Properties *)

\* The requests of seq are distinct, and are all at one stage.
AllAt(seq, st) ==
  /\ \A i, j \in 1..Len(seq) : i # j => seq[i] # seq[j]
  /\ \A i \in 1..Len(seq) : stage[seq[i]] = st

\* Every variable has its type, and a request is in one place only: the mailbox,
\* the queue of its session, or a task.
TypeOK ==
  /\ mailbox \in Seq(Request) /\ AllAt(mailbox, "sent") /\ arrived \in Seq(Request)
  /\ closed \in BOOLEAN /\ rx_open \in BOOLEAN /\ exited \in BOOLEAN
  /\ active \subseteq Session /\ queued \in [Session -> Seq(Request)]
  /\ \A s \in Session : AllAt(queued[s], "queued")
  /\ done \in Seq(Session)
  /\ stage \in [Request -> Stage] /\ work \in [Request -> {"none", "running", "over"}]
  /\ permit \subseteq Request /\ guard \subseteq WardAgents
  /\ waits \subseteq waited /\ waited \subseteq Request

\* "The delegation_semaphore gates total concurrent subagents regardless of
\* session", parallel ones too: no more children run than there are permits.
CapHolds == Cardinality({r \in Request : work[r] = "running"}) <= Permits

\* A queue that is not empty will be looked at: a task of its session is yet to
\* tell the dispatcher, or has told it, although every done message, a parallel
\* one's too, makes the session inactive.
QueueWillMove ==
  \A s \in Session : queued[s] # <<>> =>
    \/ \E r \in Of(s) : stage[r] \in UnderWay
    \/ \E i \in 1..Len(done) : done[i] = s

\* The sequential requests of a session are dispatched in the order they came.
DispatchedInOrder ==
  \A i, j \in 1..Len(arrived) :
    LET q == arrived[i]
        r == arrived[j]
    IN  (i < j /\ {q, r} \cap Parallel = {} /\ SessionOf[q] = SessionOf[r]
         /\ stage[r] \notin Undispatched)
        => stage[q] \notin Undispatched

\* The loop drains its queues before it ends: it leaves no request behind.
ExitsDrained ==
  exited => \A r \in Request : stage[r] \notin {"sent", "queued"}

\* Whatever is sent is dispatched and ends, although permits are few, spawns may
\* fail and ward agents may wait, permit in hand, for a child that needs one.
EverythingEnds == \A r \in Request : stage[r] = "sent" ~> work[r] = "over"

-----------------------------------------------------------------------------
(* What the module's documentation says, and the code does not do          *)

\* "Sequential: only one delegation per session runs at a time."
OneRunsAtATime ==
  \A s \in Session : \A q, r \in Of(s) \ Parallel :
    work[q] = "running" /\ work[r] = "running" => q = r

\* "The returned guard must be held for the whole ward-agent execution": two
\* agents of one ward never run at once.
OneAgentPerWard ==
  \A q, r \in WardAgents :
    work[q] = "running" /\ work[r] = "running" /\ WardOf[q] = WardOf[r] => q = r
=============================================================================
