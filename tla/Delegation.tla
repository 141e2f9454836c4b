----------------------------- MODULE Delegation -----------------------------
(***************************************************************************)
(* How a session of the gateway delegates work to subagents and takes up   *)
(* again when they are done (gateway-execution, over the StateService of   *)
(* execution-state).  The root agent runs in turns.  A turn may delegate;  *)
(* if it ends with delegations pending it sets continuation_needed, and    *)
(* the delegation that is counted off last publishes                       *)
(* SessionContinuationReady, for which a watcher starts the next turn.     *)
(*                                                                         *)
(* Children, turns, the watcher and the user's messages are tasks of their *)
(* own over the session's row and the execution rows.  There is no         *)
(* transaction around the reads and writes of complete_delegation,         *)
(* try_complete_session or reactivate_session: each statement is a step.   *)
(* crash_session and the last two statements of cancel_session are one     *)
(* step each.  Children do not delegate further (only ward agents may).    *)
(***************************************************************************)
EXTENDS Naturals, FiniteSets

CONSTANTS
  Child,               \* delegations the root may make, each once
  Planner,             \* those that go to the planner agent
  MaxTurns,            \* bound: turns of the root; the last does not delegate
  PerTurn,             \* how many delegations a turn makes: 1, or more
  Trouble,             \* what may go wrong or cross the session
  Root, Watcher, User  \* the root's execution; two more tasks

Troubles == {"child_error", "early_failure", "root_error", "relaunch_error",
             "kill", "stop", "message"}

Turn == 1..MaxTurns
Task == Child \cup Turn \cup {Watcher, User}
Execution == Child \cup {Root}

ASSUME DelegationAssumption ==
  /\ IsFiniteSet(Child) /\ Planner \subseteq Child
  /\ MaxTurns \in Nat \ {0} /\ PerTurn \in Nat \ {0}
  /\ Trouble \subseteq Troubles
  /\ Root \notin Child /\ Watcher # User
  /\ {Watcher, User} \cap (Child \cup Turn) = {} /\ Child \cap Turn = {}

VARIABLES
  session,    \* sessions.status
  exec,       \* [Execution -> ExecStatus]: agent_executions.status
  pending,    \* sessions.pending_delegations
  wanted,     \* sessions.continuation_needed
  ready,      \* SessionContinuationReady events on their way to the watcher
  registry,   \* the children in the DelegationRegistry
  stopped,    \* turns whose handle was told to stop, until they look for the last time
  orphans,    \* [Turn -> SUBSET Child]: what a turn of a message has left to cancel
  pc,         \* [Task -> PC]
  by,         \* [Child -> 0..MaxTurns]: the turn that delegated it
  rooted,     \* turns that run in ExecutionMode::Root: those a message started
  early,      \* children that failed before their executor ran
  reported,   \* history: children with a message to the parent
  counted,    \* history: children that counted themselves off
  disowned    \* history: children that cancel_session_delegations took out of the registry

dbVars   == <<session, exec, pending, wanted>>
memVars  == <<ready, registry, stopped, orphans>>
logVars  == <<by, rooted, early, reported, counted, disowned>>
vars     == <<dbVars, memVars, pc, logVars>>

Ended      == {"completed", "crashed"}
Live       == {"queued", "running"}
ExecStatus == {"absent", "cancelled"} \cup Ended \cup Live

ChildPC == {"none", "created", "requested", "working", "finishing", "failing",
            "querying", "querying_queued", "closing", "reporting", "reporting_error", "counting",
            "tallying", "announcing", "suppressing", "blaming", "crashing",
            "leaving", "gone"}
TurnPC  == {"none", "working", "asking", "finishing", "rechecking", "reasking",
            "querying", "querying_queued", "closing", "failing", "crashing",
            "listing", "cancelling", "trailing", "revoking", "resetting", "over"}
StartPC == {"idle", "reopening", "reviving", "clearing", "launching", "failing",
            "crashing"}

RowOf(task) == IF task \in Child THEN task ELSE Root

Goto(task, label) == pc' = [pc EXCEPT ![task] = label]

\* Faulty variant: the count is not held at zero.
OneLess(n) == n - 1

\* MAX(0, n - 1)
LessOne(n) == IF n = 0 THEN 0 ELSE n - 1

\* update_session_status: a terminal status cascades to executions still live.
Terminate(status) ==
  /\ session' = status
  /\ exec' = [e \in Execution |-> IF exec[e] \in Live THEN status ELSE exec[e]]

Begun == {n \in Turn : pc[n] # "none"}

\* The first message has been accepted (begin_setup): its turn runs.
Init ==
  /\ session  = "running"
  /\ exec     = [e \in Execution |-> IF e = Root THEN "running" ELSE "absent"]
  /\ pending  = 0
  /\ wanted   = FALSE
  /\ ready    = 0
  /\ registry = {} /\ stopped = {}
  /\ orphans  = [n \in Turn |-> {}]
  /\ pc       = [t \in Task |-> IF t = 1 THEN "working"
                                ELSE IF t \in {Watcher, User} THEN "idle" ELSE "none"]
  /\ by       = [c \in Child |-> 0]
  /\ rooted   = {1}
  /\ early = {} /\ reported = {} /\ counted = {} /\ disowned = {}

-----------------------------------------------------------------------------
(* A delegation: handle_delegation in the turn, then the dispatcher's spawn *)

\* The execution row comes first, so that try_complete_session sees it ...
CreateExecution(n, c) ==
  /\ pc[n] = "working" /\ n < MaxTurns
  /\ \A d \in Child : by[d] = n => pc[d] # "created"
  /\ Cardinality({d \in Child : by[d] = n}) < PerTurn
  /\ pc[c] = "none"
  /\ exec' = [exec EXCEPT ![c] = "queued"]
  /\ by' = [by EXCEPT ![c] = n]
  /\ Goto(c, "created")
  /\ UNCHANGED <<session, pending, wanted, memVars, rooted, early, reported,
                 counted, disowned>>

\* Faulty variant: the spawn handler will count, the turn does not.
RegisterNothing(c) ==
  /\ pc[c] = "created"
  /\ Goto(c, "requested")
  /\ UNCHANGED <<dbVars, memVars, logVars>>

\* ... then register_delegation, and the request goes to the dispatcher.
Register(c) ==
  /\ pc[c] = "created"
  /\ pending' = pending + 1
  /\ Goto(c, "requested")
  /\ UNCHANGED <<session, exec, wanted, memVars, logVars>>

\* Faulty variant: the spawn counts the delegation once more.
StartAndCount(c) ==
  /\ pc[c] = "requested"
  /\ exec' = [exec EXCEPT ![c] = "running"]
  /\ registry' = registry \cup {c}
  /\ pending' = pending + 1
  /\ Goto(c, "working")
  /\ UNCHANGED <<session, wanted, ready, stopped, orphans, logVars>>

\* spawn_delegated_agent: the row runs, whatever became of the session.
Start(c) ==
  /\ pc[c] = "requested"
  /\ exec' = [exec EXCEPT ![c] = "running"]
  /\ registry' = registry \cup {c}
  /\ Goto(c, "working")
  /\ UNCHANGED <<session, pending, wanted, ready, stopped, orphans, logVars>>

\* handle_early_spawn_failure: the target is rejected before the row runs, or
\* the executor cannot be built after it does.
FailEarly(c) ==
  /\ "early_failure" \in Trouble
  /\ pc[c] = "requested"
  /\ \/ UNCHANGED <<exec, registry>>
     \/ exec' = [exec EXCEPT ![c] = "running"] /\ registry' = registry \cup {c}
  /\ early' = early \cup {c}
  /\ Goto(c, "failing")
  /\ UNCHANGED <<session, pending, wanted, ready, stopped, orphans, by, rooted,
                 reported, counted, disowned>>

\* The child's executor returns Ok, or an error.
Finish(c) ==
  /\ pc[c] = "working"
  /\ \/ Goto(c, "finishing")
     \/ "child_error" \in Trouble /\ Goto(c, "failing")
  /\ UNCHANGED <<dbVars, memVars, logVars>>

\* kill_agent, called by a turn: the executor returns Stopped; the execution row,
\* the count and the registry do not hear of it.
Kill(c) ==
  /\ "kill" \in Trouble
  /\ pc[c] = "working" /\ \E n \in Turn : pc[n] = "working"
  /\ Goto(c, "gone")
  /\ UNCHANGED <<dbVars, memVars, logVars>>

-----------------------------------------------------------------------------
(* complete_execution and crash_execution, of children and of turns        *)

CompleteExecution(task) ==
  /\ pc[task] = "finishing"
  /\ exec' = [exec EXCEPT ![RowOf(task)] = "completed"]
  /\ Goto(task, IF task \in Child THEN "querying" ELSE "rechecking")
  /\ UNCHANGED <<session, pending, wanted, memVars, logVars>>

\* Faulty variant: a child is counted off before its result is sent.
AfterTryCount(task) == IF task \in Child THEN "counting" ELSE "trailing"

\* Where try_complete_session returns to.
AfterTry(task) == IF task \in Child THEN "reporting" ELSE "trailing"

\* has_running_executions: the running rows are asked for ...
QueryRunning(task) ==
  /\ pc[task] = "querying"
  /\ Goto(task, IF \E e \in Execution : exec[e] = "running"
                THEN AfterTry(task) ELSE "querying_queued")
  /\ UNCHANGED <<dbVars, memVars, logVars>>

\* ... then the queued ones.
QueryQueued(task) ==
  /\ pc[task] = "querying_queued"
  /\ Goto(task, IF \E e \in Execution : exec[e] = "queued"
                THEN AfterTry(task) ELSE "closing")
  /\ UNCHANGED <<dbVars, memVars, logVars>>

CompleteSession(task) ==
  /\ pc[task] = "closing"
  /\ Terminate("completed")
  /\ Goto(task, AfterTry(task))
  /\ UNCHANGED <<pending, wanted, memVars, logVars>>

CrashExecution(task) ==
  /\ pc[task] = "failing"
  /\ exec' = [exec EXCEPT ![RowOf(task)] = "crashed"]
  /\ Goto(task, IF task \in Child THEN "reporting_error" ELSE "crashing")
  /\ UNCHANGED <<session, pending, wanted, memVars, logVars>>

\* What a turn that ended badly does next: only in ExecutionMode::Root, not in a
\* continuation, does it cancel the delegations of the session.
CleanUp(n) == IF n \in rooted THEN "listing" ELSE "trailing"

\* crash_session, for a turn that failed, a continuation that could not start,
\* or on behalf of a planner that could not start.
CrashSession(task) ==
  /\ pc[task] = "crashing"
  /\ Terminate("crashed")
  /\ Goto(task, IF task \in Turn THEN CleanUp(task)
                ELSE IF task \in Child THEN "leaving" ELSE "idle")
  /\ UNCHANGED <<pending, wanted, memVars, logVars>>

-----------------------------------------------------------------------------
(* The end of a child: handle_execution_success, handle_execution_failure  *)

\* Faulty variant: an error, too, is only sent while the child is registered.
ReportRegistered(c) ==
  /\ pc[c] \in {"reporting", "reporting_error"}
  /\ reported' = IF c \in registry THEN reported \cup {c} ELSE reported
  /\ Goto(c, "counting")
  /\ UNCHANGED <<dbVars, memVars, by, rooted, early, counted, disowned>>

\* The message to the parent: a result is only sent while the child is in the
\* registry, an error always.
Report(c) ==
  /\ pc[c] \in {"reporting", "reporting_error"}
  /\ reported' = IF pc[c] = "reporting_error" \/ c \in registry
                 THEN reported \cup {c} ELSE reported
  /\ Goto(c, "counting")
  /\ UNCHANGED <<dbVars, memVars, by, rooted, early, counted, disowned>>

\* Faulty variants: a planner that could not start is like any other child, a
\* child that could not start wakes nobody.
CountOffAlike(c) ==
  /\ pc[c] = "counting"
  /\ pending' = LessOne(pending)
  /\ counted' = counted \cup {c}
  /\ Goto(c, "tallying")
  /\ UNCHANGED <<session, exec, wanted, memVars, by, rooted, early, reported,
                 disowned>>
CountOffQuietly(c) ==
  /\ pc[c] = "counting"
  /\ pending' = LessOne(pending)
  /\ counted' = counted \cup {c}
  /\ Goto(c, IF c \in early THEN "leaving" ELSE "tallying")
  /\ UNCHANGED <<session, exec, wanted, memVars, by, rooted, early, reported,
                 disowned>>

\* complete_delegation: the UPDATE ...
CountOff(c) ==
  /\ pc[c] = "counting"
  /\ pending' = LessOne(pending)
  /\ counted' = counted \cup {c}
  /\ Goto(c, IF c \in early \cap Planner THEN "suppressing" ELSE "tallying")
  /\ UNCHANGED <<session, exec, wanted, memVars, by, rooted, early, reported,
                 disowned>>

\* ... the SELECT of the count ...
Tally(c) ==
  /\ pc[c] = "tallying"
  /\ Goto(c, IF pending = 0 THEN "announcing" ELSE "leaving")
  /\ UNCHANGED <<dbVars, memVars, logVars>>

\* Faulty variant: the flag is not looked at.
AnnounceAlways(c) ==
  /\ pc[c] = "announcing"
  /\ ready' = ready + 1
  /\ Goto(c, "leaving")
  /\ UNCHANGED <<dbVars, registry, stopped, orphans, by, rooted, early, reported,
                 counted, disowned>>

\* ... and of the flag.  The last one publishes SessionContinuationReady.
Announce(c) ==
  /\ pc[c] = "announcing"
  /\ ready' = IF wanted THEN ready + 1 ELSE ready
  /\ Goto(c, "leaving")
  /\ UNCHANGED <<dbVars, registry, stopped, orphans, by, rooted, early, reported,
                 counted, disowned>>

\* A planner that could not start closes the door: clear_continuation, ...
Suppress(c) ==
  /\ pc[c] = "suppressing"
  /\ wanted' = FALSE
  /\ Goto(c, "blaming")
  /\ UNCHANGED <<session, exec, pending, memVars, logVars>>

\* ... and its parent is crashed, then the session (CrashSession).
BlameParent(c) ==
  /\ pc[c] = "blaming"
  /\ exec' = [exec EXCEPT ![Root] = "crashed"]
  /\ Goto(c, "crashing")
  /\ UNCHANGED <<session, pending, wanted, memVars, logVars>>

Leave(c) ==
  /\ pc[c] = "leaving"
  /\ registry' = registry \ {c}
  /\ Goto(c, "gone")
  /\ UNCHANGED <<dbVars, ready, stopped, orphans, logVars>>

-----------------------------------------------------------------------------
(* The end of a turn: ExecutionStream::run                                 *)

\* Faulty variant: a turn that ends well completes, delegations or not.
EndTurnAnyway(n) ==
  /\ pc[n] = "working"
  /\ \A c \in Child : by[c] = n => pc[c] # "created"
  /\ Goto(n, "finishing")
  /\ UNCHANGED <<dbVars, memVars, logVars>>

\* Ok: get_session, are delegations pending?
EndTurn(n) ==
  /\ pc[n] = "working"
  /\ \A c \in Child : by[c] = n => pc[c] # "created"
  /\ Goto(n, IF pending > 0 THEN "asking" ELSE "finishing")
  /\ UNCHANGED <<dbVars, memVars, logVars>>

\* complete_execution looks once more (the turn's execution is the root's).
Recheck(n) ==
  /\ pc[n] = "rechecking"
  /\ Goto(n, IF pending > 0 THEN "reasking" ELSE "querying")
  /\ UNCHANGED <<dbVars, memVars, logVars>>

\* request_continuation, decided by what was read before.
RequestContinuation(n) ==
  /\ pc[n] \in {"asking", "reasking"}
  /\ wanted' = TRUE
  /\ Goto(n, IF pc[n] = "asking" THEN "trailing" ELSE "querying")
  /\ UNCHANGED <<session, exec, pending, memVars, logVars>>

\* The executor fails, or sees that the turn was told to stop.
FailTurn(n) ==
  /\ pc[n] = "working"
  /\ \A c \in Child : by[c] = n => pc[c] # "created"
  /\ \/ "root_error" \in Trouble /\ Goto(n, "failing")
     \/ n \in stopped /\ Goto(n, CleanUp(n))
  /\ UNCHANGED <<dbVars, memVars, logVars>>

\* SessionControl::stop on the turn's conversation; between the two labels nobody
\* looks at the flag.
Stop(n) ==
  /\ "stop" \in Trouble
  /\ pc[n] \in {"working", "trailing"} /\ n \notin stopped
  /\ stopped' = stopped \cup {n}
  /\ UNCHANGED <<dbVars, ready, registry, orphans, pc, logVars>>

\* cancel_session_delegations: the children of the registry are listed, whichever
\* turn delegated them, ...
ListOrphans(n) ==
  /\ pc[n] = "listing"
  /\ orphans' = [orphans EXCEPT ![n] = registry]
  /\ Goto(n, "cancelling")
  /\ UNCHANGED <<dbVars, ready, registry, stopped, logVars>>

\* ... and one by one taken out and counted off.  Their handles are looked up by
\* execution id in a map keyed by conversation id, so no child is told to stop.
CancelOrphan(n, c) ==
  /\ pc[n] = "cancelling" /\ c \in orphans[n]
  /\ orphans' = [orphans EXCEPT ![n] = @ \ {c}]
  /\ registry' = registry \ {c}
  /\ pending' = LessOne(pending)
  /\ disowned' = disowned \cup {c}
  /\ UNCHANGED <<session, exec, wanted, ready, stopped, pc, by, rooted, early,
                 reported, counted>>

CancelDone(n) ==
  /\ pc[n] = "cancelling" /\ orphans[n] = {}
  /\ Goto(n, "trailing")
  /\ UNCHANGED <<dbVars, memVars, logVars>>

\* stop_execution, if the turn was told to stop and the session is not over.
EndOrCancel(n) ==
  /\ pc[n] = "trailing"
  /\ Goto(n, IF n \in stopped /\ session \notin Ended THEN "revoking" ELSE "over")
  /\ stopped' = stopped \ {n}
  /\ UNCHANGED <<dbVars, ready, registry, orphans, logVars>>

\* cancel_session: the live rows, then tracking and status of the session.
CancelExecutions(n) ==
  /\ pc[n] = "revoking"
  /\ exec' = [e \in Execution |-> IF exec[e] \in Live THEN "cancelled" ELSE exec[e]]
  /\ Goto(n, "resetting")
  /\ UNCHANGED <<session, pending, wanted, memVars, logVars>>

CancelSession(n) ==
  /\ pc[n] = "resetting"
  /\ pending' = 0 /\ wanted' = FALSE
  /\ Terminate("crashed")
  /\ Goto(n, "over")
  /\ UNCHANGED <<memVars, logVars>>

-----------------------------------------------------------------------------
(* The start of a turn: by the ContinuationWatcher, by a message           *)

\* The watcher receives an event: clear_continuation.
Receive ==
  /\ pc[Watcher] = "idle" /\ ready > 0
  /\ ready' = ready - 1
  /\ wanted' = FALSE
  /\ Goto(Watcher, "reopening")
  /\ UNCHANGED <<session, exec, pending, registry, stopped, orphans, logVars>>

\* begin_setup accepts a message in any state of the session.
Message ==
  /\ "message" \in Trouble
  /\ pc[User] = "idle" /\ Begun # Turn
  /\ Goto(User, "reopening")
  /\ UNCHANGED <<dbVars, memVars, logVars>>

\* reactivate_session: is the session over?  ...
Reopen(t) ==
  /\ pc[t] = "reopening"
  /\ Goto(t, IF session \in Ended THEN "reviving" ELSE "clearing")
  /\ UNCHANGED <<dbVars, memVars, logVars>>

Revive(t) ==
  /\ pc[t] = "reviving"
  /\ session' = "running"
  /\ Goto(t, "clearing")
  /\ UNCHANGED <<exec, pending, wanted, memVars, logVars>>

\* ... reset_delegation_tracking in either case.
ResetTracking(t) ==
  /\ pc[t] = "clearing"
  /\ pending' = 0 /\ wanted' = FALSE
  /\ Goto(t, "launching")
  /\ UNCHANGED <<session, exec, memVars, logVars>>

\* reactivate_execution (a cancelled row stays so), for a message also
\* start_execution; then the turn's task is spawned, with its mode.
Launch(t) ==
  /\ pc[t] = "launching"
  /\ exec' = IF t = User \/ exec[Root] \in Ended
             THEN [exec EXCEPT ![Root] = "running"] ELSE exec
  /\ \E n \in Turn :
       /\ Begun = 1..(n-1)
       /\ pc' = [pc EXCEPT ![t] = "idle", ![n] = "working"]
       /\ rooted' = IF t = User THEN rooted \cup {n} ELSE rooted
  /\ UNCHANGED <<session, pending, wanted, memVars, by, early, reported, counted,
                 disowned>>

\* invoke_continuation fails after reactivate_execution: the session is crashed.
FailLaunch ==
  /\ "relaunch_error" \in Trouble
  /\ pc[Watcher] = "launching"
  /\ Goto(Watcher, "failing")
  /\ UNCHANGED <<dbVars, memVars, logVars>>

-----------------------------------------------------------------------------
Delegate == \E n \in Turn, c \in Child : CreateExecution(n, c)

\* What a task goes through once it is under way ...
ChildStep(c) ==
  \/ Register(c) \/ Start(c) \/ Finish(c) \/ CompleteExecution(c)
  \/ QueryRunning(c) \/ QueryQueued(c) \/ CompleteSession(c)
  \/ CrashExecution(c) \/ CrashSession(c) \/ Report(c)
  \/ CountOff(c) \/ Tally(c) \/ Announce(c)
  \/ Suppress(c) \/ BlameParent(c) \/ Leave(c)

TurnStep(n) ==
  \/ EndTurn(n) \/ Recheck(n) \/ RequestContinuation(n) \/ CompleteExecution(n)
  \/ QueryRunning(n) \/ QueryQueued(n) \/ CompleteSession(n)
  \/ CrashExecution(n) \/ CrashSession(n) \/ ListOrphans(n)
  \/ (\E c \in Child : CancelOrphan(n, c)) \/ CancelDone(n)
  \/ EndOrCancel(n) \/ CancelExecutions(n) \/ CancelSession(n)

StartStep(t) ==
  \/ Reopen(t) \/ Revive(t) \/ ResetTracking(t) \/ Launch(t)
  \/ CrashExecution(t) \/ CrashSession(t)

\* ... and what may happen to it, or not.
Mishap ==
  \/ \E c \in Child : FailEarly(c) \/ Kill(c)
  \/ \E n \in Turn : FailTurn(n) \/ Stop(n)
  \/ Message \/ FailLaunch

Next ==
  \/ Delegate \/ Mishap \/ Receive
  \/ \E c \in Child : ChildStep(c)
  \/ \E n \in Turn : TurnStep(n)
  \/ \E t \in {Watcher, User} : StartStep(t)

Spec == Init /\ [][Next]_vars

\* Every task that is under way goes on: executors return (iterations are
\* bounded), the dispatcher gets to every request (permits come back when
\* children end), the watcher reads its events.  Nobody has to delegate.
Fairness ==
  /\ \A c \in Child : WF_vars(ChildStep(c))
  /\ \A n \in Turn : WF_vars(TurnStep(n))
  /\ \A t \in {Watcher, User} : WF_vars(StartStep(t))
  /\ WF_vars(Receive)

FairSpec == Spec /\ Fairness

-----------------------------------------------------------------------------
(* Properties *)

\* Every variable has its type; above all the count is never negative, although
\* resets and cancel_session_delegations take away what a child will take away
\* once more.
TypeOK ==
  /\ session \in {"running"} \cup Ended
  /\ exec \in [Execution -> ExecStatus]
  /\ pending \in Nat /\ wanted \in BOOLEAN /\ ready \in Nat
  /\ registry \subseteq Child /\ stopped \subseteq Turn
  /\ orphans \in [Turn -> SUBSET Child]
  /\ pc \in [Task -> ChildPC \cup TurnPC \cup StartPC]
  /\ by \in [Child -> 0..MaxTurns] /\ rooted \subseteq Turn
  /\ early \subseteq Child /\ reported \subseteq Child /\ counted \subseteq Child
  /\ disowned \subseteq Child

Owed == {c \in Child : pc[c] \notin {"none", "created"}} \ counted

\* pending_delegations never says more than there are delegations still to be
\* counted off: a session does not wait for a child that has reported, through
\* resets, turns in Root mode that fail and count for the children of the session,
\* continuations that fail and do not, and late children.
PendingNeverOverstates == pending <= Cardinality(Owed)

\* The message of a child is with the parent before the child is counted off, so
\* no continuation can start without it; only the result of a child that a turn in
\* Root mode has disowned is dropped.  A continuation that fails disowns nobody.
CountedHasReported == counted \subseteq reported \cup disowned

(* The next five are about turns that delegate one task each and are not    *)
(* crossed by a message; the first two of them also need that no turn fails *)
(* or is stopped.                                                           *)

\* pending_delegations is exact: the resets of reactivate_session, which assume
\* that nothing is in flight, discard no delegation.
PendingIsExact == pending = Cardinality(Owed)

\* A session that try_complete_session marks completed has no turn working and no
\* delegation outstanding, although rows, count and flag are read one by one.
CompletedMeansDone ==
  session = "completed" => Owed = {} /\ \A n \in Turn : pc[n] # "working"

\* The root's execution is never run by two turns at once: no continuation starts
\* while the turn that asked for it, or another one, is still working.
OneTurnAtATime == \A m, n \in Turn : pc[m] = "working" /\ pc[n] = "working" => m = n

\* A turn of the root starts only when the messages of all delegations of the
\* turns before it are there to be read.
ContinuationSeesResults ==
  \A n \in Begun, c \in Child : by[c] \in 1..(n-1) => c \in reported

\* After a planner that could not start, no continuation starts: the next turn
\* would run without the planning gate.
GateStaysClosed ==
  \A c \in early \cap Planner, n \in Begun : c \in counted => n <= by[c]

\* A continuation that is asked for while delegations are still to be counted off
\* is taken up: whichever ends last, and however, the watcher gets to clear the
\* flag (or the planner's failure does).
ContinuationFollows == wanted /\ pending > 0 ~> ~wanted

-----------------------------------------------------------------------------
(* What the code and its documents say, and the code does not do           *)

\* "When subagents complete, root processes results": a continuation that was
\* asked for does not stay undone for ever.
RequestedContinuationRuns == wanted ~> ~wanted

\* try_complete_session completes a session "only if all executions are done".
CompletedOnlyWhenDone ==
  [][session' = "completed" /\ session # "completed"
       => \A e \in Execution : exec[e] \notin Live]_vars

\* complete_delegation returns true "if this was the last pending delegation":
\* two delegations of a turn are not both about to return true.
OneLastDelegation ==
  wanted => \A c, d \in Child :
    pc[c] = "announcing" /\ pc[d] = "announcing" /\ by[c] = by[d] => c = d

\* cancel_session_delegations is there "to prevent orphaned subagents": a child
\* that is still at work when it is cancelled with its root is stopped.
OrphansAreStopped ==
  [][\A c \in disowned : pc[c] = "working" => pc'[c] \in {"working", "gone"}]_vars
=============================================================================
