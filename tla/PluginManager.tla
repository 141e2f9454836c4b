---------------------------- MODULE PluginManager ----------------------------
(***************************************************************************)
(* One enabled STDIO plugin under the plugin manager                       *)
(* (gateway/gateway-bridge/src/plugin_manager.rs, stdio_plugin.rs).  Each  *)
(* start of it is a run: a task that launches the process, waits for its   *)
(* Hello, takes the plugin's place in the bridge's registry, serves until  *)
(* the plugin goes away, and cleans up.  The manager keeps a state and the *)
(* handle of a task for the plugin; start and stop may be called at any    *)
(* time and by several at once, and restart is a stop, whatever comes of   *)
(* it, and a start.                                                        *)
(***************************************************************************)

CONSTANTS
  Run,   \* starts of the plugin
  None   \* no run

ASSUME PluginAssumption == None \notin Run

VARIABLES
  state,   \* PluginState of the manager's entry
  handle,  \* the entry's task_handle
  calls,   \* starts that have spawned their task and not stored its handle yet
  task,    \* [Run -> Phase]: how far StdioPlugin::start is
  reg,     \* the run whose channel the registry holds under the plugin's id
  said     \* history: the start that last set the state to starting

vars == <<state, handle, calls, task, reg, said>>

State == {"discovered", "starting", "running", "stopped", "failed"}
Phase == {"unused", "called", "dropped", "starting", "hello", "registered", "running",
          "leaving", "ended", "failing", "done", "aborted"}

\* The task is spawned and not over.
Live(r) == task[r] \notin {"unused", "called", "dropped", "done", "aborted"}

\* In the registry and with a message loop, or about to enter it.
Serves(r) == task[r] \in {"registered", "running"}

Move(r, p) == task' = [task EXCEPT ![r] = p]

\* PluginManager::start: the check, under the lock of the entries.
Start(r) ==
  /\ task[r] = "unused" /\ state # "running"
  /\ state' = "starting" /\ said' = r /\ Move(r, "called")
  /\ UNCHANGED <<handle, calls, reg>>

\* The caller is gone while start waits for the lock of the bus: its future is
\* dropped there, after the state was set and before anything is spawned.
Forget(r) ==
  /\ task[r] = "called" /\ Move(r, "dropped")
  /\ UNCHANGED <<state, handle, calls, reg, said>>

\* With the bus in hand it spawns the run, whatever the state is by then.
Spawn(r) ==
  /\ task[r] = "called"
  /\ calls' = calls \cup {r} /\ Move(r, "starting")
  /\ UNCHANGED <<state, handle, reg, said>>

\* The rest of it, under the lock of the entries taken a second time; a caller that is
\* gone by then stores nothing.
StoreHandle(r) ==
  /\ r \in calls
  /\ calls' = calls \ {r} /\ handle' = r
  /\ UNCHANGED <<state, task, reg, said>>

\* PluginManager::stop: aborting drops the run, and with it the process, where it
\* stands; nothing is cleaned up.
Stop ==
  /\ state = "running"
  /\ state' = "stopped" /\ handle' = None
  /\ IF handle # None /\ Live(handle) THEN Move(handle, "aborted") ELSE UNCHANGED task
  /\ UNCHANGED <<calls, reg, said>>

\* npm install succeeds, if it is needed, and so does the launch of node.
Launch(r) ==
  /\ task[r] = "starting" /\ Move(r, "hello")
  /\ UNCHANGED <<state, handle, calls, reg, said>>

\* They do not; or no Hello comes in time, or a wrong one, or the plugin goes.
NoHello(r) ==
  /\ task[r] \in {"starting", "hello"} /\ Move(r, "failing")
  /\ UNCHANGED <<state, handle, calls, reg, said>>

\* Faulty variant: the run that is turned away leaves the registry in order.
RegisterCleansUp(r) ==
  /\ task[r] = "hello"
  /\ IF reg = None THEN reg' = r /\ Move(r, "registered") ELSE reg' = None /\ Move(r, "failing")
  /\ UNCHANGED <<state, handle, calls, said>>

\* Hello, and register: a plugin that is there already turns this run away.
Register(r) ==
  /\ task[r] = "hello"
  /\ IF reg = None THEN reg' = r /\ Move(r, "registered") ELSE Move(r, "failing") /\ UNCHANGED reg
  /\ UNCHANGED <<state, handle, calls, said>>

\* The HelloAck goes out and the loop begins, or the run returns with the error and
\* stays in the registry.
HelloAck(r) ==
  /\ task[r] = "registered"
  /\ Move(r, "running") \/ Move(r, "failing")
  /\ UNCHANGED <<state, handle, calls, reg, said>>

\* The loop ends; cleanup empties the plugin's place in the registry.
CleanUp(r) ==
  /\ task[r] = "running"
  /\ reg' = None /\ Move(r, "leaving")
  /\ UNCHANGED <<state, handle, calls, said>>

\* reset_inflight (Bridge), and start returns.
Returns(r) ==
  /\ task[r] = "leaving" /\ Move(r, "ended")
  /\ UNCHANGED <<state, handle, calls, reg, said>>

\* What the manager's task does with Ok: the state is set to running, now.
Ended(r) ==
  /\ task[r] = "ended"
  /\ state' = "running" /\ handle' = None /\ Move(r, "done")
  /\ UNCHANGED <<calls, reg, said>>

\* Faulty variant: the error is logged and the entry left alone.
FailedQuietly(r) ==
  /\ task[r] = "failing"
  /\ Move(r, "done")
  /\ UNCHANGED <<state, handle, calls, reg, said>>

\* And with an error; the handle is left.
Failed(r) ==
  /\ task[r] = "failing"
  /\ state' = "failed" /\ Move(r, "done")
  /\ UNCHANGED <<handle, calls, reg, said>>

Init ==
  /\ state = "discovered" /\ handle = None /\ calls = {} /\ reg = None /\ said = None
  /\ task = [r \in Run |-> "unused"]

Next ==
  \/ Stop
  \/ \E r \in Run :
       \/ Start(r) \/ Forget(r) \/ Spawn(r) \/ StoreHandle(r) \/ Launch(r) \/ NoHello(r) \/ Register(r)
       \/ HelloAck(r) \/ CleanUp(r) \/ Returns(r) \/ Ended(r) \/ Failed(r)

Spec == Init /\ [][Next]_vars

-----------------------------------------------------------------------------
(* Properties *)

\* Every variable has its type.
TypeOK ==
  /\ state \in State /\ handle \in Run \cup {None} /\ calls \in SUBSET Run
  /\ task \in [Run -> Phase] /\ reg \in Run \cup {None} /\ said \in Run \cup {None}

\* The run that serves is the one in the registry, so at most one does, and what is
\* sent to the plugin reaches it: no start that is turned away, fails or is aborted,
\* and no cleanup of an earlier run, takes its place away.
ServingIsRegistered == \A r \in Run : Serves(r) => reg = r

\* The start that made an entry say "starting" is still to say otherwise: its run is
\* to be spawned or not over, so neither a failed start nor an abort, of whichever run,
\* leaves the entry there for good.  Only a start whose caller went away before the
\* spawn does.
StartingIsLive ==
  state = "starting" => task[said] \in {"called", "dropped"} \/ Live(said)

\* PluginState::Running is "Plugin is running and connected": there is a run at least.
RunningRuns == state = "running" => \E r \in Run : Live(r)
=============================================================================
