----------------------------- MODULE IngestQueue -----------------------------
(***************************************************************************)
(* The ingestion of text into the knowledge graph: the table kg_episodes   *)
(* (stores/zbot-engram-adapter), the requests that fill it, the workers    *)
(* that claim from it and the wake-up between them                         *)
(* (gateway/gateway-execution/src/ingest/queue.rs).  Each statement takes  *)
(* the connection's mutex anew, so a claim, which is a SELECT, then an     *)
(* UPDATE that looks at no status and a SELECT of the row, is in steps,    *)
(* and so is an upsert.                                                    *)
(*                                                                         *)
(* A request chunks a text and enqueues each chunk, or records an episode  *)
(* that is done at once: evidence, a tool's result, a file of a ward.  An  *)
(* error of the database is modelled where a row stays behind; a claim     *)
(* that errs before its UPDATE is tried again after half a second and is   *)
(* left out.                                                               *)
(***************************************************************************)
EXTENDS Naturals, FiniteSets

CONSTANTS
  Episode,      \* rows of kg_episodes, by source_type and content_hash
  Request,      \* calls of ingest, enqueue, record_evidence, ensure_episode, index_ward
  Recorder,     \* those of them that record
  Parts,        \* [Request -> SUBSET Episode]: the episodes of a request
  Worker, None,
  MaxDepth,     \* pending episodes at which the HTTP endpoint answers 429 (5000)
  Capacity,     \* of the wake-up channel (256)
  MaxRestarts   \* bound: deaths of the server

ASSUME IngestAssumption ==
  /\ Recorder \subseteq Request /\ Parts \in [Request -> SUBSET Episode]
  /\ \A r \in Recorder : Cardinality(Parts[r]) = 1
  /\ None \notin Episode /\ IsFiniteSet(Episode)
  /\ MaxDepth \in Nat /\ Capacity \in Nat \ {0} /\ MaxRestarts \in Nat

VARIABLES
  row,      \* [Episode -> Row]: the table
  req,      \* [Request -> [todo, at, pc]]: how far a request is
  worker,   \* [Worker -> [pc, at]]: how far worker_loop is
  wake,     \* signals in the channel
  restarts, \* deaths of the server so far
  dropped   \* episodes a worker left running: at an error, or when the server died

vars == <<row, req, worker, wake, restarts, dropped>>

Row == [status : {"absent", "pending", "running", "done", "failed"},
        created : Nat, payload : BOOLEAN]
Req == [todo : SUBSET Episode, at : Episode \cup {None},
        pc : {"next", "insert", "payload", "mark", "over"}]
Loop == [pc : {"ask", "update", "payload", "missing", "work", "none", "asleep"},
         at : Episode \cup {None}]

Pending == {e \in Episode : row[e].status = "pending"}
Stored  == {e \in Episode : row[e].status # "absent"}

\* The row is set to running: the worker holds the episode.
Holds(w, e) == worker[w].at = e /\ worker[w].pc \in {"payload", "missing", "work"}

-----------------------------------------------------------------------------
(* Requests.                                                               *)

Step(r, p) == req' = [req EXCEPT ![r].pc = p]
Over == [todo |-> {}, at |-> None, pc |-> "over"]

Fresh(r) == req[r] = [todo |-> Parts[r], at |-> None, pc |-> "next"]

\* Backpressure.check of the HTTP endpoint, which counts what is pending, answers 429.
\* What it lets through, an agent's enqueue and a recorder go on with Look.
Refuse(r) ==
  /\ Fresh(r) /\ r \notin Recorder /\ Cardinality(Pending) >= MaxDepth
  /\ req' = [req EXCEPT ![r] = Over]
  /\ UNCHANGED <<row, worker, wake, restarts, dropped>>

\* upsert_pending looks for the episode; if it is there, whatever its status, that is
\* the one.
Look(r, e) ==
  /\ req[r].pc = "next" /\ e \in req[r].todo
  /\ req' = [req EXCEPT ![r] = [todo |-> @.todo \ {e}, at |-> e,
                                pc |-> IF e \in Stored THEN "payload" ELSE "insert"]]
  /\ UNCHANGED <<row, worker, wake, restarts, dropped>>

\* It inserts the row; if another has done so meanwhile the table's UNIQUE refuses
\* it, and the request returns the error: nobody is notified of what it enqueued.
Insert(r) ==
  /\ req[r].pc = "insert"
  /\ IF req[r].at \in Stored
     THEN req' = [req EXCEPT ![r] = Over] /\ UNCHANGED row
     ELSE /\ row' = [row EXCEPT ![req[r].at] =
                       [status |-> "pending", created |-> Cardinality(Stored), payload |-> FALSE]]
          /\ Step(r, "payload")
  /\ UNCHANGED <<worker, wake, restarts, dropped>>

\* set_payload; a file's and a tool result's episode gets none.
SetPayload(r) ==
  /\ req[r].pc = "payload"
  /\ \/ row' = [row EXCEPT ![req[r].at].payload = TRUE]
     \/ r \in Recorder /\ UNCHANGED row
  /\ Step(r, IF r \in Recorder THEN "mark" ELSE "next")
  /\ UNCHANGED <<worker, wake, restarts, dropped>>

\* A recorder's mark_done.
Record(r) ==
  /\ req[r].pc = "mark"
  /\ row' = [row EXCEPT ![req[r].at].status = "done"]
  /\ req' = [req EXCEPT ![r] = Over]
  /\ UNCHANGED <<worker, wake, restarts, dropped>>

\* All chunks are in: notify, which is a try_send.
Finish(r) ==
  /\ req[r].pc = "next" /\ req[r].todo = {}
  /\ req' = [req EXCEPT ![r] = Over]
  /\ wake' = IF wake < Capacity THEN wake + 1 ELSE wake
  /\ UNCHANGED <<row, worker, restarts, dropped>>

-----------------------------------------------------------------------------
(* Workers.                                                                *)

Go(w, p, e) == worker' = [worker EXCEPT ![w] = [pc |-> p, at |-> e]]

\* The dispatcher: notify_waiters wakes those that wait, and keeps no permit for one
\* that is about to.
Dispatch ==
  /\ wake > 0 /\ wake' = wake - 1
  /\ worker' = [w \in Worker |-> IF worker[w].pc = "asleep" THEN [pc |-> "ask", at |-> None]
                                 ELSE worker[w]]
  /\ UNCHANGED <<row, req, restarts, dropped>>

\* claim_next_pending: the SELECT of the oldest.
Ask(w) ==
  /\ worker[w].pc = "ask"
  /\ \/ Pending = {} /\ Go(w, "none", None)
     \/ \E e \in Pending : /\ \A f \in Pending : row[e].created <= row[f].created
                           /\ Go(w, "update", e)
  /\ UNCHANGED <<row, req, wake, restarts, dropped>>

\* And the UPDATE, of that row whatever has become of it.  Then the row is read back;
\* when that errs so does the claim, and the worker backs off from a running row.
Update(w) ==
  /\ worker[w].pc = "update"
  /\ row' = [row EXCEPT ![worker[w].at].status = "running"]
  /\ \/ Go(w, "payload", worker[w].at) /\ UNCHANGED dropped
     \/ Go(w, "ask", None) /\ dropped' = dropped \cup {worker[w].at}
  /\ UNCHANGED <<req, wake, restarts>>

\* The worker turns to the next claim; of an error of the database it only logs a line,
\* and the episode stays as it is.
Drop(w) ==
  /\ Go(w, "ask", None) /\ dropped' = dropped \cup {worker[w].at}
  /\ UNCHANGED <<row, req, wake, restarts>>

\* get_payload.
GetPayload(w) ==
  /\ worker[w].pc = "payload"
  /\ \/ /\ Go(w, IF row[worker[w].at].payload THEN "work" ELSE "missing", worker[w].at)
        /\ UNCHANGED <<row, req, wake, restarts, dropped>>
     \/ Drop(w)

Settle(w, s, p) ==
  /\ row' = [row EXCEPT ![worker[w].at].status = s]
  /\ Go(w, p, None)
  /\ UNCHANGED <<req, wake, restarts, dropped>>

\* Faulty variant: the episode without a payload is skipped.
SkipMissing(w) ==
  /\ worker[w].pc = "missing" /\ Go(w, "ask", None)
  /\ UNCHANGED <<row, req, wake, restarts, dropped>>

\* mark_failed, "payload missing".
Missing(w) == worker[w].pc = "missing" /\ (Settle(w, "failed", "ask") \/ Drop(w))

\* Faulty variant: one episode for each signal.
ExtractedOnce(w) ==
  worker[w].pc = "work" /\ \E s \in {"done", "failed"} : Settle(w, s, "none")

\* The extractor returns: mark_done or mark_failed, and the next claim.
Extracted(w) ==
  /\ worker[w].pc = "work"
  /\ (\E s \in {"done", "failed"} : Settle(w, s, "ask")) \/ Drop(w)

\* Nothing was pending: the worker waits to be notified.
Sleep(w) ==
  /\ worker[w].pc = "none" /\ Go(w, "asleep", None)
  /\ UNCHANGED <<row, req, wake, restarts, dropped>>

\* The server dies and is started: the table is left.
Restart ==
  /\ restarts < MaxRestarts /\ restarts' = restarts + 1
  /\ req' = [r \in Request |-> IF Fresh(r) THEN req[r] ELSE Over]
  /\ worker' = [w \in Worker |-> [pc |-> "ask", at |-> None]]
  /\ wake' = 0
  /\ dropped' = dropped \cup {e \in Episode : row[e].status = "running"}
  /\ UNCHANGED row

Init ==
  /\ row = [e \in Episode |-> [status |-> "absent", created |-> 0, payload |-> FALSE]]
  /\ req = [r \in Request |-> [todo |-> Parts[r], at |-> None, pc |-> "next"]]
  /\ worker = [w \in Worker |-> [pc |-> "ask", at |-> None]]
  /\ wake = 0 /\ restarts = 0 /\ dropped = {}

RequestStep(r) ==
  \/ Refuse(r) \/ Insert(r) \/ SetPayload(r) \/ Record(r) \/ Finish(r)
  \/ \E e \in Episode : Look(r, e)

WorkerStep(w) ==
  Ask(w) \/ Update(w) \/ GetPayload(w) \/ Missing(w) \/ Extracted(w) \/ Sleep(w)

Next ==
  \/ \E r \in Request : RequestStep(r)
  \/ \E w \in Worker : WorkerStep(w)
  \/ Dispatch \/ Restart

\* The tasks of the workers and of the dispatcher are scheduled; extraction ends.
Fairness == WF_vars(Dispatch) /\ \A w \in Worker : WF_vars(WorkerStep(w))

Spec == Init /\ [][Next]_vars /\ Fairness

-----------------------------------------------------------------------------
(* Properties *)

\* Every variable has its type.
TypeOK ==
  /\ row \in [Episode -> Row] /\ req \in [Request -> Req] /\ worker \in [Worker -> Loop]
  /\ wake \in Nat /\ restarts \in Nat /\ dropped \in SUBSET Episode

\* An episode is "running" only while a worker holds it, unless one dropped it: two
\* workers on one episode, a recorder's mark and a missing payload leave none behind.
RunningIsWorked ==
  \A e \in Episode : row[e].status = "running" =>
    e \in dropped \/ \E w \in Worker : Holds(w, e)

\* A worker that will ask again, or that a signal is on its way to.
Coming == \E w \in Worker : \/ worker[w].pc \notin {"none", "asleep"}
                            \/ worker[w].pc = "asleep" /\ wake > 0

\* What is pending is fetched in the end if somebody is coming: no worker goes to
\* sleep over what it could have seen, and each signal finds those that sleep by
\* then.  A worker between an empty claim and notified() is not counted on: see
\* SignalledWorkIsFetched.
WorkIsFetched == \A e \in Episode : row[e].status = "pending" /\ Coming ~> row[e].status # "pending"

(* What the comments of queue.rs say, and the code does not do.            *)

\* "notify_waiters() so every idle worker wakes": what is pending when a signal is on
\* its way is fetched.
SignalledWorkIsFetched ==
  \A e \in Episode : row[e].status = "pending" /\ wake > 0 ~> row[e].status # "pending"

\* Workers "race to claim_next_pending, one wins": no two hold an episode.
OneWins == \A e \in Episode : \A v, w \in Worker : Holds(v, e) /\ Holds(w, e) => v = w
=============================================================================
