---------------------------- MODULE IngestProofs ----------------------------
(***************************************************************************)
(* Proofs about IngestQueue: types, and that no episode stays "running"    *)
(* unless a worker holds it or dropped it, for any episodes, requests and  *)
(* workers.  What a request and a worker hold at each step is needed too.  *)
(***************************************************************************)
EXTENDS IngestQueue, FiniteSetTheorems, TLAPS

\* A request between an upsert and its end has an episode.
RequestAt == \A r \in Request : req[r].pc \in {"insert", "payload", "mark"} => req[r].at \in Episode

\* So has a worker between the SELECT and the end of its episode.
WorkerAt == \A w \in Worker :
  worker[w].pc \in {"update", "payload", "missing", "work"} => worker[w].at \in Episode

IInv == TypeOK /\ RequestAt /\ WorkerAt /\ RunningIsWorked

LEMMA CountIsNat == Cardinality(Stored) \in Nat
<1>1. IsFiniteSet(Stored) BY IngestAssumption, FS_Subset DEF Stored
<1> QED BY <1>1, FS_CardinalityType

LEMMA InitInv == Init => IInv
BY IngestAssumption DEF Init, IInv, TypeOK, RequestAt, WorkerAt, RunningIsWorked, Row, Req, Loop

\* A step that writes no row and moves no worker, but changes one request.
LEMMA RequestMoves ==
  ASSUME IInv, NEW r \in Request, NEW q \in Req,
         q.pc \in {"insert", "payload", "mark"} => q.at \in Episode,
         req' = [req EXCEPT ![r] = q], wake' \in Nat,
         UNCHANGED <<row, worker, restarts, dropped>>
  PROVE  IInv'
BY DEF IInv, TypeOK, RequestAt, WorkerAt, RunningIsWorked, Holds

\* A worker moves on without writing a row, and holds what it held.
LEMMA WorkerMoves ==
  ASSUME IInv, NEW w \in Worker, NEW p \in {"ask", "update", "payload", "missing", "work", "none", "asleep"},
         NEW e \in Episode \cup {None},
         p \in {"update", "payload", "missing", "work"} => e \in Episode,
         Go(w, p, e),
         \A f \in Episode : Holds(w, f) => (f = e /\ p \in {"payload", "missing", "work"}) \/ f \in dropped',
         dropped \subseteq dropped', dropped' \subseteq Episode,
         UNCHANGED <<row, req, wake, restarts>>
  PROVE  IInv'
<1>1. worker' \in [Worker -> Loop] BY DEF IInv, TypeOK, Loop, Go
<1>2. TypeOK' BY <1>1 DEF IInv, TypeOK
<1>3. RequestAt' BY DEF IInv, RequestAt
<1>4. WorkerAt' BY DEF IInv, TypeOK, WorkerAt, Go
<1>5. ASSUME NEW f \in Episode, row'[f].status = "running"
      PROVE  f \in dropped' \/ \E v \in Worker : Holds(v, f)'
  <2>1. f \in dropped \/ \E v \in Worker : Holds(v, f)
    BY <1>5 DEF IInv, RunningIsWorked
  <2>2. CASE f \in dropped BY <2>2
  <2>3. CASE f \notin dropped
    <3>1. PICK v \in Worker : Holds(v, f) BY <2>1, <2>3
    <3>2. CASE v = w BY <3>1, <3>2 DEF Holds, Go, IInv, TypeOK
    <3>3. CASE v # w BY <3>1, <3>3 DEF Holds, Go, IInv, TypeOK
    <3> QED BY <3>2, <3>3
  <2> QED BY <2>2, <2>3
<1>6. RunningIsWorked' BY <1>5 DEF RunningIsWorked
<1> QED BY <1>2, <1>3, <1>4, <1>6 DEF IInv

\* One row is written; the worker that writes it, if it is one, holds it or it does
\* not run.
LEMMA RowWritten ==
  ASSUME IInv, NEW e \in Episode, NEW x \in Row,
         row' = [row EXCEPT ![e] = x],
         x.status = "running" => row[e].status = "running",
         UNCHANGED <<worker, dropped>>
  PROVE  row' \in [Episode -> Row] /\ RunningIsWorked'
BY DEF IInv, TypeOK, RunningIsWorked, Holds

LEMMA LookStep == ASSUME IInv, NEW r \in Request, NEW e \in Episode, Look(r, e) PROVE IInv'
<1> DEFINE q == [todo |-> req[r].todo \ {e}, at |-> e,
                 pc |-> IF e \in Stored THEN "payload" ELSE "insert"]
<1>1. q \in Req BY DEF IInv, TypeOK, Req
<1>2. req' = [req EXCEPT ![r] = q] BY DEF Look
<1>3. wake' \in Nat BY DEF Look, IInv, TypeOK
<1>4. q.at \in Episode OBVIOUS
<1> HIDE DEF q
<1> QED BY <1>1, <1>2, <1>3, <1>4, RequestMoves DEF Look

LEMMA OverIsReq == Over \in Req /\ Over.pc = "over"
BY DEF Over, Req

LEMMA InsertStep == ASSUME IInv, NEW r \in Request, Insert(r) PROVE IInv'
<1>0. req[r] \in Req /\ req[r].at \in Episode BY DEF Insert, IInv, TypeOK, RequestAt
<1>1. CASE req[r].at \in Stored
  <2>1. wake' \in Nat BY DEF Insert, IInv, TypeOK
  <2> QED BY <1>1, <2>1, OverIsReq, RequestMoves DEF Insert
<1>2. CASE req[r].at \notin Stored
  <2> DEFINE x == [status |-> "pending", created |-> Cardinality(Stored), payload |-> FALSE]
  <2>1. x \in Row BY CountIsNat DEF Row
  <2>2. row' = [row EXCEPT ![req[r].at] = x] BY <1>2 DEF Insert
  <2>3. x.status # "running" OBVIOUS
  <2>4. UNCHANGED <<worker, dropped>> BY DEF Insert
  <2> HIDE DEF x
  <2>5. row' \in [Episode -> Row] /\ RunningIsWorked' BY <1>0, <2>1, <2>2, <2>3, <2>4, RowWritten
  <2>6. req' \in [Request -> Req] BY <1>2 DEF Insert, Step, IInv, TypeOK, Req
  <2>7. TypeOK' BY <2>5, <2>6 DEF Insert, IInv, TypeOK
  <2>8. RequestAt'
    <3>1. req' = [req EXCEPT ![r].pc = "payload"] BY <1>2 DEF Insert, Step
    <3>2. req'[r].at = req[r].at BY <3>1, <1>0 DEF IInv, TypeOK, Req
    <3>3. \A q \in Request : q # r => req'[q] = req[q] BY <3>1 DEF IInv, TypeOK
    <3> QED BY <1>0, <3>2, <3>3 DEF IInv, RequestAt
  <2>9. WorkerAt' BY DEF Insert, IInv, WorkerAt
  <2> QED BY <2>5, <2>7, <2>8, <2>9 DEF IInv
<1> QED BY <1>1, <1>2

LEMMA PayloadStep == ASSUME IInv, NEW r \in Request, SetPayload(r) PROVE IInv'
<1>0. req[r] \in Req /\ req[r].at \in Episode BY DEF SetPayload, IInv, TypeOK, RequestAt
<1>1. req' \in [Request -> Req] BY DEF SetPayload, Step, IInv, TypeOK, Req
<1>2. RequestAt' BY <1>0 DEF SetPayload, Step, IInv, TypeOK, RequestAt
<1>3. row' \in [Episode -> Row] /\ RunningIsWorked'
  <2>1. CASE UNCHANGED row BY <2>1 DEF SetPayload, IInv, TypeOK, RunningIsWorked, Holds
  <2>2. CASE row' = [row EXCEPT ![req[r].at].payload = TRUE]
    <3> DEFINE x == [row[req[r].at] EXCEPT !.payload = TRUE]
    <3>1. x \in Row /\ x.status = row[req[r].at].status BY <1>0 DEF IInv, TypeOK, Row
    <3>2. row' = [row EXCEPT ![req[r].at] = x] BY <2>2
    <3>3. UNCHANGED <<worker, dropped>> BY DEF SetPayload
    <3> HIDE DEF x
    <3> QED BY <1>0, <3>1, <3>2, <3>3, RowWritten
  <2> QED BY <2>1, <2>2 DEF SetPayload
<1>4. TypeOK' BY <1>1, <1>3 DEF SetPayload, IInv, TypeOK
<1>5. WorkerAt' BY DEF SetPayload, IInv, WorkerAt
<1> QED BY <1>2, <1>3, <1>4, <1>5 DEF IInv

LEMMA RecordStep == ASSUME IInv, NEW r \in Request, Record(r) PROVE IInv'
<1>0. req[r].at \in Episode BY DEF Record, IInv, RequestAt
<1> DEFINE x == [row[req[r].at] EXCEPT !.status = "done"]
<1>1. x \in Row /\ x.status # "running" BY <1>0 DEF IInv, TypeOK, Row
<1>2. row' = [row EXCEPT ![req[r].at] = x] BY DEF Record
<1>3. UNCHANGED <<worker, dropped>> BY DEF Record
<1> HIDE DEF x
<1>4. row' \in [Episode -> Row] /\ RunningIsWorked' BY <1>0, <1>1, <1>2, <1>3, RowWritten
<1>5. req' \in [Request -> Req] BY OverIsReq DEF Record, IInv, TypeOK
<1>6. RequestAt' BY OverIsReq DEF Record, IInv, TypeOK, RequestAt
<1>7. TypeOK' BY <1>4, <1>5 DEF Record, IInv, TypeOK
<1>8. WorkerAt' BY DEF Record, IInv, WorkerAt
<1> QED BY <1>4, <1>6, <1>7, <1>8 DEF IInv

LEMMA UpdateStep == ASSUME IInv, NEW w \in Worker, Update(w) PROVE IInv'
<1>0. worker[w].at \in Episode BY DEF Update, IInv, WorkerAt
<1>1. row' \in [Episode -> Row] BY <1>0 DEF Update, IInv, TypeOK, Row
<1>2. worker' \in [Worker -> Loop] BY <1>0 DEF Update, Go, IInv, TypeOK, Loop
<1>3. TypeOK' BY <1>1, <1>2 DEF Update, IInv, TypeOK
<1>4. RequestAt' BY DEF Update, IInv, RequestAt
<1>5. WorkerAt' BY <1>0 DEF Update, Go, IInv, TypeOK, WorkerAt
<1>6. ASSUME NEW f \in Episode, row'[f].status = "running"
      PROVE  f \in dropped' \/ \E v \in Worker : Holds(v, f)'
  <2>1. CASE f = worker[w].at
    <3>1. Holds(w, f)' \/ f \in dropped' BY <2>1 DEF Update, Go, Holds, IInv, TypeOK
    <3> QED BY <3>1
  <2>2. CASE f # worker[w].at
    <3>1. row[f].status = "running" BY <1>6, <2>2 DEF Update, IInv, TypeOK
    <3>2. CASE f \in dropped BY <3>2 DEF Update
    <3>3. CASE f \notin dropped
      <4>1. PICK v \in Worker : Holds(v, f) BY <3>1, <3>3 DEF IInv, RunningIsWorked
      <4>2. v # w BY <4>1, <2>2 DEF Holds
      <4>3. Holds(v, f)' BY <4>1, <4>2 DEF Holds, Update, Go, IInv, TypeOK
      <4> QED BY <4>3
    <3> QED BY <3>2, <3>3
  <2> QED BY <2>1, <2>2
<1>7. RunningIsWorked' BY <1>6 DEF RunningIsWorked
<1> QED BY <1>3, <1>4, <1>5, <1>7 DEF IInv

LEMMA SettleStep ==
  ASSUME IInv, NEW w \in Worker, NEW s \in {"done", "failed"}, worker[w].at \in Episode,
         Settle(w, s, "ask")
  PROVE  IInv'
<1>1. row' \in [Episode -> Row] BY DEF Settle, IInv, TypeOK, Row
<1>2. worker' \in [Worker -> Loop] BY DEF Settle, Go, IInv, TypeOK, Loop
<1>3. TypeOK' BY <1>1, <1>2 DEF Settle, IInv, TypeOK
<1>4. RequestAt' BY DEF Settle, IInv, RequestAt
<1>5. WorkerAt' BY DEF Settle, Go, IInv, TypeOK, WorkerAt
<1>6. ASSUME NEW f \in Episode, row'[f].status = "running"
      PROVE  f \in dropped' \/ \E v \in Worker : Holds(v, f)'
  <2>1. f # worker[w].at BY <1>6 DEF Settle, IInv, TypeOK, Row
  <2>2. row[f].status = "running" BY <1>6, <2>1 DEF Settle, IInv, TypeOK
  <2>3. CASE f \in dropped BY <2>3 DEF Settle
  <2>4. CASE f \notin dropped
    <3>1. PICK v \in Worker : Holds(v, f) BY <2>2, <2>4 DEF IInv, RunningIsWorked
    <3>2. v # w BY <3>1, <2>1 DEF Holds
    <3>3. Holds(v, f)' BY <3>1, <3>2 DEF Holds, Settle, Go, IInv, TypeOK
    <3> QED BY <3>3
  <2> QED BY <2>3, <2>4
<1>7. RunningIsWorked' BY <1>6 DEF RunningIsWorked
<1> QED BY <1>3, <1>4, <1>5, <1>7 DEF IInv

LEMMA DropStep ==
  ASSUME IInv, NEW w \in Worker, worker[w].at \in Episode, Drop(w) PROVE IInv'
<1>1. \A f \in Episode : Holds(w, f) => f \in dropped' BY DEF Drop, Holds
<1>2. dropped \subseteq dropped' /\ dropped' \subseteq Episode BY DEF Drop, IInv, TypeOK
<1> QED BY <1>1, <1>2, WorkerMoves DEF Drop

LEMMA AskStep == ASSUME IInv, NEW w \in Worker, Ask(w) PROVE IInv'
<1>0. \A f \in Episode : ~Holds(w, f) BY DEF Ask, Holds
<1>1. dropped \subseteq dropped' /\ dropped' \subseteq Episode BY DEF Ask, IInv, TypeOK
<1>2. CASE Go(w, "none", None) BY <1>0, <1>1, <1>2, WorkerMoves DEF Ask
<1>3. ASSUME NEW e \in Pending, Go(w, "update", e) PROVE IInv'
  BY <1>0, <1>1, <1>3, WorkerMoves DEF Ask, Pending
<1> QED BY <1>2, <1>3 DEF Ask

LEMMA DispatchStep == ASSUME IInv, Dispatch PROVE IInv'
<1>1. wake' \in Nat BY DEF Dispatch, IInv, TypeOK
<1>2. worker' \in [Worker -> Loop] BY DEF Dispatch, IInv, TypeOK, Loop
<1>3. TypeOK' BY <1>1, <1>2 DEF Dispatch, IInv, TypeOK
<1>4. RequestAt' BY DEF Dispatch, IInv, RequestAt
<1>5. WorkerAt' BY DEF Dispatch, IInv, WorkerAt
<1>6. ASSUME NEW f \in Episode, row[f].status = "running"
      PROVE  f \in dropped' \/ \E v \in Worker : Holds(v, f)'
  <2>1. CASE f \in dropped BY <2>1 DEF Dispatch
  <2>2. CASE f \notin dropped
    <3>1. PICK v \in Worker : Holds(v, f) BY <1>6, <2>2 DEF IInv, RunningIsWorked
    <3>2. Holds(v, f)' BY <3>1 DEF Holds, Dispatch
    <3> QED BY <3>2
  <2> QED BY <2>1, <2>2
<1>7. RunningIsWorked' BY <1>6 DEF RunningIsWorked, Dispatch
<1> QED BY <1>3, <1>4, <1>5, <1>7 DEF IInv

LEMMA RestartStep == ASSUME IInv, Restart PROVE IInv'
<1>1. req' \in [Request -> Req] BY OverIsReq DEF Restart, IInv, TypeOK
<1>2. worker' \in [Worker -> Loop] BY DEF Restart, Loop
<1>3. TypeOK' BY <1>1, <1>2 DEF Restart, IInv, TypeOK
<1>4. RequestAt' BY OverIsReq DEF Restart, IInv, RequestAt, Fresh
<1>5. WorkerAt' BY DEF Restart, WorkerAt
<1>6. RunningIsWorked' BY DEF Restart, RunningIsWorked
<1> QED BY <1>3, <1>4, <1>5, <1>6 DEF IInv

LEMMA RequestStepInv == ASSUME IInv, NEW r \in Request, RequestStep(r) PROVE IInv'
<1>1. CASE Refuse(r)
  <2>1. wake' \in Nat BY <1>1 DEF Refuse, IInv, TypeOK
  <2> QED BY <1>1, <2>1, OverIsReq, RequestMoves DEF Refuse
<1>2. CASE Finish(r)
  <2>1. wake' \in Nat BY <1>2 DEF Finish, IInv, TypeOK
  <2> QED BY <1>2, <2>1, OverIsReq, RequestMoves DEF Finish
<1>3. CASE Insert(r) BY <1>3, InsertStep
<1>4. CASE SetPayload(r) BY <1>4, PayloadStep
<1>5. CASE Record(r) BY <1>5, RecordStep
<1>6. ASSUME NEW e \in Episode, Look(r, e) PROVE IInv' BY <1>6, LookStep
<1> QED BY <1>1, <1>2, <1>3, <1>4, <1>5, <1>6 DEF RequestStep

LEMMA WorkerStepInv == ASSUME IInv, NEW w \in Worker, WorkerStep(w) PROVE IInv'
<1>1. CASE Ask(w) BY <1>1, AskStep
<1>2. CASE Update(w) BY <1>2, UpdateStep
<1>3. CASE GetPayload(w)
  <2>0. worker[w].at \in Episode BY <1>3 DEF GetPayload, IInv, WorkerAt
  <2>1. CASE Drop(w) BY <2>0, <2>1, DropStep
  <2>2. ASSUME NEW p \in {"work", "missing"}, Go(w, p, worker[w].at),
               UNCHANGED <<row, req, wake, restarts, dropped>>
        PROVE  IInv'
    <3>1. \A f \in Episode : Holds(w, f) => f = worker[w].at BY DEF Holds
    <3>2. dropped \subseteq dropped' /\ dropped' \subseteq Episode BY <2>2 DEF IInv, TypeOK
    <3> QED BY <2>0, <2>2, <3>1, <3>2, WorkerMoves
  <2> QED BY <1>3, <2>1, <2>2 DEF GetPayload
<1>4. CASE Missing(w)
  <2>0. worker[w].at \in Episode BY <1>4 DEF Missing, IInv, WorkerAt
  <2> QED BY <1>4, <2>0, SettleStep, DropStep DEF Missing
<1>5. CASE Extracted(w)
  <2>0. worker[w].at \in Episode BY <1>5 DEF Extracted, IInv, WorkerAt
  <2> QED BY <1>5, <2>0, SettleStep, DropStep DEF Extracted
<1>6. CASE Sleep(w)
  <2>1. \A f \in Episode : ~Holds(w, f) BY <1>6 DEF Sleep, Holds
  <2>2. dropped \subseteq dropped' /\ dropped' \subseteq Episode BY <1>6 DEF Sleep, IInv, TypeOK
  <2> QED BY <1>6, <2>1, <2>2, WorkerMoves DEF Sleep
<1> QED BY <1>1, <1>2, <1>3, <1>4, <1>5, <1>6 DEF WorkerStep

\* Every state keeps the types, what a request and a worker hold, and that an episode
\* runs only if it is held or was dropped (worker_loop of queue.rs).
THEOREM IngestInvariant == Spec => []IInv
<1>1. IInv /\ [Next]_vars => IInv'
  <2> SUFFICES ASSUME IInv, [Next]_vars PROVE IInv'
    OBVIOUS
  <2>1. ASSUME NEW r \in Request, RequestStep(r) PROVE IInv' BY <2>1, RequestStepInv
  <2>2. ASSUME NEW w \in Worker, WorkerStep(w) PROVE IInv' BY <2>2, WorkerStepInv
  <2>3. CASE Dispatch BY <2>3, DispatchStep
  <2>4. CASE Restart BY <2>4, RestartStep
  <2>5. CASE UNCHANGED vars
    BY <2>5 DEF vars, IInv, TypeOK, RequestAt, WorkerAt, RunningIsWorked, Holds
  <2> QED BY <2>1, <2>2, <2>3, <2>4, <2>5 DEF Next
<1> QED BY InitInv, <1>1, PTL DEF Spec

\* Every variable has its type: the table, the requests, the workers, the wake-up.
THEOREM TypeCorrect == Spec => []TypeOK
<1>1. IInv => TypeOK BY DEF IInv
<1> QED BY IngestInvariant, <1>1, PTL

\* An episode is "running" only while a worker holds it or after one dropped it, however
\* many workers claim the same one (claim_next_pending of sidecars.rs).
THEOREM RunningHeld == Spec => []RunningIsWorked
<1>1. IInv => RunningIsWorked BY DEF IInv
<1> QED BY IngestInvariant, <1>1, PTL
=============================================================================
