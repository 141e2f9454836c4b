-------------------------- MODULE DispatcherProofs --------------------------
(***************************************************************************)
(* Proofs about DelegationDispatcher, for any requests, sessions, wards    *)
(* and number of permits.                                                  *)
(*                                                                         *)
(* CapHolds: whoever spawns or runs holds one of the permits (Permitted).  *)
(* QueueWillMove: a queue is only there while its session is active, and   *)
(* an active session has a request under way or a done message (Served);   *)
(* the loop ends only when nothing is active, so that no done message is   *)
(* lost while somebody needs it.                                           *)
(*                                                                         *)
(* ExitsDrained: what was sent and not dispatched is in the mailbox or in  *)
(* its queue (Placed), and the loop ends after the channel (Ended).        *)
(* DispatchedInOrder: a queue lists its requests in the order of their     *)
(* arrival (InLine), so that its head is the earliest; and a request that  *)
(* finds its session inactive finds its queue empty.                       *)
(*                                                                         *)
(* NeverStuck: who holds a permit or a lock is under way or at work (Held),*)
(* and can go on without another one, or waits with a timeout.             *)
(***************************************************************************)
EXTENDS DelegationDispatcher, FiniteSetTheorems, TLAPS

\* The part of TypeOK about one variable at a time.
Types ==
  /\ mailbox \in Seq(Request) /\ arrived \in Seq(Request)
  /\ closed \in BOOLEAN /\ rx_open \in BOOLEAN /\ exited \in BOOLEAN
  /\ active \subseteq Session /\ queued \in [Session -> Seq(Request)]
  /\ done \in Seq(Session)
  /\ stage \in [Request -> Stage] /\ work \in [Request -> {"none", "running", "over"}]
  /\ permit \subseteq Request /\ guard \subseteq WardAgents
  /\ waits \subseteq waited /\ waited \subseteq Request

Mail == AllAt(mailbox, "sent")

Queues ==
  \A s \in Session :
    AllAt(queued[s], "queued") /\ \A i \in 1..Len(queued[s]) : SessionOf[queued[s][i]] = s

Permitted ==
  /\ \A r \in Request :
       /\ stage[r] \in {"locking", "spawning"} \/ work[r] = "running" => r \in permit
       /\ work[r] # "none" => stage[r] \in {"notifying", "told"}
       /\ stage[r] = "locking" => r \in WardAgents
  /\ Cardinality(permit) <= Permits

Outstanding(s) ==
  \/ \E r \in Of(s) : stage[r] \in UnderWay
  \/ \E i \in 1..Len(done) : done[i] = s

Served ==
  /\ \A s \in Session : queued[s] # <<>> => s \in active
  /\ \A s \in active : Outstanding(s)
  /\ exited => Idle(active, queued)

IInv == Types /\ Mail /\ Queues /\ Permitted /\ Served

In(seq, r) == \E i \in 1..Len(seq) : seq[i] = r

\* Every request that was sent and not yet dispatched is where it can be found.
Placed ==
  \A r \in Request : /\ stage[r] = "sent" => In(mailbox, r)
                     /\ stage[r] = "queued" => In(queued[SessionOf[r]], r)

\* The end of the loop comes after the end of the channel, and that after the
\* last request was taken from it.
Ended ==
  /\ exited => ~ rx_open
  /\ ~ rx_open => closed /\ mailbox = <<>>

\* The history is of the requests that were received, each once, and a queue
\* lists its requests as the history does.
Recorded ==
  /\ \A i, j \in 1..Len(arrived) : arrived[i] = arrived[j] => i = j
  /\ \A i \in 1..Len(arrived) : stage[arrived[i]] \notin {"new", "sent"}

InLine(s) ==
  \A i, j \in 1..Len(arrived), a, b \in 1..Len(queued[s]) :
    i < j /\ arrived[i] = queued[s][a] /\ arrived[j] = queued[s][b] => a < b

Ordered == (\A s \in Session : InLine(s)) /\ DispatchedInOrder

OInv == Placed /\ Ended /\ Recorded /\ Ordered

\* Nothing that can be held is held by somebody who has gone: a permit is with a
\* task that dispatches or a child that runs, a ward's lock with a task that spawns.
Held ==
  /\ \A r \in permit : stage[r] \in {"locking", "spawning"} \/ work[r] = "running"
  /\ \A r \in guard : stage[r] = "spawning"

\* The guards of Progress: the loop has something to read, a task that dispatches
\* can have what it waits for, a wait can end, or a child that is not blocked runs.
LoopCan == ~ exited /\ ((rx_open /\ mailbox # <<>>) \/ done # <<>>)

DispatchCan(r) ==
  \/ stage[r] = "waiting" /\ Cardinality(permit) < Permits
  \/ stage[r] = "locking" /\ \A g \in guard : WardOf[g] # WardOf[r]
  \/ stage[r] \in {"spawning", "notifying"}

EndCan(r) == work[r] = "running" /\ \A d \in waits : Parent[d] # r

Unfinished(r) == stage[r] \notin {"new", "told"} \/ work[r] = "running"

\* While a request is unfinished somebody can go on: permits that are held while
\* their holders wait for a lock, or for a child that needs a permit itself, never
\* leave everyone waiting on everyone.  (What EverythingEnds needs of every state.)
NeverStuck ==
  (\E r \in Request : Unfinished(r)) =>
    LoopCan \/ \E r \in Request : DispatchCan(r) \/ r \in waits \/ EndCan(r)

-----------------------------------------------------------------------------
(* Sequences                                                               *)

LEMMA TakeHead ==
  ASSUME NEW S, NEW q \in Seq(S), q # <<>>
  PROVE  /\ Len(q) \in Nat \ {0} /\ Head(q) = q[1] /\ Head(q) \in S
         /\ Tail(q) \in Seq(S) /\ Len(Tail(q)) = Len(q) - 1
         /\ \A i \in 1..Len(Tail(q)) : i + 1 \in 1..Len(q) /\ Tail(q)[i] = q[i + 1]
OBVIOUS

LEMMA PutLast ==
  ASSUME NEW S, NEW q \in Seq(S), NEW x \in S
  PROVE  /\ Len(q) \in Nat /\ Append(q, x) \in Seq(S)
         /\ Len(Append(q, x)) = Len(q) + 1
         /\ \A i \in 1..Len(q) : Append(q, x)[i] = q[i]
         /\ Append(q, x)[Len(q) + 1] = x
OBVIOUS

\* A sequence whose requests are at one stage does not hear of a request that
\* moves from another stage.
LEMMA OtherMoves ==
  ASSUME NEW q \in Seq(Request), NEW st, AllAt(q, st),
         NEW r \in Request, stage[r] # st, NEW x,
         stage \in [Request -> Stage], At(r, x)
  PROVE  AllAt(q, st)'
BY DEF AllAt, At

\* Its head moves off, or a request joins it.
LEMMA HeadMoves ==
  ASSUME NEW q \in Seq(Request), q # <<>>, NEW st, AllAt(q, st), NEW x,
         stage \in [Request -> Stage], At(Head(q), x)
  PROVE  AllAt(Tail(q), st)'
<1>1. /\ Tail(q) \in Seq(Request) /\ Len(Tail(q)) \in Nat
      /\ \A i \in 1..Len(Tail(q)) : i + 1 \in 1..Len(q) /\ Tail(q)[i] = q[i + 1]
  BY TakeHead
<1>2. 1 \in 1..Len(q) /\ Head(q) = q[1]
  BY TakeHead
<1>3. \A i \in 1..Len(q) : q[i] \in Request
  OBVIOUS
<1>4. \A i \in 1..Len(Tail(q)) : Tail(q)[i] # Head(q)
  BY <1>1, <1>2 DEF AllAt
<1>5. \A i \in 1..Len(Tail(q)) : stage'[Tail(q)[i]] = st
  BY <1>1, <1>3, <1>4 DEF AllAt, At
<1>6. \A i, j \in 1..Len(Tail(q)) : i # j => Tail(q)[i] # Tail(q)[j]
  BY <1>1 DEF AllAt
<1> QED
  BY <1>5, <1>6 DEF AllAt

LEMMA OneJoins ==
  ASSUME NEW q \in Seq(Request), NEW st, AllAt(q, st),
         NEW r \in Request, stage[r] # st,
         stage \in [Request -> Stage], At(r, st)
  PROVE  AllAt(Append(q, r), st)'
<1>1. \A i \in 1..Len(q) : q[i] # r /\ q[i] \in Request
  BY DEF AllAt
<1> QED
  BY <1>1, PutLast DEF AllAt, At

-----------------------------------------------------------------------------
(* The steps, one conjunct of IInv at a time                               *)

\* The actions that leave the dispatcher's own variables alone.
Around(r) ==
  \/ Send(r) \/ Wait(r) \/ StopWaiting(r) \/ AcquirePermit(r) \/ AcquireWardLock(r)
  \/ Spawn(r) \/ SpawnFails(r) \/ Notify(r) \/ ChildEnds(r)

LEMMA Steps ==
  ASSUME Next
  PROVE  Receive \/ ReceiveClosed \/ HandleDone \/ Close \/ \E r \in Request : Around(r)
BY DEF Next, Loop, Dispatch, Around

LEMMA InitIInv == Init => IInv
<1> SUFFICES ASSUME Init PROVE IInv
  OBVIOUS
<1>1. Cardinality({}) = 0
  BY FS_EmptySet
<1>2. Types
  <2>1. <<>> \in Seq(Request) /\ <<>> \in Seq(Session)
    OBVIOUS
  <2>2. queued \in [Session -> Seq(Request)]
    BY <2>1 DEF Init
  <2>3. stage \in [Request -> Stage] /\ work \in [Request -> {"none", "running", "over"}]
    BY DEF Init, Stage, Undispatched
  <2> QED
    BY <2>1, <2>2, <2>3 DEF Init, Types
<1>3. Mail /\ Queues
  BY DEF Init, Mail, Queues, AllAt
<1>4. Permitted
  BY <1>1, DispatcherAssumption DEF Init, Permitted
<1>5. Served
  BY DEF Init, Served, Idle
<1> QED
  BY <1>2, <1>3, <1>4, <1>5 DEF IInv

\* What HandleDone takes from a queue: a request of that session, still queued.
LEMMA QueueHead ==
  ASSUME Types, Queues, NEW s \in Session, queued[s] # <<>>
  PROVE  /\ Head(queued[s]) \in Of(s) /\ stage[Head(queued[s])] = "queued"
         /\ queued[s] \in Seq(Request)
<1>1. queued[s] \in Seq(Request) /\ AllAt(queued[s], "queued")
      /\ \A i \in 1..Len(queued[s]) : SessionOf[queued[s][i]] = s
  BY DEF Types, Queues
<1>2. Len(queued[s]) \in Nat \ {0} /\ Head(queued[s]) = queued[s][1] /\ Head(queued[s]) \in Request
  BY <1>1, TakeHead
<1>3. 1 \in 1..Len(queued[s])
  BY <1>2
<1> QED
  BY <1>1, <1>2, <1>3 DEF AllAt, Of

\* What Receive takes from the mailbox: a request that was only sent.
LEMMA MailHead ==
  ASSUME Types, Mail, mailbox # <<>>
  PROVE  /\ Head(mailbox) \in Request /\ stage[Head(mailbox)] = "sent"
         /\ Tail(mailbox) \in Seq(Request) /\ SessionOf[Head(mailbox)] \in Session
<1>1. mailbox \in Seq(Request) /\ AllAt(mailbox, "sent")
  BY DEF Types, Mail
<1>2. /\ Len(mailbox) \in Nat \ {0} /\ Head(mailbox) = mailbox[1]
      /\ Head(mailbox) \in Request /\ Tail(mailbox) \in Seq(Request)
  BY <1>1, TakeHead
<1>3. 1 \in 1..Len(mailbox)
  BY <1>2
<1> QED
  BY <1>1, <1>2, <1>3, DispatcherAssumption DEF AllAt

LEMMA NextTypes == IInv /\ Next => Types'
<1> SUFFICES ASSUME IInv, Next PROVE Types'
  OBVIOUS
<1> USE DEF loopVars, holdVars, At
<1>0. Types /\ Mail /\ Queues /\ Permitted
  BY DEF IInv
<1>1. CASE Receive
  <2> DEFINE r == Head(mailbox)
             s == SessionOf[r]
  <2>1. r \in Request /\ s \in Session /\ Tail(mailbox) \in Seq(Request)
    BY <1>0, <1>1, MailHead DEF Receive
  <2>2. Append(arrived, r) \in Seq(Request) /\ Append(queued[s], r) \in Seq(Request)
    BY <1>0, <2>1, PutLast DEF Types
  <2>3. /\ At(r, "waiting") \/ At(r, "queued")
        /\ active' = active \cup {s} \/ active' = active
        /\ queued' = [queued EXCEPT ![s] = Append(queued[s], r)] \/ queued' = queued
    BY <1>1 DEF Receive
  <2>4. mailbox' = Tail(mailbox) /\ arrived' = Append(arrived, r)
    BY <1>1 DEF Receive
  <2> HIDE DEF r, s
  <2>5. queued' \in [Session -> Seq(Request)] /\ active' \subseteq Session
    BY <1>0, <2>1, <2>2, <2>3 DEF Types
  <2>6. stage' \in [Request -> Stage]
    BY <1>0, <2>1, <2>3 DEF Types, Stage, Undispatched, UnderWay
  <2> QED
    BY <1>0, <1>1, <2>1, <2>2, <2>4, <2>5, <2>6 DEF Receive, Types
<1>2. CASE ReceiveClosed
  BY <1>0, <1>2 DEF ReceiveClosed, Types, Idle
<1>3. CASE HandleDone
  <2> DEFINE s == Head(done)
  <2>1. s \in Session /\ Tail(done) \in Seq(Session)
    BY <1>0, <1>3, TakeHead DEF HandleDone, Types
  <2>2. ASSUME queued[s] # <<>>
        PROVE  Tail(queued[s]) \in Seq(Request) /\ Head(queued[s]) \in Request
    BY <1>0, <2>1, <2>2, QueueHead, TakeHead DEF Of
  <2>3. queued' \in [Session -> Seq(Request)] /\ active' \subseteq Session
        /\ stage' \in [Request -> Stage]
    BY <1>0, <1>3, <2>1, <2>2 DEF HandleDone, Types, Stage, UnderWay
  <2> QED
    BY <1>0, <1>3, <2>1, <2>3 DEF HandleDone, Types, Idle
<1>4. CASE Close
  BY <1>0, <1>4 DEF Close, Types
<1>5. ASSUME NEW r \in Request, Around(r) PROVE Types'
  <2>1. CASE Send(r)
    BY <1>0, <2>1, PutLast DEF Send, Types, Stage, Undispatched
  <2>2. CASE Wait(r)
    BY <1>0, <2>2 DEF Wait, Types
  <2>3. CASE StopWaiting(r)
    BY <1>0, <2>3 DEF StopWaiting, Types
  <2>4. CASE AcquirePermit(r)
    BY <1>0, <2>4 DEF AcquirePermit, Types, Stage, UnderWay
  <2>5. CASE AcquireWardLock(r)
    <3>1. r \in WardAgents
      BY <1>0, <2>5 DEF AcquireWardLock, Permitted
    <3> QED
      BY <1>0, <2>5, <3>1 DEF AcquireWardLock, Types, Stage, UnderWay
  <2>6. CASE Spawn(r) \/ SpawnFails(r)
    BY <1>0, <2>6 DEF Spawn, SpawnFails, Types, Stage, UnderWay
  <2>7. CASE Notify(r)
    <3>1. Append(done, SessionOf[r]) \in Seq(Session)
      BY <1>0, PutLast, DispatcherAssumption DEF Types
    <3> QED
      BY <1>0, <2>7, <3>1 DEF Notify, Types, Stage
  <2>8. CASE ChildEnds(r)
    BY <1>0, <2>8 DEF ChildEnds, Types
  <2> QED
    BY <1>5, <2>1, <2>2, <2>3, <2>4, <2>5, <2>6, <2>7, <2>8 DEF Around
<1> QED
  BY <1>1, <1>2, <1>3, <1>4, <1>5, Steps

LEMMA NextMail == IInv /\ Next => Mail'
<1> SUFFICES ASSUME IInv, Next PROVE Mail'
  OBVIOUS
<1>0. Types /\ Mail /\ Queues /\ AllAt(mailbox, "sent")
      /\ mailbox \in Seq(Request) /\ stage \in [Request -> Stage]
  BY DEF IInv, Types, Mail
<1>a. ASSUME mailbox' = mailbox, NEW r \in Request, stage[r] # "sent", NEW x, At(r, x)
      PROVE  Mail'
  BY <1>0, <1>a, OtherMoves DEF Mail, AllAt
<1>b. ASSUME mailbox' = mailbox, stage' = stage PROVE Mail'
  BY <1>0, <1>b DEF Mail, AllAt
<1>1. CASE Receive
  <2>1. mailbox # <<>> /\ mailbox' = Tail(mailbox)
        /\ (At(Head(mailbox), "waiting") \/ At(Head(mailbox), "queued"))
    BY <1>1 DEF Receive
  <2> QED
    BY <1>0, <2>1, HeadMoves DEF Mail, AllAt
<1>2. CASE ReceiveClosed
  BY <1>2, <1>b DEF ReceiveClosed
<1>3. CASE HandleDone
  <2>1. Head(done) \in Session
    BY <1>0, <1>3, TakeHead DEF HandleDone, Types
  <2>2. CASE queued[Head(done)] = <<>>
    BY <1>3, <1>b, <2>2 DEF HandleDone
  <2>3. CASE queued[Head(done)] # <<>>
    <3>1. Head(queued[Head(done)]) \in Request /\ stage[Head(queued[Head(done)])] # "sent"
      BY <1>0, <2>1, <2>3, QueueHead DEF Of
    <3> QED
      BY <1>3, <1>a, <2>3, <3>1 DEF HandleDone
  <2> QED
    BY <2>2, <2>3
<1>4. CASE Close
  BY <1>4, <1>b DEF Close
<1>5. ASSUME NEW r \in Request, Around(r) PROVE Mail'
  <2>1. CASE Send(r)
    <3>1. stage[r] # "sent" /\ At(r, "sent") /\ mailbox' = Append(mailbox, r)
      BY <2>1 DEF Send
    <3>2. PICK q \in Seq(Request) : q = mailbox
      BY <1>0
    <3>3. AllAt(q, "sent")
      BY <1>0, <3>2
    <3>4. AllAt(Append(q, r), "sent")'
      BY <1>0, <3>1, <3>3, OneJoins
    <3> QED
      BY <3>1, <3>2, <3>4 DEF Mail, AllAt
  <2>2. CASE Wait(r) \/ StopWaiting(r) \/ ChildEnds(r)
    BY <1>b, <2>2 DEF Wait, StopWaiting, ChildEnds
  <2>3. CASE AcquirePermit(r) \/ AcquireWardLock(r) \/ Spawn(r) \/ SpawnFails(r) \/ Notify(r)
    <3>1. stage[r] # "sent" /\ mailbox' = mailbox /\ \E x \in Stage : At(r, x)
      BY <2>3 DEF AcquirePermit, AcquireWardLock, Spawn, SpawnFails, Notify, Stage, UnderWay
    <3> QED
      BY <1>a, <3>1
  <2> QED
    BY <1>5, <2>1, <2>2, <2>3 DEF Around
<1> QED
  BY <1>1, <1>2, <1>3, <1>4, <1>5, Steps

LEMMA NextQueues == IInv /\ Next => Queues'
<1> SUFFICES ASSUME IInv, Next PROVE Queues'
  OBVIOUS
<1>0. /\ Types /\ Mail /\ Queues /\ stage \in [Request -> Stage]
      /\ queued \in [Session -> Seq(Request)]
  BY DEF IInv, Types
<1>a. ASSUME queued' = queued, NEW r \in Request, stage[r] # "queued", NEW x, At(r, x)
      PROVE  Queues'
  <2> SUFFICES ASSUME NEW s \in Session
               PROVE  AllAt(queued[s], "queued")'
                      /\ \A i \in 1..Len(queued'[s]) : SessionOf[queued'[s][i]] = s
    BY DEF Queues
  <2>1. queued'[s] = queued[s] /\ queued[s] \in Seq(Request) /\ AllAt(queued[s], "queued")
        /\ \A i \in 1..Len(queued[s]) : SessionOf[queued[s][i]] = s
    BY <1>0, <1>a DEF Queues
  <2>2. \A i \in 1..Len(queued[s]) : stage'[queued[s][i]] = "queued"
    BY <1>0, <1>a, <2>1 DEF AllAt, At
  <2> QED
    BY <2>1, <2>2 DEF AllAt
<1>b. ASSUME queued' = queued, stage' = stage PROVE Queues'
  BY <1>0, <1>b DEF Queues, AllAt
<1>1. CASE Receive
  <2>1. PICK r \in Request, s \in Session :
          r = Head(mailbox) /\ s = SessionOf[r] /\ stage[r] = "sent"
    BY <1>0, <1>1, MailHead DEF Receive
  <2>2. \/ At(r, "waiting") /\ queued' = queued
        \/ At(r, "queued") /\ queued' = [queued EXCEPT ![s] = Append(queued[s], r)]
    BY <1>1, <2>1 DEF Receive
  <2>3. CASE At(r, "waiting") /\ queued' = queued
    BY <1>a, <2>1, <2>3
  <2>4. CASE At(r, "queued") /\ queued' = [queued EXCEPT ![s] = Append(queued[s], r)]
    <3>1. ASSUME NEW t \in Session, t # s
          PROVE  AllAt(queued[t], "queued")'
                 /\ \A i \in 1..Len(queued'[t]) : SessionOf[queued'[t][i]] = t
      <4>1. queued'[t] = queued[t] /\ queued[t] \in Seq(Request) /\ AllAt(queued[t], "queued")
            /\ \A i \in 1..Len(queued[t]) : SessionOf[queued[t][i]] = t /\ queued[t][i] # r
        BY <1>0, <2>1, <2>4, <3>1 DEF Queues
      <4>2. \A i \in 1..Len(queued[t]) : stage'[queued[t][i]] = "queued"
        BY <1>0, <2>1, <2>4, <4>1 DEF At, AllAt
      <4> QED
        BY <4>1, <4>2 DEF AllAt
    <3>2. AllAt(queued[s], "queued")'
          /\ \A i \in 1..Len(queued'[s]) : SessionOf[queued'[s][i]] = s
      <4>1. queued'[s] = Append(queued[s], r) /\ queued[s] \in Seq(Request)
            /\ AllAt(queued[s], "queued")
            /\ \A i \in 1..Len(queued[s]) : SessionOf[queued[s][i]] = s
        BY <1>0, <2>1, <2>4 DEF Queues
      <4>2. /\ \A i \in 1..Len(queued[s]) : queued[s][i] # r /\ queued[s][i] \in Request
            /\ Len(queued[s]) \in Nat
        BY <2>1, <4>1 DEF AllAt
      <4>3. /\ Len(queued'[s]) = Len(queued[s]) + 1 /\ queued'[s][Len(queued[s]) + 1] = r
            /\ \A i \in 1..Len(queued[s]) : queued'[s][i] = queued[s][i]
        BY <2>1, <4>1, PutLast
      <4>4. \A i \in 1..Len(queued'[s]) : i \in 1..Len(queued[s]) \/ i = Len(queued[s]) + 1
        BY <4>2, <4>3
      <4>5. \A i \in 1..Len(queued'[s]) :
              stage'[queued'[s][i]] = "queued" /\ SessionOf[queued'[s][i]] = s
        BY <1>0, <2>1, <2>4, <4>1, <4>2, <4>3, <4>4 DEF AllAt, At
      <4>6. \A i, j \in 1..Len(queued'[s]) : i # j => queued'[s][i] # queued'[s][j]
        BY <4>1, <4>2, <4>3, <4>4 DEF AllAt
      <4> QED
        BY <4>5, <4>6 DEF AllAt
    <3> QED
      BY <3>1, <3>2 DEF Queues
  <2> QED
    BY <2>2, <2>3, <2>4
<1>2. CASE ReceiveClosed
  BY <1>2, <1>b DEF ReceiveClosed
<1>3. CASE HandleDone
  <2>1. PICK s \in Session : s = Head(done)
    BY <1>0, <1>3, TakeHead DEF HandleDone, Types
  <2>2. CASE queued[s] = <<>>
    BY <1>3, <1>b, <2>1, <2>2 DEF HandleDone
  <2>3. CASE queued[s] # <<>>
    <3>1. PICK r \in Request, q \in Seq(Request) :
            r = Head(queued[s]) /\ q = queued[s] /\ SessionOf[r] = s
      BY <1>0, <2>3, QueueHead DEF Of
    <3>2. At(r, "waiting") /\ queued' = [queued EXCEPT ![s] = Tail(q)]
      BY <1>3, <2>1, <2>3, <3>1 DEF HandleDone
    <3>3. ASSUME NEW t \in Session, t # s
          PROVE  AllAt(queued[t], "queued")'
                 /\ \A i \in 1..Len(queued'[t]) : SessionOf[queued'[t][i]] = t
      <4>1. queued'[t] = queued[t] /\ queued[t] \in Seq(Request) /\ AllAt(queued[t], "queued")
            /\ \A i \in 1..Len(queued[t]) : SessionOf[queued[t][i]] = t /\ queued[t][i] # r
        BY <1>0, <3>1, <3>2, <3>3 DEF Queues
      <4>2. \A i \in 1..Len(queued[t]) : stage'[queued[t][i]] = "queued"
        BY <1>0, <3>2, <4>1 DEF At, AllAt
      <4> QED
        BY <4>1, <4>2 DEF AllAt
    <3>4. AllAt(queued[s], "queued")'
          /\ \A i \in 1..Len(queued'[s]) : SessionOf[queued'[s][i]] = s
      <4>1. queued'[s] = Tail(q) /\ AllAt(q, "queued") /\ q # <<>> /\ r = Head(q)
            /\ \A i \in 1..Len(q) : SessionOf[q[i]] = s
        BY <1>0, <2>3, <3>1, <3>2 DEF Queues
      <4>2. AllAt(Tail(q), "queued")'
        BY <1>0, <3>2, <4>1, HeadMoves
      <4>3. \A i \in 1..Len(Tail(q)) : SessionOf[Tail(q)[i]] = s
        BY <4>1, TakeHead
      <4> QED
        BY <4>1, <4>2, <4>3 DEF AllAt
    <3> QED
      BY <3>3, <3>4 DEF Queues
  <2> QED
    BY <2>2, <2>3
<1>4. CASE Close
  BY <1>4, <1>b DEF Close, loopVars
<1>5. ASSUME NEW r \in Request, Around(r) PROVE Queues'
  <2>1. CASE Wait(r) \/ StopWaiting(r) \/ ChildEnds(r)
    BY <1>b, <2>1 DEF Wait, StopWaiting, ChildEnds, loopVars
  <2>2. CASE Send(r) \/ AcquirePermit(r) \/ AcquireWardLock(r) \/ Spawn(r)
             \/ SpawnFails(r) \/ Notify(r)
    <3>1. stage[r] # "queued" /\ queued' = queued /\ \E x \in Stage : At(r, x)
      BY <2>2 DEF Send, AcquirePermit, AcquireWardLock, Spawn, SpawnFails, Notify,
                  loopVars, Stage, Undispatched, UnderWay
    <3> QED
      BY <1>a, <3>1
  <2> QED
    BY <1>5, <2>1, <2>2 DEF Around
<1> QED
  BY <1>1, <1>2, <1>3, <1>4, <1>5, Steps

LEMMA NextPermitted == IInv /\ Next => Permitted'
<1> SUFFICES ASSUME IInv, Next PROVE Permitted'
  OBVIOUS
<1>0. /\ Types /\ Mail /\ Queues /\ Permitted /\ stage \in [Request -> Stage]
      /\ work \in [Request -> {"none", "running", "over"}] /\ permit \subseteq Request
  BY DEF IInv, Types
<1>a. ASSUME UNCHANGED <<work, permit>>,
             NEW r \in Request, stage[r] \in {"new", "sent", "queued"},
             NEW x \in {"sent", "queued", "waiting"}, At(r, x)
      PROVE  Permitted'
  BY <1>0, <1>a DEF Permitted, At
<1>b. ASSUME UNCHANGED <<work, permit, stage>> PROVE Permitted'
  BY <1>b, <1>0 DEF Permitted
<1>c. IsFiniteSet(permit) /\ Cardinality(permit) \in Nat /\ Permits \in Nat
  BY <1>0, DispatcherAssumption, FS_Subset, FS_CardinalityType
<1>1. CASE Receive
  <2>1. Head(mailbox) \in Request /\ stage[Head(mailbox)] = "sent"
    BY <1>0, <1>1, MailHead DEF Receive
  <2> QED
    BY <1>1, <1>a, <2>1 DEF Receive, holdVars
<1>2. CASE ReceiveClosed
  BY <1>2, <1>b DEF ReceiveClosed, holdVars
<1>3. CASE HandleDone
  <2>1. Head(done) \in Session
    BY <1>0, <1>3, TakeHead DEF HandleDone, Types
  <2>2. CASE queued[Head(done)] = <<>>
    BY <1>3, <1>b, <2>2 DEF HandleDone, holdVars
  <2>3. CASE queued[Head(done)] # <<>>
    <3>1. Head(queued[Head(done)]) \in Request /\ stage[Head(queued[Head(done)])] = "queued"
      BY <1>0, <2>1, <2>3, QueueHead DEF Of
    <3> QED
      BY <1>3, <1>a, <2>3, <3>1 DEF HandleDone, holdVars
  <2> QED
    BY <2>2, <2>3
<1>4. CASE Close
  BY <1>4, <1>b DEF Close, holdVars
<1>5. ASSUME NEW r \in Request, Around(r) PROVE Permitted'
  <2>1. CASE Send(r)
    BY <1>a, <2>1 DEF Send, holdVars
  <2>2. CASE Wait(r) \/ StopWaiting(r)
    BY <1>b, <2>2 DEF Wait, StopWaiting
  <2>3. CASE AcquirePermit(r)
    <3>1. Cardinality(permit \cup {r}) = IF r \in permit THEN Cardinality(permit)
                                                           ELSE Cardinality(permit) + 1
      BY <1>c, FS_AddElement
    <3>2. Cardinality(permit') <= Permits
      BY <1>c, <2>3, <3>1 DEF AcquirePermit
    <3> QED
      BY <1>0, <2>3, <3>2 DEF AcquirePermit, Permitted, At
  <2>4. CASE AcquireWardLock(r)
    BY <1>0, <2>4 DEF AcquireWardLock, Permitted, At
  <2>5. CASE Spawn(r)
    BY <1>0, <2>5 DEF Spawn, Permitted, At
  <2>6. ASSUME permit' = permit \ {r} PROVE Cardinality(permit') <= Permits
    <3>1. Cardinality(permit \ {r}) = IF r \in permit THEN Cardinality(permit) - 1
                                                        ELSE Cardinality(permit)
      BY <1>c, FS_RemoveElement
    <3> QED
      BY <1>0, <1>c, <2>6, <3>1 DEF Permitted
  <2>7. CASE SpawnFails(r)
    BY <1>0, <2>6, <2>7 DEF SpawnFails, Permitted, At
  <2>8. CASE Notify(r)
    BY <1>0, <2>8 DEF Notify, Permitted, At, holdVars
  <2>9. CASE ChildEnds(r)
    BY <1>0, <2>6, <2>9 DEF ChildEnds, Permitted
  <2> QED
    BY <1>5, <2>1, <2>2, <2>3, <2>4, <2>5, <2>7, <2>8, <2>9 DEF Around
<1> QED
  BY <1>1, <1>2, <1>3, <1>4, <1>5, Steps

\* A request that starts, or goes on, leaves every session's account as it is.
LEMMA StillOwed ==
  ASSUME stage \in [Request -> Stage], done' = done, NEW t, Outstanding(t),
         NEW r \in Request, NEW x, At(r, x), stage[r] \in UnderWay => x \in UnderWay
  PROVE  Outstanding(t)'
<1>1. CASE \E q \in Of(t) : stage[q] \in UnderWay
  <2>1. PICK q \in Of(t) : stage[q] \in UnderWay
    BY <1>1
  <2>2. q \in Request /\ stage'[q] \in UnderWay
    BY <2>1 DEF Of, At
  <2> QED
    BY <2>1, <2>2 DEF Outstanding
<1>2. CASE \E i \in 1..Len(done) : done[i] = t
  BY <1>2 DEF Outstanding
<1> QED
  BY <1>1, <1>2 DEF Outstanding

LEMMA NextServed == IInv /\ Next => Served'
<1> SUFFICES ASSUME IInv, Next PROVE Served'
  OBVIOUS
<1>0. /\ Types /\ Mail /\ Queues /\ Served /\ stage \in [Request -> Stage]
      /\ queued \in [Session -> Seq(Request)] /\ done \in Seq(Session)
      /\ active \subseteq Session
  BY DEF IInv, Types
<1>a. ASSUME UNCHANGED <<active, queued, exited, done>>,
             NEW r \in Request, NEW x, At(r, x), stage[r] \in UnderWay => x \in UnderWay
      PROVE  Served'
  <2>1. ASSUME NEW t \in active PROVE Outstanding(t)'
    BY <1>0, <1>a, <2>1, StillOwed DEF Served
  <2> QED
    BY <1>0, <1>a, <2>1 DEF Served, Idle
<1>b. ASSUME UNCHANGED <<active, queued, exited, done, stage>> PROVE Served'
  BY <1>0, <1>b DEF Served, Outstanding, Idle
<1>1. CASE Receive
  <2>1. PICK r \in Request, s \in Session :
          r = Head(mailbox) /\ s = SessionOf[r] /\ stage[r] = "sent" /\ r \in Of(s)
    BY <1>0, <1>1, MailHead DEF Receive, Of
  <2>2. ~ exited /\ ~ exited' /\ done' = done
    BY <1>1 DEF Receive
  <2>3. CASE At(r, "waiting") /\ UNCHANGED <<active, queued>>
    BY <1>1, <1>a, <2>1, <2>3 DEF Receive, UnderWay
  <2>4. CASE s \in active /\ At(r, "queued") /\ UNCHANGED active
             /\ queued' = [queued EXCEPT ![s] = Append(@, r)]
    <3>1. \A t \in Session : queued'[t] # <<>> => t \in active'
      BY <1>0, <2>4 DEF Served
    <3>2. ASSUME NEW t \in active PROVE Outstanding(t)'
      <4>1. stage[r] \notin UnderWay /\ Outstanding(t)
        BY <1>0, <2>1 DEF Served, UnderWay
      <4> QED
        BY <1>0, <2>1, <2>2, <2>4, <4>1, StillOwed
    <3> QED
      BY <2>2, <2>4, <3>1, <3>2 DEF Served
  <2>5. CASE At(r, "waiting") /\ UNCHANGED queued /\ active' = active \cup {s}
    <3>1. \A t \in Session : queued'[t] # <<>> => t \in active'
      BY <1>0, <2>5 DEF Served
    <3>2. Outstanding(s)'
      BY <1>0, <2>1, <2>5 DEF Outstanding, At, UnderWay
    <3>3. ASSUME NEW t \in active PROVE Outstanding(t)'
      <4>1. stage[r] \notin UnderWay /\ Outstanding(t)
        BY <1>0, <2>1 DEF Served, UnderWay
      <4> QED
        BY <1>0, <2>1, <2>2, <2>5, <4>1, StillOwed
    <3> QED
      BY <2>2, <2>5, <3>1, <3>2, <3>3 DEF Served
  <2> QED
    BY <1>1, <2>1, <2>3, <2>4, <2>5 DEF Receive
<1>2. CASE ReceiveClosed
  BY <1>0, <1>2 DEF ReceiveClosed, Served, Outstanding, Idle
<1>3. CASE HandleDone
  <2>1. PICK s \in Session : s = Head(done)
    BY <1>0, <1>3, TakeHead DEF HandleDone, Types
  <2>2. /\ done' = Tail(done) /\ Len(done) \in Nat \ {0} /\ done[1] = s
        /\ Len(done') = Len(done) - 1
        /\ \A i \in 1..Len(done') : done'[i] = done[i + 1]
    BY <1>0, <1>3, <2>1, TakeHead DEF HandleDone
  <2>3. ASSUME NEW t \in Session, t # s, NEW i \in 1..Len(done), done[i] = t
        PROVE  \E j \in 1..Len(done') : done'[j] = t
    <3>1. i - 1 \in 1..Len(done') /\ (i - 1) + 1 = i
      BY <2>2, <2>3
    <3> QED
      BY <2>2, <2>3, <3>1
  <2>4. exited' => Idle(active', queued')
    BY <1>3 DEF HandleDone
  <2>5. CASE queued[s] = <<>>
    <3>1. active' = active \ {s} /\ UNCHANGED <<queued, stage>>
      BY <1>3, <2>1, <2>5 DEF HandleDone
    <3>2. ASSUME NEW t \in active' PROVE Outstanding(t)'
      BY <1>0, <2>3, <3>1 DEF Served, Outstanding
    <3> QED
      BY <1>0, <2>4, <2>5, <3>1, <3>2 DEF Served, Idle
  <2>6. CASE queued[s] # <<>>
    <3>1. PICK r \in Of(s) : r = Head(queued[s]) /\ stage[r] = "queued"
      BY <1>0, <2>6, QueueHead
    <3>2. /\ At(r, "waiting") /\ active' = active \cup {s}
          /\ queued' = [queued EXCEPT ![s] = Tail(@)]
      BY <1>3, <2>1, <2>6, <3>1 DEF HandleDone
    <3>3. Outstanding(s)'
      BY <1>0, <3>1, <3>2 DEF Outstanding, At, Of, UnderWay
    <3>4. ASSUME NEW t \in active, t # s PROVE Outstanding(t)'
      BY <1>0, <2>3, <3>1, <3>2, <3>4 DEF Served, Outstanding, At, Of, UnderWay
    <3>5. \A t \in Session : queued'[t] # <<>> => t \in active'
      BY <1>0, <3>2 DEF Served
    <3> QED
      BY <2>4, <3>2, <3>3, <3>4, <3>5 DEF Served, Idle
  <2> QED
    BY <2>5, <2>6
<1>4. CASE Close
  BY <1>4, <1>b DEF Close, loopVars
<1>5. ASSUME NEW r \in Request, Around(r) PROVE Served'
  <2>1. CASE Wait(r) \/ StopWaiting(r) \/ ChildEnds(r)
    BY <1>b, <2>1 DEF Wait, StopWaiting, ChildEnds, loopVars
  <2>2. CASE Send(r) \/ AcquirePermit(r) \/ AcquireWardLock(r) \/ Spawn(r) \/ SpawnFails(r)
    <3>1. \E x \in Stage : At(r, x) /\ (stage[r] \in UnderWay => x \in UnderWay)
      BY <2>2 DEF Send, AcquirePermit, AcquireWardLock, Spawn, SpawnFails,
                  Stage, Undispatched, UnderWay
    <3>2. UNCHANGED <<active, queued, exited, done>>
      BY <2>2 DEF Send, AcquirePermit, AcquireWardLock, Spawn, SpawnFails, loopVars
    <3> QED
      BY <1>a, <3>1, <3>2
  <2>3. CASE Notify(r)
    <3>1. At(r, "told") /\ UNCHANGED <<active, queued, exited>> /\ SessionOf[r] \in Session
      BY <2>3, DispatcherAssumption DEF Notify, loopVars
    <3>2. CASE exited
      BY <1>0, <3>1, <3>2 DEF Served, Idle
    <3>3. CASE ~ exited
      <4>1. done' = Append(done, SessionOf[r])
        BY <2>3, <3>3 DEF Notify
      <4>2. /\ Len(done) \in Nat /\ Len(done') = Len(done) + 1
            /\ \A i \in 1..Len(done) : done'[i] = done[i]
            /\ done'[Len(done) + 1] = SessionOf[r]
        BY <1>0, <3>1, <4>1, PutLast
      <4>3. ASSUME NEW t \in active PROVE Outstanding(t)'
        <5>1. CASE \E q \in Of(t) : stage[q] \in UnderWay
          <6>1. PICK q \in Of(t) : stage[q] \in UnderWay
            BY <5>1
          <6>2. CASE q = r
            <7>1. done'[Len(done) + 1] = t /\ Len(done) + 1 \in 1..Len(done')
              BY <4>2, <6>2 DEF Of
            <7> QED
              BY <7>1 DEF Outstanding
          <6>3. CASE q # r
            BY <1>0, <3>1, <6>1, <6>3 DEF Outstanding, At, Of
          <6> QED
            BY <6>2, <6>3
        <5>2. CASE \E i \in 1..Len(done) : done[i] = t
          <6>1. PICK i \in 1..Len(done) : done[i] = t
            BY <5>2
          <6>2. i \in 1..Len(done') /\ done'[i] = t
            BY <4>2, <6>1
          <6> QED
            BY <6>2 DEF Outstanding
        <5> QED
          BY <1>0, <5>1, <5>2 DEF Served, Outstanding
      <4> QED
        BY <1>0, <3>1, <3>3, <4>3 DEF Served
    <3> QED
      BY <3>2, <3>3
  <2> QED
    BY <1>5, <2>1, <2>2, <2>3 DEF Around
<1> QED
  BY <1>1, <1>2, <1>3, <1>4, <1>5, Steps

-----------------------------------------------------------------------------
(* The order of dispatch, one conjunct of OInv at a time                   *)

LEMMA InLonger ==
  ASSUME NEW q \in Seq(Request), NEW x \in Request
  PROVE  In(Append(q, x), x) /\ \A r : In(q, r) => In(Append(q, x), r)
<1>1. /\ Len(q) \in Nat /\ Len(Append(q, x)) = Len(q) + 1
      /\ \A i \in 1..Len(q) : Append(q, x)[i] = q[i]
      /\ Append(q, x)[Len(q) + 1] = x
  BY PutLast
<1>2. Len(q) + 1 \in 1..Len(Append(q, x)) /\ \A i \in 1..Len(q) : i \in 1..Len(Append(q, x))
  BY <1>1
<1> QED
  BY <1>1, <1>2 DEF In

LEMMA InShorter ==
  ASSUME NEW q \in Seq(Request), q # <<>>, NEW r, In(q, r), r # Head(q)
  PROVE  In(Tail(q), r)
<1>1. /\ Len(q) \in Nat \ {0} /\ Head(q) = q[1] /\ Len(Tail(q)) = Len(q) - 1
      /\ \A i \in 1..Len(Tail(q)) : Tail(q)[i] = q[i + 1]
  BY TakeHead
<1>2. PICK i \in 1..Len(q) : q[i] = r
  BY DEF In
<1>3. i - 1 \in 1..Len(Tail(q)) /\ (i - 1) + 1 = i
  BY <1>1, <1>2
<1> QED
  BY <1>1, <1>2, <1>3 DEF In

\* A step that moves no request into, between or out of the stages before its
\* dispatch, and leaves the sequences alone.
Aside ==
  /\ UNCHANGED <<mailbox, queued, arrived>>
  /\ \A r \in Request :
       stage'[r] = stage[r] \/ (stage[r] \notin Undispatched /\ stage'[r] \notin Undispatched)

LEMMA MostAreAside ==
  ASSUME Types,
         \/ ReceiveClosed \/ Close
         \/ \E r \in Request : Around(r) /\ ~ Send(r)
  PROVE  Aside
<1> USE DEF Types, At, loopVars, holdVars
<1>1. CASE ReceiveClosed \/ Close
  BY <1>1 DEF ReceiveClosed, Close, Aside
<1>2. ASSUME NEW r \in Request, Around(r), ~ Send(r) PROVE Aside
  <2>1. CASE Wait(r) \/ StopWaiting(r) \/ ChildEnds(r)
    BY <2>1 DEF Wait, StopWaiting, ChildEnds, Aside
  <2>2. CASE AcquirePermit(r) \/ AcquireWardLock(r)
    BY <2>2 DEF AcquirePermit, AcquireWardLock, Aside, Undispatched
  <2>3. CASE Spawn(r) \/ SpawnFails(r) \/ Notify(r)
    BY <2>3 DEF Spawn, SpawnFails, Notify, Aside, Undispatched
  <2> QED
    BY <1>2, <2>1, <2>2, <2>3 DEF Around
<1> QED
  BY <1>1, <1>2

LEMMA FourSteps ==
  ASSUME Types, Next
  PROVE  Aside \/ Receive \/ HandleDone \/ \E r \in Request : Send(r)
BY Steps, MostAreAside

\* What Receive does: the head of the mailbox is recorded, and it is queued, or
\* dispatched, a sequential one only if its session is not active.
LEMMA ReceiveEffect ==
  ASSUME IInv, Receive
  PROVE  \E r \in Request :
           /\ mailbox # <<>> /\ r = Head(mailbox) /\ stage[r] = "sent"
           /\ mailbox' = Tail(mailbox) /\ arrived' = Append(arrived, r)
           /\ \/ /\ queued' = [queued EXCEPT ![SessionOf[r]] = Append(@, r)]
                 /\ stage' = [stage EXCEPT ![r] = "queued"]
              \/ /\ r \in Parallel \/ SessionOf[r] \notin active
                 /\ queued' = queued /\ stage' = [stage EXCEPT ![r] = "waiting"]
<1>1. Types /\ Mail /\ mailbox # <<>>
  BY DEF IInv, Receive
<1>2. Head(mailbox) \in Request /\ stage[Head(mailbox)] = "sent"
  BY <1>1, MailHead
<1> QED
  BY <1>1, <1>2 DEF Receive, At

\* What HandleDone does to the requests: nothing, or a queue's head is dispatched.
LEMMA HandleDoneEffect ==
  ASSUME IInv, HandleDone
  PROVE  \/ Aside
         \/ \E s \in Session, r \in Request :
              /\ queued[s] # <<>> /\ r = Head(queued[s]) /\ stage[r] = "queued"
              /\ SessionOf[r] = s /\ UNCHANGED <<mailbox, arrived>>
              /\ queued' = [queued EXCEPT ![s] = Tail(@)]
              /\ stage' = [stage EXCEPT ![r] = "waiting"]
<1>1. Types /\ Queues /\ UNCHANGED <<mailbox, arrived>>
  BY DEF IInv, HandleDone
<1>2. PICK s \in Session : s = Head(done)
  BY <1>1, TakeHead DEF HandleDone, Types
<1>3. CASE queued[s] = <<>>
  BY <1>1, <1>2, <1>3 DEF HandleDone, Aside
<1>4. CASE queued[s] # <<>>
  <2>1. PICK r \in Of(s) : r = Head(queued[s]) /\ stage[r] = "queued"
    BY <1>1, <1>4, QueueHead
  <2> QED
    BY <1>1, <1>2, <1>4, <2>1 DEF HandleDone, At, Of
<1> QED
  BY <1>3, <1>4

LEMMA NextPlaced == IInv /\ Placed /\ Next => Placed'
<1> SUFFICES ASSUME IInv, Placed, Next PROVE Placed'
  OBVIOUS
<1>0. /\ Types /\ stage \in [Request -> Stage] /\ queued \in [Session -> Seq(Request)]
      /\ mailbox \in Seq(Request) /\ SessionOf \in [Request -> Session]
  BY DispatcherAssumption DEF IInv, Types
<1>a. CASE Aside
  BY <1>0, <1>a DEF Aside, Placed, In, Undispatched
<1>1. CASE Receive
  <2>1. PICK r \in Request :
           /\ mailbox # <<>> /\ r = Head(mailbox) /\ stage[r] = "sent"
           /\ mailbox' = Tail(mailbox)
           /\ \/ /\ queued' = [queued EXCEPT ![SessionOf[r]] = Append(@, r)]
                 /\ stage' = [stage EXCEPT ![r] = "queued"]
              \/ queued' = queued /\ stage' = [stage EXCEPT ![r] = "waiting"]
    BY <1>1, ReceiveEffect
  <2>2. ASSUME NEW x \in Request, stage'[x] = "sent" PROVE In(mailbox', x)
    <3>1. x # r /\ stage[x] = "sent"
      BY <1>0, <2>1, <2>2
    <3> QED
      BY <1>0, <2>1, <3>1, InShorter DEF Placed
  <2>3. ASSUME NEW x \in Request, stage'[x] = "queued" PROVE In(queued'[SessionOf[x]], x)
    <3>1. PICK s \in Session, q \in Seq(Request) :
            s = SessionOf[x] /\ q = queued[s]
      BY <1>0
    <3>2. In(Append(q, x), x) /\ (In(q, x) => In(Append(q, r), x))
      BY InLonger
    <3>3. x # r => In(q, x)
      BY <1>0, <2>1, <2>3, <3>1 DEF Placed
    <3> QED
      BY <1>0, <2>1, <2>3, <3>1, <3>2, <3>3
  <2> QED
    BY <2>2, <2>3 DEF Placed, In
<1>2. CASE HandleDone
  <2>1. CASE \E s \in Session, r \in Request :
              /\ queued[s] # <<>> /\ r = Head(queued[s]) /\ stage[r] = "queued"
              /\ SessionOf[r] = s /\ UNCHANGED <<mailbox, arrived>>
              /\ queued' = [queued EXCEPT ![s] = Tail(@)]
              /\ stage' = [stage EXCEPT ![r] = "waiting"]
    <3>1. PICK s \in Session, r \in Request :
              /\ queued[s] # <<>> /\ r = Head(queued[s]) /\ mailbox' = mailbox
              /\ queued' = [queued EXCEPT ![s] = Tail(@)]
              /\ stage' = [stage EXCEPT ![r] = "waiting"]
      BY <2>1
    <3>2. ASSUME NEW x \in Request, stage'[x] = "sent" PROVE In(mailbox', x)
      BY <1>0, <3>1, <3>2 DEF Placed
    <3>3. ASSUME NEW x \in Request, stage'[x] = "queued" PROVE In(queued'[SessionOf[x]], x)
      <4>1. x # r /\ In(queued[SessionOf[x]], x) /\ SessionOf[x] \in Session
        BY <1>0, <3>1, <3>3 DEF Placed
      <4>2. SessionOf[x] = s => In(Tail(queued[s]), x)
        BY <1>0, <3>1, <4>1, InShorter
      <4> QED
        BY <1>0, <3>1, <4>1, <4>2
    <3> QED
      BY <3>2, <3>3 DEF Placed, In
  <2> QED
    BY <1>2, <1>a, <2>1, HandleDoneEffect
<1>3. ASSUME NEW r \in Request, Send(r) PROVE Placed'
  <2>1. /\ mailbox' = Append(mailbox, r) /\ queued' = queued
        /\ stage' = [stage EXCEPT ![r] = "sent"]
    BY <1>3 DEF Send, At, loopVars
  <2>2. In(Append(mailbox, r), r) /\ \A x : In(mailbox, x) => In(Append(mailbox, r), x)
    BY <1>0, InLonger
  <2>3. ASSUME NEW x \in Request, stage'[x] = "sent" PROVE In(mailbox', x)
    BY <1>0, <2>1, <2>2, <2>3 DEF Placed
  <2>4. ASSUME NEW x \in Request, stage'[x] = "queued" PROVE In(queued'[SessionOf[x]], x)
    BY <1>0, <2>1, <2>4 DEF Placed
  <2> QED
    BY <2>3, <2>4 DEF Placed, In
<1> QED
  BY <1>0, <1>a, <1>1, <1>2, <1>3, FourSteps

LEMMA NextEnded == IInv /\ Ended /\ Next => Ended'
<1> SUFFICES ASSUME IInv, Ended, Next PROVE Ended'
  OBVIOUS
<1> USE DEF Ended, loopVars, holdVars
<1>1. CASE Receive
  BY <1>1 DEF Receive
<1>2. CASE ReceiveClosed
  BY <1>2 DEF ReceiveClosed
<1>3. CASE HandleDone
  BY <1>3 DEF HandleDone
<1>4. CASE Close
  BY <1>4 DEF Close
<1>5. ASSUME NEW r \in Request, Around(r) PROVE Ended'
  <2>1. CASE Send(r)
    BY <2>1 DEF Send
  <2>2. CASE ~ Send(r)
    BY <1>5, <2>2 DEF Around, Wait, StopWaiting, AcquirePermit, AcquireWardLock, Spawn,
                      SpawnFails, Notify, ChildEnds
  <2> QED
    BY <2>1, <2>2
<1> QED
  BY <1>1, <1>2, <1>3, <1>4, <1>5, Steps

\* The history as Receive extends it.
LEMMA OneArrives ==
  ASSUME arrived \in Seq(Request), NEW r \in Request, arrived' = Append(arrived, r)
  PROVE  /\ Len(arrived) \in Nat /\ arrived'[Len(arrived) + 1] = r
         /\ \A i \in 1..Len(arrived') : i \in 1..Len(arrived) \/ i = Len(arrived) + 1
         /\ \A i \in 1..Len(arrived) : arrived'[i] = arrived[i] /\ arrived[i] \in Request
<1>1. /\ Len(arrived) \in Nat /\ Len(arrived') = Len(arrived) + 1
      /\ \A i \in 1..Len(arrived) : arrived'[i] = arrived[i]
      /\ arrived'[Len(arrived) + 1] = r
  BY PutLast
<1> QED
  BY <1>1

LEMMA NextRecorded == IInv /\ Recorded /\ Next => Recorded'
<1> SUFFICES ASSUME IInv, Recorded, Next PROVE Recorded'
  OBVIOUS
<1>0. /\ Types /\ stage \in [Request -> Stage] /\ arrived \in Seq(Request)
      /\ \A i \in 1..Len(arrived) : arrived[i] \in Request
  BY DEF IInv, Types
<1>a. CASE Aside
  BY <1>0, <1>a DEF Aside, Recorded, Undispatched
<1>1. CASE Receive
  <2>1. PICK r \in Request :
           /\ stage[r] = "sent" /\ arrived' = Append(arrived, r)
           /\ \E x \in {"queued", "waiting"} : stage' = [stage EXCEPT ![r] = x]
    BY <1>1, ReceiveEffect
  <2>2. /\ Len(arrived) \in Nat /\ arrived'[Len(arrived) + 1] = r
        /\ \A i \in 1..Len(arrived') : i \in 1..Len(arrived) \/ i = Len(arrived) + 1
        /\ \A i \in 1..Len(arrived) : arrived'[i] = arrived[i] /\ arrived[i] # r
    BY <1>0, <2>1, OneArrives DEF Recorded
  <2>3. \A i, j \in 1..Len(arrived') : arrived'[i] = arrived'[j] => i = j
    BY <2>2 DEF Recorded
  <2>4. \A i \in 1..Len(arrived') : stage'[arrived'[i]] \notin {"new", "sent"}
    BY <1>0, <2>1, <2>2 DEF Recorded
  <2> QED
    BY <2>3, <2>4 DEF Recorded
<1>2. CASE HandleDone
  <2>1. CASE \E r \in Request : arrived' = arrived /\ stage' = [stage EXCEPT ![r] = "waiting"]
    BY <1>0, <2>1 DEF Recorded
  <2> QED
    BY <1>2, <1>a, <2>1, HandleDoneEffect
<1>3. ASSUME NEW r \in Request, Send(r) PROVE Recorded'
  <2>1. stage[r] = "new" /\ stage' = [stage EXCEPT ![r] = "sent"] /\ arrived' = arrived
    BY <1>3 DEF Send, At, loopVars
  <2> QED
    BY <1>0, <2>1 DEF Recorded
<1> QED
  BY <1>0, <1>a, <1>1, <1>2, <1>3, FourSteps

LEMMA NextInLine ==
  ASSUME IInv, Recorded, \A s \in Session : InLine(s), Next, NEW s \in Session
  PROVE  InLine(s)'
<1>0. /\ Types /\ Queues /\ stage \in [Request -> Stage] /\ arrived \in Seq(Request)
      /\ queued \in [Session -> Seq(Request)] /\ SessionOf \in [Request -> Session]
      /\ queued[s] \in Seq(Request) /\ InLine(s)
  BY DispatcherAssumption DEF IInv, Types
<1>a. ASSUME arrived' = arrived, queued'[s] = queued[s] PROVE InLine(s)'
  BY <1>0, <1>a DEF InLine
<1>1. CASE Receive
  <2>1. PICK r \in Request :
           /\ stage[r] = "sent" /\ arrived' = Append(arrived, r)
           /\ \/ queued' = [queued EXCEPT ![SessionOf[r]] = Append(@, r)]
              \/ queued' = queued
    BY <1>1, ReceiveEffect
  <2>2. /\ Len(arrived) \in Nat /\ arrived'[Len(arrived) + 1] = r
        /\ \A i \in 1..Len(arrived') : i \in 1..Len(arrived) \/ i = Len(arrived) + 1
        /\ \A i \in 1..Len(arrived) : arrived'[i] = arrived[i] /\ arrived[i] # r
    BY <1>0, <2>1, OneArrives DEF Recorded
  <2>3. \A a \in 1..Len(queued[s]) : queued[s][a] # r
    BY <1>0, <2>1 DEF Queues, AllAt
  <2>4. /\ Len(queued[s]) \in Nat
        /\ \A a \in 1..Len(queued'[s]) :
             \/ a \in 1..Len(queued[s]) /\ queued'[s][a] = queued[s][a]
             \/ a = Len(queued[s]) + 1 /\ queued'[s][a] = r
    <3>1. CASE queued'[s] = queued[s]
      BY <1>0, <3>1
    <3>2. CASE queued'[s] = Append(queued[s], r)
      BY <1>0, <3>2, PutLast
    <3> QED
      BY <1>0, <2>1, <3>1, <3>2
  <2>5. ASSUME NEW i \in 1..Len(arrived'), NEW j \in 1..Len(arrived'), i < j,
               NEW a \in 1..Len(queued'[s]), NEW b \in 1..Len(queued'[s]),
               arrived'[i] = queued'[s][a], arrived'[j] = queued'[s][b]
        PROVE  a < b
    <3>1. i \in 1..Len(arrived) /\ arrived'[i] = arrived[i] /\ arrived[i] # r
      BY <2>2, <2>5
    <3>2. a \in 1..Len(queued[s]) /\ queued'[s][a] = queued[s][a]
      BY <2>4, <2>5, <3>1
    <3>3. CASE b = Len(queued[s]) + 1
      BY <2>4, <3>2, <3>3
    <3>4. CASE b \in 1..Len(queued[s]) /\ queued'[s][b] = queued[s][b]
      <4>1. j \in 1..Len(arrived) /\ arrived'[j] = arrived[j]
        BY <2>2, <2>3, <2>5, <3>4
      <4> QED
        BY <1>0, <2>5, <3>1, <3>2, <3>4, <4>1 DEF InLine
    <3> QED
      BY <2>4, <3>3, <3>4
  <2> QED
    BY <2>5 DEF InLine
<1>2. CASE HandleDone
  <2>1. CASE \E t \in Session, r \in Request :
              /\ queued[t] # <<>> /\ arrived' = arrived
              /\ queued' = [queued EXCEPT ![t] = Tail(@)]
    <3>1. PICK t \in Session : /\ queued[t] # <<>> /\ arrived' = arrived
                               /\ queued' = [queued EXCEPT ![t] = Tail(@)]
      BY <2>1
    <3>2. CASE s # t
      BY <1>0, <1>a, <3>1, <3>2
    <3>3. CASE s = t
      <4>1. /\ queued'[s] = Tail(queued[s]) /\ Len(queued[s]) \in Nat
            /\ \A a \in 1..Len(queued'[s]) :
                 a + 1 \in 1..Len(queued[s]) /\ queued'[s][a] = queued[s][a + 1]
        BY <1>0, <3>1, <3>3, TakeHead
      <4>2. ASSUME NEW i \in 1..Len(arrived), NEW j \in 1..Len(arrived), i < j,
                   NEW a \in 1..Len(queued'[s]), NEW b \in 1..Len(queued'[s]),
                   arrived[i] = queued'[s][a], arrived[j] = queued'[s][b]
            PROVE  a < b
        <5>1. a + 1 < b + 1
          BY <1>0, <4>1, <4>2 DEF InLine
        <5> QED
          BY <5>1
      <4> QED
        BY <3>1, <4>2 DEF InLine
    <3> QED
      BY <3>2, <3>3
  <2> QED
    BY <1>2, <1>a, <2>1, HandleDoneEffect DEF Aside
<1>3. CASE Aside \/ \E r \in Request : Send(r)
  BY <1>3, <1>a DEF Aside, Send, loopVars
<1> QED
  BY <1>0, <1>1, <1>2, <1>3, FourSteps

\* The earlier of two sequential requests of a session, where the later one is
\* the head of their queue or finds no queue, has been dispatched.
LEMMA NextDispatchedInOrder == IInv /\ OInv /\ Next => DispatchedInOrder'
<1> SUFFICES ASSUME IInv, OInv, Next PROVE DispatchedInOrder'
  OBVIOUS
<1>0. /\ Types /\ Queues /\ Served /\ Placed /\ Recorded /\ stage \in [Request -> Stage]
      /\ arrived \in Seq(Request) /\ \A i \in 1..Len(arrived) : arrived[i] \in Request
      /\ queued \in [Session -> Seq(Request)] /\ SessionOf \in [Request -> Session]
      /\ DispatchedInOrder /\ \A s \in Session : InLine(s)
  BY DispatcherAssumption DEF IInv, OInv, Ordered, Types
<1>a. CASE Aside
  BY <1>0, <1>a DEF Aside, DispatchedInOrder
<1>b. ASSUME NEW i \in 1..Len(arrived), stage[arrived[i]] \in Undispatched
      PROVE  stage[arrived[i]] = "queued" /\ In(queued[SessionOf[arrived[i]]], arrived[i])
  BY <1>0, <1>b DEF Recorded, Placed, Undispatched
<1>1. CASE Receive
  <2>1. PICK r \in Request :
           /\ stage[r] = "sent" /\ arrived' = Append(arrived, r)
           /\ \/ stage' = [stage EXCEPT ![r] = "queued"]
              \/ /\ r \in Parallel \/ SessionOf[r] \notin active
                 /\ stage' = [stage EXCEPT ![r] = "waiting"]
    BY <1>1, ReceiveEffect
  <2>2. /\ Len(arrived) \in Nat /\ arrived'[Len(arrived) + 1] = r
        /\ \A i \in 1..Len(arrived') : i \in 1..Len(arrived) \/ i = Len(arrived) + 1
        /\ \A i \in 1..Len(arrived) : arrived'[i] = arrived[i] /\ arrived[i] # r
    BY <1>0, <2>1, OneArrives DEF Recorded
  <2>3. ASSUME NEW i \in 1..Len(arrived'), NEW j \in 1..Len(arrived'), i < j,
               {arrived'[i], arrived'[j]} \cap Parallel = {},
               SessionOf[arrived'[i]] = SessionOf[arrived'[j]],
               stage'[arrived'[j]] \notin Undispatched
        PROVE  stage'[arrived'[i]] \notin Undispatched
    <3>1. /\ i \in 1..Len(arrived) /\ arrived'[i] = arrived[i] /\ arrived[i] \in Request
          /\ stage'[arrived[i]] = stage[arrived[i]]
      BY <1>0, <2>1, <2>2, <2>3
    <3>2. CASE j \in 1..Len(arrived)
      <4>1. arrived'[j] = arrived[j] /\ stage'[arrived[j]] = stage[arrived[j]]
        BY <1>0, <2>1, <2>2, <3>2
      <4> QED
        BY <1>0, <2>3, <3>1, <3>2, <4>1 DEF DispatchedInOrder
    <3>3. CASE j = Len(arrived) + 1
      <4>1. arrived'[j] = r /\ r \notin Parallel /\ SessionOf[arrived[i]] = SessionOf[r]
        BY <2>2, <2>3, <3>1, <3>3
      <4>2. SessionOf[r] \notin active /\ SessionOf[r] \in Session
        BY <1>0, <2>1, <2>3, <4>1 DEF Undispatched
      <4>3. queued[SessionOf[r]] = <<>>
        BY <1>0, <4>2 DEF Served
      <4>4. ~ In(queued[SessionOf[r]], arrived[i])
        BY <4>3 DEF In
      <4> QED
        BY <1>b, <3>1, <4>1, <4>4
    <3> QED
      BY <2>2, <3>2, <3>3
  <2> QED
    BY <2>3 DEF DispatchedInOrder
<1>2. CASE HandleDone
  <2>1. CASE \E s \in Session, r \in Request :
              /\ queued[s] # <<>> /\ r = Head(queued[s])
              /\ SessionOf[r] = s /\ arrived' = arrived
              /\ stage' = [stage EXCEPT ![r] = "waiting"]
    <3>1. PICK s \in Session, r \in Request :
              /\ queued[s] # <<>> /\ r = Head(queued[s])
              /\ SessionOf[r] = s /\ arrived' = arrived
              /\ stage' = [stage EXCEPT ![r] = "waiting"]
      BY <2>1
    <3>2. Len(queued[s]) \in Nat \ {0} /\ r = queued[s][1] /\ 1 \in 1..Len(queued[s])
      BY <1>0, <3>1, TakeHead
    <3>3. ASSUME NEW i \in 1..Len(arrived), NEW j \in 1..Len(arrived), i < j,
                 {arrived[i], arrived[j]} \cap Parallel = {},
                 SessionOf[arrived[i]] = SessionOf[arrived[j]],
                 stage'[arrived[j]] \notin Undispatched
          PROVE  stage'[arrived[i]] \notin Undispatched
      <4>1. CASE arrived[i] = r
        BY <1>0, <3>1, <4>1 DEF Undispatched
      <4>2. CASE arrived[i] # r /\ arrived[j] # r
        BY <1>0, <3>1, <3>3, <4>2 DEF DispatchedInOrder
      <4>3. CASE arrived[i] # r /\ arrived[j] = r
        <5>1. ~ In(queued[s], arrived[i])
          <6> SUFFICES ASSUME NEW a \in 1..Len(queued[s]), queued[s][a] = arrived[i]
                       PROVE  FALSE
            BY DEF In
          <6>1. a < 1
            BY <1>0, <3>2, <3>3, <4>3 DEF InLine
          <6> QED
            BY <6>1
        <5>2. stage[arrived[i]] \notin Undispatched
          BY <1>b, <3>1, <3>3, <4>3, <5>1
        <5> QED
          BY <1>0, <3>1, <4>3, <5>2
      <4> QED
        BY <4>1, <4>2, <4>3
    <3> QED
      BY <3>1, <3>3 DEF DispatchedInOrder
  <2> QED
    BY <1>2, <1>a, <2>1, HandleDoneEffect
<1>3. ASSUME NEW r \in Request, Send(r) PROVE DispatchedInOrder'
  <2>1. stage[r] = "new" /\ stage' = [stage EXCEPT ![r] = "sent"] /\ arrived' = arrived
    BY <1>3 DEF Send, At, loopVars
  <2>2. \A i \in 1..Len(arrived) : stage'[arrived[i]] = stage[arrived[i]]
    BY <1>0, <2>1 DEF Recorded
  <2> QED
    BY <1>0, <2>1, <2>2 DEF DispatchedInOrder
<1> QED
  BY <1>0, <1>a, <1>1, <1>2, <1>3, FourSteps

-----------------------------------------------------------------------------
(* What is held                                                            *)

LEMMA NextHeld == IInv /\ Held /\ Next => Held'
<1> SUFFICES ASSUME IInv, Held, Next PROVE Held'
  OBVIOUS
<1>0. /\ Types /\ Mail /\ Queues /\ stage \in [Request -> Stage]
      /\ work \in [Request -> {"none", "running", "over"}]
      /\ permit \subseteq Request /\ guard \subseteq Request
      /\ \A r \in Request : work[r] # "none" => stage[r] \in {"notifying", "told"}
  BY DispatcherAssumption DEF IInv, Types, Permitted, WardAgents
<1>a. ASSUME UNCHANGED <<permit, guard, work>>, NEW r \in Request, NEW x, At(r, x),
             stage[r] \notin {"locking", "spawning"}
      PROVE  Held'
  BY <1>0, <1>a DEF Held, At
<1>b. ASSUME UNCHANGED <<permit, guard, work, stage>> PROVE Held'
  BY <1>b DEF Held
<1>1. CASE Receive
  <2>1. stage[Head(mailbox)] = "sent" /\ Head(mailbox) \in Request
    BY <1>0, <1>1, MailHead DEF Receive
  <2> QED
    BY <1>1, <1>a, <2>1 DEF Receive, holdVars
<1>2. CASE ReceiveClosed \/ Close
  BY <1>2, <1>b DEF ReceiveClosed, Close, holdVars
<1>3. CASE HandleDone
  <2>1. PICK s \in Session : s = Head(done)
    BY <1>0, <1>3, TakeHead DEF HandleDone, Types
  <2>2. CASE queued[s] = <<>>
    BY <1>3, <1>b, <2>1, <2>2 DEF HandleDone, holdVars
  <2>3. CASE queued[s] # <<>>
    <3>1. PICK r \in Of(s) : r = Head(queued[s]) /\ stage[r] = "queued"
      BY <1>0, <2>3, QueueHead
    <3> QED
      BY <1>3, <1>a, <2>1, <2>3, <3>1 DEF HandleDone, holdVars, Of
  <2> QED
    BY <2>2, <2>3
<1>5. ASSUME NEW r \in Request, Around(r) PROVE Held'
  <2>1. CASE Wait(r) \/ StopWaiting(r)
    BY <1>b, <2>1 DEF Wait, StopWaiting
  <2>2. CASE Send(r) \/ Notify(r)
    BY <1>a, <2>2 DEF Send, Notify, holdVars
  <2>3. CASE AcquirePermit(r)
    BY <1>0, <2>3 DEF AcquirePermit, At, Held
  <2>4. CASE AcquireWardLock(r)
    BY <1>0, <2>4 DEF AcquireWardLock, At, Held
  <2>5. CASE Spawn(r)
    BY <1>0, <2>5 DEF Spawn, At, Held
  <2>6. CASE SpawnFails(r)
    BY <1>0, <2>6 DEF SpawnFails, At, Held
  <2>7. CASE ChildEnds(r)
    BY <1>0, <2>7 DEF ChildEnds, Held
  <2> QED
    BY <1>5, <2>1, <2>2, <2>3, <2>4, <2>5, <2>6, <2>7 DEF Around
<1> QED
  BY <1>1, <1>2, <1>3, <1>5, Steps

\* Of those who want a permit or a lock, somebody can have it, or its holder moves.
LEMMA SomebodyMoves ==
  ASSUME IInv, Held, NEW r \in Request, stage[r] \in UnderWay \/ work[r] = "running"
  PROVE  \E q \in Request : DispatchCan(q) \/ q \in waits \/ EndCan(q)
<1>0. /\ permit \subseteq Request /\ guard \subseteq Request /\ waits \subseteq Request
      /\ Cardinality(permit) <= Permits
  BY DispatcherAssumption DEF IInv, Types, Permitted, WardAgents
<1>1. ASSUME NEW q \in Request, work[q] = "running" \/ stage[q] \in {"locking", "spawning", "notifying"}
      PROVE  \E p \in Request : DispatchCan(p) \/ p \in waits \/ EndCan(p)
  <2>1. CASE work[q] = "running"
    BY <1>0, <2>1 DEF EndCan
  <2>2. CASE stage[q] \in {"spawning", "notifying"}
    BY <2>2 DEF DispatchCan
  <2>3. CASE stage[q] = "locking"
    <3>1. CASE \A g \in guard : WardOf[g] # WardOf[q]
      BY <2>3, <3>1 DEF DispatchCan
    <3>2. CASE \E g \in guard : WardOf[g] = WardOf[q]
      BY <1>0, <3>2 DEF Held, DispatchCan
    <3> QED
      BY <3>1, <3>2
  <2> QED
    BY <1>1, <2>1, <2>2, <2>3
<1>2. CASE stage[r] = "waiting"
  <2>1. CASE Cardinality(permit) < Permits
    BY <1>2, <2>1 DEF DispatchCan
  <2>2. CASE ~ Cardinality(permit) < Permits
    <3>1. permit # {}
      BY <2>2, FS_EmptySet, DispatcherAssumption
    <3>2. PICK p \in permit : stage[p] \in {"locking", "spawning"} \/ work[p] = "running"
      BY <3>1 DEF Held
    <3> QED
      BY <1>0, <1>1, <3>2
  <2> QED
    BY <2>1, <2>2
<1> QED
  BY <1>1, <1>2 DEF UnderWay

-----------------------------------------------------------------------------
(* The theorems                                                            *)

\* The inductive invariant: who is owed what by the dispatcher's loop.
THEOREM Invariant == Spec => []IInv
<1>1. ASSUME IInv, UNCHANGED vars PROVE IInv'
  BY <1>1 DEF vars, loopVars, holdVars, IInv, Types, Mail, Queues, AllAt, Permitted,
              Served, Outstanding, Idle
<1>2. IInv /\ [Next]_vars => IInv'
  BY <1>1, NextTypes, NextMail, NextQueues, NextPermitted, NextServed DEF IInv
<1> QED
  BY InitIInv, <1>2, PTL DEF Spec

\* Every variable has its type and no request is in two places of the
\* dispatcher: its mailbox and its queues hold distinct requests of one stage.
THEOREM TypeCorrect == Spec => []TypeOK
<1>1. IInv => TypeOK
  BY DEF IInv, Types, Mail, Queues, TypeOK
<1> QED
  BY <1>1, Invariant, PTL

\* The global semaphore bounds the children that run, of all sessions together.
THEOREM CapKept == Spec => []CapHolds
<1>1. IInv => CapHolds
  <2> SUFFICES ASSUME IInv PROVE CapHolds
    OBVIOUS
  <2> DEFINE run == {r \in Request : work[r] = "running"}
  <2>1. permit \subseteq Request /\ run \subseteq permit /\ Cardinality(permit) <= Permits
    BY DEF IInv, Types, Permitted
  <2>2. IsFiniteSet(permit)
    BY <2>1, DispatcherAssumption, FS_Subset
  <2>3. Cardinality(run) <= Cardinality(permit)
    BY <2>1, <2>2, FS_Subset
  <2>4. Cardinality(run) \in Nat /\ Cardinality(permit) \in Nat /\ Permits \in Nat
    BY <2>1, <2>2, DispatcherAssumption, FS_Subset, FS_CardinalityType
  <2> HIDE DEF run
  <2>5. Cardinality(run) <= Permits
    BY <2>1, <2>3, <2>4
  <2> QED
    BY <2>5 DEF CapHolds, run
<1> QED
  BY <1>1, Invariant, PTL

\* No queue of delegations is forgotten: a done message for its session is there
\* or still to come, whatever mix of parallel and sequential requests there is.
THEOREM QueuesMove == Spec => []QueueWillMove
<1>1. IInv => QueueWillMove
  BY DEF IInv, Served, Outstanding, QueueWillMove
<1> QED
  BY <1>1, Invariant, PTL

\* Where every request is until it is dispatched, and in which order.
THEOREM OrderInvariant == Spec => []OInv
<1>1. Init => OInv
  <2> SUFFICES ASSUME Init PROVE OInv
    OBVIOUS
  <2>1. arrived = <<>> /\ \A s \in Session : InLine(s)
    BY DEF Init, InLine
  <2>2. Placed /\ Ended /\ Recorded /\ DispatchedInOrder
    BY DEF Init, Placed, Ended, Recorded, DispatchedInOrder
  <2> QED
    BY <2>1, <2>2 DEF OInv, Ordered
<1>2. ASSUME OInv, UNCHANGED vars PROVE OInv'
  <2>1. UNCHANGED <<mailbox, closed, rx_open, queued, exited, arrived, stage>>
    BY <1>2 DEF vars, loopVars
  <2>2. Placed' /\ Ended' /\ Recorded'
    BY <1>2, <2>1 DEF OInv, Placed, In, Ended, Recorded
  <2>3. \A s \in Session : InLine(s)'
    BY <1>2, <2>1 DEF OInv, Ordered, InLine
  <2>4. DispatchedInOrder'
    BY <1>2, <2>1 DEF OInv, Ordered, DispatchedInOrder
  <2> QED
    BY <2>2, <2>3, <2>4 DEF OInv, Ordered
<1>3. ASSUME IInv, OInv, Next PROVE OInv'
  <2>1. Placed /\ Ended /\ Recorded /\ \A s \in Session : InLine(s)
    BY <1>3 DEF OInv, Ordered
  <2>2. Placed' /\ Ended' /\ Recorded'
    BY <1>3, <2>1, NextPlaced, NextEnded, NextRecorded
  <2>3. \A s \in Session : InLine(s)'
    BY <1>3, <2>1, NextInLine
  <2>4. DispatchedInOrder'
    BY <1>3, NextDispatchedInOrder
  <2> QED
    BY <2>2, <2>3, <2>4 DEF OInv, Ordered
<1>4. IInv /\ OInv /\ [Next]_vars => OInv'
  BY <1>2, <1>3
<1> QED
  BY <1>1, <1>4, Invariant, PTL DEF Spec

\* The sequential requests of one session are dispatched as they came, however
\* done messages of parallel requests make the session inactive in between.
THEOREM InOrder == Spec => []DispatchedInOrder
<1>1. OInv => DispatchedInOrder
  BY DEF OInv, Ordered
<1> QED
  BY <1>1, OrderInvariant, PTL

\* When the loop has ended no request is left in the mailbox or in a queue.
THEOREM DrainedAtExit == Spec => []ExitsDrained
<1>1. IInv /\ OInv => ExitsDrained
  <2> SUFFICES ASSUME IInv, OInv, exited, NEW r \in Request
               PROVE  stage[r] \notin {"sent", "queued"}
    BY DEF ExitsDrained
  <2>1. mailbox = <<>> /\ queued[SessionOf[r]] = <<>>
    BY DispatcherAssumption DEF IInv, OInv, Served, Idle, Ended
  <2>2. ~ In(mailbox, r) /\ ~ In(queued[SessionOf[r]], r)
    BY <2>1 DEF In
  <2> QED
    BY <2>2 DEF OInv, Placed
<1> QED
  BY <1>1, Invariant, OrderInvariant, PTL

\* The loop, the tasks that dispatch and the children never wait for one another in
\* a circle, whatever is delegated to whom and however few permits there are.
THEOREM NoDeadlock == Spec => []NeverStuck
<1>1. Init => Held
  BY DEF Init, Held
<1>2. IInv /\ Held /\ [Next]_vars => Held'
  <2>1. Held /\ UNCHANGED vars => Held'
    BY DEF vars, holdVars, Held
  <2> QED
    BY <2>1, NextHeld
<1>3. IInv /\ OInv /\ Held => NeverStuck
  <2> SUFFICES ASSUME IInv, OInv, Held, NEW r \in Request, Unfinished(r)
               PROVE  LoopCan \/ \E q \in Request : DispatchCan(q) \/ q \in waits \/ EndCan(q)
    BY DEF NeverStuck
  <2>0. SessionOf[r] \in Session /\ stage[r] \in Stage
    BY DispatcherAssumption DEF IInv, Types
  <2>1. CASE stage[r] = "sent"
    <3>1. mailbox # <<>>
      BY <2>1 DEF OInv, Placed, In
    <3> QED
      BY <3>1 DEF OInv, Ended, LoopCan
  <2>2. CASE stage[r] = "queued"
    <3>1. queued[SessionOf[r]] # <<>>
      BY <2>2 DEF OInv, Placed, In
    <3>2. ~ exited /\ Outstanding(SessionOf[r])
      BY <2>0, <3>1 DEF IInv, Served, Idle
    <3>3. CASE \E i \in 1..Len(done) : done[i] = SessionOf[r]
      <4>1. done # <<>>
        BY <3>3
      <4> QED
        BY <3>2, <4>1 DEF LoopCan
    <3>4. CASE \E q \in Of(SessionOf[r]) : stage[q] \in UnderWay
      BY <3>4, SomebodyMoves DEF Of
    <3> QED
      BY <3>2, <3>3, <3>4 DEF Outstanding
  <2>3. CASE stage[r] \in UnderWay \/ work[r] = "running"
    BY <2>3, SomebodyMoves
  <2> QED
    BY <2>0, <2>1, <2>2, <2>3 DEF Unfinished, Stage, Undispatched
<1> QED
  BY <1>1, <1>2, <1>3, Invariant, OrderInvariant, PTL DEF Spec
=============================================================================
