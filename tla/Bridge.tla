------------------------------- MODULE Bridge -------------------------------
(***************************************************************************)
(* Delivery to one bridge worker (gateway/gateway-bridge/src): the outbox  *)
(* table, the registry entry of the worker's adapter id, the sessions of   *)
(* its WebSocket connections, and the three that push items to it: a       *)
(* session that replays, the retry loop, and a caller that has just        *)
(* enqueued.  A push is two steps, the row marked in flight and the        *)
(* message sent, and what is pushed is a list read earlier.  No UPDATE of  *)
(* the outbox looks at the status it overwrites.                           *)
(*                                                                         *)
(* The worker answers each copy of an item it is given with an ack or a    *)
(* fail.  Its connections break, the server stops or dies, at any time; an *)
(* error of the database is logged, changes nothing, and is left out.      *)
(***************************************************************************)
EXTENDS Naturals, FiniteSets

CONSTANTS
  Item,        \* outbox items for the adapter
  Session,     \* connections of the worker
  None,        \* no item, no session
  RetryLimit,  \* failures after which get_retryable leaves an item alone (5)
  MaxCopies,   \* bound: copies of an item with the worker that are told apart
  MaxCrashes   \* bound: deaths and stops of the server

ASSUME BridgeAssumption ==
  /\ None \notin Item \cup Session /\ Session \cap Item = {}
  /\ "retry" \notin Item \cup Session
  /\ RetryLimit \in Nat \ {0} /\ MaxCopies \in Nat \ {0} /\ MaxCrashes \in Nat

VARIABLES
  row,      \* [Item -> Row]: the table bridge_outbox, which survives the server
  reg,      \* the registry's entry: the session whose channel it holds
  phase,    \* [Session -> Phase]: how far handle_worker_connection is
  push,     \* [Pusher -> Push]: a list being pushed
  turn,     \* what the retry loop pushes
  calls,    \* items whose enqueue_and_push has inserted them, and has not pushed yet
  copies,   \* [Session -> [Item -> Nat]]: copies on the way to the worker, unanswered
  up,       \* "up", "stopping" after disconnect_all, "down"
  crashes   \* deaths and stops so far

vars == <<row, reg, phase, push, turn, calls, copies, up, crashes>>

\* A caller of enqueue_and_push goes by the item it enqueues.
Pusher == {"retry"} \cup Session \cup Item
Turns  == {"idle", "failed", "unacked"}
Server == {"up", "stopping", "down"}
Phase  == {"new", "registered", "serving", "closing", "left", "gone", "dropped"}

\* wait: retry_after is NULL ("no"), lies ahead, has passed, or has passed on a day
\* before today ("old"); it is read of failed rows only.
Row == [status : {"absent", "pending", "inflight", "sent", "failed"},
        created : Nat, failures : Nat, wait : {"no", "ahead", "passed", "old"}]

\* todo: what is left of the list; at: the item marked in flight and not sent yet.
Push == [todo : SUBSET Item, at : Item \cup {None}]
Idle == [todo |-> {}, at |-> None]

Done(p) == push[p] = Idle

Stored    == {i \in Item : row[i].status # "absent"}
Unacked   == {i \in Item : row[i].status \in {"pending", "inflight"}}
Retryable == {i \in Item : /\ row[i].status = "failed" /\ row[i].failures < RetryLimit
                           /\ row[i].wait \in {"no", "old"}}

\* get_since: rows created in a later second than the item the worker acked last.
Since(j) == {i \in Stored : row[i].created > row[j].created /\ row[i].status # "sent"}

\* Faulty variant: the UPDATE looks at no status.
ResetAll == [i \in Item |-> IF i \in Stored THEN [row[i] EXCEPT !.status = "pending"] ELSE row[i]]

\* Every row in flight goes back to pending.
Reset == [i \in Item |-> IF row[i].status = "inflight" THEN [row[i] EXCEPT !.status = "pending"]
                         ELSE row[i]]

-----------------------------------------------------------------------------
(* Pushing.                                                                *)

\* mark_inflight for the oldest item of the list, whatever has become of it.
Mark(p) ==
  /\ push[p].at = None
  /\ \E i \in push[p].todo :
       /\ \A j \in push[p].todo : row[i].created <= row[j].created
       /\ row' = [row EXCEPT ![i].status = "inflight", ![i].wait = "no"]
       /\ push' = [push EXCEPT ![p] = [todo |-> @.todo \ {i}, at |-> i]]
  /\ UNCHANGED <<reg, phase, turn, calls, copies, up, crashes>>

\* Faulty variant: a send that fails is only logged.
SendNoReset(p) ==
  /\ push[p].at # None
  /\ copies' = IF reg = None THEN copies
               ELSE [copies EXCEPT ![reg][push[p].at] = IF @ < MaxCopies THEN @ + 1 ELSE @]
  /\ push' = [push EXCEPT ![p].at = None]
  /\ UNCHANGED <<row, reg, phase, turn, calls, up, crashes>>

\* registry.send: into the channel of whoever is registered, read or not.  Nobody:
\* all that is in flight for the adapter is reset.
Send(p) ==
  /\ push[p].at # None
  /\ IF reg = None
     THEN row' = Reset /\ UNCHANGED copies
     ELSE /\ copies' = [copies EXCEPT ![reg][push[p].at] = IF @ < MaxCopies THEN @ + 1 ELSE @]
          /\ UNCHANGED row
  /\ push' = [push EXCEPT ![p].at = None]
  /\ UNCHANGED <<reg, phase, turn, calls, up, crashes>>

Begin(p, items) == push' = [push EXCEPT ![p] = [todo |-> items, at |-> None]]

\* The retry loop's interval: failed items whose time has come, then all that is
\* not acknowledged.
RetryTick ==
  /\ up = "up" /\ turn = "idle" /\ reg # None
  /\ turn' = "failed" /\ Begin("retry", Retryable)
  /\ UNCHANGED <<row, reg, phase, calls, copies, up, crashes>>

\* Faulty variant: the pass over what is not acknowledged is left out.
RetryFailedOnly ==
  /\ up = "up" /\ turn = "failed" /\ Done("retry")
  /\ turn' = "idle"
  /\ UNCHANGED <<row, reg, phase, push, calls, copies, up, crashes>>

RetryUnacked ==
  /\ up = "up" /\ turn = "failed" /\ Done("retry")
  /\ turn' = "unacked" /\ Begin("retry", Unacked)
  /\ UNCHANGED <<row, reg, phase, calls, copies, up, crashes>>

RetryDone ==
  /\ turn = "unacked" /\ Done("retry")
  /\ turn' = "idle"
  /\ UNCHANGED <<row, reg, phase, push, calls, copies, up, crashes>>

\* The second of the clock in which a row may be created.
Seconds == LET last == {row[i].created : i \in Stored} \cup {0}
           IN  {c \in 0..Cardinality(Item) : \A l \in last : l <= c}

\* insert, by invoke_capability for a worker that is offline, or by enqueue_and_push.
Insert(i, c) ==
  /\ up # "down" /\ row[i].status = "absent"
  /\ row' = [row EXCEPT ![i].status = "pending", ![i].created = c]
  /\ calls' \in {calls, calls \cup {i}}
  /\ UNCHANGED <<reg, phase, push, turn, copies, up, crashes>>

\* enqueue_and_push goes on: push_pending if the worker is connected.
PushNew(i) ==
  /\ i \in calls /\ calls' = calls \ {i}
  /\ IF reg # None THEN Begin(i, Unacked) ELSE UNCHANGED push
  /\ UNCHANGED <<row, reg, phase, turn, copies, up, crashes>>

-----------------------------------------------------------------------------
(* A session.                                                              *)

Move(s, p) == phase' = [phase EXCEPT ![s] = p]

\* Faulty variant: a second connection takes the first one's place.
RegisterReplaces(s) ==
  /\ up # "down" /\ phase[s] = "new"
  /\ reg' = s /\ Move(s, "registered")
  /\ UNCHANGED <<row, push, turn, calls, copies, up, crashes>>

\* register, once the Hello is there: a second connection of the adapter is turned
\* away and may try again.
Register(s) ==
  /\ up # "down" /\ phase[s] = "new" /\ reg = None
  /\ reg' = s /\ Move(s, "registered")
  /\ UNCHANGED <<row, push, turn, calls, copies, up, crashes>>

\* The worker has a connection left to break this one for.
Another == \E r \in Session : phase[r] = "new"

\* The HelloAck could not be sent: the registration is taken back, nothing else.
TakeBack(s) ==
  /\ phase[s] = "registered" /\ Another
  /\ reg' = None /\ Move(s, "dropped")
  /\ copies' = [copies EXCEPT ![s] = [i \in Item |-> 0]]
  /\ UNCHANGED <<row, push, turn, calls, up, crashes>>

\* The replay, after the HelloAck: all that is not acknowledged, or what is newer
\* than the item the worker names as acked last; an unknown name is none.
Replay(s) ==
  /\ phase[s] = "registered"
  /\ \/ Begin(s, Unacked)
     \/ \E j \in Stored : row[j].status = "sent" /\ Begin(s, Since(j))
  /\ Move(s, "serving")
  /\ UNCHANGED <<row, reg, turn, calls, copies, up, crashes>>

\* The message loop runs once the replay is done.
Serving(s) == phase[s] = "serving" /\ Done(s)

Answered(s, i) == copies' = [copies EXCEPT ![s][i] = @ - 1]

Ack(s, i) ==
  /\ Serving(s) /\ copies[s][i] > 0
  /\ row' = [row EXCEPT ![i].status = "sent"]
  /\ Answered(s, i)
  /\ UNCHANGED <<reg, phase, push, turn, calls, up, crashes>>

\* The worker fails the item, with or without retry_after_seconds.
Fail(s, i) ==
  /\ Serving(s) /\ copies[s][i] > 0
  /\ \E w \in {"no", "ahead"} :
       row' = [row EXCEPT ![i].status = "failed", ![i].wait = w,
                          ![i].failures = IF @ < RetryLimit THEN @ + 1 ELSE @]
  /\ Answered(s, i)
  /\ UNCHANGED <<reg, phase, push, turn, calls, up, crashes>>

\* The connection breaks, or the channel is closed: what was on the way is lost.
Break(s) ==
  /\ Serving(s) /\ (Another \/ up = "stopping")
  /\ Move(s, "closing")
  /\ copies' = [copies EXCEPT ![s] = [i \in Item |-> 0]]
  /\ UNCHANGED <<row, reg, push, turn, calls, up, crashes>>

\* Cleanup: unregister removes the adapter's entry, whoever made it.
Unregister(s) ==
  /\ phase[s] = "closing"
  /\ reg' = None /\ Move(s, "left")
  /\ copies' = [copies EXCEPT ![s] = [i \in Item |-> 0]]
  /\ UNCHANGED <<row, push, turn, calls, up, crashes>>

ResetInflight(s) ==
  /\ phase[s] = "left"
  /\ row' = Reset /\ Move(s, "gone")
  /\ UNCHANGED <<reg, push, turn, calls, copies, up, crashes>>

-----------------------------------------------------------------------------
(* The clock, and the server.                                              *)

\* retry_after passes; then the day on which it did ends.
TimePasses(i) ==
  /\ row[i].wait \in {"ahead", "passed"}
  /\ row' = [row EXCEPT ![i].wait = IF @ = "ahead" THEN "passed" ELSE "old"]
  /\ UNCHANGED <<reg, phase, push, turn, calls, copies, up, crashes>>

\* shutdown: the registry is emptied and the retry loop aborted where it waits.
Stop ==
  /\ up = "up" /\ crashes < MaxCrashes
  /\ up' = "stopping" /\ reg' = None
  /\ turn' = "idle" /\ push' = [push EXCEPT !["retry"] = Idle]
  /\ UNCHANGED <<row, phase, calls, copies, crashes>>

\* The process is gone; only the table is left.
Crash ==
  /\ up # "down" /\ crashes < MaxCrashes
  /\ up' = "down" /\ crashes' = crashes + 1
  /\ reg' = None /\ turn' = "idle"
  /\ phase' = [s \in Session |-> "new"]
  /\ push' = [p \in Pusher |-> Idle]
  /\ copies' = [s \in Session |-> [i \in Item |-> 0]] /\ calls' = {}
  /\ UNCHANGED row

Restart ==
  /\ up = "down" /\ up' = "up"
  /\ row' = Reset
  /\ UNCHANGED <<reg, phase, push, turn, calls, copies, crashes>>

Init ==
  /\ row = [i \in Item |-> [status |-> "absent", created |-> 0, failures |-> 0, wait |-> "no"]]
  /\ reg = None
  /\ phase = [s \in Session |-> "new"]
  /\ push = [p \in Pusher |-> Idle]
  /\ turn = "idle" /\ calls = {}
  /\ copies = [s \in Session |-> [i \in Item |-> 0]]
  /\ up = "up" /\ crashes = 0

SessionStep(s) ==
  \/ Register(s) \/ TakeBack(s) \/ Replay(s) \/ Unregister(s) \/ ResetInflight(s)

Pushing == \E p \in Pusher : Mark(p) \/ Send(p)
Retry   == RetryTick \/ RetryUnacked \/ RetryDone

Next ==
  \/ Pushing \/ Retry
  \/ \E s \in Session : SessionStep(s) \/ Break(s)
  \/ \E s \in Session, i \in Item : Ack(s, i) \/ Fail(s, i)
  \/ \E i \in Item, c \in Seconds : Insert(i, c)
  \/ \E i \in Item : PushNew(i) \/ TimePasses(i)
  \/ Stop \/ Crash \/ Restart

\* The server's tasks are scheduled, the retry loop's interval recurs, the clock
\* goes on, a server that went down is started, and a worker that is off connects
\* again and answers all it is given.
Fairness ==
  /\ \A p \in Pusher : WF_vars(Mark(p) \/ Send(p))
  /\ WF_vars(Retry) /\ WF_vars(Restart) /\ WF_vars(up = "stopping" /\ Crash)
  /\ \A s \in Session : WF_vars(SessionStep(s)) /\ WF_vars(up = "stopping" /\ Break(s))
  /\ \A s \in Session, i \in Item : WF_vars(Ack(s, i) \/ Fail(s, i))
  /\ \A i \in Item : WF_vars(TimePasses(i))

Spec == Init /\ [][Next]_vars /\ Fairness

-----------------------------------------------------------------------------
(* Properties *)

\* Every variable has its type.
TypeOK ==
  /\ row \in [Item -> Row] /\ reg \in Session \cup {None}
  /\ phase \in [Session -> Phase] /\ push \in [Pusher -> Push] /\ turn \in Turns
  /\ calls \in SUBSET Item /\ copies \in [Session -> [Item -> Nat]]
  /\ up \in Server /\ crashes \in Nat

\* Between register and unregister.
Enrolled(s) == phase[s] \in {"registered", "serving", "closing"}

\* The registry's entry is that of the one session between register and unregister,
\* although unregister names the adapter and not the session: no cleanup takes away
\* a successor's entry.  disconnect_all alone empties it behind a session's back.
RegistryOwner ==
  /\ \A s \in Session : reg = s => Enrolled(s)
  /\ up = "up" => \A s \in Session : Enrolled(s) => reg = s

\* An item in flight has somebody who brings it back: a session that will reset it
\* when it ends, a push that is about to send it or to reset it, or the next start.
\* A session that could not send its HelloAck is the one that brings nothing back.
InflightWatched ==
  \A i \in Item : row[i].status = "inflight" =>
    \/ \E s \in Session : Enrolled(s) \/ phase[s] \in {"left", "dropped"}
    \/ \E p \in Pusher : push[p].at = i
    \/ up # "up"

\* Acknowledged, with no copy on the way and in nobody's list.
Settled(i) ==
  /\ row[i].status = "sent"
  /\ \A s \in Session : copies[s][i] = 0
  /\ \A p \in Pusher : i \notin push[p].todo /\ push[p].at # i

\* What is settled is never delivered again: no reset, replay, retry or restart
\* takes it up, though each of them writes rows without a look at their status.
SettledForGood == [][\A i \in Item : Settled(i) => Settled(i)']_vars

\* At-least-once delivery: an item in the outbox is acknowledged in the end, or has
\* failed as often as an item may.
Delivered ==
  \A i \in Item : row[i].status # "absent" ~>
    row[i].status = "sent" \/ (row[i].status = "failed" /\ row[i].failures >= RetryLimit)

\* get_retryable finds "failed items past their retry_after time".
RetryableWhenDue ==
  \A i \in Item :
    /\ row[i].status = "failed" /\ row[i].failures < RetryLimit
    /\ row[i].wait \in {"no", "passed", "old"}
    => i \in Retryable
=============================================================================
