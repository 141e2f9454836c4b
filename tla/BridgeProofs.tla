---------------------------- MODULE BridgeProofs ----------------------------
(* Proofs about Bridge, for any items, sessions and bounds.                 *)
EXTENDS Bridge, TLAPS

\* While the server is down nothing of its memory is left.
NothingLeft == up = "down" => reg = None /\ \A s \in Session : phase[s] = "new"

BInv == TypeOK /\ NothingLeft /\ RegistryOwner /\ InflightWatched

USE BridgeAssumption DEF Pusher, Turns, Server, Phase, Push, Idle

\* A row stays a row when one of its columns is written, or two or three.
LEMMA RowWrites ==
  ASSUME NEW r \in Row, NEW st \in {"absent", "pending", "inflight", "sent", "failed"},
         NEW w \in {"no", "ahead", "passed", "old"}, NEW n \in Nat
  PROVE  /\ [r EXCEPT !.status = st] \in Row /\ [r EXCEPT !.wait = w] \in Row
         /\ [r EXCEPT !.status = st, !.wait = w] \in Row
         /\ [r EXCEPT !.status = st, !.created = n] \in Row
         /\ [r EXCEPT !.status = st, !.wait = w, !.failures = n] \in Row
  BY DEF Row

\* So do the copies when one count is.
LEMMA CopyWrites ==
  ASSUME TypeOK, NEW s \in Session, NEW i \in Item, NEW n \in Nat,
         copies' = [copies EXCEPT ![s][i] = n]
  PROVE  /\ copies' \in [Session -> [Item -> Nat]]
         /\ \A r \in Session, j \in Item : j # i => copies'[r][j] = copies[r][j]
<1>1. copies[s] \in [Item -> Nat] /\ [copies[s] EXCEPT ![i] = n] \in [Item -> Nat]
  BY DEF TypeOK
<1>2. copies' = [copies EXCEPT ![s] = [copies[s] EXCEPT ![i] = n]]
  OBVIOUS
<1> QED BY <1>1, <1>2 DEF TypeOK

\* Sending adds a copy, or resets what is in flight.
LEMMA SendEffect ==
  ASSUME TypeOK, NEW p \in Pusher, Send(p)
  PROVE  /\ push[p].at \in Item /\ row' \in {row, Reset}
         /\ \/ copies' = copies
            \/ \E s \in Session, n \in Nat : copies' = [copies EXCEPT ![s][push[p].at] = n]
<1>1. push[p].at \in Item
  BY DEF Send, TypeOK
<1>2. CASE reg = None
  BY <1>1, <1>2 DEF Send
<1>3. CASE reg # None
  <2>1. reg \in Session /\ copies[reg][push[p].at] \in Nat
    BY <1>1, <1>3 DEF TypeOK
  <2>2. PICK n \in Nat : n = IF copies[reg][push[p].at] < MaxCopies
                              THEN copies[reg][push[p].at] + 1 ELSE copies[reg][push[p].at]
    BY <2>1
  <2>3. copies' = [copies EXCEPT ![reg][push[p].at] = n]
    BY <1>3, <2>2 DEF Send
  <2> QED BY <1>1, <1>3, <2>1, <2>3 DEF Send
<1> QED BY <1>2, <1>3

\* An ack or a fail writes one row and takes one of its copies.
LEMMA AnswerEffect ==
  ASSUME TypeOK, NEW s \in Session, NEW i \in Item, Ack(s, i) \/ Fail(s, i)
  PROVE  /\ copies[s][i] > 0
         /\ \E r \in Row : row' = [row EXCEPT ![i] = r]
         /\ \E n \in Nat : copies' = [copies EXCEPT ![s][i] = n]
<1>1. copies[s][i] \in Nat /\ copies[s][i] > 0 /\ row[i] \in Row
  BY DEF Ack, Fail, TypeOK
<1>2. \E n \in Nat : copies' = [copies EXCEPT ![s][i] = n]
  <2>1. copies' = [copies EXCEPT ![s][i] = copies[s][i] - 1]
    BY DEF Ack, Fail, Answered
  <2>2. copies[s][i] - 1 \in Nat
    BY <1>1
  <2> QED BY <2>1, <2>2
<1>3. CASE Ack(s, i)
  <2>1. row' = [row EXCEPT ![i] = [row[i] EXCEPT !.status = "sent"]]
    BY <1>3 DEF Ack
  <2> QED BY <1>1, <1>2, <2>1, RowWrites
<1>4. CASE Fail(s, i)
  <2>1. row[i].failures \in Nat
    BY <1>1 DEF Row
  <2>2. PICK n \in Nat : n = IF row[i].failures < RetryLimit THEN row[i].failures + 1
                             ELSE row[i].failures
    BY <2>1
  <2>3. PICK w \in {"no", "ahead"} :
          row' = [row EXCEPT ![i].status = "failed", ![i].wait = w,
                             ![i].failures = IF @ < RetryLimit THEN @ + 1 ELSE @]
    BY <1>4 DEF Fail
  <2>4. row' = [row EXCEPT ![i] = [row[i] EXCEPT !.status = "failed", !.wait = w, !.failures = n]]
    BY <2>2, <2>3
  <2>5. [row[i] EXCEPT !.status = "failed", !.wait = w, !.failures = n] \in Row
    BY <1>1, RowWrites
  <2> QED BY <1>1, <1>2, <2>4, <2>5
<1> QED BY <1>3, <1>4

\* A reset leaves every row a row, and none in flight; it changes no other status.
LEMMA ResetRows ==
  ASSUME TypeOK
  PROVE  /\ Reset \in [Item -> Row]
         /\ \A i \in Item : /\ Reset[i].status # "inflight"
                            /\ row[i].status # "inflight" => Reset[i] = row[i]
<1>1. ASSUME NEW i \in Item
      PROVE  /\ Reset[i] \in Row /\ Reset[i].status # "inflight"
             /\ row[i].status # "inflight" => Reset[i] = row[i]
  <2>1. row[i] \in Row
    BY DEF TypeOK
  <2>2. Reset[i] = IF row[i].status = "inflight" THEN [row[i] EXCEPT !.status = "pending"] ELSE row[i]
    BY DEF Reset
  <2>3. [row[i] EXCEPT !.status = "pending"] \in Row /\ [row[i] EXCEPT !.status = "pending"].status = "pending"
    BY <2>1 DEF Row
  <2> QED BY <2>1, <2>2, <2>3
<1>2. Reset = [i \in Item |-> Reset[i]]
  BY DEF Reset
<1> QED BY <1>1, <1>2

\* A new list is a list of items.
LEMMA Lists ==
  ASSUME TypeOK, NEW p \in Pusher, NEW items \in SUBSET Item, Begin(p, items)
  PROVE  push' \in [Pusher -> Push]
  BY DEF TypeOK, Begin

\* Every step keeps the types.
LEMMA TypeStep ==
  ASSUME TypeOK, [Next]_vars
  PROVE  TypeOK'
<1> USE DEF TypeOK
<1>1. ASSUME NEW p \in Pusher, Mark(p) PROVE TypeOK'
  <2>1. PICK i \in push[p].todo :
          /\ row' = [row EXCEPT ![i].status = "inflight", ![i].wait = "no"]
          /\ push' = [push EXCEPT ![p] = [todo |-> @.todo \ {i}, at |-> i]]
    BY <1>1 DEF Mark
  <2>2. i \in Item /\ push[p] \in Push
    OBVIOUS
  <2>3. [row[i] EXCEPT !.status = "inflight", !.wait = "no"] \in Row
    BY <2>2, RowWrites
  <2>4. row' \in [Item -> Row]
    BY <2>1, <2>2, <2>3
  <2>5. push' \in [Pusher -> Push]
    BY <2>1, <2>2
  <2> QED BY <1>1, <2>4, <2>5 DEF Mark
<1>2. ASSUME NEW p \in Pusher, Send(p) PROVE TypeOK'
  <2>1. row' \in [Item -> Row]
    BY <1>2, ResetRows, SendEffect
  <2>2. copies' \in [Session -> [Item -> Nat]]
    BY <1>2, SendEffect, CopyWrites
  <2>3. push' \in [Pusher -> Push]
    BY <1>2 DEF Send
  <2> QED BY <1>2, <2>1, <2>2, <2>3 DEF Send
<1>3. CASE Retry
  <2>1. CASE RetryTick
    BY <2>1, Lists DEF RetryTick, Retryable
  <2>2. CASE RetryUnacked
    BY <2>2, Lists DEF RetryUnacked, Unacked
  <2>3. CASE RetryDone
    BY <2>3 DEF RetryDone
  <2> QED BY <1>3, <2>1, <2>2, <2>3 DEF Retry
<1>4. ASSUME NEW s \in Session, SessionStep(s) \/ Break(s) PROVE TypeOK'
  <2>1. CASE Register(s)
    BY <2>1 DEF Register, Move
  <2>2. CASE TakeBack(s)
    BY <2>2 DEF TakeBack, Move
  <2>3. CASE Replay(s)
    <3>1. PICK items \in SUBSET Item : Begin(s, items)
      BY <2>3 DEF Replay, Unacked, Since, Stored
    <3> QED BY <2>3, <3>1, Lists DEF Replay, Move
  <2>4. CASE Unregister(s)
    BY <2>4 DEF Unregister, Move
  <2>5. CASE ResetInflight(s)
    BY <2>5, ResetRows DEF ResetInflight, Move
  <2>6. CASE Break(s)
    BY <2>6 DEF Break, Move
  <2> QED BY <1>4, <2>1, <2>2, <2>3, <2>4, <2>5, <2>6 DEF SessionStep
<1>5. ASSUME NEW s \in Session, NEW i \in Item, Ack(s, i) \/ Fail(s, i) PROVE TypeOK'
  <2>0. PICK r \in Row : row' = [row EXCEPT ![i] = r]
    BY <1>5, AnswerEffect
  <2>9. PICK n \in Nat : copies' = [copies EXCEPT ![s][i] = n]
    BY <1>5, AnswerEffect
  <2>1. copies' \in [Session -> [Item -> Nat]]
    BY <2>9, CopyWrites
  <2>2. row' \in [Item -> Row]
    BY <2>0
  <2> QED BY <1>5, <2>1, <2>2 DEF Ack, Fail
<1>6. ASSUME NEW i \in Item, NEW c \in Seconds, Insert(i, c) PROVE TypeOK'
  <2>1. c \in Nat
    BY DEF Seconds
  <2>2. row' = [row EXCEPT ![i] = [row[i] EXCEPT !.status = "pending", !.created = c]]
    BY <1>6 DEF Insert
  <2>3. row' \in [Item -> Row]
    BY <2>1, <2>2, RowWrites
  <2> QED BY <1>6, <2>3 DEF Insert
<1>7. ASSUME NEW i \in Item, PushNew(i) \/ TimePasses(i) PROVE TypeOK'
  <2>1. CASE PushNew(i)
    BY <2>1, Lists DEF PushNew, Unacked
  <2>2. CASE TimePasses(i)
    <3>1. PICK w \in {"passed", "old"} : row' = [row EXCEPT ![i] = [row[i] EXCEPT !.wait = w]]
      BY <2>2 DEF TimePasses
    <3>2. row' \in [Item -> Row]
      BY <3>1, RowWrites
    <3> QED BY <2>2, <3>2 DEF TimePasses
  <2> QED BY <1>7, <2>1, <2>2
<1>8. CASE Stop
  BY <1>8 DEF Stop
<1>9. CASE Crash
  BY <1>9 DEF Crash
<1>10. CASE Restart
  BY <1>10, ResetRows DEF Restart
<1>11. CASE UNCHANGED vars
  BY <1>11 DEF vars
<1> QED BY <1>1, <1>2, <1>3, <1>4, <1>5, <1>6, <1>7, <1>8, <1>9, <1>10, <1>11 DEF Next, Pushing

\* Every step keeps the registry's entry with its session.
LEMMA OwnerStep ==
  ASSUME BInv, [Next]_vars
  PROVE  NothingLeft' /\ RegistryOwner'
<1> USE DEF BInv, TypeOK, NothingLeft, RegistryOwner, Enrolled
<1>1. CASE UNCHANGED <<reg, phase, up>>
  BY <1>1
<1>2. ASSUME NEW s \in Session, SessionStep(s) \/ Break(s) PROVE NothingLeft' /\ RegistryOwner'
  <2>1. CASE Register(s)
    BY <2>1 DEF Register, Move
  <2>2. CASE TakeBack(s)
    BY <2>2 DEF TakeBack, Move
  <2>3. CASE Replay(s)
    BY <2>3 DEF Replay, Move
  <2>4. CASE Unregister(s)
    BY <2>4 DEF Unregister, Move
  <2>5. CASE ResetInflight(s)
    BY <2>5 DEF ResetInflight, Move
  <2>6. CASE Break(s)
    BY <2>6 DEF Break, Move, Serving
  <2> QED BY <1>2, <2>1, <2>2, <2>3, <2>4, <2>5, <2>6 DEF SessionStep
<1>3. CASE Stop
  BY <1>3 DEF Stop
<1>4. CASE Crash
  BY <1>4 DEF Crash
<1>5. CASE Restart
  BY <1>5 DEF Restart
<1> QED
  BY <1>1, <1>2, <1>3, <1>4, <1>5
  DEF Next, Pushing, Mark, Send, Retry, RetryTick, RetryUnacked, RetryDone, Ack, Fail, Insert,
      PushNew, TimePasses, vars

\* A step after which a session is enrolled, or no row is in flight, watches all rows.
LEMMA WatchedStep ==
  ASSUME BInv, [Next]_vars
  PROVE  InflightWatched'
<1> USE DEF BInv, TypeOK
<1>1. CASE \E s \in Session : Enrolled(s)' \/ phase'[s] \in {"left", "dropped"}
  BY <1>1 DEF InflightWatched
<1>2. CASE \A i \in Item : row'[i].status # "inflight"
  BY <1>2 DEF InflightWatched
<1>3. CASE up' # "up"
  BY <1>3 DEF InflightWatched
<1>4. CASE reg # None /\ UNCHANGED <<reg, phase>>
  BY <1>1, <1>4 DEF RegistryOwner, Enrolled
<1>5. ASSUME NEW p \in Pusher, Mark(p) PROVE InflightWatched'
  <2>1. PICK i \in push[p].todo :
          /\ row' = [row EXCEPT ![i].status = "inflight", ![i].wait = "no"]
          /\ push' = [push EXCEPT ![p] = [todo |-> @.todo \ {i}, at |-> i]]
    BY <1>5 DEF Mark
  <2>2. push'[p].at = i /\ \A q \in Pusher : push[q].at # None => push'[q].at = push[q].at
    BY <1>5, <2>1 DEF Mark
  <2>3. \A j \in Item : j # i => row'[j] = row[j]
    BY <2>1
  <2>4. UNCHANGED <<phase, up>>
    BY <1>5 DEF Mark
  <2> QED BY <2>2, <2>3, <2>4 DEF InflightWatched, Enrolled
<1>6. ASSUME NEW p \in Pusher, Send(p) PROVE InflightWatched'
  BY <1>2, <1>4, <1>6, ResetRows DEF Send
<1>7. CASE Retry
  <2>1. CASE RetryTick
    BY <2>1, <1>4 DEF RetryTick
  <2>2. CASE RetryUnacked
    <3>1. \A p \in Pusher : push[p].at # None => push'[p].at = push[p].at
      <4>1. push["retry"].at = None /\ "retry" \in Pusher
        BY <2>2 DEF RetryUnacked, Done
      <4>2. push' = [push EXCEPT !["retry"] = [todo |-> Unacked, at |-> None]]
        BY <2>2 DEF RetryUnacked, Begin
      <4>3. \A p \in Pusher : p # "retry" => push'[p] = push[p]
        BY <4>2
      <4> QED BY <4>1, <4>3
    <3>2. UNCHANGED <<row, phase, up>>
      BY <2>2 DEF RetryUnacked
    <3>3. ASSUME NEW i \in Item, \E p \in Pusher : push[p].at = i
          PROVE  \E p \in Pusher : push'[p].at = i
      BY <3>1, <3>3
    <3> QED BY <3>2, <3>3 DEF InflightWatched, Enrolled
  <2>3. CASE RetryDone
    BY <2>3 DEF RetryDone, InflightWatched, Enrolled
  <2> QED BY <1>7, <2>1, <2>2, <2>3 DEF Retry
<1>8. ASSUME NEW s \in Session, SessionStep(s) \/ Break(s) PROVE InflightWatched'
  <2>1. CASE Register(s)
    BY <2>1, <1>1 DEF Register, Move, Enrolled
  <2>2. CASE TakeBack(s)
    BY <2>2, <1>1 DEF TakeBack, Move
  <2>3. CASE Replay(s)
    BY <2>3, <1>1 DEF Replay, Move, Enrolled
  <2>4. CASE Unregister(s)
    BY <2>4, <1>1 DEF Unregister, Move
  <2>5. CASE ResetInflight(s)
    BY <2>5, <1>2, ResetRows DEF ResetInflight
  <2>6. CASE Break(s)
    BY <2>6, <1>1 DEF Break, Move, Enrolled
  <2> QED BY <1>8, <2>1, <2>2, <2>3, <2>4, <2>5, <2>6 DEF SessionStep
<1>9. ASSUME NEW s \in Session, NEW i \in Item, Ack(s, i) \/ Fail(s, i) PROVE InflightWatched'
  BY <1>9, <1>1 DEF Ack, Fail, Serving, Enrolled
<1>10. ASSUME NEW i \in Item, NEW c \in Seconds, Insert(i, c) PROVE InflightWatched'
  BY <1>10 DEF Insert, InflightWatched, Enrolled
<1>11. ASSUME NEW i \in Item, PushNew(i) PROVE InflightWatched'
  <2>1. CASE reg # None
    BY <1>11, <2>1, <1>4 DEF PushNew
  <2>2. CASE reg = None
    BY <1>11, <2>2 DEF PushNew, InflightWatched, Enrolled
  <2> QED BY <2>1, <2>2
<1>12. ASSUME NEW i \in Item, TimePasses(i) PROVE InflightWatched'
  BY <1>12 DEF TimePasses, InflightWatched, Enrolled
<1>13. CASE Stop \/ Crash
  BY <1>13, <1>3 DEF Stop, Crash
<1>14. CASE Restart
  BY <1>14, <1>2, ResetRows DEF Restart
<1>15. CASE UNCHANGED vars
  BY <1>15 DEF vars, InflightWatched, Enrolled
<1> QED BY <1>5, <1>6, <1>7, <1>8, <1>9, <1>10, <1>11, <1>12, <1>13, <1>14, <1>15 DEF Next, Pushing

LEMMA BInvariant == Spec => []BInv
<1>1. Init => BInv
  BY DEF Init, BInv, TypeOK, Row, NothingLeft, RegistryOwner, InflightWatched, Enrolled
<1>2. BInv /\ [Next]_vars => BInv'
  BY TypeStep, OwnerStep, WatchedStep DEF BInv
<1> QED BY <1>1, <1>2, PTL DEF Spec

\* The table, the registry, the sessions and the lists keep their types.
THEOREM TypeCorrect == Spec => []TypeOK
<1>1. BInv => TypeOK
  BY DEF BInv
<1> QED BY <1>1, BInvariant, PTL

\* However connections break and come back, the registry's entry is the live session's.
THEOREM OwnerKept == Spec => []RegistryOwner
<1>1. BInv => RegistryOwner
  BY DEF BInv
<1> QED BY <1>1, BInvariant, PTL

\* Somebody is left to bring back each item in flight.
THEOREM NothingForgotten == Spec => []InflightWatched
<1>1. BInv => InflightWatched
  BY DEF BInv
<1> QED BY <1>1, BInvariant, PTL

\* No step takes up a settled item.
LEMMA SettledStep ==
  ASSUME TypeOK, Next, NEW k \in Item, Settled(k)
  PROVE  Settled(k)'
<1> USE DEF TypeOK, Settled
<1>1. ASSUME NEW p \in Pusher, Mark(p) PROVE Settled(k)'
  <2>1. PICK i \in push[p].todo :
          /\ row' = [row EXCEPT ![i].status = "inflight", ![i].wait = "no"]
          /\ push' = [push EXCEPT ![p] = [todo |-> @.todo \ {i}, at |-> i]]
    BY <1>1 DEF Mark
  <2>2. k # i
    OBVIOUS
  <2> QED BY <1>1, <2>1, <2>2 DEF Mark
<1>2. ASSUME NEW p \in Pusher, Send(p) PROVE Settled(k)'
  <2>1. row'[k] = row[k]
    BY <1>2, ResetRows, SendEffect
  <2>2. ASSUME NEW s \in Session, NEW n \in Nat, copies' = [copies EXCEPT ![s][push[p].at] = n]
        PROVE  \A r \in Session : copies'[r][k] = copies[r][k]
    BY <1>2, <2>2, SendEffect, CopyWrites
  <2>3. \A r \in Session : copies'[r][k] = copies[r][k]
    BY <1>2, <2>2, SendEffect
  <2> QED BY <1>2, <2>1, <2>3 DEF Send
<1>3. ASSUME NEW p \in Pusher, NEW items \in SUBSET Item, k \notin items, Begin(p, items),
             UNCHANGED <<row, copies>>
      PROVE  Settled(k)'
  BY <1>3 DEF Begin
<1>4. k \notin Unacked /\ k \notin Retryable /\ \A j \in Stored : k \notin Since(j)
  BY DEF Unacked, Retryable, Since
<1>5. CASE Retry
  BY <1>3, <1>4, <1>5 DEF Retry, RetryTick, RetryUnacked, RetryDone, Unacked, Retryable
<1>6. ASSUME NEW s \in Session, SessionStep(s) \/ Break(s) PROVE Settled(k)'
  <2>1. CASE Replay(s)
    BY <2>1, <1>3, <1>4 DEF Replay, Unacked, Since, Stored
  <2>2. CASE ResetInflight(s)
    BY <2>2, ResetRows DEF ResetInflight
  <2>3. CASE Register(s)
    BY <2>3 DEF Register
  <2>4. CASE TakeBack(s) \/ Unregister(s) \/ Break(s)
    <3>1. copies' = [copies EXCEPT ![s] = [i \in Item |-> 0]] /\ UNCHANGED <<row, push>>
      BY <2>4 DEF TakeBack, Unregister, Break
    <3>2. \A r \in Session : copies'[r][k] = 0
      BY <3>1
    <3> QED BY <3>1, <3>2
  <2> QED BY <1>6, <2>1, <2>2, <2>3, <2>4 DEF SessionStep
<1>7. ASSUME NEW s \in Session, NEW i \in Item, Ack(s, i) \/ Fail(s, i) PROVE Settled(k)'
  <2>1. k # i
    BY <1>7, AnswerEffect
  <2>0. PICK r \in Row : row' = [row EXCEPT ![i] = r]
    BY <1>7, AnswerEffect
  <2>9. PICK n \in Nat : copies' = [copies EXCEPT ![s][i] = n]
    BY <1>7, AnswerEffect
  <2>2. row'[k] = row[k] /\ \A q \in Session : copies'[q][k] = copies[q][k]
    BY <2>0, <2>9, <2>1, CopyWrites
  <2> QED BY <1>7, <2>2 DEF Ack, Fail
<1>8. ASSUME NEW i \in Item, NEW c \in Seconds, Insert(i, c) PROVE Settled(k)'
  BY <1>8 DEF Insert
<1>9. ASSUME NEW i \in Item, PushNew(i) \/ TimePasses(i) PROVE Settled(k)'
  <2>1. CASE PushNew(i)
    BY <2>1, <1>3, <1>4 DEF PushNew, Unacked
  <2>2. CASE TimePasses(i)
    BY <2>2 DEF TimePasses
  <2> QED BY <1>9, <2>1, <2>2
<1>10. CASE Stop \/ Crash
  BY <1>10 DEF Stop, Crash
<1>11. CASE Restart
  BY <1>11, ResetRows DEF Restart
<1> QED BY <1>1, <1>2, <1>5, <1>6, <1>7, <1>8, <1>9, <1>10, <1>11 DEF Next, Pushing

\* What was acknowledged and is on no list and on no wire stays that way for good.
THEOREM SettledStays == Spec => SettledForGood
<1>1. TypeOK /\ [Next]_vars => [\A i \in Item : Settled(i) => Settled(i)']_vars
  BY SettledStep
<1> QED BY <1>1, TypeCorrect, PTL DEF Spec, SettledForGood
=============================================================================
