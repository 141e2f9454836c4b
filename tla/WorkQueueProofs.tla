-------------------------- MODULE WorkQueueProofs --------------------------
(***************************************************************************)
(* Proofs about WorkQueue, for every table of drafts, every lag and every  *)
(* set of lease durations.                                                 *)
(*                                                                         *)
(* The argument goes item by item: StepPerItem shows that whatever a step  *)
(* does to the whole table, to one item it does one of the eight things    *)
(* below.  The invariants, LeaseProtects and the refinement then follow    *)
(* from the eight cases alone.                                             *)
(***************************************************************************)
EXTENDS WorkQueue, TLAPS

SameHistory(i) == claims'[i] = claims[i] /\ accepted'[i] = accepted[i]

Kept(i) == row'[i] = row[i] /\ SameHistory(i)

Submitted(i) ==
  /\ row[i].status = "absent"
  /\ \E t \in Nat : row'[i] = [NoRow EXCEPT !.status = "pending",
                                             !.available = t, !.created = t]
  /\ SameHistory(i)

\* A lease that is over, or a row that cannot be read, was recovered.
Released(i) ==
  /\ row[i].status = "leased"
  /\ row[i].expires <= now \/ ~row[i].valid
  /\ \/ row'[i] = Ended(row[i], "dead_letter")
     \/ /\ row[i].attempts < Limit(i)
        /\ \E t \in Nat : row'[i] = Requeued(row[i], t)
  /\ SameHistory(i)

\* A lease was granted, perhaps after recovery in the same transaction.
Granted(i) ==
  /\ row[i].status = "pending" \/ (row[i].status = "leased" /\ row[i].expires <= now)
  /\ row[i].attempts < Limit(i)
  /\ \E r \in Row : \E t \in Nat \ {0} :
       /\ r.attempts = row[i].attempts /\ ~r.done
       /\ row'[i] = LeasedUntil(r, claims[i] + 1, t)
  /\ claims'[i] = claims[i] + 1
  /\ accepted'[i] = accepted[i]

Renewed(i) ==
  /\ row[i].status = "leased"
  /\ \E t \in Nat \ {0} : row'[i] = [row[i] EXCEPT !.expires = t]
  /\ SameHistory(i)

Judged(i) ==
  /\ row[i].status = "leased"
  /\ claims'[i] = claims[i]
  /\ \/ /\ row'[i] = Ended(row[i], "completed")
        /\ accepted'[i] = accepted[i] \cup {<<row[i].token, "complete">>}
     \/ /\ row[i].attempts < Limit(i)
        /\ \E t \in Nat : row'[i] = Requeued(row[i], t)
        /\ accepted'[i] = accepted[i] \cup {<<row[i].token, "retry">>}
     \/ /\ \E t \in Nat : row'[i] = [Ended(row[i], "dead_letter") EXCEPT !.available = t]
        /\ accepted'[i] = accepted[i] \cup {<<row[i].token, "dead_letter">>}

\* Canceled, or a pending row that cannot be read was taken out of line.
Withdrawn(i) ==
  /\ \/ /\ row[i].status \in {"pending", "leased"}
        /\ row'[i] = Ended(row[i], "canceled")
     \/ /\ row[i].status = "pending"
        /\ row'[i] = Ended(row[i], "dead_letter")
  /\ SameHistory(i)

Corrupted(i) ==
  /\ row'[i] = [row[i] EXCEPT !.valid = FALSE]
  /\ SameHistory(i)

ItemStep(i) ==
  \/ Kept(i) \/ Submitted(i) \/ Released(i) \/ Granted(i)
  \/ Renewed(i) \/ Judged(i) \/ Withdrawn(i) \/ Corrupted(i)

\* An id nobody submitted has no claims; a dead-letter verdict on the latest
\* claim is final.  Neither is checked as a property of its own: they are what
\* OneVerdictPerLease needs to survive the next claim.
HistoryFits ==
  \A i \in Id :
    /\ row[i].status = "absent" => claims[i] = 0 /\ accepted[i] = {}
    /\ <<claims[i], "dead_letter">> \in accepted[i] => row[i].status = "dead_letter"

IInv ==
  /\ TypeOK /\ RowConsistent /\ LatestClaimHoldsLease
  /\ PendingIsClaimable /\ OneVerdictPerLease /\ HistoryFits

-----------------------------------------------------------------------------
LEMMA LimitType == \A i \in Id : Limit(i) \in 1..20
  BY QueueAssumption DEF DraftOK, Limit

LEMMA DelayType == \A n \in Nat : RetryDelay(n) \in Nat
  BY DEF RetryDelay, Doublings

\* What the updates make of a row is a row.
LEMMA EndedType == ASSUME NEW r \in Row, NEW s \in Status PROVE Ended(r, s) \in Row
  BY DEF Ended, Row, Status

LEMMA RequeuedType == ASSUME NEW r \in Row, NEW t \in Nat PROVE Requeued(r, t) \in Row
  BY DEF Requeued, Row, Status

LEMMA LeasedType ==
  ASSUME NEW r \in Row, NEW n \in Nat, NEW t \in Nat PROVE LeasedUntil(r, n, t) \in Row
<1>1. r.attempts + 1 \in Nat
  BY DEF Row
<1>2. ASSUME NEW k \in Nat
      PROVE [r EXCEPT !.status = "leased", !.attempts = k, !.token = n, !.expires = t] \in Row
  BY DEF Row, Status
<1> QED
  BY <1>1, <1>2 DEF LeasedUntil

LEMMA NewRowType ==
  ASSUME NEW t \in Nat
  PROVE [NoRow EXCEPT !.status = "pending", !.available = t, !.created = t] \in Row
  BY DEF NoRow, Row, Status

\* Recovery of the whole table keeps it a table.
LEMMA TableType ==
  ASSUME TypeOK, NEW g, NEW t \in Nat
  PROVE /\ RecoveredTable(g, t) \in [Id -> Row]
        /\ \A i \in Id : RecoveredTable(g, t)[i] = Recovered(i, g, t)
<1>1. ASSUME NEW i \in Id PROVE Recovered(i, g, t) \in Row
  <2>1. row[i] \in Row
    BY DEF TypeOK
  <2>2. Ended(row[i], "dead_letter") \in Row /\ Requeued(row[i], t) \in Row
    BY <2>1, EndedType, RequeuedType DEF Status, Terminal
  <2> QED
    BY <2>1, <2>2 DEF Recovered
<1> QED
  BY <1>1 DEF RecoveredTable

\* Every operation keeps the table well typed.
LEMMA TypeStep == TypeOK /\ [Next]_vars => TypeOK'
<1> SUFFICES ASSUME TypeOK, [Next]_vars PROVE TypeOK'
  OBVIOUS
<1>0. \A t \in Recent : t \in Nat /\ t <= now
  BY DEF Recent, TypeOK
<1>a. \A d \in Leases : d \in Nat \ {0}
  BY QueueAssumption
<1>b. ASSUME NEW i \in Id, NEW r \in Row, row' = [row EXCEPT ![i] = r] PROVE row' \in [Id -> Row]
  BY <1>b DEF TypeOK
<1>c. \A i \in Id : row[i] \in Row /\ claims[i] \in Nat
  BY DEF TypeOK
<1>d. ASSUME NEW i \in Id, NEW n \in 1..claims[i], NEW v \in Calls,
             accepted' = [accepted EXCEPT ![i] = @ \cup {<<n, v>>}]
      PROVE accepted' \in [Id -> SUBSET (Nat \X Calls)]
  BY <1>c, <1>d DEF TypeOK
<1>1. CASE UNCHANGED vars
  BY <1>1 DEF vars, TypeOK
<1>2. CASE Tick
  BY <1>2 DEF Tick, storeVars, TypeOK
<1>3. ASSUME NEW i \in Id, Corrupt(i) PROVE TypeOK'
  BY <1>3 DEF Corrupt, TypeOK, Row
<1>4. ASSUME NEW c \in Corrs, CancelScoped(c) PROVE TypeOK'
  <2>1. PICK i \in Id : row' = [row EXCEPT ![i] = Ended(row[i], "canceled")]
    BY <1>4 DEF CancelScoped
  <2>2. Ended(row[i], "canceled") \in Row
    BY <1>c, EndedType DEF Status, Terminal
  <2> QED
    BY <1>4, <1>b, <2>1, <2>2 DEF CancelScoped, TypeOK
<1>5. ASSUME NEW t \in Recent, NEW i \in Id, Enqueue(i, t) PROVE TypeOK'
  BY <1>0, <1>5, <1>b, NewRowType DEF Enqueue, TypeOK
<1>6. ASSUME NEW t \in Recent, NEW g \in Targets PROVE RecoveredTable(g, t) \in [Id -> Row]
  BY <1>0, TableType
<1>7. ASSUME NEW t \in Recent, NEW g \in Targets, RecoverExpired(g, t) PROVE TypeOK'
  BY <1>6, <1>7 DEF RecoverExpired, TypeOK
<1>8. ASSUME NEW t \in Recent, NEW g \in Targets, NEW d \in Leases, ClaimNext(g, t, d)
      PROVE TypeOK'
  <2> DEFINE table == RecoveredTable(g, t)
  <2>1. table \in [Id -> Row]
    BY <1>6
  <2>2. CASE row' = table /\ UNCHANGED <<now, claims, accepted>>
    BY <2>1, <2>2 DEF TypeOK
  <2>3. ASSUME NEW i \in Id, UNCHANGED <<now, accepted>>,
               row' = [table EXCEPT ![i] = LeasedUntil(table[i], claims[i] + 1, t + d)],
               claims' = [claims EXCEPT ![i] = @ + 1]
        PROVE TypeOK'
    <3>1. claims[i] + 1 \in Nat /\ t + d \in Nat /\ table[i] \in Row
      BY <1>0, <1>a, <1>c, <2>1
    <3>2. LeasedUntil(table[i], claims[i] + 1, t + d) \in Row
      BY <3>1, LeasedType
    <3> QED
      BY <2>1, <2>3, <3>1, <3>2 DEF TypeOK
  <2>4. ASSUME NEW i \in Id, UNCHANGED <<now, claims, accepted>>,
               row' = [table EXCEPT ![i] = Ended(table[i], "dead_letter")]
        PROVE TypeOK'
    <3>1. Ended(table[i], "dead_letter") \in Row
      BY <2>1, EndedType DEF Status, Terminal
    <3> QED
      BY <2>1, <2>4, <3>1 DEF TypeOK
  <2> QED
    BY <1>8, <2>2, <2>3, <2>4 DEF ClaimNext, FirstInLine
<1>9. ASSUME NEW t \in Recent, NEW i \in Id, NEW n \in 1..claims[i], Complete(i, n, t)
      PROVE TypeOK'
  <2>1. Ended(row[i], "completed") \in Row
    BY <1>c, EndedType DEF Status, Terminal
  <2>2. row' \in [Id -> Row]
    BY <1>9, <1>b, <2>1 DEF Complete
  <2>3. accepted' \in [Id -> SUBSET (Nat \X Calls)]
    BY <1>9, <1>d DEF Complete, Calls
  <2> QED
    BY <1>9, <2>2, <2>3 DEF Complete, TypeOK
<1>10. ASSUME NEW t \in Recent, NEW i \in Id, NEW n \in 1..claims[i], NEW d \in Leases,
              RenewLease(i, n, t, d)
       PROVE TypeOK'
  <2>1. t + d \in Nat
    BY <1>0, <1>a
  <2>2. [row[i] EXCEPT !.expires = t + d] \in Row
    BY <1>c, <2>1 DEF Row
  <2>3. row' = [row EXCEPT ![i] = [row[i] EXCEPT !.expires = t + d]]
    BY <1>10 DEF RenewLease
  <2> QED
    BY <1>10, <1>b, <2>2, <2>3 DEF RenewLease, TypeOK
<1>11. ASSUME NEW t \in Recent, NEW i \in Id, NEW n \in 1..claims[i], NEW b \in BOOLEAN,
              Fail(i, n, t, b)
       PROVE TypeOK'
  <2>1. row[i].attempts \in Nat /\ t \in Nat
    BY <1>0, <1>c DEF Row
  <2>2. t + RetryDelay(row[i].attempts) \in Nat
    BY <2>1, DelayType
  <2>3. Requeued(row[i], t + RetryDelay(row[i].attempts)) \in Row
    BY <1>c, <2>2, RequeuedType
  <2>4. Ended(row[i], "dead_letter") \in Row
    BY <1>c, EndedType DEF Status, Terminal
  <2>5. [Ended(row[i], "dead_letter") EXCEPT !.available = t] \in Row
    BY <2>1, <2>4 DEF Row
  <2>6. row' \in [Id -> Row]
    BY <1>11, <1>b, <2>3, <2>5 DEF Fail
  <2>7. accepted' \in [Id -> SUBSET (Nat \X Calls)]
    BY <1>11, <1>d DEF Fail, Calls
  <2> QED
    BY <1>11, <2>6, <2>7 DEF Fail, TypeOK
<1> QED
  BY <1>1, <1>2, <1>3, <1>4, <1>5, <1>7, <1>8, <1>9, <1>10, <1>11 DEF Next

-----------------------------------------------------------------------------
\* Recovery does to one row nothing, or ends or requeues a lease that is over
\* or cannot be read; what it leaves pending was pending or is no longer leased.
LEMMA RecoveredCases ==
  ASSUME IInv, NEW i \in Id, NEW g, NEW t \in Recent
  PROVE LET r == Recovered(i, g, t) IN
        \/ r = row[i]
        \/ /\ row[i].status = "leased"
           /\ row[i].expires <= now \/ ~row[i].valid
           /\ r = Ended(row[i], "dead_letter")
        \/ /\ row[i].status = "leased" /\ row[i].valid
           /\ row[i].expires <= now
           /\ row[i].attempts < Limit(i)
           /\ r = Requeued(row[i], t)
<1>1. t \in Nat /\ t <= now /\ now \in Nat
  BY DEF Recent, IInv, TypeOK
<1>2. row[i].expires \in Nat /\ row[i].attempts \in Nat /\ Limit(i) \in Nat
  BY LimitType DEF IInv, TypeOK, Row
<1> QED
  BY <1>1, <1>2 DEF Recovered

\* Whatever a step does to the table, to one item it does one of eight things.
LEMMA StepPerItem == IInv /\ [Next]_vars => \A i \in Id : ItemStep(i)
<1> SUFFICES ASSUME IInv, [Next]_vars, NEW k \in Id PROVE ItemStep(k)
  OBVIOUS
<1>0. TypeOK /\ TypeOK'
  BY TypeStep DEF IInv
<1>a. \A t \in Recent : t \in Nat /\ t <= now
  BY <1>0 DEF Recent, TypeOK
<1>b. \A d \in Leases : d \in Nat /\ d > 0
  BY QueueAssumption
<1>c. \A i \in Id : row[i] \in Row /\ claims[i] \in Nat
  BY <1>0 DEF TypeOK
<1>d. row \in [Id -> Row] /\ claims \in [Id -> Nat] /\ accepted \in [Id -> SUBSET (Nat \X Calls)]
  BY <1>0 DEF TypeOK
<1>1. CASE UNCHANGED vars
  BY <1>1 DEF vars, ItemStep, Kept, SameHistory
<1>2. CASE Tick
  BY <1>2 DEF Tick, storeVars, ItemStep, Kept, SameHistory
<1>3. ASSUME NEW i \in Id, Corrupt(i) PROVE ItemStep(k)
  BY <1>3, <1>d DEF Corrupt, ItemStep, Corrupted, Kept, SameHistory
<1>4. ASSUME NEW c \in Corrs, CancelScoped(c) PROVE ItemStep(k)
  BY <1>4, <1>d DEF CancelScoped, ItemStep, Withdrawn, Kept, SameHistory
<1>5. ASSUME NEW t \in Recent, NEW i \in Id, Enqueue(i, t) PROVE ItemStep(k)
  BY <1>5, <1>a, <1>d DEF Enqueue, ItemStep, Submitted, Kept, SameHistory
<1>6. ASSUME NEW t \in Recent, NEW g \in Targets, row'[k] = RecoveredTable(g, t)[k],
             SameHistory(k)
      PROVE ItemStep(k)
  <2>1. row'[k] = Recovered(k, g, t)
    BY <1>0, <1>6, <1>a, TableType
  <2> QED
    BY <1>a, <1>6, <2>1, RecoveredCases DEF ItemStep, Kept, Released
<1>7. ASSUME NEW t \in Recent, NEW g \in Targets, RecoverExpired(g, t) PROVE ItemStep(k)
  BY <1>6, <1>7 DEF RecoverExpired, SameHistory
<1>8. ASSUME NEW t \in Recent, NEW g \in Targets, NEW d \in Leases, ClaimNext(g, t, d)
      PROVE ItemStep(k)
  <2> DEFINE table == RecoveredTable(g, t)
  <2>1. table \in [Id -> Row] /\ \A i \in Id : table[i] = Recovered(i, g, t)
    BY <1>0, <1>a, TableType
  <2>2. CASE row' = table /\ UNCHANGED <<now, claims, accepted>>
    BY <1>6, <2>2 DEF SameHistory
  <2>3. ASSUME NEW i \in Id, i # k, row'[k] = table[k],
               accepted' = accepted, claims'[k] = claims[k]
        PROVE ItemStep(k)
    BY <1>6, <2>3 DEF SameHistory
  <2>4. ASSUME table[k].status = "pending", table[k].attempts < Limit(k)
        PROVE /\ row[k].status = "pending" \/ (row[k].status = "leased" /\ row[k].expires <= now)
              /\ row[k].attempts < Limit(k)
              /\ table[k].attempts = row[k].attempts /\ ~table[k].done
              /\ table[k].valid = row[k].valid
              /\ row[k].status = "pending" => table[k] = row[k]
              /\ row[k].status = "leased" => row[k].valid
    <3>1. row[k] \in Row /\ table[k] = Recovered(k, g, t)
      BY <1>c, <2>1
    <3>2. CASE table[k] = row[k]
      <4>1. ~row[k].done
        BY <2>4, <3>2 DEF IInv, RowConsistent, Terminal
      <4> QED
        BY <2>4, <3>1, <3>2, <4>1
    <3>3. CASE table[k] = Ended(row[k], "dead_letter")
      BY <2>4, <3>1, <3>3 DEF Ended, Row
    <3>4. CASE table[k] = Requeued(row[k], t) /\ row[k].status = "leased" /\ row[k].valid
               /\ row[k].expires <= now /\ row[k].attempts < Limit(k)
      <4>1. ~row[k].done
        BY <3>4 DEF IInv, RowConsistent, Terminal
      <4>2. /\ Requeued(row[k], t).attempts = row[k].attempts
            /\ Requeued(row[k], t).done = row[k].done
            /\ Requeued(row[k], t).valid = row[k].valid
        BY <3>1 DEF Requeued, Row
      <4> QED
        BY <3>4, <4>1, <4>2
    <3> QED
      BY <3>1, <3>2, <3>3, <3>4, RecoveredCases
  <2>5. ASSUME table[k].status = "pending", table[k].attempts < Limit(k),
               row'[k] = LeasedUntil(table[k], claims[k] + 1, t + d),
               claims'[k] = claims[k] + 1, accepted' = accepted
        PROVE ItemStep(k)
    <3>1. t + d \in Nat \ {0} /\ table[k] \in Row
      BY <1>a, <1>b, <2>1
    <3> QED
      BY <2>4, <2>5, <3>1 DEF ItemStep, Granted
  <2>6. ASSUME table[k].status = "pending", table[k].attempts < Limit(k), ~table[k].valid,
               row'[k] = Ended(table[k], "dead_letter"), SameHistory(k)
        PROVE ItemStep(k)
    BY <2>4, <2>6 DEF ItemStep, Withdrawn
  <2>7. ASSUME NEW i \in FirstInLine(table, g, t), UNCHANGED accepted,
               \/ /\ row' = [table EXCEPT ![i] = LeasedUntil(table[i], claims[i] + 1, t + d)]
                  /\ claims' = [claims EXCEPT ![i] = @ + 1]
               \/ /\ ~table[i].valid
                  /\ row' = [table EXCEPT ![i] = Ended(table[i], "dead_letter")]
                  /\ UNCHANGED claims
        PROVE ItemStep(k)
    <3>1. i \in Id /\ table[i].status = "pending" /\ table[i].attempts < Limit(i)
      BY DEF FirstInLine, Claimable
    <3>2. CASE i # k
      <4>1. row'[k] = table[k] /\ claims'[k] = claims[k]
        BY <1>d, <2>1, <2>7, <3>1, <3>2
      <4> QED
        BY <2>3, <2>7, <3>1, <3>2, <4>1
    <3>3. CASE i = k /\ row' = [table EXCEPT ![k] = LeasedUntil(table[k], claims[k] + 1, t + d)]
               /\ claims' = [claims EXCEPT ![k] = @ + 1]
      BY <1>d, <2>1, <2>5, <2>7, <3>1, <3>3
    <3>4. CASE i = k /\ row' = [table EXCEPT ![k] = Ended(table[k], "dead_letter")]
               /\ ~table[k].valid /\ UNCHANGED claims
      BY <1>d, <2>1, <2>6, <2>7, <3>1, <3>4 DEF SameHistory
    <3> QED
      BY <2>7, <3>2, <3>3, <3>4
  <2> QED
    BY <1>8, <2>2, <2>7 DEF ClaimNext
<1>9. ASSUME NEW t \in Recent, NEW i \in Id, NEW n \in 1..claims[i], Complete(i, n, t)
      PROVE ItemStep(k)
  BY <1>9, <1>d DEF Complete, HoldsLease, ItemStep, Judged, Kept, SameHistory
<1>10. ASSUME NEW t \in Recent, NEW i \in Id, NEW n \in 1..claims[i], NEW d \in Leases,
              RenewLease(i, n, t, d)
       PROVE ItemStep(k)
  <2>1. t + d \in Nat \ {0}
    BY <1>a, <1>b
  <2> QED
    BY <1>10, <1>d, <2>1 DEF RenewLease, HoldsLease, ItemStep, Renewed, Kept, SameHistory
<1>11. ASSUME NEW t \in Recent, NEW i \in Id, NEW n \in 1..claims[i], NEW b \in BOOLEAN,
              Fail(i, n, t, b)
       PROVE ItemStep(k)
  <2>1. CASE i # k
    BY <1>11, <1>d, <2>1 DEF Fail, ItemStep, Kept, SameHistory
  <2>2. CASE i = k /\ b /\ row[k].attempts < Limit(k)
    <3>1. row[k].attempts \in Nat /\ t \in Nat
      BY <1>a, <1>c DEF Row
    <3>2. t + RetryDelay(row[k].attempts) \in Nat
      BY <3>1, DelayType
    <3>3. row'[k] = Requeued(row[k], t + RetryDelay(row[k].attempts))
      BY <1>11, <1>d, <2>2 DEF Fail
    <3>4. /\ row[k].status = "leased" /\ row[k].token = n /\ claims'[k] = claims[k]
          /\ accepted'[k] = accepted[k] \cup {<<row[k].token, "retry">>}
      BY <1>11, <1>d, <2>2 DEF Fail, HoldsLease
    <3> QED
      BY <2>2, <3>2, <3>3, <3>4 DEF ItemStep, Judged
  <2>3. CASE i = k /\ ~(b /\ row[k].attempts < Limit(k))
    <3>1. row'[k] = [Ended(row[k], "dead_letter") EXCEPT !.available = t]
      BY <1>11, <1>d, <2>3 DEF Fail
    <3>2. /\ row[k].status = "leased" /\ row[k].token = n /\ claims'[k] = claims[k]
          /\ accepted'[k] = accepted[k] \cup {<<row[k].token, "dead_letter">>}
      BY <1>11, <1>d, <2>3 DEF Fail, HoldsLease
    <3> QED
      BY <1>a, <3>1, <3>2 DEF ItemStep, Judged
  <2> QED
    BY <2>1, <2>2, <2>3
<1> QED
  BY <1>1, <1>2, <1>3, <1>4, <1>5, <1>7, <1>8, <1>9, <1>10, <1>11 DEF Next

-----------------------------------------------------------------------------
\* The inductive invariant, item by item, and its six parts.
RowInv(i) ==
  /\ row[i].status = "leased" <=> row[i].token > 0
  /\ row[i].status = "leased" <=> row[i].expires > 0
  /\ row[i].status \in Terminal <=> row[i].done

ClaimInv(i) ==
  /\ row[i].status = "leased" => row[i].token = claims[i]
  /\ row[i].attempts = claims[i] /\ claims[i] <= Limit(i)
  /\ row[i].status = "pending" => row[i].attempts < Limit(i)

VerdictInv(i) ==
  /\ \A a, b \in accepted[i] : a[1] = b[1] => a = b
  /\ \A a \in accepted[i] : a[1] \in 1..claims[i] /\ (a[1] = claims[i] \/ a[2] = "retry")
  /\ row[i].status = "leased" => \A a \in accepted[i] : a[1] < claims[i]
  /\ row[i].status = "completed" <=> <<claims[i], "complete">> \in accepted[i]
  /\ row[i].status = "absent" => claims[i] = 0 /\ accepted[i] = {}
  /\ <<claims[i], "dead_letter">> \in accepted[i] => row[i].status = "dead_letter"

LEMMA IInvByItem ==
  IInv <=> TypeOK /\ \A i \in Id : RowInv(i) /\ ClaimInv(i) /\ VerdictInv(i)
  BY DEF IInv, RowConsistent, LatestClaimHoldsLease, PendingIsClaimable,
         OneVerdictPerLease, HistoryFits, RowInv, ClaimInv, VerdictInv

\* What each of the eight things makes of the fields of the row.
LEMMA RowAfter ==
  /\ \A r \in Row : \A s :
       LET e == Ended(r, s) IN
         /\ e.status = s /\ e.attempts = r.attempts /\ e.token = 0 /\ e.expires = 0
         /\ e.done = TRUE
  /\ \A r \in Row : \A t :
       LET q == Requeued(r, t) IN
         /\ q.status = "pending" /\ q.attempts = r.attempts /\ q.token = 0
         /\ q.expires = 0 /\ q.done = r.done
  /\ \A r \in Row : \A n, t :
       LET l == LeasedUntil(r, n, t) IN
         /\ l.status = "leased" /\ l.attempts = r.attempts + 1 /\ l.token = n
         /\ l.expires = t /\ l.done = r.done
  BY DEF Ended, Requeued, LeasedUntil, Row

LEMMA InvStep == IInv /\ [Next]_vars => IInv'
<1> SUFFICES ASSUME IInv, [Next]_vars PROVE IInv'
  OBVIOUS
<1>1. TypeOK /\ TypeOK'
  BY TypeStep DEF IInv
<1>2. ASSUME NEW i \in Id PROVE (RowInv(i) /\ ClaimInv(i) /\ VerdictInv(i))'
  <2>1. ItemStep(i)
    BY StepPerItem
  <2>2. RowInv(i) /\ ClaimInv(i) /\ VerdictInv(i)
    BY IInvByItem
  <2>3. /\ row[i] \in Row /\ claims[i] \in Nat /\ accepted[i] \in SUBSET (Nat \X Calls)
        /\ Limit(i) \in 1..20
    BY <1>1, LimitType DEF TypeOK
  <2>4. /\ row[i].status \in Status /\ row[i].token \in Nat /\ row[i].expires \in Nat
        /\ row[i].attempts \in Nat
    BY <2>3 DEF Row
  <2>5. CASE Kept(i)
    BY <2>2, <2>5 DEF Kept, SameHistory, RowInv, ClaimInv, VerdictInv, Limit
  <2>6. CASE Submitted(i)
    BY <2>2, <2>3, <2>6 DEF Submitted, NoRow, SameHistory, RowInv, ClaimInv, VerdictInv, Terminal, Limit
  <2>7. CASE Released(i)
    <3>1. RowInv(i)'
      BY <2>2, <2>3, <2>4, <2>7, RowAfter DEF Released, RowInv, Terminal
    <3>2. ClaimInv(i)'
      BY <2>2, <2>3, <2>4, <2>7, RowAfter DEF Released, SameHistory, ClaimInv, Limit
    <3>3. VerdictInv(i)'
      BY <2>2, <2>3, <2>4, <2>7, RowAfter DEF Released, SameHistory, VerdictInv
    <3> QED
      BY <3>1, <3>2, <3>3
  <2>8. CASE Granted(i)
    <3>0. PICK r \in Row, t \in Nat \ {0} :
            r.attempts = row[i].attempts /\ ~r.done /\ row'[i] = LeasedUntil(r, claims[i] + 1, t)
      BY <2>8 DEF Granted
    <3>1. RowInv(i)'
      BY <2>3, <3>0, RowAfter DEF RowInv, Terminal
    <3>2. ClaimInv(i)'
      BY <2>2, <2>3, <2>4, <2>8, <3>0, RowAfter DEF Granted, ClaimInv, Limit
    <3>3. ASSUME NEW a \in accepted[i] PROVE a[1] \in 1..claims[i] /\ a[2] = "retry"
      <4>1. a[2] \in Calls /\ a[1] \in 1..claims[i] /\ a = <<a[1], a[2]>>
        BY <2>2, <2>3 DEF VerdictInv
      <4>2. CASE a[1] = claims[i]
        BY <2>2, <2>8, <4>1, <4>2 DEF VerdictInv, Calls, Granted
      <4> QED
        BY <2>2, <4>1, <4>2 DEF VerdictInv
    <3>4. VerdictInv(i)'
      <4>1. row'[i].status = "leased" /\ claims'[i] = claims[i] + 1 /\ accepted'[i] = accepted[i]
        BY <2>3, <2>8, <3>0, RowAfter DEF Granted
      <4>2. \A v : <<claims[i] + 1, v>> \notin accepted[i]
        BY <2>3, <3>3
      <4> QED
        BY <2>2, <2>3, <3>3, <4>1, <4>2 DEF VerdictInv
    <3> QED
      BY <3>1, <3>2, <3>4
  <2>9. CASE Renewed(i)
    <3>1. PICK t \in Nat \ {0} : row'[i] = [row[i] EXCEPT !.expires = t]
      BY <2>9 DEF Renewed
    <3>2. /\ row'[i].status = row[i].status /\ row'[i].token = row[i].token
          /\ row'[i].attempts = row[i].attempts /\ row'[i].done = row[i].done
          /\ row'[i].expires = t
      BY <2>3, <3>1 DEF Row
    <3> QED
      BY <2>2, <2>3, <2>9, <3>2 DEF Renewed, SameHistory, RowInv, ClaimInv, VerdictInv, Limit
  <2>10. CASE Judged(i)
    <3>0. row[i].token = claims[i] /\ claims[i] > 0 /\ row[i].status = "leased"
      BY <2>2, <2>4, <2>10 DEF Judged, ClaimInv, RowInv
    <3>1. CASE /\ row'[i] = Ended(row[i], "completed")
               /\ accepted'[i] = accepted[i] \cup {<<row[i].token, "complete">>}
      <4>1. RowInv(i)' /\ ClaimInv(i)'
        BY <2>2, <2>3, <2>4, <2>10, <3>1, RowAfter DEF Judged, RowInv, ClaimInv, Limit, Terminal
      <4>2. row'[i].status = "completed" /\ claims'[i] = claims[i]
        BY <2>3, <2>10, <3>1, RowAfter DEF Judged
      <4>3. VerdictInv(i)'
        BY <2>2, <2>3, <3>0, <3>1, <4>2 DEF VerdictInv
      <4> QED
        BY <4>1, <4>3
    <3>2. CASE /\ row[i].attempts < Limit(i)
               /\ \E t \in Nat : row'[i] = Requeued(row[i], t)
               /\ accepted'[i] = accepted[i] \cup {<<row[i].token, "retry">>}
      <4>1. RowInv(i)' /\ ClaimInv(i)'
        BY <2>2, <2>3, <2>4, <2>10, <3>2, RowAfter DEF Judged, RowInv, ClaimInv, Limit, Terminal
      <4>2. row'[i].status = "pending" /\ claims'[i] = claims[i]
        BY <2>3, <2>10, <3>2, RowAfter DEF Judged
      <4>3. VerdictInv(i)'
        BY <2>2, <2>3, <3>0, <3>2, <4>2 DEF VerdictInv
      <4> QED
        BY <4>1, <4>3
    <3>3. CASE /\ \E t \in Nat : row'[i] = [Ended(row[i], "dead_letter") EXCEPT !.available = t]
               /\ accepted'[i] = accepted[i] \cup {<<row[i].token, "dead_letter">>}
      <4>0. /\ row'[i].status = "dead_letter" /\ row'[i].token = 0 /\ row'[i].expires = 0
            /\ row'[i].done = TRUE /\ row'[i].attempts = row[i].attempts
        BY <2>3, <3>3, RowAfter
      <4>1. RowInv(i)' /\ ClaimInv(i)'
        BY <2>2, <2>3, <2>4, <2>10, <4>0 DEF Judged, RowInv, ClaimInv, Limit, Terminal
      <4>2. claims'[i] = claims[i]
        BY <2>10 DEF Judged
      <4>3. VerdictInv(i)'
        BY <2>2, <2>3, <3>0, <3>3, <4>0, <4>2 DEF VerdictInv
      <4> QED
        BY <4>1, <4>3
    <3> QED
      BY <2>10, <3>1, <3>2, <3>3 DEF Judged
  <2>11. CASE Withdrawn(i)
    <3>1. PICK s \in {"canceled", "dead_letter"} : row'[i] = Ended(row[i], s)
      BY <2>11 DEF Withdrawn
    <3>2. row[i].status # "completed" /\ row[i].status # "dead_letter" /\ row[i].status # "absent"
      BY <2>11 DEF Withdrawn
    <3>a. /\ row'[i].status = s /\ row'[i].token = 0 /\ row'[i].expires = 0
          /\ row'[i].done = TRUE /\ row'[i].attempts = row[i].attempts
      BY <2>3, <3>1, RowAfter
    <3>3. RowInv(i)' /\ ClaimInv(i)'
      <4>1. claims'[i] = claims[i]
        BY <2>11 DEF Withdrawn, SameHistory
      <4> QED
        BY <2>2, <3>a, <4>1 DEF RowInv, ClaimInv, Limit, Terminal
    <3>4. row'[i].status \in {"canceled", "dead_letter"} /\ SameHistory(i)
      BY <2>3, <2>11, <3>1, RowAfter DEF Withdrawn
    <3>5. VerdictInv(i)'
      BY <2>2, <2>3, <3>2, <3>4 DEF SameHistory, VerdictInv
    <3> QED
      BY <3>3, <3>5
  <2>12. CASE Corrupted(i)
    <3>1. /\ row'[i].status = row[i].status /\ row'[i].token = row[i].token
          /\ row'[i].attempts = row[i].attempts /\ row'[i].done = row[i].done
          /\ row'[i].expires = row[i].expires
      BY <2>3, <2>12 DEF Corrupted, Row
    <3> QED
      BY <2>2, <2>12, <3>1 DEF Corrupted, SameHistory, RowInv, ClaimInv, VerdictInv, Limit
  <2> QED
    BY <2>1, <2>5, <2>6, <2>7, <2>8, <2>9, <2>10, <2>11, <2>12 DEF ItemStep
<1>3. TypeOK' /\ \A i \in Id : (RowInv(i) /\ ClaimInv(i) /\ VerdictInv(i))'
  BY <1>1, <1>2
<1> QED
  BY <1>3 DEF IInv, RowConsistent, LatestClaimHoldsLease, PendingIsClaimable,
         OneVerdictPerLease, HistoryFits, RowInv, ClaimInv, VerdictInv

LEMMA InvInit == Init => IInv
<1> SUFFICES ASSUME Init PROVE IInv
  OBVIOUS
<1>1. TypeOK
  BY DEF Init, NoRow, TypeOK, Row, Status
<1>2. ASSUME NEW i \in Id PROVE RowInv(i) /\ ClaimInv(i) /\ VerdictInv(i)
  <2>1. row[i] = NoRow /\ claims[i] = 0 /\ accepted[i] = {} /\ 0 <= Limit(i)
    BY LimitType DEF Init
  <2> QED
    BY <2>1 DEF NoRow, RowInv, ClaimInv, VerdictInv, Terminal
<1> QED
  BY <1>1, <1>2, IInvByItem

-----------------------------------------------------------------------------
\* The invariant holds in every reachable state of the store.
THEOREM Invariant == Spec => []IInv
  BY InvInit, InvStep, PTL DEF Spec

\* Every variable keeps its type, whatever the callers present.
THEOREM TypeCorrect == Spec => []TypeOK
<1>1. IInv => TypeOK
  BY DEF IInv
<1> QED
  BY <1>1, Invariant, PTL

\* No operation leaves a row behind that stored_state_is_consistent rejects.
THEOREM RowsStayConsistent == Spec => []RowConsistent
<1>1. IInv => RowConsistent
  BY DEF IInv
<1> QED
  BY <1>1, Invariant, PTL

\* Only the latest claim's token is ever in the table, and claims stay within
\* max_attempts.
THEOREM LeaseIsLatest == Spec => []LatestClaimHoldsLease
<1>1. IInv => LatestClaimHoldsLease
  BY DEF IInv
<1> QED
  BY <1>1, Invariant, PTL

\* No pending item is invisible to claim_next for lack of attempts.
THEOREM NoStrandedItem == Spec => []PendingIsClaimable
<1>1. IInv => PendingIsClaimable
  BY DEF IInv
<1> QED
  BY <1>1, Invariant, PTL

\* complete and fail answer Ok at most once per lease, and a completed row is
\* the one whose latest holder was told so.
THEOREM VerdictsAreUnique == Spec => []OneVerdictPerLease
<1>1. IInv => OneVerdictPerLease
  BY DEF IInv
<1> QED
  BY <1>1, Invariant, PTL

-----------------------------------------------------------------------------
\* An unexpired lease is touched only by its holder, a cancel, or corruption.
THEOREM LeasesProtect == Spec => LeaseProtects
<1>1. ASSUME IInv, [Next]_vars, NEW i \in Id, row[i].status = "leased", row[i].expires > now,
             row[i].valid
      PROVE \/ row'[i] = row[i]
            \/ row'[i].status = "leased" /\ row'[i].token = row[i].token
            \/ row'[i].status = "canceled"
            \/ \E v \in Calls : <<row[i].token, v>> \in accepted'[i] \ accepted[i]
  <2>1. ItemStep(i)
    BY <1>1, StepPerItem
  <2>2. row[i] \in Row /\ now \in Nat /\ row[i].expires \in Nat
    BY <1>1 DEF IInv, TypeOK, Row
  <2>3. ~Submitted(i) /\ ~Released(i) /\ ~Granted(i)
    BY <1>1, <2>2 DEF Submitted, Released, Granted
  <2>4. CASE Kept(i)
    BY <2>4 DEF Kept
  <2>5. CASE Renewed(i) \/ Corrupted(i)
    BY <1>1, <2>2, <2>5 DEF Renewed, Corrupted, Row
  <2>6. CASE Withdrawn(i)
    BY <1>1, <2>2, <2>6, RowAfter DEF Withdrawn
  <2>7. CASE Judged(i)
    <3>1. claims[i] \in Nat /\ row[i].token = claims[i]
          /\ \A a \in accepted[i] : a[1] \in Nat /\ a[1] < claims[i]
      <4>1. VerdictInv(i) /\ ClaimInv(i) /\ claims[i] \in Nat
        BY <1>1, IInvByItem DEF TypeOK
      <4> QED
        BY <1>1, <4>1 DEF VerdictInv, ClaimInv
    <3>2. \A v : <<row[i].token, v>> \notin accepted[i]
      BY <3>1
    <3> QED
      BY <2>7, <3>2 DEF Judged, Calls
  <2> QED
    BY <2>1, <2>3, <2>4, <2>5, <2>6, <2>7 DEF ItemStep
<1>2. IInv /\ [Next]_vars =>
        [\A i \in Id :
           row[i].status = "leased" /\ row[i].expires > now /\ row[i].valid =>
             \/ row'[i] = row[i]
             \/ row'[i].status = "leased" /\ row'[i].token = row[i].token
             \/ row'[i].status = "canceled"
             \/ \E v \in Calls : <<row[i].token, v>> \in accepted'[i] \ accepted[i]]_vars
  BY <1>1
<1> QED
  BY <1>2, Invariant, PTL DEF Spec, LeaseProtects

-----------------------------------------------------------------------------
LEMMA OutcomeType == \A s \in Status : Outcome(s) \in Life!Outcomes
  BY DEF Outcome, Status, Terminal, Life!Outcomes, Life!Ends

\* The store implements WorkLifecycle: every step of the table, seen item by
\* item, is a submission, a try, an end or nothing.
THEOREM Implements == Spec => Lifecycle
<1>1. Init => Life!Init
  BY DEF Init, Life!Init, NoRow, Outcome
<1>2. ASSUME IInv, [Next]_vars PROVE Life!Next
  <2>0. TypeOK /\ TypeOK'
    BY <1>2, TypeStep DEF IInv
  <2>1. [i \in Id |-> Outcome(row[i].status)]' \in [Id -> Life!Outcomes]
    BY <2>0, OutcomeType DEF TypeOK, Row
  <2>2. claims' \in [Id -> Nat]
    BY <2>0 DEF TypeOK
  <2>3. ASSUME NEW i \in Id
        PROVE Life!Stays(i) \/ Life!Submit(i) \/ Life!Try(i) \/ Life!Finish(i)
    <3>1. ItemStep(i) /\ row[i] \in Row /\ claims[i] \in Nat
      BY <1>2, <2>0, StepPerItem DEF TypeOK
    <3>2. CASE Outcome(row'[i].status) = Outcome(row[i].status) /\ claims'[i] = claims[i]
      BY <3>2 DEF Life!Stays
    <3>3. CASE Kept(i) \/ Corrupted(i) \/ Renewed(i)
      BY <3>1, <3>2, <3>3 DEF Kept, Corrupted, Renewed, SameHistory, Row
    <3>4. CASE Submitted(i)
      BY <3>4 DEF Submitted, SameHistory, NoRow, Outcome, Life!Submit
    <3>5. ASSUME Outcome(row[i].status) = "open", row'[i].status \in Terminal,
                 row'[i].status = "completed" => claims[i] > 0, claims'[i] = claims[i]
          PROVE Life!Finish(i)
      BY <3>5 DEF Life!Finish, Life!Ends, Outcome, Terminal
    <3>6. CASE Released(i)
      BY <3>1, <3>2, <3>5, <3>6, RowAfter DEF Released, SameHistory, Outcome, Terminal
    <3>7. CASE Granted(i)
      <4>1. Outcome(row[i].status) = "open" /\ claims[i] < Limit(i)
        BY <1>2, <3>7 DEF Granted, Outcome, Terminal, IInv, LatestClaimHoldsLease
      <4>2. row'[i].status = "leased"
        BY <3>7, RowAfter DEF Granted
      <4>3. Outcome(row'[i].status) = "open"
        BY <4>2 DEF Outcome
      <4> QED
        BY <3>7, <4>1, <4>3 DEF Granted, Life!Try
    <3>8. CASE Judged(i)
      <4>1. row[i].status = "leased" /\ Outcome(row[i].status) = "open" /\ claims'[i] = claims[i]
        BY <3>8 DEF Judged, Outcome
      <4>2. claims[i] > 0
        BY <1>2, <4>1 DEF IInv, RowConsistent, LatestClaimHoldsLease
      <4>3. \/ row'[i].status \in Terminal
            \/ row'[i].status = "pending"
        <5>1. ASSUME NEW t \in Nat,
                     row'[i] = [Ended(row[i], "dead_letter") EXCEPT !.available = t]
              PROVE row'[i].status = "dead_letter"
          BY <3>1, <5>1, RowAfter
        <5>2. CASE row'[i] = Ended(row[i], "completed")
          BY <3>1, <5>2, RowAfter DEF Terminal
        <5>3. ASSUME NEW t \in Nat, row'[i] = Requeued(row[i], t)
              PROVE row'[i].status = "pending"
          BY <3>1, <5>3, RowAfter
        <5> QED
          BY <3>8, <5>1, <5>2, <5>3 DEF Judged, Terminal
      <4> QED
        BY <3>2, <3>5, <4>1, <4>2, <4>3 DEF Outcome
    <3>9. CASE Withdrawn(i)
      <4>1. Outcome(row[i].status) = "open" /\ claims'[i] = claims[i]
        BY <3>9 DEF Withdrawn, SameHistory, Outcome
      <4>2. row'[i].status \in {"canceled", "dead_letter"}
        BY <3>1, <3>9, RowAfter DEF Withdrawn
      <4> QED
        BY <3>5, <4>1, <4>2 DEF Terminal
    <3> QED
      BY <3>1, <3>3, <3>4, <3>6, <3>7, <3>8, <3>9 DEF ItemStep
  <2> QED
    BY <2>1, <2>2, <2>3 DEF Life!Next
<1> QED
  BY <1>1, <1>2, Invariant, PTL DEF Spec, Lifecycle, Life!Spec
=============================================================================
