----------------------------- MODULE WorkQueue -----------------------------
(***************************************************************************)
(* The durable work store (services/execution-state/src/work.rs): a SQLite *)
(* table of work items that callers lease, renew, complete, fail and       *)
(* cancel.  Every operation is one immediate transaction, so it is one     *)
(* action here.  The caller reads its clock BEFORE it gets the connection  *)
(* (Utc::now() is an argument of the call), so every operation takes a     *)
(* time t that may lag the present by at most Lag.                         *)
(*                                                                         *)
(* A lease is the pair (lease_owner, lease_token); the token is a fresh    *)
(* UUID for every claim.  It is modelled by its number: the n-th claim of  *)
(* item i hands out token n, 0 is SQL NULL.  A caller that was once        *)
(* granted token n may present it at any later time, in any operation.     *)
(***************************************************************************)
EXTENDS Integers

CONSTANTS
  Id,        \* ids of the drafts that may be submitted
  Draft,     \* [Id -> DraftRecord]: the immutable columns of an id's row
  NoKey,     \* a draft without dedupe key
  Leases,    \* lease durations callers ask for
  Lag,       \* how far the t of a call may lag behind the present
  MaxTime    \* bound: the clock stops here

DraftOK(d) ==
  /\ DOMAIN d = {"target", "priority", "maxAttempts", "key", "corr"}
  /\ d.priority \in Int
  /\ d.maxAttempts \in 1..20

ASSUME QueueAssumption ==
  /\ DOMAIN Draft = Id /\ \A i \in Id : DraftOK(Draft[i])
  /\ Leases \subseteq 1..300
  /\ Lag \in Nat /\ MaxTime \in Nat

VARIABLES
  row,       \* [Id -> Row]: the table durable_work_items
  now,       \* the wall clock
  claims,    \* [Id -> Nat]: claims committed for the id, the tokens handed out
  accepted   \* history: [Id -> set of <<token, call>> the store answered Ok]

storeVars == <<row, claims, accepted>>
vars == <<row, now, claims, accepted>>

Targets == {Draft[i].target : i \in Id}
Corrs   == {Draft[i].corr : i \in Id}

Terminal == {"completed", "dead_letter", "canceled"}
Status   == {"absent", "pending", "leased"} \cup Terminal
Calls    == {"complete", "retry", "dead_letter"}

Row == [status : Status, attempts : Nat, available : Nat, created : Nat,
        token : Nat, expires : Nat, done : BOOLEAN, valid : BOOLEAN]

NoRow == [status |-> "absent", attempts |-> 0, available |-> 0, created |-> 0,
          token |-> 0, expires |-> 0, done |-> FALSE, valid |-> TRUE]

Limit(i) == Draft[i].maxAttempts

\* The times a call that commits now may carry.
Recent == {t \in 0..now : now <= t + Lag}

\* retry_delay: 2^(attempts-1) seconds, at most 300.
Doublings == <<1, 2, 4, 8, 16, 32, 64, 128, 256>>
RetryDelay(attempts) == IF attempts \in 1..9 THEN Doublings[attempts] ELSE 300

-----------------------------------------------------------------------------
(* What the UPDATE statements do to a row.                                 *)

\* Faulty variants, used to see that the properties can fail: an ended row that
\* keeps its lease, and a claim that does not count as an attempt.
EndedKeepsLease(r, status) == [r EXCEPT !.status = status, !.done = TRUE]
LeasedUncounted(r, token, t) ==
  [r EXCEPT !.status = "leased", !.token = token, !.expires = t]

Ended(r, status) ==
  [r EXCEPT !.status = status, !.token = 0, !.expires = 0, !.done = TRUE]

Requeued(r, t) ==
  [r EXCEPT !.status = "pending", !.token = 0, !.expires = 0, !.available = t]

LeasedUntil(r, token, t) ==
  [r EXCEPT !.status = "leased", !.attempts = @ + 1, !.token = token,
            !.expires = t]

\* Faulty variants of Recovered: the budget is not looked at, a lease counts as
\* over in its last second.
RecoveredForever(i, target, t) ==
  LET r == row[i] IN
  IF r.status # "leased" \/ Draft[i].target # target \/ r.expires > t THEN r
  ELSE Requeued(r, t)
RecoveredEarly(i, target, t) ==
  LET r == row[i] IN
  IF r.status # "leased" \/ Draft[i].target # target \/ r.expires > t + 1 THEN r
  ELSE IF r.attempts >= Limit(i) THEN Ended(r, "dead_letter")
  ELSE Requeued(r, t)

\* recover_expired_in_tx on one row: an unreadable leased row is dead-lettered
\* at once, a readable one only when its lease is over.
Recovered(i, target, t) ==
  LET r == row[i] IN
  IF r.status # "leased" \/ Draft[i].target # target THEN r
  ELSE IF ~r.valid THEN Ended(r, "dead_letter")
  ELSE IF r.expires > t THEN r
  ELSE IF r.attempts >= Limit(i) THEN Ended(r, "dead_letter")
  ELSE Requeued(r, t)

RecoveredTable(target, t) == [i \in Id |-> Recovered(i, target, t)]

Claimable(table, i, target, t) ==
  /\ Draft[i].target = target
  /\ table[i].status = "pending"
  /\ table[i].available <= t
  /\ table[i].attempts < Limit(i)

\* ORDER BY priority DESC, available_at, created_at, id; ids are random, so
\* the last column is an arbitrary choice among equals.
Precedes(table, i, j) ==
  \/ Draft[i].priority > Draft[j].priority
  \/ /\ Draft[i].priority = Draft[j].priority
     /\ \/ table[i].available < table[j].available
        \/ /\ table[i].available = table[j].available
           /\ table[i].created < table[j].created

FirstInLine(table, target, t) ==
  LET ready == {i \in Id : Claimable(table, i, target, t)}
  IN  {i \in ready : \A j \in ready : ~Precedes(table, j, i)}

\* Faulty variant: any lease will do, the presented token is not compared.
HoldsSomeLease(i, token, t) ==
  /\ token > 0
  /\ row[i].status = "leased"
  /\ row[i].expires > t

\* The WHERE clause shared by renew_lease, complete and fail.
HoldsLease(i, token, t) ==
  /\ token > 0
  /\ row[i].status = "leased"
  /\ row[i].token = token
  /\ row[i].expires > t

-----------------------------------------------------------------------------
Init ==
  /\ row      = [i \in Id |-> NoRow]
  /\ now      = 0
  /\ claims   = [i \in Id |-> 0]
  /\ accepted = [i \in Id |-> {}]

\* enqueue: INSERT OR IGNORE.  A draft whose (source, dedupe_key) is taken
\* leaves the table alone and gets the existing row back.
Enqueue(i, t) ==
  /\ row[i].status = "absent"
  /\ Draft[i].key # NoKey =>
       \A j \in Id : Draft[j].key = Draft[i].key => row[j].status = "absent"
  /\ row' = [row EXCEPT ![i] = [NoRow EXCEPT !.status = "pending",
                                             !.available = t, !.created = t]]
  /\ UNCHANGED <<now, claims, accepted>>

\* claim_next: recover what expired, then lease the first row in line; an
\* unreadable candidate is dead-lettered instead and the call reports an error.
ClaimNext(target, t, lease) ==
  LET table == RecoveredTable(target, t) IN
  /\ UNCHANGED <<now, accepted>>
  /\ \/ /\ \A i \in Id : ~Claimable(table, i, target, t)
        /\ row' = table
        /\ UNCHANGED claims
     \/ \E i \in FirstInLine(table, target, t) :
          \/ /\ table[i].valid
             /\ row' = [table EXCEPT ![i] =
                          LeasedUntil(table[i], claims[i] + 1, t + lease)]
             /\ claims' = [claims EXCEPT ![i] = @ + 1]
          \/ /\ ~table[i].valid
             /\ row' = [table EXCEPT ![i] = Ended(table[i], "dead_letter")]
             /\ UNCHANGED claims

\* recover_expired: the recovery half of a claim in a transaction of its own.
RecoverExpired(target, t) ==
  /\ row' = RecoveredTable(target, t)
  /\ UNCHANGED <<now, claims, accepted>>

\* renew_lease
RenewLease(i, token, t, lease) ==
  /\ HoldsLease(i, token, t)
  /\ row' = [row EXCEPT ![i].expires = t + lease]
  /\ UNCHANGED <<now, claims, accepted>>

\* complete
Complete(i, token, t) ==
  /\ HoldsLease(i, token, t)
  /\ row' = [row EXCEPT ![i] = Ended(@, "completed")]
  /\ accepted' = [accepted EXCEPT ![i] = @ \cup {<<token, "complete">>}]
  /\ UNCHANGED <<now, claims>>

\* fail: back to pending after a delay while the budget lasts, else dead letter.
Fail(i, token, t, retryable) ==
  LET retry == retryable /\ row[i].attempts < Limit(i) IN
  /\ HoldsLease(i, token, t)
  /\ row' = [row EXCEPT ![i] =
               IF retry THEN Requeued(@, t + RetryDelay(row[i].attempts))
               ELSE [Ended(@, "dead_letter") EXCEPT !.available = t]]
  /\ accepted' = [accepted EXCEPT ![i] =
                    @ \cup {<<token, IF retry THEN "retry" ELSE "dead_letter">>}]
  /\ UNCHANGED <<now, claims>>

\* Faulty variant: a row that is over can be canceled.
CancelAny(corr) ==
  LET rows == {i \in Id : row[i].status # "absent" /\ Draft[i].corr = corr} IN
  /\ \E i \in rows :
       /\ rows = {i}
       /\ row[i].valid
       /\ row' = [row EXCEPT ![i] = Ended(@, "canceled")]
  /\ UNCHANGED <<now, claims, accepted>>

\* Faulty variant: the status is written as no reader spells it.
CancelMisspelt(corr) ==
  LET rows == {i \in Id : row[i].status # "absent" /\ Draft[i].corr = corr} IN
  /\ \E i \in rows :
       /\ rows = {i}
       /\ row[i].valid
       /\ row[i].status \in {"pending", "leased"}
       /\ row' = [row EXCEPT ![i] = Ended(@, "cancelled")]
  /\ UNCHANGED <<now, claims, accepted>>

\* cancel_scoped: only when exactly one row carries the correlation id, and
\* that row can be read and is not over yet.
CancelScoped(corr) ==
  LET rows == {i \in Id : row[i].status # "absent" /\ Draft[i].corr = corr} IN
  /\ \E i \in rows :
       /\ rows = {i}
       /\ row[i].valid
       /\ row[i].status \in {"pending", "leased"}
       /\ row' = [row EXCEPT ![i] = Ended(@, "canceled")]
  /\ UNCHANGED <<now, claims, accepted>>

\* External: the file is edited behind the program's back and a row can no
\* longer be parsed (StoredWorkRow::try_into_item fails).
Corrupt(i) ==
  /\ row[i].status \in {"pending", "leased"} /\ row[i].valid
  /\ row' = [row EXCEPT ![i].valid = FALSE]
  /\ UNCHANGED <<now, claims, accepted>>

Tick ==
  /\ now < MaxTime
  /\ now' = now + 1
  /\ UNCHANGED storeVars

Next ==
  \/ Tick
  \/ \E i \in Id : Corrupt(i)
  \/ \E c \in Corrs : CancelScoped(c)
  \/ \E t \in Recent :
       \/ \E i \in Id : Enqueue(i, t)
       \/ \E g \in Targets : RecoverExpired(g, t)
       \/ \E g \in Targets, d \in Leases : ClaimNext(g, t, d)
       \/ \E i \in Id : \E token \in 1..claims[i] :
            \/ Complete(i, token, t)
            \/ \E d \in Leases : RenewLease(i, token, t, d)
            \/ \E b \in BOOLEAN : Fail(i, token, t, b)

Spec == Init /\ [][Next]_vars

-----------------------------------------------------------------------------
(* Properties *)

\* Every variable has its type.
TypeOK ==
  /\ row \in [Id -> Row]
  /\ now \in Nat
  /\ claims \in [Id -> Nat]
  /\ accepted \in [Id -> SUBSET (Nat \X Calls)]

\* Every row the operations leave behind passes stored_state_is_consistent, the
\* check with which a later read accepts or quarantines it: a lease exactly
\* while leased, a completion time exactly when the item is over.
RowConsistent ==
  \A i \in Id :
    /\ row[i].status = "leased" <=> row[i].token > 0
    /\ row[i].status = "leased" <=> row[i].expires > 0
    /\ row[i].status \in Terminal <=> row[i].done

\* A leased row carries the token of the latest claim, and attempts counts the
\* claims: across recoveries, retries and stale calls no earlier token becomes
\* good again and no claim goes over max_attempts.
LatestClaimHoldsLease ==
  \A i \in Id :
    /\ row[i].status = "leased" => row[i].token = claims[i]
    /\ row[i].attempts = claims[i] /\ claims[i] <= Limit(i)

\* No item is stranded: claim_next only looks at pending rows with attempts left
\* (attempts < max_attempts), and fail and recover_expired, which requeue, never
\* leave a pending row without them.
PendingIsClaimable ==
  \A i \in Id : row[i].status = "pending" => row[i].attempts < Limit(i)

\* A lease gets at most one verdict out of complete and fail, the last word
\* belongs to the latest claim, and the row shows it: "completed" exactly when
\* the holder of the latest lease was told Ok by complete.
OneVerdictPerLease ==
  \A i \in Id :
    /\ \A a, b \in accepted[i] : a[1] = b[1] => a = b
    /\ \A a \in accepted[i] : a[1] \in 1..claims[i] /\ (a[1] = claims[i] \/ a[2] = "retry")
    /\ row[i].status = "leased" => \A a \in accepted[i] : a[1] < claims[i]
    /\ row[i].status = "completed" <=> <<claims[i], "complete">> \in accepted[i]

\* While a lease is not over, whatever other callers do with clocks that lag
\* (recover, claim, present old tokens), the row is touched only by its holder's
\* renewal or verdict, by a cancel, or by corruption from outside.
LeaseProtects ==
  [][\A i \in Id :
       row[i].status = "leased" /\ row[i].expires > now /\ row[i].valid =>
         \/ row'[i] = row[i]
         \/ row'[i].status = "leased" /\ row'[i].token = row[i].token
         \/ row'[i].status = "canceled"
         \/ \E v \in Calls : <<row[i].token, v>> \in accepted'[i] \ accepted[i]]_vars

\* The abstract promise of the store, implemented: an item's outcome is open
\* while its row is pending or leased, and its tries are its claims.
Outcome(status) ==
  CASE status = "absent" -> "unknown"
    [] status \in {"pending", "leased"} -> "open"
    [] OTHER -> status

Life == INSTANCE WorkLifecycle
          WITH TryLimit <- [i \in Id |-> Limit(i)],
               outcome <- [i \in Id |-> Outcome(row[i].status)],
               tries <- claims

\* Every run of the store is a run of WorkLifecycle.
Lifecycle == Life!Spec
=============================================================================
