----------------------------- MODULE DailyQuota -----------------------------
(***************************************************************************)
(* The per-day quota of one user and one resource: check_daily_quota and   *)
(* consume_daily_quota in app/services/security.py, over the table         *)
(* `resource_usage` with one row per (user, resource, day).                *)
(*                                                                         *)
(* The requests of a user run these functions in worker threads, each in   *)
(* its own PostgreSQL transaction (READ COMMITTED), so every SQL statement *)
(* is a step of its own.  A statement that must wait for another           *)
(* transaction's row is not enabled until that transaction ends.           *)
(***************************************************************************)
EXTENDS Integers, FiniteSets

CONSTANTS
    Tx,      \* the transactions: one per request of the user
    NoTx,    \* nobody holds the row
    Limit,   \* settings.ai_daily_quota / tts_daily_quota
    LastDay  \* bound: the run ends on day LastDay (days count from 0)

ASSUME QuotaAssumption ==
    /\ IsFiniteSet(Tx)
    /\ NoTx \notin Tx
    /\ Limit \in Int
    /\ LastDay \in Nat

VARIABLES
    today,     \* date.today()
    pc,        \* how far each transaction is
    day,       \* the date a transaction computed when consume_daily_quota began
    rowCount,  \* committed count of each day's row, NoRow before its insert commits
    holder,    \* the transaction that inserted (uncommitted) or locked the day's row
    read       \* usage.count as the transaction read it

vars == <<today, pc, day, rowCount, holder, read>>

Days == 0..LastDay
NoRow == -1

\* max(1, limit): a quota of zero or less still allows one call.
Allowance == IF Limit > 1 THEN Limit ELSE 1

TypeOK ==
    /\ today \in Days
    /\ pc \in [Tx -> {"start", "upsert", "lock", "count", "granted", "refused", "failed"}]
    /\ day \in [Tx -> Days]
    /\ rowCount \in [Days -> Nat \cup {NoRow}]
    /\ holder \in [Days -> Tx \cup {NoTx}]
    /\ read \in [Tx -> Nat]

Init ==
    /\ today = 0
    /\ pc = [t \in Tx |-> "start"]
    /\ day = [t \in Tx |-> 0]
    /\ rowCount = [d \in Days |-> NoRow]
    /\ holder = [d \in Days |-> NoTx]
    /\ read = [t \in Tx |-> 0]

Goto(t, label) == pc' = [pc EXCEPT ![t] = label]

\* Whatever the transaction inserted or locked is let go when it ends.
EndTx(t) == holder' = [d \in Days |-> IF holder[d] = t THEN NoTx ELSE holder[d]]

-----------------------------------------------------------------------------

\* check_daily_quota: a look at today's committed row, nothing is reserved.
Check(t) ==
    /\ pc[t] = "start"
    /\ rowCount[today] >= Allowance
    /\ Goto(t, "refused")
    /\ UNCHANGED <<today, day, rowCount, holder, read>>

\* Mutant: the date of the row is off by one.
BeginTomorrow(t) ==
    /\ pc[t] = "start"
    /\ Goto(t, "upsert")
    /\ day' = [day EXCEPT ![t] = today + 1]
    /\ UNCHANGED <<today, rowCount, holder, read>>

\* consume_daily_quota begins: `today = date.today()`.  (The pronunciation
\* endpoint comes here without a check, the AI endpoints after one that passed.)
Begin(t) ==
    /\ pc[t] = "start"
    /\ Goto(t, "upsert")
    /\ day' = [day EXCEPT ![t] = today]
    /\ UNCHANGED <<today, rowCount, holder, read>>

\* INSERT ... count = 0 ON CONFLICT DO NOTHING.  An uncommitted insert of the
\* same row by another transaction makes this one wait for its end.
Upsert(t) ==
    LET d == day[t] IN
    /\ pc[t] = "upsert"
    /\ \/ /\ rowCount[d] = NoRow
          /\ holder[d] = NoTx
          /\ holder' = [holder EXCEPT ![d] = t]
       \/ /\ rowCount[d] # NoRow
          /\ UNCHANGED holder
    /\ Goto(t, "lock")
    /\ UNCHANGED <<today, day, rowCount, read>>

\* Mutant: the row is read without FOR UPDATE.
ReadUnlocked(t) ==
    LET d == day[t] IN
    /\ pc[t] = "lock"
    /\ rowCount[d] # NoRow \/ holder[d] = t
    /\ read' = [read EXCEPT ![t] = IF rowCount[d] = NoRow THEN 0 ELSE rowCount[d]]
    /\ Goto(t, "count")
    /\ UNCHANGED <<today, day, rowCount, holder>>

\* SELECT ... FOR UPDATE: waits for the holder of the row, then reads what is
\* committed by now (or the transaction's own insert).
LockRow(t) ==
    LET d == day[t] IN
    /\ pc[t] = "lock"
    /\ holder[d] \in {NoTx, t}
    /\ rowCount[d] # NoRow \/ holder[d] = t
    /\ holder' = [holder EXCEPT ![d] = t]
    /\ read' = [read EXCEPT ![t] = IF rowCount[d] = NoRow THEN 0 ELSE rowCount[d]]
    /\ Goto(t, "count")
    /\ UNCHANGED <<today, day, rowCount>>

\* Mutant: 429 without the rollback.
RefuseKeepingLock(t) ==
    /\ pc[t] = "count"
    /\ read[t] >= Allowance
    /\ Goto(t, "refused")
    /\ UNCHANGED <<today, day, rowCount, holder, read>>

\* usage.count >= max(1, limit): rollback, 429.
Refuse(t) ==
    /\ pc[t] = "count"
    /\ read[t] >= Allowance
    /\ Goto(t, "refused")
    /\ EndTx(t)
    /\ UNCHANGED <<today, day, rowCount, read>>

\* usage.count += 1; commit, which writes the value computed from the read.
Grant(t) ==
    /\ pc[t] = "count"
    /\ read[t] < Allowance
    /\ rowCount' = [rowCount EXCEPT ![day[t]] = read[t] + 1]
    /\ Goto(t, "granted")
    /\ EndTx(t)
    /\ UNCHANGED <<today, day, read>>

\* The database fails a statement or the connection: the transaction is rolled
\* back, its insert and its lock are gone.
Fail(t) ==
    /\ pc[t] \in {"upsert", "lock", "count"}
    /\ Goto(t, "failed")
    /\ EndTx(t)
    /\ UNCHANGED <<today, day, rowCount, read>>

\* Midnight, at any point of any transaction.
Midnight ==
    /\ today < LastDay
    /\ today' = today + 1
    /\ UNCHANGED <<pc, day, rowCount, holder, read>>

Step(t) == Upsert(t) \/ LockRow(t) \/ Refuse(t) \/ Grant(t)

Next ==
    \/ \E t \in Tx : Check(t) \/ Begin(t) \/ Step(t) \/ Fail(t)
    \/ Midnight

Spec == Init /\ [][Next]_vars

\* The worker thread runs on and PostgreSQL grants a row lock some time after it
\* is free; a client that begins is not obliged to begin.
FairSpec == Spec /\ \A t \in Tx : WF_vars(Step(t)) /\ SF_vars(LockRow(t))

-----------------------------------------------------------------------------
(* Properties.                                                             *)

GrantedOn(d) == {t \in Tx : pc[t] = "granted" /\ day[t] = d}

\* However the transactions of a user interleave, and whichever fail, the day's
\* row counts exactly the calls granted that day: no increment is lost.
RowCountsGrants ==
    \A d \in Days :
        Cardinality(GrantedOn(d)) = IF rowCount[d] = NoRow THEN 0 ELSE rowCount[d]

\* No day grants more calls than the quota, though the check before the queue
\* reserves nothing and a transaction may straddle midnight.
NeverOverQuota == \A d \in Days : Cardinality(GrantedOn(d)) <= Allowance

\* A day's quota is kept, and what is left of it is known.
QuotaHolds == RowCountsGrants /\ NeverOverQuota

\* A transaction that began ends: row locks are always given back, so one
\* failing call never blocks the others.
EveryCallEnds == <>[](\A t \in Tx : pc[t] \in {"start", "granted", "refused", "failed"})

=============================================================================
