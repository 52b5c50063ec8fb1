----------------------------- MODULE YieldAccrual -----------------------------
(***************************************************************************)
(* Yield of token holdings, accrued by the requests that read it: GET      *)
(* /wallet and GET /wallet/yield/summary call                              *)
(* accrue_pending_yield_for_user, which selects the holdings with the end  *)
(* of their last accrual and inserts a row for the days since, without a   *)
(* lock or a unique constraint.  One token; its price does not change.     *)
(***************************************************************************)
EXTENDS Integers, FiniteSets, FiniteSetsExt

CONSTANTS
    Holders,
    YieldReads,   \* GET requests that accrue
    HolderOf,     \* the user of each
    Rate,         \* assets.projected_roi times the reference price
    Scale,        \* 100 * 365
    TicksPerDay, MaxNow,   \* bound: how far time goes
    MaxBalance    \* bound: tokens of a holder

ASSUME YieldAssumption ==
    /\ IsFiniteSet(Holders) /\ HolderOf \in [YieldReads -> Holders]
    /\ Rate \in Nat \ {0} /\ Scale \in Nat \ {0}
    /\ TicksPerDay \in Nat \ {0} /\ MaxNow \in Nat /\ MaxBalance \in Nat \ {0}

VARIABLES
    visiting,   \* the requests of this behaviour, chosen once
    now,
    balance,    \* token_balances.balance
    updated,    \* token_balances.updated_at
    accruals,   \* yield_accruals rows
    progress,   \* where each request is
    row,        \* the row it is about to insert
    raced       \* history: two requests of one holder have been at work at the same time

yieldVars == <<visiting, now, balance, updated, accruals, progress, row, raced>>

Date(t) == t \div TicksPerDay
LatestOf(times) == CHOOSE t \in times : \A s \in times : s <= t

NoRow == [id |-> "none", holder |-> "none", quantity |-> 0, amount |-> 0,
          from |-> 0, to |-> 0, at |-> 0]

YieldInit ==
    /\ now = 0 /\ accruals = {} /\ raced = FALSE
    /\ balance = [u \in Holders |-> 1] /\ updated = [u \in Holders |-> 0]
    /\ progress = [g \in YieldReads |-> "idle"]
    /\ row = [g \in YieldReads |-> NoRow]

TimePasses ==
    /\ visiting # {} /\ now < MaxNow /\ now' = now + 1
    /\ UNCHANGED <<visiting, balance, updated, accruals, progress, row, raced>>

\* A trade changes the holding: increment_token_balance and its counterpart.
TokenBalanceChanges(u) ==
    /\ visiting # {}
    /\ \E b \in 0..MaxBalance \ {balance[u]} : balance' = [balance EXCEPT ![u] = b]
    /\ updated' = [updated EXCEPT ![u] = now]
    /\ UNCHANGED <<visiting, now, accruals, progress, row, raced>>

-----------------------------------------------------------------------------
(* accrue_pending_yield_for_user                                           *)

AccrualsOf(u) == {a \in accruals : a.holder = u}

\* last_accrued_to or updated_at
StartAt(u) ==
    IF AccrualsOf(u) = {} THEN updated[u] ELSE LatestOf({a.to : a \in AccrualsOf(u)})

\* gross_yield rounded down to whole satoshis
YieldFor(quantity, days) == (quantity * Rate * days) \div Scale

Window(g, start) ==
    LET u == HolderOf[g]
        days == Date(now) - Date(start)
    IN [id |-> g, holder |-> u, quantity |-> balance[u], amount |-> YieldFor(balance[u], days),
        from |-> start, to |-> start + days * TicksPerDay, at |-> now]

\* Mutant: the window starts where the holding began, whatever was accrued.
PendingSinceUpdate(g) == Window(g, updated[HolderOf[g]])

Pending(g) == Window(g, StartAt(HolderOf[g]))

\* balance > 0, days_elapsed > 0, amount_sat > 0
IsDue(r) == r.quantity > 0 /\ r.to > r.from /\ r.amount > 0

\* The SELECT; as_of was taken just before.
AccrueRead(g) ==
    /\ g \in visiting /\ progress[g] = "idle"
    /\ \/ /\ IsDue(Pending(g))
          /\ row' = [row EXCEPT ![g] = Pending(g)]
          /\ progress' = [progress EXCEPT ![g] = "insert"]
       \/ /\ ~IsDue(Pending(g))
          /\ progress' = [progress EXCEPT ![g] = "answered"] /\ UNCHANGED row
    /\ raced' = (raced \/ \E h \in YieldReads \ {g} :
                    HolderOf[h] = HolderOf[g] /\ progress[h] = "insert")
    /\ UNCHANGED <<visiting, now, balance, updated, accruals>>

AccrueCommit(g) ==
    /\ progress[g] = "insert"
    /\ accruals' = accruals \cup {row[g]}
    /\ progress' = [progress EXCEPT ![g] = "answered"]
    /\ UNCHANGED <<visiting, now, balance, updated, row, raced>>

AccrueFails(g) ==
    /\ progress[g] = "insert"
    /\ progress' = [progress EXCEPT ![g] = "failed"]
    /\ UNCHANGED <<visiting, now, balance, updated, accruals, row, raced>>

AccruePendingYield(g) == AccrueRead(g) \/ AccrueCommit(g) \/ AccrueFails(g)

\* GET /wallet/yield/summary, GET /yield/{user_id}
SummarizeYieldForUser(u) == MapThenSumSet(LAMBDA a : a.amount, AccrualsOf(u))

\* GET /yield/summary
SummarizeYieldPlatform ==
    [users |-> Cardinality({a.holder : a \in accruals}),
     total |-> MapThenSumSet(LAMBDA a : a.amount, accruals)]

YieldNext ==
    \/ TimePasses
    \/ \E u \in Holders : TokenBalanceChanges(u)
    \/ \E g \in YieldReads : AccruePendingYield(g)
=============================================================================
