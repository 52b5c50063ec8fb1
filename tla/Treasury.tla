------------------------------- MODULE Treasury -------------------------------
(***************************************************************************)
(* The treasury ledger and the two services that write their own entries:  *)
(* the marketplace (fee income of a settled trade) and the admin service   *)
(* (disbursements).  The auth service's referral rewards are in            *)
(* KycReferral.                                                            *)
(*                                                                         *)
(* An entry stores the running balance after it.  A writer takes its       *)
(* created_at, reads the latest entry and commits the next one in separate *)
(* statements, without a lock.                                             *)
(***************************************************************************)
EXTENDS Integers, FiniteSets, FiniteSetsExt

CONSTANTS
    Settlements,  \* releases of trades that carry a fee
    Disbursals,   \* POST /treasury/disburse requests
    Requests,     \* these and the ones of the modules that extend this one
    Fee, Disbursed   \* satoshis of each fee and each disbursement

ASSUME TreasuryAssumption ==
    /\ Settlements \cup Disbursals \subseteq Requests
    /\ Settlements \cap Disbursals = {}
    /\ Fee \in Nat \ {0} /\ Disbursed \in Nat \ {0}

VARIABLES
    active,     \* the requests of this behaviour, chosen once
    treasury,   \* the entries
    clock,      \* no two requests read the same time
    stage,      \* where each request is
    seen,       \* what it holds
    contended   \* history: two writers have been at work at the same time

NothingSeen == [status |-> "none", verdict |-> "none", at |-> 0, balance |-> 0]

TreasuryInit ==
    /\ treasury = {} /\ clock = 0 /\ contended = FALSE
    /\ stage = [p \in Requests |-> "idle"]
    /\ seen = [p \in Requests |-> NothingSeen]

Goto(p, s) == stage' = [stage EXCEPT ![p] = s]
Begins(p) == p \in active /\ stage[p] = "idle"
Writing(p) == stage[p] \in {"timed", "read"}
NoteContention(p) == contended' = (contended \/ \E q \in Requests \ {p} : Writing(q))

\* order_by(created_at desc).limit(1)
LatestBalance ==
    IF treasury = {} THEN 0
    ELSE (CHOOSE e \in treasury : \A f \in treasury : f.at <= e.at).balance

Delta(type, amount) == IF type = "fee_income" THEN amount ELSE -amount

Entry(p, type, amount, at) ==
    [source |-> p, type |-> type, amount |-> amount,
     balance |-> seen[p].balance + Delta(type, amount), at |-> at]

TakeTime(p) ==
    /\ clock' = clock + 1
    /\ seen' = [seen EXCEPT ![p].at = clock + 1]
    /\ Goto(p, "timed")

ReadLatest(p) ==
    /\ seen' = [seen EXCEPT ![p].balance = LatestBalance]
    /\ Goto(p, "read")

-----------------------------------------------------------------------------
(* process_escrow_signature, resolve_dispute: settled_at dates the entry.  *)

Settle(p) ==
    /\ p \in Settlements /\ Begins(p)
    /\ TakeTime(p) /\ NoteContention(p)
    /\ UNCHANGED <<active, treasury>>

\* record_trade_fee_income up to create_treasury_entry's SELECT.
SettleRead(p) ==
    /\ p \in Settlements /\ stage[p] = "timed"
    /\ ReadLatest(p)
    /\ UNCHANGED <<active, treasury, clock, contended>>

SettleCommit(p) ==
    /\ p \in Settlements /\ stage[p] = "read"
    /\ treasury' = treasury \cup {Entry(p, "fee_income", Fee, seen[p].at)}
    /\ Goto(p, "answered")
    /\ UNCHANGED <<active, clock, seen, contended>>

-----------------------------------------------------------------------------
(* disburse_treasury_endpoint, after the 2FA check.                        *)

\* Mutant: the balance is not compared.
DisburseUnchecked(p) ==
    /\ p \in Disbursals /\ Begins(p)
    /\ ReadLatest(p)
    /\ NoteContention(p)
    /\ UNCHANGED <<active, treasury, clock>>

DisburseRead(p) ==
    /\ p \in Disbursals /\ Begins(p)
    /\ \/ LatestBalance >= Disbursed /\ ReadLatest(p)
       \/ LatestBalance < Disbursed /\ Goto(p, "refused") /\ UNCHANGED seen
    /\ NoteContention(p)
    /\ UNCHANGED <<active, treasury, clock>>

\* The answer may be lost although the entry is committed.
DisburseCommit(p) ==
    /\ p \in Disbursals /\ stage[p] = "read"
    /\ clock' = clock + 1
    /\ treasury' = treasury \cup {Entry(p, "disbursement", Disbursed, clock + 1)}
    /\ (Goto(p, "answered") \/ Goto(p, "failed"))
    /\ UNCHANGED <<active, seen, contended>>

\* A crash or a statement that raises: what was not committed rolls back.
RequestFails(p) ==
    /\ stage[p] \notin {"idle", "answered", "refused", "failed"}
    /\ Goto(p, "failed")
    /\ UNCHANGED <<active, treasury, clock, seen, contended>>

RecordTradeFeeIncome(p) == Settle(p) \/ SettleRead(p) \/ SettleCommit(p)
DisburseTreasury(p) == DisburseRead(p) \/ DisburseCommit(p)

TreasuryNext ==
    \E p \in Requests : RecordTradeFeeIncome(p) \/ DisburseTreasury(p) \/ RequestFails(p)
=============================================================================
