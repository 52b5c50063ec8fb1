------------------------------- MODULE WalletDB -------------------------------
(***************************************************************************)
(* The tables of the wallet service and the transactions of wallet/db.py.  *)
(*                                                                         *)
(* A transaction is atomic and takes effect at its commit; its UPDATEs     *)
(* compute from the column, not from a row the caller read, except the     *)
(* Lightning balance, which is written as an absolute value.               *)
(***************************************************************************)
EXTENDS Integers, FiniteSets, FiniteSetsExt

CONSTANTS
    Wallets,   \* one wallet per user
    WalletOf,  \* the wallet of each request and loop
    Refs,      \* transaction ids of the chain and payment hashes of LND
    MaxIndex   \* bound: derivation indices of a wallet

ASSUME WalletAssumption == MaxIndex \in Nat /\ Wallets # {}

VARIABLES
    active,        \* the requests and loops of this behaviour, chosen once
    onchain,       \* wallets.onchain_balance_sat
    lightning,     \* wallets.lightning_balance_sat
    transactions,  \* the ledger rows
    deposits,      \* onchain_deposits.status of each output, "none" without a row
    addresses      \* derivation indices saved in wallet_addresses

db == <<onchain, lightning, transactions, deposits, addresses>>

Statuses == {"pending", "confirmed", "failed"}
DepositStatuses == {"none", "pending", "credited"}   \* nothing writes "confirmed"

TransactionRow ==
    [wallet: Wallets, type: {"deposit", "withdrawal", "ln_send", "ln_receive"},
     ref: Refs, amount: Nat \ {0}, fee: Nat, status: Statuses]

Row(w, type, ref, amount, fee, status) ==
    [wallet |-> w, type |-> type, ref |-> ref, amount |-> amount, fee |-> fee,
     status |-> status]

TablesTypeOK ==
    /\ onchain \in [Wallets -> Nat]          \* CHECK balances_non_negative
    /\ lightning \in [Wallets -> Nat]
    /\ transactions \subseteq TransactionRow
    /\ DOMAIN deposits \subseteq Refs /\ \A u \in DOMAIN deposits : deposits[u] \in DepositStatuses
    /\ addresses \in [Wallets -> SUBSET (0..MaxIndex)]

\* Every wallet has handed out its first address.
TablesInit(outputs) ==
    /\ onchain = [w \in Wallets |-> 0] /\ lightning = [w \in Wallets |-> 0]
    /\ transactions = {}
    /\ deposits = [u \in outputs |-> "none"]
    /\ addresses = [w \in Wallets |-> {0}]

TotalOf(rows, cost(_)) == MapThenSumSet(cost, rows)

-----------------------------------------------------------------------------
(* Ledger rows.                                                            *)

\* CHECK amount_positive: inserting a row of amount 0 raises.
CreateTransaction(row) ==
    /\ row.amount > 0
    /\ transactions' = transactions \cup {row}
    /\ UNCHANGED <<onchain, lightning, deposits, addresses>>

\* By id, whatever the status is by now.
UpdateTransactionStatus(row, status) ==
    /\ transactions' = {IF t.wallet = row.wallet /\ t.type = row.type /\ t.ref = row.ref
                        THEN [t EXCEPT !.status = status] ELSE t : t \in transactions}
    /\ UNCHANGED <<onchain, lightning, deposits, addresses>>

UpdateTransactionStatusByTxid(rows, status) ==
    /\ transactions' = {IF \E row \in rows : t.wallet = row.wallet /\ t.ref = row.ref
                        THEN [t EXCEPT !.status = status] ELSE t : t \in transactions}
    /\ UNCHANGED <<onchain, lightning, deposits, addresses>>

PendingLightningReceives(w) ==
    {t \in transactions : t.wallet = w /\ t.type = "ln_receive" /\ t.status = "pending"}

PendingOnchainWithdrawals ==
    {t \in transactions : t.type = "withdrawal" /\ t.status = "pending"}

CreateOnchainWithdrawal(w, txid, amount, fee) ==
    CreateTransaction(Row(w, "withdrawal", txid, amount, fee, "pending"))

-----------------------------------------------------------------------------
(* Balances.                                                               *)

\* Mutant: a balance that was read before, and no guard in the UPDATE.
ReserveUnchecked(w, cost) ==
    /\ onchain' = [onchain EXCEPT ![w] = @ - cost]
    /\ UNCHANGED <<lightning, transactions, deposits, addresses>>

ReserveOnchainBalance(w, cost) ==
    /\ onchain[w] >= cost
    /\ onchain' = [onchain EXCEPT ![w] = @ - cost]
    /\ UNCHANGED <<lightning, transactions, deposits, addresses>>

ReleaseOnchainBalance(w, cost) ==
    /\ onchain' = [onchain EXCEPT ![w] = @ + cost]
    /\ UNCHANGED <<lightning, transactions, deposits, addresses>>

ConfirmedLightning(w, type) ==
    TotalOf({t \in transactions : t.wallet = w /\ t.type = type /\ t.status = "confirmed"},
            LAMBDA t : t.amount)

\* max(0, incoming - outgoing): what recompute_lightning_balance writes later.
LedgerLightning(w) ==
    LET In == ConfirmedLightning(w, "ln_receive")
        Out == ConfirmedLightning(w, "ln_send")
    IN IF In > Out THEN In - Out ELSE 0

UpdateLightningBalance(w, sat) ==
    /\ lightning' = [lightning EXCEPT ![w] = sat]
    /\ UNCHANGED <<onchain, transactions, deposits, addresses>>

-----------------------------------------------------------------------------
(* Addresses and deposits.                                                 *)

NextDerivationIndex(w) ==
    IF addresses[w] = {} THEN 0 ELSE Max(addresses[w]) + 1

\* uq_wallet_addresses_wallet_derivation and uq_wallet_addresses_address.
SaveWalletAddress(w, index) ==
    /\ index \notin addresses[w]
    /\ addresses' = [addresses EXCEPT ![w] = @ \cup {index}]
    /\ UNCHANGED <<onchain, lightning, transactions, deposits>>

\* uq_onchain_deposits_txid_vout
InsertDeposit(u) ==
    /\ deposits[u] = "none"
    /\ deposits' = [deposits EXCEPT ![u] = "pending"]
    /\ UNCHANGED <<onchain, lightning, transactions, addresses>>

\* Mutant: the UPDATE of the deposit without its status filter.
CreditAgain(u, w, amount) ==
    /\ deposits' = [deposits EXCEPT ![u] = "credited"]
    /\ onchain' = [onchain EXCEPT ![w] = @ + amount]
    /\ transactions' = transactions \cup {Row(w, "deposit", u, amount, 0, "confirmed")}
    /\ UNCHANGED <<lightning, addresses>>

\* The UPDATE that finds no row that is not credited yet rolls back.
CreditConfirmedDeposit(u, w, amount) ==
    /\ deposits[u] # "credited"
    /\ deposits' = [deposits EXCEPT ![u] = "credited"]
    /\ onchain' = [onchain EXCEPT ![w] = @ + amount]
    /\ transactions' = transactions \cup {Row(w, "deposit", u, amount, 0, "confirmed")}
    /\ UNCHANGED <<lightning, addresses>>
=============================================================================
