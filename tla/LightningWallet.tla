---------------------------- MODULE LightningWallet ----------------------------
(***************************************************************************)
(* The Lightning half of the wallet service: invoices, payments and the    *)
(* refresh of a wallet's Lightning balance, which the sync loop runs for   *)
(* every wallet and the wallet summary, an invoice lookup and a payment    *)
(* run for their own.                                                      *)
(*                                                                         *)
(* The balance column is a cache: each refresh asks LND about the pending  *)
(* invoices, sums the ledger rows in one statement and writes the sum in   *)
(* another.  Refreshes of two replicas interleave at every statement.      *)
(***************************************************************************)
EXTENDS WalletDB

CONSTANTS
    Invoices,     \* POST /lightning/invoices requests; the id is also the payment hash
    Payments,     \* POST /lightning/payments requests
    HashOf,       \* the payment hash of the invoice each payment pays
    Refreshes,    \* lightning_sync_loop and GET requests, for one wallet each
    Sats          \* the amount of every invoice

Callers == Payments \cup Refreshes
Hashes == {HashOf[p] : p \in Payments}

ASSUME LightningAssumption ==
    /\ \A p \in Invoices \cup Callers : WalletOf[p] \in Wallets
    /\ Invoices \cup Hashes \subseteq Refs /\ Invoices \cap Callers = {}
    /\ Sats \in Nat \ {0}

VARIABLES
    invoice,  \* LND: our invoices
    paid,     \* LND: payment hashes it has paid
    at,       \* where each request or loop is
    holding   \* what a refresh holds: invoices still to look up, the sum it read

node == <<invoice, paid>>
lightningVars == <<node, at, holding>>

NothingHeld == [rows |-> {}, sum |-> 0]
MoveTo(p, s) == at' = [at EXCEPT ![p] = s]

LightningInit ==
    /\ invoice = [i \in Invoices |-> "none"] /\ paid = {}
    /\ at = [p \in Invoices \cup Callers |-> "idle"]
    /\ holding = [p \in Callers |-> NothingHeld]

\* Somebody pays an invoice of ours, or LND cancels it when it expires.
Settle(i) ==
    /\ invoice[i] = "open"
    /\ \E s \in {"settled", "canceled"} : invoice' = [invoice EXCEPT ![i] = s]
    /\ UNCHANGED <<db, active, paid, at, holding>>

-----------------------------------------------------------------------------
(* create_invoice                                                          *)

AddInvoice(i) ==
    /\ i \in active \cap Invoices /\ at[i] = "idle"
    /\ \/ invoice' = [invoice EXCEPT ![i] = "open"] /\ MoveTo(i, "row")
       \/ MoveTo(i, "failed") /\ UNCHANGED invoice
    /\ UNCHANGED <<db, active, paid, holding>>

\* A crash before the insert leaves an invoice its caller was never shown.
InsertReceive(i) ==
    /\ i \in Invoices /\ at[i] = "row"
    /\ \/ /\ CreateTransaction(Row(WalletOf[i], "ln_receive", i, Sats, 0, "pending"))
          /\ MoveTo(i, "answered")
       \/ MoveTo(i, "failed") /\ UNCHANGED db
    /\ UNCHANGED <<active, node, holding>>

-----------------------------------------------------------------------------
(* pay_invoice: no balance is checked before LND pays.                      *)

\* LND answers, refuses (an invoice it has paid, no route), or its answer is lost.
PayInvoice(p) ==
    /\ p \in active \cap Payments /\ at[p] = "idle"
    /\ \/ /\ HashOf[p] \notin paid /\ paid' = paid \cup {HashOf[p]}
          /\ (MoveTo(p, "paid") \/ MoveTo(p, "failed"))
       \/ MoveTo(p, "payment_error") /\ UNCHANGED paid
       \/ MoveTo(p, "failed") /\ UNCHANGED paid
    /\ UNCHANGED <<db, active, invoice, holding>>

\* A refused payment has no route and amount 0: its row violates amount_positive.
RecordPayment(p) ==
    /\ p \in Payments
    /\ \/ /\ at[p] = "paid"
          /\ CreateTransaction(Row(WalletOf[p], "ln_send", HashOf[p], Sats, 0, "confirmed"))
          /\ MoveTo(p, "refresh")
       \/ /\ at[p] \in {"paid", "payment_error"} /\ MoveTo(p, "failed") /\ UNCHANGED db
    /\ UNCHANGED <<active, node, holding>>

-----------------------------------------------------------------------------
(* sync_wallet_lightning_state                                             *)

ListReceives(p) ==
    /\ p \in Callers \cap active
    /\ at[p] = IF p \in Payments THEN "refresh" ELSE "idle"
    /\ holding' = [holding EXCEPT ![p].rows = PendingLightningReceives(WalletOf[p])]
    /\ MoveTo(p, "lookup")
    /\ UNCHANGED <<db, active, node>>

\* LND says the invoice is settled or canceled, and the answer is lost.
LookupFails(p) ==
    /\ UNCHANGED db
    /\ \E row \in holding[p].rows \ holding'[p].rows : invoice[row.ref] # "open"

\* One row of the list, by what LND says now; an open invoice or an error leaves it.
LookupInvoice(p) ==
    /\ p \in Callers /\ at[p] = "lookup"
    /\ \E row \in holding[p].rows :
          /\ \/ invoice[row.ref] = "settled" /\ UpdateTransactionStatus(row, "confirmed")
             \/ invoice[row.ref] = "canceled" /\ UpdateTransactionStatus(row, "failed")
             \/ UNCHANGED db
          /\ holding' = [holding EXCEPT ![p].rows = @ \ {row}]
    /\ UNCHANGED <<active, node, at>>

\* Mutant: the sum leaves out what was paid.
ReadIncoming(p) ==
    /\ p \in Callers /\ at[p] = "lookup" /\ holding[p].rows = {}
    /\ holding' = [holding EXCEPT ![p].sum = ConfirmedLightning(WalletOf[p], "ln_receive")]
    /\ MoveTo(p, "write")
    /\ UNCHANGED <<db, active, node>>

ReadLedger(p) ==
    /\ p \in Callers /\ at[p] = "lookup" /\ holding[p].rows = {}
    /\ holding' = [holding EXCEPT ![p].sum = LedgerLightning(WalletOf[p])]
    /\ MoveTo(p, "write")
    /\ UNCHANGED <<db, active, node>>

\* A payment then writes its audit row and answers; a loop comes round again.
WriteBalance(p) ==
    /\ p \in Callers /\ at[p] = "write"
    /\ UpdateLightningBalance(WalletOf[p], holding[p].sum)
    /\ MoveTo(p, IF p \in Payments THEN "answered" ELSE "idle")
    /\ holding' = [holding EXCEPT ![p] = NothingHeld]
    /\ UNCHANGED <<active, node>>

\* An exception or a restart in the middle of a refresh that had something to write.
RefreshFails(p) ==
    /\ p \in Callers
    /\ \/ at[p] \in {"refresh", "lookup"}
       \/ at[p] = "write" /\ holding[p].sum # lightning[WalletOf[p]]
    /\ MoveTo(p, IF p \in Payments THEN "failed" ELSE "idle")
    /\ holding' = [holding EXCEPT ![p] = NothingHeld]
    /\ UNCHANGED <<db, active, node>>

RefreshStep(p) ==
    ListReceives(p) \/ LookupInvoice(p) \/ ReadLedger(p) \/ WriteBalance(p)

CreateInvoice(i) == AddInvoice(i) \/ InsertReceive(i)

PayInvoiceStep(p) == PayInvoice(p) \/ RecordPayment(p) \/ RefreshStep(p) \/ RefreshFails(p)

\* GET /lightning/invoices/{payment_hash}, the wallet summary and the loop refresh like this.
GetInvoice(p) == RefreshStep(p) \/ RefreshFails(p)

LightningNext ==
    \/ \E i \in Invoices : CreateInvoice(i) \/ Settle(i)
    \/ \E p \in Payments : PayInvoiceStep(p)
    \/ \E p \in Refreshes : GetInvoice(p)
=============================================================================
