-------------------------------- MODULE Wallet --------------------------------
(***************************************************************************)
(* The wallet service: its on-chain and Lightning halves over one set of   *)
(* tables, and what it promises.                                           *)
(***************************************************************************)
EXTENDS OnchainWallet, LightningWallet

CONSTANT Workloads   \* the sets of requests, loops and payments that may come together

ASSUME WorkloadAssumption ==
    Workloads \subseteq SUBSET (Requests \cup Coins \cup Reconcilers \cup Invoices \cup Callers)

\* transactions.txid and ln_payment_hash are columns of their own.
ASSUME RefAssumption == Invoices \cap (Withdrawals \cup Pegouts) = {}

vars == <<active, db, onchainVars, lightningVars>>

Init ==
    /\ active \in Workloads
    /\ TablesInit(Outputs) /\ OnchainInit /\ LightningInit

Next ==
    \/ OnchainNext /\ UNCHANGED lightningVars
    \/ LightningNext /\ UNCHANGED onchainVars

Spec == Init /\ [][Next]_vars

(* Both background loops go round for ever, and from some time on RPC calls,  *)
(* statements and replicas no longer fail.  Nothing is assumed of requests,  *)
(* outsiders and the chain.                                                  *)
LoopWork(r) ==
    \/ ScanDeposits(r) \/ \E u \in Outputs : ReadDeposit(r, u)
    \/ RecordDeposit(r) \/ Credit(r) \/ ReconcileWithdrawals(r)

Failures ==
    \/ \E r \in Reconcilers : LoopFails(r)
    \/ \E p \in Callers : RefreshFails(p) \/ (LookupInvoice(p) /\ LookupFails(p))

FairSpec ==
    /\ Spec
    /\ \A r \in Reconcilers : WF_vars(LoopWork(r) /\ UNCHANGED lightningVars)
    /\ \A p \in Refreshes : WF_vars(RefreshStep(p) /\ UNCHANGED onchainVars)
    /\ <>[][~Failures]_vars

-----------------------------------------------------------------------------
(* Properties.                                                             *)

\* A request has been given its own address.
HasAddress(p) ==
    task[p].index > 0 /\ stage[p] \in {"fund", "reserve", "send", "record", "recorded", "answered"}

\* Types; in particular no interleaving of requests overdraws a balance, or gives the same
\* address to two requests of the wallet service or the marketplace.
TypeOK ==
    /\ TablesTypeOK
    /\ \A p, q \in Requests : p # q /\ WalletOf[p] = WalletOf[q] /\ HasAddress(p) /\ HasAddress(q)
          => task[p].index # task[q].index
    /\ active \in Workloads
    /\ \A u \in Outputs : /\ utxo[u].wallet \in Wallets /\ utxo[u].amount \in Nat
                          /\ utxo[u].status \in {"none", "mempool", "confirmed", "spent"}
    /\ mined \subseteq broadcast /\ broadcast \subseteq Withdrawals \cup Pegouts
    /\ \A p \in Requests : task[p].held \in Nat /\ task[p].inputs \subseteq Outputs
    /\ \A r \in Reconcilers : loop[r].output \in Outputs
    /\ paid \subseteq Hashes
    /\ \A p \in Callers : holding[p].sum \in Nat /\ holding[p].rows \subseteq TransactionRow

\* reserve, release and record, over every failure and restart: what was credited is the
\* balance, the withdrawals on record, or a reservation somebody took and has not given back.
CreditsAreAccounted ==
    \A w \in Wallets :
        TotalOf({u \in Outputs : deposits[u] = "credited" /\ utxo[u].wallet = w},
                LAMBDA u : utxo[u].amount)
        = onchain[w]
          + TotalOf({t \in transactions : t.wallet = w /\ t.type = "withdrawal"},
                    LAMBDA t : t.amount + t.fee)
          + TotalOf({p \in Requests : WalletOf[p] = w}, LAMBDA p : task[p].held)

\* A ledger row, whatever its status.
Recorded(w, type, ref, sats) ==
    \E t \in transactions :
        t.wallet = w /\ t.type = type /\ t.ref = ref /\ t.amount + t.fee = sats

Spenders == Withdrawals \cup Pegouts

\* An output is credited when its deposit and its ledger row both say so.
CreditOf(u) ==
    IF deposits[u] = "credited" /\ Recorded(utxo[u].wallet, "deposit", u, utxo[u].amount)
    THEN [wallet |-> utxo[u].wallet, amount |-> utxo[u].amount]
    ELSE [wallet |-> NoUtxo.wallet, amount |-> 0]

ClaimOf(p) ==
    CASE task[p].held = Cost(p) -> "held"
      [] task[p].held = 0 /\ Recorded(WalletOf[p], "withdrawal", p, Cost(p)) -> "spent"
      [] OTHER -> IF task[p].held = 0 /\ stage[p] = "failed" THEN "void" ELSE "none"

Funds == INSTANCE FundsLedger WITH
    CostOf <- [p \in Spenders |-> Cost(p)],
    balance <- onchain,
    credit <- [u \in Outputs |-> CreditOf(u)],
    claim <- [p \in Spenders |-> ClaimOf(p)]

\* However requests, retries, loops and restarts interleave, an output is credited once, and
\* the satoshis of a withdrawal are taken once and then recorded or given back (abstract
\* FundsLedger).
ImplementsFunds == Funds!Spec

\* X-Idempotency-Key (docs/wallet-integration.md:1103): while a replica remembers the answer
\* of a key, none of its requests with that key sends.
AnsweredKeySendsNoMore ==
    [][\A p \in Withdrawals :
          Keyed(p) /\ Key(p) \in cached /\ p \notin broadcast => p \notin broadcast']_vars

\* Rows say confirmed only of what the chain has confirmed, and of what LND has settled.
ConfirmedRowsHappened ==
    \A t \in transactions : t.status = "confirmed" =>
        CASE t.type = "withdrawal" -> t.ref \in mined
          [] t.type = "deposit"    -> utxo[t.ref].status \in {"confirmed", "spent"}
          [] t.type = "ln_receive" -> invoice[t.ref] = "settled"
          [] t.type = "ln_send"    -> t.ref \in paid

\* reconcile_deposits: a confirmed output is credited unless a withdrawal spends it first.
ConfirmedOutputsAreCredited ==
    \A c \in Coins :
        (active \cap Reconcilers # {} /\ utxo[c].status = "confirmed")
            ~> (deposits[c] = "credited" \/ utxo[c].status = "spent")

\* sync_wallet_lightning_state: refreshes that overlap may write old sums, but the balance
\* always comes back to what the ledger says.
LightningBalanceCatchesUp ==
    \A p \in Refreshes :
        []<>(p \in active => lightning[WalletOf[p]] = LedgerLightning(WalletOf[p]))

\* Claimed by docs/wallet-integration.md:154 (deposits are recorded to prevent
\* double-crediting): what is credited was paid to the wallet by somebody.
OnlyPaymentsAreCredited ==
    \A u \in Outputs : deposits[u] = "credited" => u \in Coins
=============================================================================
