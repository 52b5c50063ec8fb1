----------------------------- MODULE OnchainWallet -----------------------------
(***************************************************************************)
(* The on-chain half of the wallet service: deposit addresses, withdrawals *)
(* with their idempotency keys, peg-outs, and the reconciliation loop that *)
(* credits deposits and confirms withdrawals.                              *)
(*                                                                         *)
(* A request loses control at every RPC call and database statement.  The  *)
(* idempotency cache and the set of keys in flight live in the memory of   *)
(* one replica.  The node funds a withdrawal from any output it watches;   *)
(* the service signs only the outputs of the withdrawing wallet.           *)
(***************************************************************************)
EXTENDS WalletDB

CONSTANTS
    Replicas,         \* processes of the service
    Withdrawals, Pegouts, AddressRequests,   \* HTTP requests, each used once
    SettlementRequests,   \* marketplace requests that need a user's settlement address
    Reconcilers,      \* runs of reconciliation_loop
    KeyOf, ReplicaOf, \* of each request
    NoKey,            \* a request without X-Idempotency-Key
    Amount, Fee,      \* of every withdrawal and peg-out
    Coins, CoinAmount \* outputs that outsiders pay to deposit addresses

Requests == Withdrawals \cup Pegouts \cup AddressRequests \cup SettlementRequests
Outputs == Coins \cup Withdrawals    \* a withdrawal's id also names its change output

\* A peg-out takes no X-Idempotency-Key.
ASSUME OnchainAssumption ==
    /\ \A p \in Requests : WalletOf[p] \in Wallets
    /\ Withdrawals \cup Pegouts \subseteq DOMAIN KeyOf /\ \A p \in Pegouts : KeyOf[p] = NoKey
    /\ ReplicaOf \in [Requests -> Replicas]
    /\ Amount \in Nat \ {0} /\ Fee \in Nat /\ CoinAmount \in Nat \ {0}
    /\ Outputs \cup Pegouts \subseteq Refs
    /\ Coins # {} /\ Coins \cap Withdrawals = {} /\ Withdrawals \cap Pegouts = {}
    /\ (Withdrawals \cup Pegouts) \cap (AddressRequests \cup SettlementRequests) = {}
    /\ IsFiniteSet(Coins) /\ IsFiniteSet(Requests)

VARIABLES
    utxo,       \* the outputs the node watches: [wallet, amount, status]
    broadcast,  \* transactions the node accepted
    mined,      \* those in a block
    cached,     \* _withdrawal_idempotency_cache: <<replica, wallet, key>>
    inflight,   \* _withdrawal_idempotency_inflight
    stage,      \* where each request is
    task,       \* what it holds: derivation index, inputs, reserved satoshis
    loop        \* what each reconciliation loop is doing

chain == <<utxo, broadcast, mined>>
memory == <<cached, inflight>>
onchainVars == <<chain, memory, stage, task, loop>>

Ended == {"answered", "refused", "failed", "crashed"}
Running(p) == stage[p] \notin Ended \cup {"idle"}
Key(p) == <<ReplicaOf[p], WalletOf[p], KeyOf[p]>>
Keyed(p) == p \in Withdrawals /\ KeyOf[p] # NoKey
Cost(p) == IF p \in Withdrawals THEN Amount + Fee ELSE Amount

NoUtxo == [wallet |-> CHOOSE w \in Wallets : TRUE, amount |-> 0, status |-> "none"]
NoTask == [index |-> 0, inputs |-> {}, held |-> 0]
Idle == [stage |-> "idle", queue |-> {}, output |-> CHOOSE u \in Outputs : TRUE, row |-> "none"]

OnchainInit ==
    /\ utxo = [u \in Outputs |-> NoUtxo] /\ broadcast = {} /\ mined = {}
    /\ cached = {} /\ inflight = {}
    /\ stage = [p \in Requests |-> "idle"] /\ task = [p \in Requests |-> NoTask]
    /\ loop = [r \in Reconcilers |-> Idle]

Goto(p, s) == stage' = [stage EXCEPT ![p] = s]
ClearInflight(p) == inflight' = inflight \ {Key(p)}

-----------------------------------------------------------------------------
(* The chain, and outsiders.                                               *)

\* Somebody pays a deposit address the service has handed out.
Pay(c, w) ==
    /\ c \in active /\ utxo[c].status = "none"
    /\ utxo' = [utxo EXCEPT ![c] = [wallet |-> w, amount |-> CoinAmount, status |-> "mempool"]]
    /\ UNCHANGED <<db, active, broadcast, mined, memory, stage, task, loop>>

Confirmed(u) == IF utxo[u].status = "mempool"
                THEN [utxo EXCEPT ![u].status = "confirmed"] ELSE utxo

MineCoin(c) ==
    /\ utxo[c].status = "mempool" /\ utxo' = Confirmed(c)
    /\ UNCHANGED <<db, active, broadcast, mined, memory, stage, task, loop>>

MineTransaction(p) ==
    /\ p \in broadcast \ mined /\ mined' = mined \cup {p}
    /\ utxo' = IF p \in Withdrawals THEN Confirmed(p) ELSE utxo
    /\ UNCHANGED <<db, active, broadcast, memory, stage, task, loop>>

Unspent(u) == utxo[u].status \in {"mempool", "confirmed"}

-----------------------------------------------------------------------------
(* withdraw_onchain and pegout_to_mainchain.                               *)

\* Mutant: a key is only refused once its answer is cached.
BeginWithoutInflight(p) ==
    /\ p \in Withdrawals \cap active /\ stage[p] = "idle"
    /\ IF Keyed(p) /\ Key(p) \in cached
       THEN Goto(p, "answered") /\ UNCHANGED inflight
       ELSE Goto(p, "address") /\ inflight' = inflight \cup {Key(p)}
    /\ UNCHANGED <<db, active, chain, cached, task, loop>>

\* 2FA and the account are checked first; a cached answer is returned, a key in flight refused.
Begin(p) ==
    /\ p \in Withdrawals \cap active /\ stage[p] = "idle"
    /\ \/ Keyed(p) /\ Key(p) \in cached /\ Goto(p, "answered") /\ UNCHANGED inflight
       \/ Keyed(p) /\ Key(p) \in inflight \ cached /\ Goto(p, "refused") /\ UNCHANGED inflight
       \/ Keyed(p) /\ Key(p) \notin inflight \cup cached
          /\ Goto(p, "address") /\ inflight' = inflight \cup {Key(p)}
       \/ ~Keyed(p) /\ Goto(p, "address") /\ UNCHANGED inflight
    /\ UNCHANGED <<db, active, chain, cached, task, loop>>

\* The index is read, the address derived and imported into the node.
DeriveAddress(p) ==
    /\ \/ stage[p] = "address"
       \/ p \in (AddressRequests \cup SettlementRequests) \cap active /\ stage[p] = "idle"
    /\ NextDerivationIndex(WalletOf[p]) <= MaxIndex
    /\ \/ /\ task' = [task EXCEPT ![p].index = NextDerivationIndex(WalletOf[p])]
          /\ Goto(p, "derived")
       \/ Goto(p, "failed") /\ UNCHANGED task    \* the key stays in flight
    /\ UNCHANGED <<db, active, chain, memory, loop>>

SaveAddress(p) ==
    /\ stage[p] = "derived"
    /\ \/ /\ SaveWalletAddress(WalletOf[p], task[p].index)
          /\ Goto(p, IF p \in Withdrawals THEN "fund" ELSE "answered")
       \/ /\ task[p].index \in addresses[WalletOf[p]]    \* unique constraint
          /\ Goto(p, "failed") /\ UNCHANGED db
    /\ UNCHANGED <<active, chain, memory, task, loop>>

\* walletcreatefundedpsbt chooses confirmed outputs of any wallet, no more than it needs.
EnoughInputs(p, inputs) ==
    /\ \A u \in inputs : utxo[u].status = "confirmed"
    /\ TotalOf(inputs, LAMBDA u : utxo[u].amount) >= Cost(p)
    /\ \A u \in inputs : TotalOf(inputs \ {u}, LAMBDA v : utxo[v].amount) < Cost(p)

Fund(p) ==
    /\ stage[p] = "fund"
    /\ \/ \E inputs \in SUBSET Outputs :
             /\ EnoughInputs(p, inputs)
             /\ task' = [task EXCEPT ![p].inputs = inputs]
             /\ Goto(p, "reserve") /\ UNCHANGED inflight
       \/ Goto(p, "failed") /\ ClearInflight(p) /\ UNCHANGED task
    /\ UNCHANGED <<db, active, chain, cached, loop>>

Reserve(p) ==
    /\ \/ stage[p] = "reserve"
       \/ p \in Pegouts \cap active /\ stage[p] = "idle"
    /\ \/ /\ ReserveOnchainBalance(WalletOf[p], Cost(p))
          /\ task' = [task EXCEPT ![p].held = Cost(p)]
          /\ Goto(p, "send") /\ UNCHANGED inflight
       \/ /\ onchain[WalletOf[p]] < Cost(p)
          /\ Goto(p, "failed") /\ ClearInflight(p) /\ UNCHANGED <<db, task>>
    /\ UNCHANGED <<active, chain, cached, loop>>

\* Every input is signed with the wallet's keys, and the node has it unspent.
CanSend(p) ==
    \A u \in task[p].inputs : utxo[u].wallet = WalletOf[p] /\ Unspent(u)

\* The rest of the inputs comes back to the change address.  A peg-out spends the node's own coins.
Spend(p) ==
    LET change == TotalOf(task[p].inputs, LAMBDA u : utxo[u].amount) - Cost(p)
        spent == [u \in Outputs |-> IF u \in task[p].inputs
                                    THEN [utxo[u] EXCEPT !.status = "spent"] ELSE utxo[u]]
    IN  /\ broadcast' = broadcast \cup {p}
        /\ utxo' = IF p \in Withdrawals /\ change > 0
                   THEN [spent EXCEPT ![p] = [wallet |-> WalletOf[p], amount |-> change,
                                              status |-> "mempool"]]
                   ELSE spent

Send(p) ==
    /\ stage[p] = "send" /\ CanSend(p)
    /\ Spend(p) /\ Goto(p, "record")
    /\ UNCHANGED <<db, active, mined, memory, task, loop>>

\* Mutant: the amount goes back, the fee does not.
ReleaseAmountOnly(p) ==
    /\ stage[p] = "send"
    /\ ReleaseOnchainBalance(WalletOf[p], Amount)
    /\ task' = [task EXCEPT ![p].held = 0]
    /\ Goto(p, "failed") /\ ClearInflight(p)
    /\ \/ UNCHANGED chain
       \/ CanSend(p) /\ Spend(p) /\ UNCHANGED mined
    /\ UNCHANGED <<active, cached, loop>>

\* Any exception releases the reservation, a broadcast whose answer is lost included.  If the
\* answer of the release is lost too, the key stays in flight.
SendFails(p) ==
    /\ stage[p] = "send"
    /\ ReleaseOnchainBalance(WalletOf[p], task[p].held)
    /\ task' = [task EXCEPT ![p].held = 0]
    /\ Goto(p, "failed")
    /\ ClearInflight(p) \/ UNCHANGED inflight
    /\ \/ UNCHANGED chain
       \/ CanSend(p) /\ Spend(p) /\ UNCHANGED mined
    /\ UNCHANGED <<active, cached, loop>>

\* The release fails as well: the reservation stays, and the key in flight.
ReleaseFails(p) ==
    /\ stage[p] = "send"
    /\ Goto(p, "failed")
    /\ \/ UNCHANGED chain
       \/ CanSend(p) /\ Spend(p) /\ UNCHANGED mined
    /\ UNCHANGED <<db, active, memory, task, loop>>

\* The row is committed; the answer of the commit may still be lost.
Record(p) ==
    /\ stage[p] = "record"
    /\ CreateOnchainWithdrawal(WalletOf[p], p, Amount, Cost(p) - Amount)
    /\ task' = [task EXCEPT ![p].held = 0]
    /\ \/ Goto(p, "recorded") /\ UNCHANGED inflight
       \/ Goto(p, "failed") /\ ClearInflight(p)
    /\ UNCHANGED <<active, chain, cached, loop>>

\* The transaction is out, no row says so and the reservation stays.
RecordFails(p) ==
    /\ stage[p] = "record"
    /\ Goto(p, "failed") /\ ClearInflight(p)
    /\ UNCHANGED <<db, active, chain, cached, task, loop>>

Answer(p) ==
    /\ stage[p] = "recorded"
    /\ Goto(p, "answered") /\ ClearInflight(p)
    /\ cached' = IF Keyed(p) THEN cached \cup {Key(p)} ELSE cached
    /\ UNCHANGED <<db, active, chain, task, loop>>

\* _WITHDRAWAL_IDEMPOTENCY_TTL_SECONDS after the answer.
CacheExpires(k) ==
    /\ k \in cached /\ cached' = cached \ {k}
    /\ UNCHANGED <<db, active, chain, inflight, stage, task, loop>>

\* A replica restarts: its requests are gone, its memory empty, what they reserved is not released.
Restart(replica) ==
    /\ \E p \in Requests : ReplicaOf[p] = replica /\ Running(p)
    /\ stage' = [p \in Requests |-> IF ReplicaOf[p] = replica /\ Running(p)
                                    THEN "crashed" ELSE stage[p]]
    /\ cached' = {k \in cached : k[1] # replica}
    /\ inflight' = {k \in inflight : k[1] # replica}
    /\ UNCHANGED <<db, active, chain, task, loop>>

-----------------------------------------------------------------------------
(* reconciliation_loop.                                                    *)

\* listunspent for the saved addresses: every output with its confirmations.
ScanDeposits(r) ==
    /\ r \in active /\ loop[r].stage = "idle"
    /\ \E u \in Outputs : Unspent(u)
    /\ loop' = [loop EXCEPT ![r] =
          [@ EXCEPT !.stage = "scanned", !.queue =
              {[output |-> u, confirmed |-> utxo[u].status = "confirmed"] :
                  u \in {v \in Outputs : Unspent(v)}}]]
    /\ UNCHANGED <<db, active, chain, memory, stage, task>>

\* Mutant: only an output that was never seen before is inserted, and credited if confirmed.
ReadDepositOnce(r, u) ==
    /\ loop[r].stage = "scanned"
    /\ \E item \in loop[r].queue :
          /\ item.output = u
          /\ loop' = [loop EXCEPT ![r] =
                [@ EXCEPT !.queue = loop[r].queue \ {item}, !.output = u, !.row = deposits[u],
                          !.stage = IF deposits[u] # "none" THEN "scanned"
                                    ELSE IF item.confirmed THEN "insert_credit" ELSE "insert"]]
    /\ UNCHANGED <<db, active, chain, memory, stage, task>>

\* One output of the snapshot: its row, as it is now.
ReadDeposit(r, u) ==
    /\ loop[r].stage = "scanned"
    /\ \E item \in loop[r].queue :
          /\ item.output = u
          /\ loop' = [loop EXCEPT ![r] =
                [@ EXCEPT !.queue = loop[r].queue \ {item}, !.output = u, !.row = deposits[u],
                          !.stage = IF deposits[u] = "none"
                                    THEN IF item.confirmed THEN "insert_credit" ELSE "insert"
                                    ELSE IF item.confirmed /\ deposits[u] = "pending"
                                    THEN "credit" ELSE "scanned"]]
    /\ UNCHANGED <<db, active, chain, memory, stage, task>>

\* Another loop may have inserted the row first: the exception ends the pass.
RecordDeposit(r) ==
    /\ loop[r].stage \in {"insert", "insert_credit"}
    /\ \/ /\ InsertDeposit(loop[r].output)
          /\ loop' = [loop EXCEPT ![r].stage =
                        IF @ = "insert_credit" THEN "credit" ELSE "scanned"]
       \/ /\ deposits[loop[r].output] # "none"
          /\ loop' = [loop EXCEPT ![r] = Idle] /\ UNCHANGED db
    /\ UNCHANGED <<active, chain, memory, stage, task>>

Credit(r) ==
    /\ loop[r].stage = "credit"
    /\ LET u == loop[r].output
       IN \/ CreditConfirmedDeposit(u, utxo[u].wallet, utxo[u].amount)
          \/ deposits[u] = "credited" /\ UNCHANGED db
    /\ loop' = [loop EXCEPT ![r].stage = "scanned"]
    /\ UNCHANGED <<active, chain, memory, stage, task>>

\* Mutant: every transaction the node has heard of is taken for confirmed.
ReconcileUnconfirmed(r) ==
    /\ r \in active /\ loop[r].stage \in {"idle", "scanned"} /\ loop[r].queue = {}
    /\ \/ \E rows \in SUBSET PendingOnchainWithdrawals :
             rows # {} /\ UpdateTransactionStatusByTxid(rows, "confirmed")
       \/ loop[r].stage = "scanned" /\ UNCHANGED db
    /\ loop' = [loop EXCEPT ![r] = Idle]
    /\ UNCHANGED <<active, chain, memory, stage, task>>

\* After the deposits; a row whose gettransaction fails is left for the next pass.
ReconcileWithdrawals(r) ==
    /\ r \in active /\ loop[r].stage \in {"idle", "scanned"} /\ loop[r].queue = {}
    /\ \/ \E rows \in SUBSET {t \in PendingOnchainWithdrawals : t.ref \in mined} :
             rows # {} /\ UpdateTransactionStatusByTxid(rows, "confirmed")
       \/ loop[r].stage = "scanned" /\ UNCHANGED db
    /\ loop' = [loop EXCEPT ![r] = Idle]
    /\ UNCHANGED <<active, chain, memory, stage, task>>

\* A restart, or an exception the loop logs before it sleeps, with work left to do.
LoopFails(r) ==
    /\ loop[r].stage \notin {"idle", "scanned"} \/ loop[r].queue # {}
    /\ loop' = [loop EXCEPT ![r] = Idle]
    /\ UNCHANGED <<db, active, chain, memory, stage, task>>

LoopStep(r) ==
    \/ ScanDeposits(r) \/ \E u \in Outputs : ReadDeposit(r, u)
    \/ RecordDeposit(r) \/ Credit(r) \/ ReconcileWithdrawals(r) \/ LoopFails(r)

WithdrawOnchain(p) ==
    /\ p \in Withdrawals
    /\ \/ Begin(p) \/ DeriveAddress(p) \/ SaveAddress(p) \/ Fund(p) \/ Reserve(p)
       \/ Send(p) \/ SendFails(p) \/ ReleaseFails(p)
       \/ Record(p) \/ RecordFails(p) \/ Answer(p)

PegoutToMainchain(p) ==
    /\ p \in Pegouts
    /\ \/ Reserve(p) \/ Send(p) \/ SendFails(p) \/ ReleaseFails(p)
       \/ Record(p) \/ RecordFails(p) \/ Answer(p)

CreateOnchainAddress(p) ==
    p \in AddressRequests /\ (DeriveAddress(p) \/ SaveAddress(p))

\* The marketplace's own copy of the same steps, in another process.
EnsureWalletSettlementAddress(p) ==
    p \in SettlementRequests /\ (DeriveAddress(p) \/ SaveAddress(p))

OnchainNext ==
    \/ \E p \in Requests : \/ WithdrawOnchain(p) \/ PegoutToMainchain(p)
                          \/ CreateOnchainAddress(p) \/ EnsureWalletSettlementAddress(p)
    \/ \E r \in Reconcilers : LoopStep(r)
    \/ \E c \in Coins, w \in Wallets : Pay(c, w)
    \/ \E c \in Coins : MineCoin(c)
    \/ \E p \in broadcast : MineTransaction(p)
    \/ \E k \in cached : CacheExpires(k)
    \/ \E replica \in Replicas : Restart(replica)
=============================================================================
