----------------------------- MODULE Wallet_proofs -----------------------------
(***************************************************************************)
(* Proofs about Wallet, for any wallets, requests, replicas and loops.     *)
(*                                                                         *)
(* OInv is about the on-chain half: what the stage of a request says of    *)
(* its address, its reservation, its key and its transaction, and what a   *)
(* reconciliation loop may rely on although the chain goes on under it.    *)
(* LInv is about the Lightning half, RowsInv about the rows both halves    *)
(* write, and Balanced about the satoshis.                                 *)
(***************************************************************************)
EXTENDS Wallet, FiniteSums, TLAPS

Stages ==
    Ended \cup {"idle", "address", "derived", "fund", "reserve", "send", "record", "recorded"}
LoopStages == {"idle", "scanned", "insert", "insert_credit", "credit"}
UtxoStatuses == {"none", "mempool", "confirmed", "spent"}

OnchainTypes ==
    /\ onchain \in [Wallets -> Nat]
    /\ deposits \in [Outputs -> DepositStatuses]
    /\ addresses \in [Wallets -> SUBSET (0..MaxIndex)]
    /\ utxo \in [Outputs -> [wallet : Wallets, amount : Nat, status : UtxoStatuses]]
    /\ broadcast \subseteq Withdrawals \cup Pegouts /\ mined \subseteq broadcast
    /\ stage \in [Requests -> Stages]
    /\ task \in [Requests -> [index : Nat, inputs : SUBSET Outputs, held : Nat]]
    /\ loop \in [Reconcilers -> [stage : LoopStages,
                                 queue : SUBSET [output : Outputs, confirmed : BOOLEAN],
                                 output : Outputs, row : DepositStatuses]]

\* What the stage of a request says of its task and its transaction.
TaskInv ==
    \A p \in Requests :
        /\ stage[p] \in {"idle", "address"} => task[p].index = 0
        /\ stage[p] = "derived" => task[p].index \in 0..MaxIndex
        /\ stage[p] \in {"idle", "address", "derived", "fund", "reserve", "recorded"} =>
              task[p].held = 0
        /\ stage[p] \in {"send", "record"} => task[p].held = Cost(p)
        /\ stage[p] \in {"idle", "address", "derived", "fund", "reserve", "send"} => p \notin broadcast

\* An address is saved before it is used, and for one request.
AddressInv ==
    /\ \A p \in Requests : HasAddress(p) => task[p].index \in addresses[WalletOf[p]]
    /\ \A p, q \in Requests :
          p # q /\ WalletOf[p] = WalletOf[q] /\ HasAddress(p) /\ HasAddress(q) =>
              task[p].index # task[q].index

\* A request that is under way.
Mid(p) == stage[p] \in {"address", "derived", "fund", "reserve", "send", "record", "recorded"}

\* A key belongs to one request under way, and is not answered meanwhile.
KeyInv ==
    /\ \A p \in Requests : Keyed(p) /\ Mid(p) => Key(p) \in inflight /\ Key(p) \notin cached
    /\ \A p, q \in Requests :
          Keyed(p) /\ Keyed(q) /\ Mid(p) /\ Mid(q) /\ Key(p) = Key(q) => p = q

Mined(u) == utxo[u].status \in {"confirmed", "spent"}

ChainInv ==
    \A u \in Outputs :
        /\ utxo[u].status # "none" => utxo[u].amount > 0
        /\ u \in Withdrawals /\ utxo[u].status # "none" => u \in broadcast
        /\ deposits[u] # "none" => utxo[u].status # "none"
        /\ deposits[u] = "credited" => Mined(u)

\* What a loop has seen of an output is still so.
LoopInv ==
    \A r \in Reconcilers :
        /\ \A item \in loop[r].queue : /\ utxo[item.output].status # "none"
                                       /\ item.confirmed => Mined(item.output)
        /\ loop[r].stage \in {"insert", "insert_credit", "credit"} =>
              utxo[loop[r].output].status # "none"
        /\ loop[r].stage \in {"insert_credit", "credit"} => Mined(loop[r].output)

OInv == OnchainTypes /\ TaskInv /\ AddressInv /\ KeyInv /\ ChainInv /\ LoopInv

LightningStages ==
    {"idle", "row", "answered", "failed", "paid", "payment_error", "refresh", "lookup", "write"}

LInv ==
    /\ lightning \in [Wallets -> Nat]
    /\ invoice \in [Invoices -> {"none", "open", "settled", "canceled"}]
    /\ paid \subseteq Hashes
    /\ at \in [Invoices \cup Callers -> LightningStages]
    /\ holding \in [Callers -> [rows : SUBSET TransactionRow, sum : Nat]]
    /\ \A i \in Invoices : at[i] = "idle" => invoice[i] = "none"
    /\ \A p \in Payments : at[p] = "paid" => HashOf[p] \in paid
    /\ \A p \in Callers : \A row \in holding[p].rows : row.type = "ln_receive"

\* What a row stands for has happened, and no withdrawal has two.
RowsInv ==
    /\ transactions \subseteq TransactionRow /\ IsFiniteSet(transactions)
    /\ \A t \in transactions :
          /\ t.type = "withdrawal" =>
                /\ t.ref \in Withdrawals \cup Pegouts
                /\ stage[t.ref] \in Ended \cup {"recorded"}
                /\ t.status = "confirmed" => t.ref \in mined
          /\ t.type = "deposit" => t.ref \in Outputs /\ deposits[t.ref] = "credited"
          /\ t.type = "ln_receive" =>
                t.ref \in Invoices /\ (t.status = "confirmed" => invoice[t.ref] = "settled")
          /\ t.type = "ln_send" => t.ref \in paid
    /\ \A s, t \in transactions :
          s.type = "withdrawal" /\ t.type = "withdrawal" /\ s.ref = t.ref => s = t

Amounts == [u \in Outputs |-> utxo[u].amount]
CreditedTo(w) == {u \in Outputs : deposits[u] = "credited" /\ utxo[u].wallet = w}
Costs == [t \in TransactionRow |-> t.amount + t.fee]
WithdrawnFrom(w) == {t \in transactions : t.wallet = w /\ t.type = "withdrawal"}
Reserved == [p \in Requests |-> task[p].held]
RequestsOf(w) == {p \in Requests : WalletOf[p] = w}

\* CreditsAreAccounted, with the sums of FiniteSums.
Balanced ==
    \A w \in Wallets :
        SumOf(Amounts, CreditedTo(w))
        = onchain[w] + SumOf(Costs, WithdrawnFrom(w)) + SumOf(Reserved, RequestsOf(w))

WInv == OInv /\ LInv /\ RowsInv

-----------------------------------------------------------------------------
(* The tables, and the shape of a step.                                    *)

\* A set of numbers with a bound has a largest member.
LEMMA LargestNumber ==
    ASSUME NEW N \in Nat, NEW S \in SUBSET (0..N), S # {}
    PROVE  \E x \in S : \A y \in S : x >= y
  <1> DEFINE P == {n \in Nat : \E x \in S : n = N - x}
  <1>1. P \subseteq Nat /\ P # {}
    <2>1. PICK x \in S : TRUE
      OBVIOUS
    <2>2. N - x \in P
      OBVIOUS
    <2>3. QED
      BY <2>2
  <1>2. \E n \in P : \A m \in P : ~(<<m, n>> \in OpToRel(<, Nat))
    <2> HIDE DEF P
    <2> QED BY <1>1, WFMin, NatLessThanWellFounded
  <1>3. PICK n \in P : \A m \in P : ~(m < n)
    BY <1>2 DEF OpToRel
  <1>4. PICK x \in S : n = N - x
    OBVIOUS
  <1>5. ASSUME NEW y \in S PROVE x >= y
    <2>1. N - y \in P
      OBVIOUS
    <2>2. ~(N - y < N - x)
      BY <1>3, <1>4, <2>1
    <2>3. QED
      BY <2>2
  <1>6. QED
    BY <1>5

\* get_next_derivation_index: one more than the largest index saved, or 0.
LEMMA NextIndex ==
    ASSUME NEW w \in Wallets, addresses \in [Wallets -> SUBSET (0..MaxIndex)]
    PROVE  NextDerivationIndex(w) \in Nat /\ NextDerivationIndex(w) \notin addresses[w]
  <1> DEFINE S == addresses[w]
  <1>1. S \in SUBSET (0..MaxIndex) /\ MaxIndex \in Nat
    BY WalletAssumption
  <1>2. CASE S = {}
    BY <1>2 DEF NextDerivationIndex
  <1>3. CASE S # {}
    <2>1. Max(S) \in S /\ \A y \in S : Max(S) >= y
      BY <1>1, <1>3, LargestNumber DEF Max
    <2>2. NextDerivationIndex(w) = Max(S) + 1
      BY <1>3 DEF NextDerivationIndex
    <2>3. QED
      BY <1>1, <2>1, <2>2
  <1>4. QED
    BY <1>2, <1>3

\* What the node watches only goes on: an output that exists stays, and keeps what it is;
\* a new one is worth something, and a change output belongs to a transaction that was sent.
Evolves(before, after, sent) ==
    \A u \in Outputs :
        /\ before[u].status # "none" =>
              /\ after[u].status # "none"
              /\ after[u].amount = before[u].amount /\ after[u].wallet = before[u].wallet
              /\ before[u].status \in {"confirmed", "spent"} =>
                    after[u].status \in {"confirmed", "spent"}
        /\ before[u].status = "none" /\ after[u].status # "none" =>
              after[u].amount > 0 /\ (u \in Withdrawals => u \in sent)

\* A step of the chain takes nothing from what the deposits and the loops rely on.
LEMMA ChainStep ==
    ASSUME OnchainTypes, ChainInv, LoopInv, Evolves(utxo, utxo', broadcast'),
           broadcast \subseteq broadcast', deposits' = deposits, loop' = loop
    PROVE  ChainInv' /\ LoopInv'
  <1>1. ASSUME NEW u \in Outputs
        PROVE  /\ (utxo[u].status # "none")' => (utxo[u].amount > 0)'
               /\ u \in Withdrawals /\ (utxo[u].status # "none")' => u \in broadcast'
               /\ (deposits[u] # "none")' => (utxo[u].status # "none")'
               /\ (deposits[u] = "credited")' => Mined(u)'
    BY <1>1 DEF ChainInv, Evolves, Mined
  <1>2. ChainInv'
    BY <1>1 DEF ChainInv
  <1>3. ASSUME NEW u \in Outputs, utxo[u].status # "none"
        PROVE  (utxo[u].status # "none")' /\ (Mined(u) => Mined(u)')
    BY <1>3 DEF Evolves, Mined
  <1>4. ASSUME NEW r \in Reconcilers
        PROVE  /\ \A item \in loop[r].queue : item.output \in Outputs
               /\ loop[r].output \in Outputs
    BY <1>4 DEF OnchainTypes
  <1>5. ASSUME NEW u \in Outputs, Mined(u)
        PROVE  utxo[u].status # "none"
    BY <1>5 DEF Mined
  <1>6. QED
    BY <1>2, <1>3, <1>4, <1>5 DEF LoopInv

\* What TaskInv says of one request.
TaskOK(p, s, k, sent) ==
    /\ s \in {"idle", "address"} => k.index = 0
    /\ s = "derived" => k.index \in 0..MaxIndex
    /\ s \in {"idle", "address", "derived", "fund", "reserve", "recorded"} => k.held = 0
    /\ s \in {"send", "record"} => k.held = Cost(p)
    /\ s \in {"idle", "address", "derived", "fund", "reserve", "send"} => p \notin sent

\* The stages of HasAddress.
Addressed == {"fund", "reserve", "send", "record", "recorded", "answered"}

\* The address a request comes to have was its own, or is new in the table.
AddressOK(p, s, k, saved) ==
    k.index > 0 /\ s \in Addressed =>
        \/ HasAddress(p) /\ k.index = task[p].index
        \/ k.index \notin addresses[WalletOf[p]] /\ k.index \in saved[WalletOf[p]]

\* One request moves; nobody else's task, address or transaction does.
LEMMA RequestStep ==
    ASSUME OnchainTypes, TaskInv, AddressInv, NEW p \in Requests, NEW s, NEW k,
           stage' = [stage EXCEPT ![p] = s], task' = [task EXCEPT ![p] = k],
           broadcast' \subseteq broadcast \cup {p},
           \A w \in Wallets : addresses[w] \subseteq addresses'[w],
           TaskOK(p, s, k, broadcast'), AddressOK(p, s, k, addresses')
    PROVE  TaskInv' /\ AddressInv'
  <1>1. /\ stage'[p] = s /\ task'[p] = k
        /\ \A q \in Requests : q # p => stage'[q] = stage[q] /\ task'[q] = task[q]
    BY DEF OnchainTypes
  <1>2. ASSUME NEW q \in Requests PROVE TaskOK(q, stage'[q], task'[q], broadcast')
    <2>1. CASE q = p
      BY <1>1, <2>1
    <2>2. CASE q # p
      BY <1>1, <2>2 DEF TaskInv, TaskOK
    <2>3. QED
      BY <2>1, <2>2
  <1>3. TaskInv'
    BY <1>2 DEF TaskInv, TaskOK, Cost
  <1>4. ASSUME NEW q \in Requests, q # p
        PROVE  /\ HasAddress(q)' <=> HasAddress(q)
               /\ (task[q].index)' = task[q].index
    BY <1>1, <1>4 DEF HasAddress
  <1>5. /\ HasAddress(p)' <=> k.index > 0 /\ s \in Addressed
        /\ (task[p].index)' = k.index
    BY <1>1 DEF HasAddress, Addressed
  <1>6. WalletOf[p] \in Wallets
    BY OnchainAssumption
  <1>7. ASSUME HasAddress(p)'
        PROVE  /\ k.index \in addresses'[WalletOf[p]]
               /\ \A q \in Requests : q # p /\ WalletOf[p] = WalletOf[q] /\ HasAddress(q) =>
                      k.index # task[q].index
    BY <1>5, <1>6, <1>7 DEF AddressOK, AddressInv
  <1>8. \A q \in Requests : HasAddress(q)' => (task[q].index)' \in (addresses[WalletOf[q]])'
    BY <1>4, <1>5, <1>7, OnchainAssumption DEF AddressInv
  <1>9. ASSUME NEW q \in Requests, NEW o \in Requests, q # o, WalletOf[q] = WalletOf[o],
               HasAddress(q)', HasAddress(o)'
        PROVE  (task[q].index)' # (task[o].index)'
    <2>1. CASE q = p
      BY <1>4, <1>5, <1>7, <1>9, <2>1
    <2>2. CASE o = p
      BY <1>4, <1>5, <1>7, <1>9, <2>2
    <2>3. CASE q # p /\ o # p
      BY <1>4, <1>9, <2>3 DEF AddressInv
    <2>4. QED
      BY <2>1, <2>2, <2>3
  <1>10. QED
    BY <1>3, <1>8, <1>9 DEF AddressInv

MidStages == {"address", "derived", "fund", "reserve", "send", "record", "recorded"}

\* What a step of p may do to the keys: it goes on and the key stays its own; it takes a key
\* nobody holds or has been answered; or it ends and gives its key back.
KeyOK(p, s, answered, flying) ==
    \/ /\ Keyed(p) /\ s \in MidStages => Mid(p)
       /\ flying = inflight /\ answered \subseteq cached
    \/ /\ Key(p) \notin inflight \cup cached
       /\ flying = inflight \cup {Key(p)} /\ answered = cached
    \/ /\ s \notin MidStages /\ p \in Withdrawals \cup Pegouts /\ (Keyed(p) => Mid(p))
       /\ flying = inflight \ {Key(p)}
       /\ answered \subseteq cached \cup {Key(p)}

\* A request that moves keeps the idempotency keys in order if what it does to its own key fits
\* where it goes.
LEMMA KeyStep ==
    ASSUME OnchainTypes, KeyInv, NEW p \in Requests, NEW s,
           stage' = [stage EXCEPT ![p] = s], KeyOK(p, s, cached', inflight')
    PROVE  KeyInv'
  <1>1. /\ Mid(p)' <=> s \in MidStages
        /\ \A q \in Requests : q # p => (Mid(q)' <=> Mid(q))
    BY DEF OnchainTypes, Mid, MidStages
  <1>a. \A q : Keyed(q)' = Keyed(q) /\ Key(q)' = Key(q)
    BY DEF Keyed, Key
  <1>2. CASE /\ Keyed(p) /\ s \in MidStages => Mid(p)
             /\ inflight' = inflight /\ cached' \subseteq cached
    <2>1. \A q \in Requests : Keyed(q) /\ Mid(q)' => Mid(q)
      BY <1>1, <1>2
    <2>2. QED
      BY <1>2, <2>1 DEF KeyInv, Key, Keyed
  <1>3. CASE /\ Key(p) \notin inflight \cup cached
             /\ inflight' = inflight \cup {Key(p)} /\ cached' = cached
    <2>1. \A q \in Requests : q # p /\ Keyed(q) /\ Mid(q)' => Mid(q) /\ Key(q) # Key(p)
      BY <1>1, <1>3 DEF KeyInv
    <2>2. \A q \in Requests : Keyed(q) /\ Mid(q)' =>
              Key(q) \in inflight' /\ Key(q) \notin cached'
      BY <1>3, <2>1 DEF KeyInv
    <2>3. \A q, o \in Requests :
              Keyed(q) /\ Keyed(o) /\ Mid(q)' /\ Mid(o)' /\ Key(q) = Key(o) => q = o
      BY <2>1 DEF KeyInv
    <2>4. QED
      BY <2>2, <2>3 DEF KeyInv, Key, Keyed
  <1>4. CASE /\ s \notin MidStages /\ p \in Withdrawals \cup Pegouts /\ (Keyed(p) => Mid(p))
             /\ inflight' = inflight \ {Key(p)}
             /\ cached' \subseteq cached \cup {Key(p)}
    <2>1. ASSUME NEW q \in Requests, Keyed(q), Mid(q)'
          PROVE  q # p /\ Mid(q) /\ Key(q) # Key(p)
      <3>1. q # p /\ Mid(q)
        BY <1>1, <1>4, <2>1
      <3>2. CASE Keyed(p)
        BY <1>4, <2>1, <3>1, <3>2 DEF KeyInv
      <3>3. CASE ~Keyed(p)
        <4>1. KeyOf[p] = NoKey
          BY <1>4, <3>3, OnchainAssumption DEF Keyed
        <4>2. KeyOf[q] # NoKey
          BY <2>1 DEF Keyed
        <4>3. QED
          BY <3>1, <4>1, <4>2 DEF Key
      <3>4. QED
        BY <3>2, <3>3
    <2>2. \A q \in Requests : Keyed(q) /\ Mid(q)' =>
              Key(q) \in inflight' /\ Key(q) \notin cached'
      BY <1>4, <2>1 DEF KeyInv
    <2>3. \A q, o \in Requests :
              Keyed(q) /\ Keyed(o) /\ Mid(q)' /\ Mid(o)' /\ Key(q) = Key(o) => q = o
      BY <2>1 DEF KeyInv
    <2>4. QED
      BY <2>2, <2>3 DEF KeyInv, Key, Keyed
  <1>5. QED
    BY <1>2, <1>3, <1>4 DEF KeyOK

Tasks == [index : Nat, inputs : SUBSET Outputs, held : Nat]
Chain == [Outputs -> [wallet : Wallets, amount : Nat, status : UtxoStatuses]]

\* One request moves to s with the task k, and does to the rest what a request may do.
LEMMA MoveStep ==
    ASSUME OInv, NEW p \in Requests, NEW s \in Stages, NEW k \in Tasks,
           stage' = [stage EXCEPT ![p] = s], task' = [task EXCEPT ![p] = k],
           onchain' \in [Wallets -> Nat], addresses' \in [Wallets -> SUBSET (0..MaxIndex)],
           utxo' \in Chain, broadcast \subseteq broadcast', broadcast' \subseteq broadcast \cup {p},
           broadcast' \subseteq Withdrawals \cup Pegouts,
           mined' = mined, deposits' = deposits, loop' = loop,
           \A w \in Wallets : addresses[w] \subseteq addresses'[w],
           Evolves(utxo, utxo', broadcast'),
           TaskOK(p, s, k, broadcast'), AddressOK(p, s, k, addresses'),
           KeyOK(p, s, cached', inflight')
    PROVE  OInv'
  <1>1. TaskInv' /\ AddressInv'
    BY RequestStep DEF OInv
  <1>2. KeyInv'
    BY KeyStep DEF OInv
  <1>3. ChainInv' /\ LoopInv'
    BY ChainStep DEF OInv
  <1>4. stage' \in [Requests -> Stages] /\ task' \in [Requests -> Tasks]
    BY DEF OInv, OnchainTypes, Tasks
  <1>5. mined' \subseteq broadcast'
    BY DEF OInv, OnchainTypes
  <1>6. OnchainTypes'
    BY <1>4, <1>5 DEF OInv, OnchainTypes, Tasks, Chain
  <1>7. QED
    BY <1>1, <1>2, <1>3, <1>6 DEF OInv

\* A chain that does not move has nothing to show.
LEMMA SameChain ==
    ASSUME NEW after, after = utxo, NEW sent
    PROVE  Evolves(utxo, after, sent)
  BY DEF Evolves

\* A request that has ended or whose row is written stays so.
Settled == Ended \cup {"recorded"}

\* The rows stand as long as what they stand for is not undone.
LEMMA RowsFrame ==
    ASSUME RowsInv, transactions' = transactions, mined \subseteq mined', paid \subseteq paid',
           \A p \in Requests : stage[p] \in Settled => stage'[p] \in Settled,
           \A u \in Outputs : deposits[u] = "credited" => deposits'[u] = "credited",
           \A i \in Invoices : invoice[i] = "settled" => invoice'[i] = "settled"
    PROVE  RowsInv'
  <1>1. \A t \in transactions :
            t.type = "withdrawal" => /\ t.ref \in Withdrawals \cup Pegouts /\ t.ref \in Requests
                                     /\ stage'[t.ref] \in Settled
                                     /\ t.status = "confirmed" => t.ref \in mined'
    BY DEF RowsInv, Settled, Requests
  <1>2. \A t \in transactions :
            /\ t.type = "deposit" => t.ref \in Outputs /\ deposits'[t.ref] = "credited"
            /\ t.type = "ln_receive" =>
                  t.ref \in Invoices /\ (t.status = "confirmed" => invoice'[t.ref] = "settled")
            /\ t.type = "ln_send" => t.ref \in paid'
    BY DEF RowsInv
  <1>3. QED
    BY <1>1, <1>2 DEF RowsInv, Settled

\* A request that moves on, before or after its row is written.
LEMMA RowsMove ==
    ASSUME OnchainTypes, RowsInv, NEW p \in Requests, NEW s,
           stage' = [stage EXCEPT ![p] = s], stage[p] \in Settled => s \in Settled,
           transactions' = transactions, mined' = mined, deposits' = deposits,
           UNCHANGED lightningVars
    PROVE  RowsInv'
  <1>1. \A q \in Requests : stage[q] \in Settled => stage'[q] \in Settled
    BY DEF OnchainTypes
  <1>2. invoice' = invoice /\ paid' = paid
    BY DEF lightningVars, node
  <1>3. QED
    BY <1>1, <1>2, RowsFrame

-----------------------------------------------------------------------------
(* The steps of a request.                                                 *)

\* What the invariant and the assumptions say of one request.
LEMMA RequestFacts ==
    ASSUME OInv, NEW p \in Requests
    PROVE  /\ TaskOK(p, stage[p], task[p], broadcast)
           /\ task[p] \in Tasks /\ stage[p] \in Stages
           /\ task = [task EXCEPT ![p] = task[p]]
           /\ WalletOf[p] \in Wallets /\ Cost(p) \in Nat /\ Cost(p) > 0
           /\ onchain \in [Wallets -> Nat] /\ addresses \in [Wallets -> SUBSET (0..MaxIndex)]
           /\ utxo \in Chain /\ broadcast \subseteq Withdrawals \cup Pegouts
  <1>1. TaskOK(p, stage[p], task[p], broadcast)
    BY DEF OInv, TaskInv, TaskOK
  <1>2. Cost(p) \in Nat /\ Cost(p) > 0 /\ WalletOf[p] \in Wallets
    BY OnchainAssumption DEF Cost
  <1>3. QED
    BY <1>1, <1>2 DEF OInv, OnchainTypes, Tasks, Chain

\* withdraw_onchain: the cached answer, the refusal of a key in flight, or a start.
LEMMA BeginInv ==
    ASSUME OInv, RowsInv, NEW p \in Withdrawals, Begin(p), UNCHANGED lightningVars
    PROVE  OInv' /\ RowsInv'
  <1>0. p \in Requests
    BY DEF Requests
  <1>1. stage[p] = "idle" /\ task[p].index = 0 /\ task[p].held = 0 /\ p \notin broadcast
    BY <1>0, RequestFacts DEF Begin, TaskOK
  <1>2. PICK s \in {"answered", "refused", "address"} :
            stage' = [stage EXCEPT ![p] = s] /\ KeyOK(p, s, cached', inflight')
    BY DEF Begin, Goto, KeyOK, MidStages
  <1>3. s \in Stages /\ task[p] \in Tasks /\ task' = [task EXCEPT ![p] = task[p]]
    BY <1>0, <1>2, RequestFacts DEF Begin, Stages, Ended
  <1>4. TaskOK(p, s, task[p], broadcast') /\ AddressOK(p, s, task[p], addresses')
    BY <1>1, <1>2 DEF TaskOK, AddressOK, Begin, chain
  <1>5. Evolves(utxo, utxo', broadcast')
    BY SameChain DEF Begin, chain
  <1>6. OInv'
    BY <1>0, <1>2, <1>3, <1>4, <1>5, MoveStep, RequestFacts DEF Begin, chain, db
  <1>7. QED
    BY <1>0, <1>1, <1>2, <1>6, RowsMove DEF Begin, chain, db, OInv, Settled, Ended

\* _derive_address and get_next_derivation_index, of the wallet or the marketplace.
LEMMA DeriveAddressInv ==
    ASSUME OInv, RowsInv, NEW p \in Requests, DeriveAddress(p), UNCHANGED lightningVars
    PROVE  OInv' /\ RowsInv'
  <1> DEFINE n == NextDerivationIndex(WalletOf[p])
  <1>1. /\ stage[p] \in {"address", "idle"}
        /\ Keyed(p) => Mid(p)
    BY OnchainAssumption DEF DeriveAddress, Keyed, Mid
  <1>2. task[p].index = 0 /\ task[p].held = 0 /\ p \notin broadcast /\ task[p] \in Tasks
    BY <1>1, RequestFacts DEF TaskOK
  <1>3. n \in 0..MaxIndex
    BY NextIndex, RequestFacts, WalletAssumption DEF DeriveAddress
  <1>4. PICK s \in {"derived", "failed"}, k \in Tasks :
            /\ stage' = [stage EXCEPT ![p] = s] /\ task' = [task EXCEPT ![p] = k]
            /\ k.held = 0 /\ (s = "derived" => k.index \in 0..MaxIndex)
    <2> HIDE DEF n
    <2>1. CASE task' = [task EXCEPT ![p].index = n] /\ Goto(p, "derived")
      <3>1. [task[p] EXCEPT !.index = n] \in Tasks /\ [task[p] EXCEPT !.index = n].held = 0
        BY <1>2, <1>3 DEF Tasks
      <3>2. [task[p] EXCEPT !.index = n].index = n
        BY <1>2 DEF Tasks
      <3>3. task' = [task EXCEPT ![p] = [task[p] EXCEPT !.index = n]]
        BY <2>1
      <3>4. QED
        BY <1>3, <2>1, <3>1, <3>2, <3>3 DEF Goto
    <2>2. CASE Goto(p, "failed") /\ UNCHANGED task
      BY <1>2, <2>2, RequestFacts DEF Goto
    <2>3. QED
      BY <2>1, <2>2 DEF DeriveAddress, n
  <1>5. s \in Stages /\ TaskOK(p, s, k, broadcast') /\ AddressOK(p, s, k, addresses')
    BY <1>2, <1>4 DEF TaskOK, AddressOK, Addressed, DeriveAddress, chain, Stages, Ended
  <1>6. KeyOK(p, s, cached', inflight')
    BY <1>1, <1>4 DEF KeyOK, DeriveAddress, memory
  <1>7. Evolves(utxo, utxo', broadcast')
    BY SameChain DEF DeriveAddress, chain
  <1>8. OInv'
    BY <1>4, <1>5, <1>6, <1>7, MoveStep, RequestFacts DEF DeriveAddress, chain, db
  <1>9. QED
    BY <1>1, <1>4, <1>8, RowsMove DEF DeriveAddress, chain, db, OInv, Settled, Ended

\* save_wallet_address: a new index, or the unique constraint refuses it.
LEMMA SaveAddressInv ==
    ASSUME OInv, RowsInv, NEW p \in Requests, SaveAddress(p), UNCHANGED lightningVars
    PROVE  OInv' /\ RowsInv'
  <1>1. stage[p] = "derived" /\ Mid(p)
    BY DEF SaveAddress, Mid
  <1>2. /\ task[p].index \in 0..MaxIndex /\ task[p].held = 0 /\ p \notin broadcast
        /\ task' = [task EXCEPT ![p] = task[p]]
    BY <1>1, RequestFacts DEF TaskOK, SaveAddress
  <1>3. PICK s \in {"fund", "answered", "failed"} :
            /\ stage' = [stage EXCEPT ![p] = s]
            /\ addresses' \in [Wallets -> SUBSET (0..MaxIndex)]
            /\ \A w \in Wallets : addresses[w] \subseteq addresses'[w]
            /\ s \in Addressed => /\ task[p].index \notin addresses[WalletOf[p]]
                                  /\ task[p].index \in addresses'[WalletOf[p]]
    <2>1. CASE SaveWalletAddress(WalletOf[p], task[p].index)
               /\ Goto(p, IF p \in Withdrawals THEN "fund" ELSE "answered")
      <3>1. /\ addresses' \in [Wallets -> SUBSET (0..MaxIndex)]
            /\ \A w \in Wallets : addresses[w] \subseteq addresses'[w]
            /\ task[p].index \notin addresses[WalletOf[p]]
            /\ task[p].index \in addresses'[WalletOf[p]]
        BY <1>2, <2>1, RequestFacts DEF SaveWalletAddress
      <3>2. QED
        BY <2>1, <3>1 DEF Goto
    <2>2. CASE Goto(p, "failed") /\ UNCHANGED db
      BY <2>2, RequestFacts DEF Goto, db, Addressed
    <2>3. QED
      BY <2>1, <2>2 DEF SaveAddress
  <1>4. s \in Stages /\ TaskOK(p, s, task[p], broadcast') /\ AddressOK(p, s, task[p], addresses')
    BY <1>2, <1>3 DEF TaskOK, AddressOK, SaveAddress, chain, Stages, Ended
  <1>5. KeyOK(p, s, cached', inflight')
    BY <1>1, <1>3 DEF KeyOK, SaveAddress, memory
  <1>6. Evolves(utxo, utxo', broadcast')
    BY SameChain DEF SaveAddress, chain
  <1>7. onchain' = onchain /\ deposits' = deposits /\ transactions' = transactions
    BY DEF SaveAddress, SaveWalletAddress, db
  <1>8. OInv'
    BY <1>2, <1>3, <1>4, <1>5, <1>6, <1>7, MoveStep, RequestFacts DEF SaveAddress, chain
  <1>9. QED
    BY <1>1, <1>3, <1>7, <1>8, RowsMove DEF SaveAddress, chain, OInv, Settled, Ended

\* walletcreatefundedpsbt: inputs, or the failure that gives the key back.
LEMMA FundInv ==
    ASSUME OInv, RowsInv, NEW p \in Withdrawals, Fund(p), UNCHANGED lightningVars
    PROVE  OInv' /\ RowsInv'
  <1>0. p \in Requests
    BY DEF Requests
  <1>1. stage[p] = "fund" /\ Mid(p)
    BY DEF Fund, Mid
  <1>2. task[p].held = 0 /\ p \notin broadcast /\ task[p] \in Tasks
    BY <1>0, <1>1, RequestFacts DEF TaskOK
  <1>3. PICK s \in {"reserve", "failed"}, k \in Tasks :
            /\ stage' = [stage EXCEPT ![p] = s] /\ task' = [task EXCEPT ![p] = k]
            /\ k.held = 0 /\ k.index = task[p].index
            /\ KeyOK(p, s, cached', inflight')
    <2>1. \/ \E inputs \in SUBSET Outputs :
                /\ task' = [task EXCEPT ![p].inputs = inputs]
                /\ Goto(p, "reserve") /\ UNCHANGED inflight
          \/ Goto(p, "failed") /\ ClearInflight(p) /\ UNCHANGED task
      BY DEF Fund
    <2>2. cached' = cached
      BY DEF Fund
    <2>3. CASE Goto(p, "failed") /\ ClearInflight(p) /\ UNCHANGED task
      BY <1>0, <1>1, <1>2, <2>2, <2>3, RequestFacts
         DEF Goto, KeyOK, MidStages, ClearInflight
    <2>4. ASSUME NEW inputs \in SUBSET Outputs, task' = [task EXCEPT ![p].inputs = inputs],
                 Goto(p, "reserve"), UNCHANGED inflight
          PROVE  \E s \in {"reserve", "failed"}, k \in Tasks :
                    /\ stage' = [stage EXCEPT ![p] = s] /\ task' = [task EXCEPT ![p] = k]
                    /\ k.held = 0 /\ k.index = task[p].index
                    /\ KeyOK(p, s, cached', inflight')
      <3>1. /\ [task[p] EXCEPT !.inputs = inputs] \in Tasks
            /\ [task[p] EXCEPT !.inputs = inputs].held = 0
            /\ [task[p] EXCEPT !.inputs = inputs].index = task[p].index
        BY <1>2 DEF Tasks
      <3>2. task' = [task EXCEPT ![p] = [task[p] EXCEPT !.inputs = inputs]]
        BY <2>4
      <3>3. KeyOK(p, "reserve", cached', inflight')
        BY <1>1, <2>2, <2>4 DEF KeyOK
      <3>4. QED
        BY <2>4, <3>1, <3>2, <3>3 DEF Goto
    <2>5. QED
      BY <2>1, <2>3, <2>4
  <1>4. s \in Stages /\ TaskOK(p, s, k, broadcast') /\ AddressOK(p, s, k, addresses')
    BY <1>1, <1>2, <1>3
       DEF TaskOK, AddressOK, Addressed, HasAddress, Fund, chain, Stages, Ended
  <1>5. Evolves(utxo, utxo', broadcast')
    BY SameChain DEF Fund, chain
  <1>6. OInv'
    BY <1>0, <1>3, <1>4, <1>5, MoveStep, RequestFacts DEF Fund, chain, db
  <1>7. QED
    BY <1>0, <1>1, <1>3, <1>6, RowsMove DEF Fund, chain, db, OInv, Settled, Ended

-----------------------------------------------------------------------------
(* The sums of the wallet, as sums of functions.                           *)

\* The satoshis of a set of outputs.
LEMMA AmountSum ==
    ASSUME NEW S \in SUBSET Outputs, IsFiniteSet(S)
    PROVE  TotalOf(S, LAMBDA u : utxo[u].amount) = SumOf(Amounts, S)
  <1> DEFINE q == Amounts
             P(g) == g = [s \in SUBSET S |-> IF s = {} THEN 0
                      ELSE LET x == CHOOSE x \in s : TRUE
                           IN utxo[x].amount + g[s \ {x}]]
             G == CHOOSE g : P(g)
  <1>1. TotalOf(S, LAMBDA u : utxo[u].amount) = G[S]
    BY DEF TotalOf, MapThenSumSet, MapThenFoldSet
  <1>2. \A s \in SUBSET S : s # {} => q[Pick(s)] = utxo[Pick(s)].amount
    BY DEF Pick, Amounts
  <1>3. ASSUME NEW g PROVE P(g) <=> Sums(g, q, S)
    <2> HIDE DEF q
    <2>1. [s \in SUBSET S |-> IF s = {} THEN 0 ELSE q[Pick(s)] + g[s \ {Pick(s)}]]
          = [s \in SUBSET S |-> IF s = {} THEN 0
                ELSE utxo[Pick(s)].amount + g[s \ {Pick(s)}]]
      BY <1>2
    <2>2. QED
      BY <2>1 DEF Sums, Pick
  <1>4. Sums(G, q, S)
    <2> HIDE DEF P, q
    <2> QED BY <1>3, SumsExist
  <1>5. QED
    BY <1>1, <1>4, SumsGiveSum

\* The amounts and fees of a set of rows.
LEMMA CostSum ==
    ASSUME NEW S \in SUBSET TransactionRow, IsFiniteSet(S)
    PROVE  TotalOf(S, LAMBDA t : t.amount + t.fee) = SumOf(Costs, S)
  <1> DEFINE q == Costs
             P(g) == g = [s \in SUBSET S |-> IF s = {} THEN 0
                      ELSE LET x == CHOOSE x \in s : TRUE
                           IN (x.amount + x.fee) + g[s \ {x}]]
             G == CHOOSE g : P(g)
  <1>1. TotalOf(S, LAMBDA t : t.amount + t.fee) = G[S]
    BY DEF TotalOf, MapThenSumSet, MapThenFoldSet
  <1>2. \A s \in SUBSET S : s # {} => q[Pick(s)] = (Pick(s).amount + Pick(s).fee)
    BY DEF Pick, Costs
  <1>3. ASSUME NEW g PROVE P(g) <=> Sums(g, q, S)
    <2> HIDE DEF q
    <2>1. [s \in SUBSET S |-> IF s = {} THEN 0 ELSE q[Pick(s)] + g[s \ {Pick(s)}]]
          = [s \in SUBSET S |-> IF s = {} THEN 0
                ELSE (Pick(s).amount + Pick(s).fee) + g[s \ {Pick(s)}]]
      BY <1>2
    <2>2. QED
      BY <2>1 DEF Sums, Pick
  <1>4. Sums(G, q, S)
    <2> HIDE DEF P, q
    <2> QED BY <1>3, SumsExist
  <1>5. QED
    BY <1>1, <1>4, SumsGiveSum

\* What a set of requests holds.
LEMMA ReservedSum ==
    ASSUME NEW S \in SUBSET Requests, IsFiniteSet(S)
    PROVE  TotalOf(S, LAMBDA p : task[p].held) = SumOf(Reserved, S)
  <1> DEFINE q == Reserved
             P(g) == g = [s \in SUBSET S |-> IF s = {} THEN 0
                      ELSE LET x == CHOOSE x \in s : TRUE
                           IN task[x].held + g[s \ {x}]]
             G == CHOOSE g : P(g)
  <1>1. TotalOf(S, LAMBDA p : task[p].held) = G[S]
    BY DEF TotalOf, MapThenSumSet, MapThenFoldSet
  <1>2. \A s \in SUBSET S : s # {} => q[Pick(s)] = task[Pick(s)].held
    BY DEF Pick, Reserved
  <1>3. ASSUME NEW g PROVE P(g) <=> Sums(g, q, S)
    <2> HIDE DEF q
    <2>1. [s \in SUBSET S |-> IF s = {} THEN 0 ELSE q[Pick(s)] + g[s \ {Pick(s)}]]
          = [s \in SUBSET S |-> IF s = {} THEN 0
                ELSE task[Pick(s)].held + g[s \ {Pick(s)}]]
      BY <1>2
    <2>2. QED
      BY <2>1 DEF Sums, Pick
  <1>4. Sums(G, q, S)
    <2> HIDE DEF P, q
    <2> QED BY <1>3, SumsExist
  <1>5. QED
    BY <1>1, <1>4, SumsGiveSum

PaidOut == [t \in TransactionRow |-> t.amount]

\* The amounts of a set of rows.
LEMMA RowAmountSum ==
    ASSUME NEW S \in SUBSET TransactionRow, IsFiniteSet(S)
    PROVE  TotalOf(S, LAMBDA t : t.amount) = SumOf(PaidOut, S)
  <1> DEFINE q == PaidOut
             P(g) == g = [s \in SUBSET S |-> IF s = {} THEN 0
                      ELSE LET x == CHOOSE x \in s : TRUE
                           IN x.amount + g[s \ {x}]]
             G == CHOOSE g : P(g)
  <1>1. TotalOf(S, LAMBDA t : t.amount) = G[S]
    BY DEF TotalOf, MapThenSumSet, MapThenFoldSet
  <1>2. \A s \in SUBSET S : s # {} => q[Pick(s)] = Pick(s).amount
    BY DEF Pick, PaidOut
  <1>3. ASSUME NEW g PROVE P(g) <=> Sums(g, q, S)
    <2> HIDE DEF q
    <2>1. [s \in SUBSET S |-> IF s = {} THEN 0 ELSE q[Pick(s)] + g[s \ {Pick(s)}]]
          = [s \in SUBSET S |-> IF s = {} THEN 0
                ELSE Pick(s).amount + g[s \ {Pick(s)}]]
      BY <1>2
    <2>2. QED
      BY <2>1 DEF Sums, Pick
  <1>4. Sums(G, q, S)
    <2> HIDE DEF P, q
    <2> QED BY <1>3, SumsExist
  <1>5. QED
    BY <1>1, <1>4, SumsGiveSum

\* What the node chooses as inputs, and what comes back, is a number of satoshis.
LEMMA AmountType ==
    ASSUME OnchainTypes, NEW S \in SUBSET Outputs
    PROVE  IsFiniteSet(S) /\ TotalOf(S, LAMBDA u : utxo[u].amount) \in Nat
  <1>1. IsFiniteSet(Outputs)
    <2>1. IsFiniteSet(Withdrawals)
      BY OnchainAssumption, FS_Subset DEF Requests
    <2>2. QED
      BY <2>1, OnchainAssumption, FS_Union DEF Outputs
  <1>2. IsFiniteSet(S)
    BY <1>1, FS_Subset
  <1>3. \A u \in S : Amounts[u] \in Nat
    BY DEF OnchainTypes, Amounts
  <1>4. SumOf(Amounts, S) \in Nat
    <2>1. \A u \in S : Amounts[u] \in Int /\ Amounts[u] >= 0
      BY <1>3
    <2>2. QED
      BY <1>2, <2>1, SumType
  <1>5. QED
    BY <1>2, <1>4, AmountSum

\* ConfirmedLightning and LedgerLightning are numbers of satoshis.
LEMMA LedgerType ==
    ASSUME RowsInv, NEW w
    PROVE  LedgerLightning(w) \in Nat
  <1>1. ASSUME NEW type PROVE ConfirmedLightning(w, type) \in Nat
    <2> DEFINE S == {t \in transactions : t.wallet = w /\ t.type = type /\ t.status = "confirmed"}
    <2>1. IsFiniteSet(S) /\ S \in SUBSET TransactionRow
      BY FS_Subset DEF RowsInv
    <2>2. \A t \in S : PaidOut[t] \in Int /\ PaidOut[t] >= 0
      BY <2>1 DEF PaidOut, TransactionRow
    <2>3. ConfirmedLightning(w, type) = SumOf(PaidOut, S)
      BY <2>1, RowAmountSum DEF ConfirmedLightning
    <2>4. QED
      <3> HIDE DEF S
      <3> QED BY <2>1, <2>2, <2>3, SumType
  <1>2. QED
    BY <1>1 DEF LedgerLightning

-----------------------------------------------------------------------------
(* Reservation, broadcast and record.                                      *)

\* reserve_onchain_balance: the balance covers the cost, or nothing is taken.
LEMMA ReserveInv ==
    ASSUME OInv, RowsInv, NEW p \in Withdrawals \cup Pegouts, Reserve(p),
           p \in Withdrawals => stage[p] = "reserve",
           UNCHANGED lightningVars
    PROVE  OInv' /\ RowsInv'
  <1>0. p \in Requests
    BY DEF Requests
  <1>1. /\ stage[p] \in {"reserve", "idle"}
        /\ Keyed(p) => Mid(p)
    BY DEF Reserve, Keyed, Mid
  <1>2. task[p].held = 0 /\ p \notin broadcast /\ task[p] \in Tasks
    BY <1>0, <1>1, RequestFacts DEF TaskOK
  <1>3. stage[p] = "idle" => task[p].index = 0
    BY <1>0, RequestFacts DEF TaskOK
  <1>4. PICK s \in {"send", "failed"}, k \in Tasks :
            /\ stage' = [stage EXCEPT ![p] = s] /\ task' = [task EXCEPT ![p] = k]
            /\ k.index = task[p].index /\ (s = "send" => k.held = Cost(p))
            /\ KeyOK(p, s, cached', inflight')
            /\ onchain' \in [Wallets -> Nat]
    <2>1. CASE /\ ReserveOnchainBalance(WalletOf[p], Cost(p))
               /\ task' = [task EXCEPT ![p].held = Cost(p)]
               /\ Goto(p, "send") /\ UNCHANGED inflight
      <3>1. /\ [task[p] EXCEPT !.held = Cost(p)] \in Tasks
            /\ [task[p] EXCEPT !.held = Cost(p)].held = Cost(p)
            /\ [task[p] EXCEPT !.held = Cost(p)].index = task[p].index
        BY <1>0, <1>2, RequestFacts DEF Tasks
      <3>2. task' = [task EXCEPT ![p] = [task[p] EXCEPT !.held = Cost(p)]]
        BY <2>1
      <3>3. KeyOK(p, "send", cached', inflight')
        BY <1>1, <2>1 DEF KeyOK, Reserve
      <3>4. onchain' \in [Wallets -> Nat]
        <4>1. onchain[WalletOf[p]] - Cost(p) \in Nat
          BY <1>0, <2>1, RequestFacts DEF ReserveOnchainBalance
        <4>2. QED
          BY <1>0, <2>1, <4>1, RequestFacts DEF ReserveOnchainBalance
      <3>5. QED
        BY <2>1, <3>1, <3>2, <3>3, <3>4 DEF Goto
    <2>2. CASE Goto(p, "failed") /\ ClearInflight(p) /\ UNCHANGED <<db, task>>
      <3>1. KeyOK(p, "failed", cached', inflight')
        BY <1>1, <2>2 DEF KeyOK, MidStages, ClearInflight, Reserve
      <3>2. QED
        BY <1>0, <1>2, <2>2, <3>1, RequestFacts DEF Goto, db
    <2>3. QED
      BY <2>1, <2>2 DEF Reserve
  <1>5. s \in Stages /\ TaskOK(p, s, k, broadcast') /\ AddressOK(p, s, k, addresses')
    BY <1>1, <1>2, <1>3, <1>4
       DEF TaskOK, AddressOK, Addressed, HasAddress, Reserve, chain, Stages, Ended
  <1>6. Evolves(utxo, utxo', broadcast')
    BY SameChain DEF Reserve, chain
  <1>7. addresses' = addresses /\ deposits' = deposits /\ transactions' = transactions
    BY DEF Reserve, ReserveOnchainBalance, db
  <1>8. OInv'
    BY <1>0, <1>4, <1>5, <1>6, <1>7, MoveStep, RequestFacts DEF Reserve, chain
  <1>9. QED
    BY <1>0, <1>1, <1>4, <1>7, <1>8, RowsMove DEF Reserve, chain, OInv, Settled, Ended

\* The node accepts the transaction: its inputs are spent, its change is a new output.
LEMMA SpendEffect ==
    ASSUME OInv, NEW p \in Withdrawals \cup Pegouts, stage[p] = "send", CanSend(p), Spend(p)
    PROVE  /\ utxo' \in Chain /\ Evolves(utxo, utxo', broadcast')
           /\ broadcast' = broadcast \cup {p}
  <1> DEFINE inputs == task[p].inputs
             change == TotalOf(inputs, LAMBDA u : utxo[u].amount) - Cost(p)
             spent == [u \in Outputs |-> IF u \in inputs
                                         THEN [utxo[u] EXCEPT !.status = "spent"] ELSE utxo[u]]
             back == [wallet |-> WalletOf[p], amount |-> change, status |-> "mempool"]
  <1>0. p \in Requests
    BY DEF Requests
  <1>1. inputs \in SUBSET Outputs /\ utxo \in Chain /\ p \notin broadcast
    BY <1>0, RequestFacts DEF TaskOK, Tasks
  <1>2. change \in Int
    <2> DEFINE total == TotalOf(inputs, LAMBDA u : utxo[u].amount)
    <2>1. total \in Nat
      <3> HIDE DEF inputs
      <3> QED BY <1>1, AmountType DEF OInv
    <2>2. Cost(p) \in Nat
      BY <1>0, RequestFacts
    <2> HIDE DEF total
    <2>3. total - Cost(p) \in Int
      BY <2>1, <2>2
    <2>4. QED
      BY <2>3 DEF total
  <1>3. \A u \in inputs : utxo[u].status \in {"mempool", "confirmed"}
    BY DEF CanSend, Unspent
  <1>4. spent \in Chain
    BY <1>1 DEF Chain, UtxoStatuses
  <1>5. ASSUME NEW u \in Outputs
        PROVE  /\ spent[u].amount = utxo[u].amount /\ spent[u].wallet = utxo[u].wallet
               /\ spent[u].status = utxo[u].status
                  \/ (spent[u].status = "spent" /\ utxo[u].status \in {"mempool", "confirmed"})
    BY <1>1, <1>3, <1>5 DEF Chain
  <1>6. /\ broadcast' = broadcast \cup {p}
        /\ \/ utxo' = spent
           \/ p \in Withdrawals /\ change > 0 /\ utxo' = [spent EXCEPT ![p] = back]
    BY DEF Spend
  <1> HIDE DEF spent, change
  <1>7. CASE utxo' = spent
    BY <1>4, <1>5, <1>6, <1>7 DEF Evolves
  <1>8. CASE p \in Withdrawals /\ change > 0 /\ utxo' = [spent EXCEPT ![p] = back]
    <2>1. utxo[p].status = "none" /\ p \in Outputs
      BY <1>1, <1>8 DEF OInv, ChainInv, Outputs
    <2>2. back \in [wallet : Wallets, amount : Nat, status : UtxoStatuses] /\ back.amount > 0
      BY <1>0, <1>2, <1>8, RequestFacts DEF UtxoStatuses
    <2>3. utxo' \in Chain
      BY <1>4, <1>8, <2>2 DEF Chain
    <2>4. utxo'[p] = back
      BY <1>4, <1>8, <2>1 DEF Chain
    <2>5. \A u \in Outputs : u # p => utxo'[u] = spent[u]
      BY <1>4, <1>8 DEF Chain
    <2>6. ASSUME NEW u \in Outputs
          PROVE  /\ utxo[u].status # "none" =>
                        /\ utxo'[u].status # "none"
                        /\ utxo'[u].amount = utxo[u].amount
                        /\ utxo'[u].wallet = utxo[u].wallet
                        /\ utxo[u].status \in {"confirmed", "spent"} =>
                              utxo'[u].status \in {"confirmed", "spent"}
                 /\ utxo[u].status = "none" /\ utxo'[u].status # "none" =>
                        utxo'[u].amount > 0 /\ (u \in Withdrawals => u \in broadcast')
      <3>1. CASE u = p
        BY <1>6, <2>1, <2>2, <2>4, <3>1
      <3>2. CASE u # p
        BY <1>5, <2>5, <3>2
      <3>3. QED
        BY <3>1, <3>2
    <2>7. QED
      BY <1>6, <2>3, <2>6 DEF Evolves
  <1>9. QED
    BY <1>6, <1>7, <1>8

\* sendrawtransaction, and its answer.
LEMMA SendInv ==
    ASSUME OInv, RowsInv, NEW p \in Withdrawals \cup Pegouts, Send(p), UNCHANGED lightningVars
    PROVE  OInv' /\ RowsInv'
  <1>0. p \in Requests
    BY DEF Requests
  <1>1. stage[p] = "send" /\ Mid(p) /\ stage' = [stage EXCEPT ![p] = "record"]
    BY DEF Send, Mid, Goto
  <1>2. /\ task[p].held = Cost(p) /\ task[p] \in Tasks
        /\ task' = [task EXCEPT ![p] = task[p]]
    BY <1>0, <1>1, RequestFacts DEF TaskOK, Send
  <1>3. /\ utxo' \in Chain /\ Evolves(utxo, utxo', broadcast')
        /\ broadcast' = broadcast \cup {p}
    BY <1>1, SpendEffect DEF Send
  <1>4. /\ "record" \in Stages /\ TaskOK(p, "record", task[p], broadcast')
        /\ AddressOK(p, "record", task[p], addresses')
    BY <1>1, <1>2 DEF TaskOK, AddressOK, Addressed, HasAddress, Stages
  <1>5. KeyOK(p, "record", cached', inflight')
    BY <1>1 DEF KeyOK, Send, memory
  <1>6. OInv'
    BY <1>0, <1>1, <1>2, <1>3, <1>4, <1>5, MoveStep, RequestFacts DEF Send, db
  <1>7. QED
    BY <1>0, <1>1, <1>6, RowsMove DEF Send, db, OInv, Settled, Ended

\* Any exception of the broadcast: the reservation goes back, whatever the node did.
LEMMA SendFailsInv ==
    ASSUME OInv, RowsInv, NEW p \in Withdrawals \cup Pegouts, SendFails(p),
           UNCHANGED lightningVars
    PROVE  OInv' /\ RowsInv'
  <1> DEFINE k == [task[p] EXCEPT !.held = 0]
  <1>0. p \in Requests
    BY DEF Requests
  <1>1. stage[p] = "send" /\ Mid(p) /\ stage' = [stage EXCEPT ![p] = "failed"]
    BY DEF SendFails, Mid, Goto
  <1>2. k \in Tasks /\ task' = [task EXCEPT ![p] = k]
    BY <1>0, RequestFacts DEF Tasks, SendFails
  <1>3. /\ utxo' \in Chain /\ Evolves(utxo, utxo', broadcast')
        /\ broadcast \subseteq broadcast' /\ broadcast' \subseteq broadcast \cup {p}
        /\ mined' = mined
    <2>1. CASE UNCHANGED chain
      BY <1>0, <2>1, SameChain, RequestFacts DEF chain
    <2>2. CASE CanSend(p) /\ Spend(p) /\ UNCHANGED mined
      BY <1>1, <2>2, SpendEffect
    <2>3. QED
      BY <2>1, <2>2 DEF SendFails
  <1>4. /\ "failed" \in Stages /\ TaskOK(p, "failed", k, broadcast')
        /\ AddressOK(p, "failed", k, addresses')
    BY DEF TaskOK, AddressOK, Addressed, Stages, Ended
  <1>5. KeyOK(p, "failed", cached', inflight')
    BY <1>1 DEF KeyOK, SendFails, ClearInflight, MidStages
  <1>6. /\ onchain' \in [Wallets -> Nat] /\ addresses' = addresses
        /\ deposits' = deposits /\ transactions' = transactions
    <2>1. task[p].held \in Nat
      BY <1>0, RequestFacts DEF Tasks
    <2>2. onchain[WalletOf[p]] + task[p].held \in Nat
      BY <1>0, <2>1, RequestFacts
    <2>3. QED
      BY <1>0, <2>2, RequestFacts DEF SendFails, ReleaseOnchainBalance
  <1> HIDE DEF k
  <1>7. OInv'
    BY <1>0, <1>1, <1>2, <1>3, <1>4, <1>5, <1>6, MoveStep, RequestFacts DEF SendFails
  <1>8. QED
    BY <1>0, <1>1, <1>3, <1>6, <1>7, RowsMove DEF OInv, Settled, Ended

\* The release fails too: the reservation stays, and nothing is remembered or forgotten.
LEMMA ReleaseFailsInv ==
    ASSUME OInv, RowsInv, NEW p \in Withdrawals \cup Pegouts, ReleaseFails(p),
           UNCHANGED lightningVars
    PROVE  OInv' /\ RowsInv'
  <1>0. p \in Requests
    BY DEF Requests
  <1>1. stage[p] = "send" /\ Mid(p) /\ stage' = [stage EXCEPT ![p] = "failed"]
    BY DEF ReleaseFails, Mid, Goto
  <1>2. task[p] \in Tasks /\ task' = [task EXCEPT ![p] = task[p]]
    BY <1>0, RequestFacts DEF ReleaseFails
  <1>3. /\ utxo' \in Chain /\ Evolves(utxo, utxo', broadcast')
        /\ broadcast \subseteq broadcast' /\ broadcast' \subseteq broadcast \cup {p}
        /\ mined' = mined
    <2>1. CASE UNCHANGED chain
      BY <1>0, <2>1, SameChain, RequestFacts DEF chain
    <2>2. CASE CanSend(p) /\ Spend(p) /\ UNCHANGED mined
      BY <1>1, <2>2, SpendEffect
    <2>3. QED
      BY <2>1, <2>2 DEF ReleaseFails
  <1>4. /\ "failed" \in Stages /\ TaskOK(p, "failed", task[p], broadcast')
        /\ AddressOK(p, "failed", task[p], addresses')
    BY DEF TaskOK, AddressOK, Addressed, Stages, Ended
  <1>5. KeyOK(p, "failed", cached', inflight')
    BY <1>1 DEF KeyOK, ReleaseFails, memory, MidStages
  <1>6. OInv'
    BY <1>0, <1>1, <1>2, <1>3, <1>4, <1>5, MoveStep, RequestFacts DEF ReleaseFails, db
  <1>7. QED
    BY <1>0, <1>1, <1>3, <1>6, RowsMove DEF ReleaseFails, db, OInv, Settled, Ended

\* The ledger row of a withdrawal or a peg-out: its first, because the request had none.
LEMMA RecordInv ==
    ASSUME OInv, RowsInv, NEW p \in Withdrawals \cup Pegouts, Record(p), UNCHANGED lightningVars
    PROVE  OInv' /\ RowsInv'
  <1> DEFINE k == [task[p] EXCEPT !.held = 0]
             row == Row(WalletOf[p], "withdrawal", p, Amount, Cost(p) - Amount, "pending")
  <1>0. p \in Requests
    BY DEF Requests
  <1>1. stage[p] = "record" /\ Mid(p)
    BY DEF Record, Mid
  <1>2. /\ k \in Tasks /\ k.held = 0 /\ k.index = task[p].index
        /\ task' = [task EXCEPT ![p] = k]
    BY <1>0, RequestFacts DEF Tasks, Record
  <1>3. PICK s \in {"recorded", "failed"} :
            stage' = [stage EXCEPT ![p] = s] /\ KeyOK(p, s, cached', inflight')
    BY <1>1 DEF Record, Goto, KeyOK, ClearInflight, MidStages
  <1>4. s \in Stages /\ TaskOK(p, s, k, broadcast') /\ AddressOK(p, s, k, addresses')
    BY <1>1, <1>2, <1>3 DEF TaskOK, AddressOK, Addressed, HasAddress, Stages, Ended
  <1>5. Evolves(utxo, utxo', broadcast')
    BY SameChain DEF Record, chain
  <1>6. /\ onchain' = onchain /\ addresses' = addresses /\ deposits' = deposits
        /\ transactions' = transactions \cup {row}
    BY DEF Record, CreateOnchainWithdrawal, CreateTransaction
  <1>7. OInv'
    <2> HIDE DEF k
    <2> QED BY <1>0, <1>2, <1>3, <1>4, <1>5, <1>6, MoveStep, RequestFacts DEF Record, chain
  <1>8. row \in TransactionRow
    <2>1. Cost(p) - Amount \in Nat /\ Amount \in Nat \ {0} /\ p \in Refs
      BY OnchainAssumption DEF Cost, Outputs
    <2>2. QED
      BY <1>0, <2>1, RequestFacts DEF Row, TransactionRow, Statuses
  <1>9. \A t \in transactions : t.type = "withdrawal" => t.ref # p
    BY <1>1 DEF RowsInv, Ended
  <1>10. \A q \in Requests : stage[q] \in Settled => stage'[q] \in Settled
    BY <1>1, <1>3 DEF OInv, OnchainTypes, Settled, Ended
  <1>11. /\ row.type = "withdrawal" /\ row.ref = p /\ row.status = "pending"
         /\ stage'[p] \in Settled
    BY <1>0, <1>3 DEF Row, OInv, OnchainTypes, Settled, Ended
  <1>12. mined' = mined /\ invoice' = invoice /\ paid' = paid
    BY DEF Record, chain, lightningVars, node
  <1> HIDE DEF row
  <1>13. IsFiniteSet(transactions')
    BY <1>6, FS_AddElement DEF RowsInv
  <1>14. \A t \in transactions' :
            /\ t.type = "withdrawal" =>
                  /\ t.ref \in Withdrawals \cup Pegouts
                  /\ stage'[t.ref] \in Settled
                  /\ t.status = "confirmed" => t.ref \in mined'
            /\ t.type = "deposit" => t.ref \in Outputs /\ deposits'[t.ref] = "credited"
            /\ t.type = "ln_receive" =>
                  t.ref \in Invoices /\ (t.status = "confirmed" => invoice'[t.ref] = "settled")
            /\ t.type = "ln_send" => t.ref \in paid'
    <2>1. ASSUME NEW t \in transactions
          PROVE  /\ t.type = "withdrawal" =>
                       /\ t.ref \in Withdrawals \cup Pegouts
                       /\ stage'[t.ref] \in Settled
                       /\ t.status = "confirmed" => t.ref \in mined
      BY <1>10 DEF RowsInv, Settled, Requests
    <2>2. QED
      BY <1>6, <1>11, <1>12, <2>1 DEF RowsInv
  <1>15. \A t, u \in transactions' :
             t.type = "withdrawal" /\ u.type = "withdrawal" /\ t.ref = u.ref => t = u
    BY <1>6, <1>9, <1>11 DEF RowsInv
  <1>16. RowsInv'
    BY <1>6, <1>8, <1>13, <1>14, <1>15 DEF RowsInv, Settled
  <1>17. QED
    BY <1>7, <1>16

\* The insert fails: the transaction is out and the reservation stays.
LEMMA RecordFailsInv ==
    ASSUME OInv, RowsInv, NEW p \in Withdrawals \cup Pegouts, RecordFails(p),
           UNCHANGED lightningVars
    PROVE  OInv' /\ RowsInv'
  <1>0. p \in Requests
    BY DEF Requests
  <1>1. stage[p] = "record" /\ Mid(p) /\ stage' = [stage EXCEPT ![p] = "failed"]
    BY DEF RecordFails, Mid, Goto
  <1>2. task[p] \in Tasks /\ task' = [task EXCEPT ![p] = task[p]]
    BY <1>0, RequestFacts DEF RecordFails
  <1>3. /\ "failed" \in Stages /\ TaskOK(p, "failed", task[p], broadcast')
        /\ AddressOK(p, "failed", task[p], addresses')
    BY DEF TaskOK, AddressOK, Addressed, Stages, Ended
  <1>4. KeyOK(p, "failed", cached', inflight')
    BY <1>1 DEF KeyOK, RecordFails, ClearInflight, MidStages
  <1>5. Evolves(utxo, utxo', broadcast')
    BY SameChain DEF RecordFails, chain
  <1>6. OInv'
    BY <1>0, <1>1, <1>2, <1>3, <1>4, <1>5, MoveStep, RequestFacts DEF RecordFails, chain, db
  <1>7. QED
    BY <1>0, <1>1, <1>6, RowsMove DEF RecordFails, chain, db, OInv, Settled, Ended

\* The answer is cached for its key, and the key is free again.
LEMMA AnswerInv ==
    ASSUME OInv, RowsInv, NEW p \in Withdrawals \cup Pegouts, Answer(p), UNCHANGED lightningVars
    PROVE  OInv' /\ RowsInv'
  <1>0. p \in Requests
    BY DEF Requests
  <1>1. stage[p] = "recorded" /\ Mid(p) /\ stage' = [stage EXCEPT ![p] = "answered"]
    BY DEF Answer, Mid, Goto
  <1>2. task[p] \in Tasks /\ task' = [task EXCEPT ![p] = task[p]]
    BY <1>0, RequestFacts DEF Answer
  <1>3. /\ "answered" \in Stages /\ TaskOK(p, "answered", task[p], broadcast')
        /\ AddressOK(p, "answered", task[p], addresses')
    BY <1>1 DEF TaskOK, AddressOK, Addressed, HasAddress, Stages, Ended
  <1>4. KeyOK(p, "answered", cached', inflight')
    BY <1>1 DEF KeyOK, Answer, ClearInflight, MidStages
  <1>5. Evolves(utxo, utxo', broadcast')
    BY SameChain DEF Answer, chain
  <1>6. OInv'
    BY <1>0, <1>1, <1>2, <1>3, <1>4, <1>5, MoveStep, RequestFacts DEF Answer, chain, db
  <1>7. QED
    BY <1>0, <1>1, <1>6, RowsMove DEF Answer, chain, db, OInv, Settled, Ended

\* A replica restarts: its requests end, and its keys go with its memory.
LEMMA RestartInv ==
    ASSUME OInv, RowsInv, NEW replica, Restart(replica), UNCHANGED lightningVars
    PROVE  OInv' /\ RowsInv'
  <1>1. /\ UNCHANGED <<onchain, transactions, deposits, addresses, utxo, broadcast, mined>>
        /\ UNCHANGED <<task, loop, invoice, paid>>
    BY DEF Restart, db, chain, lightningVars, node
  <1>2. \A p \in Requests :
            IF ReplicaOf[p] = replica /\ Running(p) THEN stage'[p] = "crashed"
                                                    ELSE stage'[p] = stage[p]
    BY DEF Restart
  <1>3. stage' \in [Requests -> Stages]
    BY DEF Restart, OInv, OnchainTypes, Stages, Ended
  <1>4. OnchainTypes'
    BY <1>1, <1>3 DEF OInv, OnchainTypes
  <1>5. ASSUME NEW p \in Requests
        PROVE  TaskOK(p, stage'[p], task[p], broadcast)
    <2>1. TaskOK(p, stage[p], task[p], broadcast)
      BY RequestFacts
    <2>2. CASE stage'[p] = "crashed"
      BY <2>2 DEF TaskOK
    <2>3. CASE stage'[p] = stage[p]
      BY <2>1, <2>3
    <2>4. QED
      BY <1>2, <2>2, <2>3
  <1>6. TaskInv'
    BY <1>1, <1>5 DEF TaskInv, TaskOK, Cost
  <1>7. \A p \in Requests : HasAddress(p)' => HasAddress(p)
    BY <1>1, <1>2 DEF HasAddress
  <1>8. AddressInv'
    BY <1>1, <1>7 DEF AddressInv, OInv
  <1>9. ASSUME NEW p \in Requests, Mid(p)'
        PROVE  Mid(p) /\ ReplicaOf[p] # replica
    BY <1>2, <1>9 DEF Mid, Running, Ended
  <1>10. ASSUME NEW p \in Requests, Keyed(p), Mid(p)'
         PROVE  Key(p) \in inflight' /\ Key(p) \notin cached'
    <2>1. Key(p) \in inflight /\ Key(p) \notin cached /\ ReplicaOf[p] # replica
      BY <1>9, <1>10 DEF OInv, KeyInv
    <2>2. Key(p)[1] = ReplicaOf[p]
      BY DEF Key
    <2>3. QED
      BY <2>1, <2>2 DEF Restart
  <1>11. \A p, q \in Requests :
             Keyed(p) /\ Keyed(q) /\ Mid(p)' /\ Mid(q)' /\ Key(p) = Key(q) => p = q
    BY <1>9 DEF OInv, KeyInv
  <1>12. KeyInv'
    BY <1>10, <1>11 DEF KeyInv, Key, Keyed
  <1>13. ChainInv' /\ LoopInv'
    BY <1>1 DEF OInv, ChainInv, LoopInv, Mined
  <1>14. \A p \in Requests : stage[p] \in Settled => stage'[p] \in Settled
    BY <1>2 DEF Settled, Ended
  <1>15. RowsInv'
    BY <1>1, <1>14, RowsFrame
  <1>16. QED
    BY <1>4, <1>6, <1>8, <1>12, <1>13, <1>15 DEF OInv

\* A cached answer is forgotten after its time.
LEMMA CacheExpiresInv ==
    ASSUME OInv, RowsInv, NEW k, CacheExpires(k), UNCHANGED lightningVars
    PROVE  OInv' /\ RowsInv'
  <1>1. /\ UNCHANGED <<onchain, transactions, deposits, addresses, utxo, broadcast, mined>>
        /\ UNCHANGED <<inflight, stage, task, loop, invoice, paid>>
        /\ cached' \subseteq cached
    BY DEF CacheExpires, db, chain, lightningVars, node
  <1>2. OnchainTypes' /\ TaskInv' /\ AddressInv'
    BY <1>1 DEF OInv, OnchainTypes, TaskInv, AddressInv, HasAddress
  <1>3. KeyInv'
    BY <1>1 DEF OInv, KeyInv, Key, Keyed, Mid
  <1>4. ChainInv' /\ LoopInv'
    BY <1>1 DEF OInv, ChainInv, LoopInv, Mined
  <1>5. RowsInv'
    BY <1>1, RowsFrame
  <1>6. QED
    BY <1>2, <1>3, <1>4, <1>5 DEF OInv

-----------------------------------------------------------------------------
(* The chain, and the loops.                                               *)

\* What the requests rely on, while none of them moves.
LEMMA RequestsStay ==
    ASSUME OInv, UNCHANGED <<stage, task, broadcast, addresses, cached, inflight>>
    PROVE  TaskInv' /\ AddressInv' /\ KeyInv'
  <1>1. TaskInv' /\ AddressInv'
    BY DEF OInv, TaskInv, AddressInv, HasAddress
  <1>2. KeyInv'
    BY DEF OInv, KeyInv, Key, Keyed, Mid
  <1>3. QED
    BY <1>1, <1>2

\* The chain moves on its own.
LEMMA OutsideStep ==
    ASSUME OInv, RowsInv, utxo' \in Chain, Evolves(utxo, utxo', broadcast),
           mined \subseteq mined', mined' \subseteq broadcast,
           UNCHANGED <<db, broadcast, memory, stage, task, loop>>, UNCHANGED lightningVars
    PROVE  OInv' /\ RowsInv'
  <1>1. /\ UNCHANGED <<onchain, transactions, deposits, addresses, broadcast, cached, inflight>>
        /\ UNCHANGED <<stage, task, loop, invoice, paid>>
    BY DEF db, memory, lightningVars, node
  <1>2. OnchainTypes'
    BY <1>1 DEF OInv, OnchainTypes, Chain
  <1>3. ChainInv' /\ LoopInv'
    BY <1>1, ChainStep DEF OInv
  <1>4. TaskInv' /\ AddressInv' /\ KeyInv'
    BY <1>1, RequestsStay
  <1>5. RowsInv'
    BY <1>1, RowsFrame
  <1>6. QED
    BY <1>2, <1>3, <1>4, <1>5 DEF OInv

\* An outsider pays a deposit address: a new output, of some worth.
LEMMA PayEvolves ==
    ASSUME OInv, NEW c \in Coins, NEW w \in Wallets, Pay(c, w)
    PROVE  /\ utxo' \in Chain /\ Evolves(utxo, utxo', broadcast)
           /\ mined \subseteq mined' /\ mined' \subseteq broadcast
  <1>1. c \in Outputs /\ c \notin Withdrawals /\ utxo[c].status = "none"
    BY OnchainAssumption DEF Outputs, Pay
  <1>2. utxo \in Chain
    BY DEF OInv, OnchainTypes, Chain
  <1>3. [wallet |-> w, amount |-> CoinAmount, status |-> "mempool"]
            \in [wallet : Wallets, amount : Nat, status : UtxoStatuses]
    BY OnchainAssumption DEF UtxoStatuses
  <1>4. utxo' \in Chain
    BY <1>2, <1>3 DEF Pay, Chain
  <1>5. /\ utxo'[c].amount = CoinAmount
        /\ \A u \in Outputs : u # c => utxo'[u] = utxo[u]
    BY <1>1, <1>2 DEF Pay, Chain
  <1>6. CoinAmount > 0
    BY OnchainAssumption
  <1>7. Evolves(utxo, utxo', broadcast)
    BY <1>1, <1>5, <1>6 DEF Evolves
  <1>8. mined' = mined /\ mined \subseteq broadcast
    BY DEF Pay, OInv, OnchainTypes
  <1>9. QED
    BY <1>4, <1>7, <1>8

\* An output in the mempool is confirmed; nothing else becomes of it.
LEMMA ConfirmedEvolves ==
    ASSUME OInv, NEW u
    PROVE  Confirmed(u) \in Chain /\ Evolves(utxo, Confirmed(u), broadcast)
  <1>1. utxo \in Chain
    BY DEF OInv, OnchainTypes, Chain
  <1>2. CASE utxo[u].status = "mempool" /\ u \in Outputs
    <2>1. Confirmed(u) = [utxo EXCEPT ![u].status = "confirmed"]
      BY <1>2 DEF Confirmed
    <2>2. Confirmed(u) \in Chain
      BY <1>1, <1>2, <2>1 DEF Chain, UtxoStatuses
    <2>3. /\ Confirmed(u)[u].status = "confirmed"
          /\ Confirmed(u)[u].amount = utxo[u].amount /\ Confirmed(u)[u].wallet = utxo[u].wallet
          /\ \A v \in Outputs : v # u => Confirmed(u)[v] = utxo[v]
      BY <1>1, <1>2, <2>1 DEF Chain
    <2>4. QED
      BY <1>2, <2>2, <2>3 DEF Evolves
  <1>3. CASE ~(utxo[u].status = "mempool" /\ u \in Outputs)
    <2>1. Confirmed(u) = utxo
      BY <1>1, <1>3 DEF Confirmed, Chain
    <2>2. QED
      BY <1>1, <2>1, SameChain
  <1>4. QED
    BY <1>2, <1>3

\* A block, with a coin or with a transaction of the service.
Mine == (\E c \in Coins : MineCoin(c)) \/ (\E p \in broadcast : MineTransaction(p))

\* A block only confirms.
LEMMA MineEvolves ==
    ASSUME OInv, Mine
    PROVE  /\ utxo' \in Chain /\ Evolves(utxo, utxo', broadcast)
           /\ mined \subseteq mined' /\ mined' \subseteq broadcast
  <1>1. utxo \in Chain /\ mined \subseteq broadcast
    BY DEF OInv, OnchainTypes, Chain
  <1>2. CASE \E c \in Coins : MineCoin(c)
    BY <1>1, <1>2, ConfirmedEvolves DEF MineCoin
  <1>3. ASSUME NEW p \in broadcast, MineTransaction(p)
        PROVE  /\ utxo' \in Chain /\ Evolves(utxo, utxo', broadcast)
               /\ mined \subseteq mined' /\ mined' \subseteq broadcast
    <2>1. utxo' \in Chain /\ Evolves(utxo, utxo', broadcast)
      BY <1>1, <1>3, ConfirmedEvolves, SameChain DEF MineTransaction
    <2>2. mined \subseteq mined' /\ mined' \subseteq broadcast
      BY <1>1, <1>3 DEF MineTransaction
    <2>3. QED
      BY <2>1, <2>2
  <1>4. QED
    BY <1>2, <1>3 DEF Mine

\* What the outside does to the chain.
LEMMA OutsideInv ==
    ASSUME OInv, RowsInv, (\E c \in Coins, w \in Wallets : Pay(c, w)) \/ Mine,
           UNCHANGED lightningVars
    PROVE  OInv' /\ RowsInv'
  <1>1. UNCHANGED <<db, broadcast, memory, stage, task, loop>>
    BY DEF Pay, Mine, MineCoin, MineTransaction
  <1>2. CASE \E c \in Coins, w \in Wallets : Pay(c, w)
    BY <1>1, <1>2, PayEvolves, OutsideStep
  <1>3. CASE Mine
    BY <1>1, <1>3, MineEvolves, OutsideStep
  <1>4. QED
    BY <1>2, <1>3

Loops == [stage : LoopStages, queue : SUBSET [output : Outputs, confirmed : BOOLEAN],
          output : Outputs, row : DepositStatuses]

\* What LoopInv says of one loop.
LoopOK(l) ==
    /\ \A item \in l.queue : /\ utxo[item.output].status # "none"
                             /\ item.confirmed => Mined(item.output)
    /\ l.stage \in {"insert", "insert_credit", "credit"} => utxo[l.output].status # "none"
    /\ l.stage \in {"insert_credit", "credit"} => Mined(l.output)

\* A loop moves, and what it says of deposits is so on the chain.
LEMMA LoopMove ==
    ASSUME OInv, NEW r \in Reconcilers, NEW l \in Loops, loop' = [loop EXCEPT ![r] = l],
           LoopOK(l), UNCHANGED <<addresses, chain, memory, stage, task>>,
           onchain' \in [Wallets -> Nat], deposits' \in [Outputs -> DepositStatuses],
           \A u \in Outputs : /\ deposits'[u] # "none" => utxo[u].status # "none"
                              /\ deposits'[u] = "credited" => Mined(u)
    PROVE  OInv'
  <1>1. UNCHANGED <<addresses, utxo, broadcast, mined, cached, inflight, stage, task>>
    BY DEF chain, memory
  <1>2. loop' \in [Reconcilers -> Loops]
    BY DEF OInv, OnchainTypes, Loops
  <1>3. OnchainTypes'
    BY <1>1, <1>2 DEF OInv, OnchainTypes, Loops
  <1>4. TaskInv' /\ AddressInv' /\ KeyInv'
    BY <1>1, RequestsStay
  <1>5. ChainInv'
    BY <1>1 DEF OInv, ChainInv, Mined
  <1>6. ASSUME NEW q \in Reconcilers PROVE LoopOK(loop'[q])
    <2>1. CASE q = r
      BY <2>1 DEF OInv, OnchainTypes
    <2>2. CASE q # r
      BY <2>2 DEF OInv, OnchainTypes, LoopInv, LoopOK
    <2>3. QED
      BY <2>1, <2>2
  <1>7. LoopInv'
    BY <1>1, <1>6 DEF LoopInv, LoopOK, Mined
  <1>8. QED
    BY <1>3, <1>4, <1>5, <1>7 DEF OInv

\* A loop that goes to sleep holds nothing.
LEMMA IdleLoop == Idle \in Loops /\ LoopOK(Idle)
  <1>1. (CHOOSE u \in Outputs : TRUE) \in Outputs
    BY OnchainAssumption DEF Outputs
  <1>2. QED
    BY <1>1 DEF Idle, Loops, LoopOK, LoopStages, DepositStatuses

\* The chain and the requests stay, and no row is written: the rows stand.
LEMMA RowsStay ==
    ASSUME RowsInv, transactions' = transactions, mined' = mined, stage' = stage,
           \A u \in Outputs : deposits[u] = "credited" => deposits'[u] = "credited",
           UNCHANGED lightningVars
    PROVE  RowsInv'
  <1>1. invoice' = invoice /\ paid' = paid
    BY DEF lightningVars, node
  <1>2. QED
    BY <1>1, RowsFrame

\* listunspent: what the node shows is there, and confirmed when it says so.
LEMMA ScanDepositsInv ==
    ASSUME OInv, RowsInv, NEW r \in Reconcilers, ScanDeposits(r), UNCHANGED lightningVars
    PROVE  OInv' /\ RowsInv'
  <1> DEFINE seen == {[output |-> u, confirmed |-> utxo[u].status = "confirmed"] :
                          u \in {v \in Outputs : Unspent(v)}}
             l == [loop[r] EXCEPT !.stage = "scanned", !.queue = seen]
  <1>1. loop[r] \in Loops
    BY DEF OInv, OnchainTypes, Loops
  <1>2. ASSUME NEW item \in seen
        PROVE  /\ item \in [output : Outputs, confirmed : BOOLEAN]
               /\ utxo[item.output].status # "none"
               /\ item.confirmed => Mined(item.output)
    <2>1. PICK u \in Outputs :
              Unspent(u) /\ item = [output |-> u, confirmed |-> utxo[u].status = "confirmed"]
      OBVIOUS
    <2>2. item.output = u /\ item.confirmed = (utxo[u].status = "confirmed")
      BY <2>1
    <2>3. (utxo[u].status = "confirmed") \in BOOLEAN
      OBVIOUS
    <2>4. item \in [output : Outputs, confirmed : BOOLEAN]
      BY <2>1, <2>3
    <2>5. QED
      BY <2>1, <2>2, <2>4 DEF Unspent, Mined
  <1>3. seen \subseteq [output : Outputs, confirmed : BOOLEAN]
    BY <1>2
  <1>4. loop' = [loop EXCEPT ![r] = l]
    BY DEF ScanDeposits
  <1> HIDE DEF seen
  <1>5. l \in Loops /\ LoopOK(l)
    BY <1>1, <1>2, <1>3 DEF Loops, LoopStages, LoopOK
  <1>6. UNCHANGED <<onchain, transactions, deposits, addresses, mined>>
    BY DEF ScanDeposits, db, chain
  <1>7. /\ onchain \in [Wallets -> Nat] /\ deposits \in [Outputs -> DepositStatuses]
        /\ \A u \in Outputs : /\ deposits[u] # "none" => utxo[u].status # "none"
                              /\ deposits[u] = "credited" => Mined(u)
    BY DEF OInv, OnchainTypes, ChainInv
  <1> HIDE DEF l
  <1>8. OInv'
    BY <1>4, <1>5, <1>6, <1>7, LoopMove DEF ScanDeposits
  <1>9. QED
    BY <1>6, <1>8, RowsStay DEF ScanDeposits

\* One output of the snapshot.
LEMMA ReadDepositInv ==
    ASSUME OInv, RowsInv, NEW r \in Reconcilers, NEW u \in Outputs, ReadDeposit(r, u),
           UNCHANGED lightningVars
    PROVE  OInv' /\ RowsInv'
  <1>1. loop[r] \in Loops /\ deposits \in [Outputs -> DepositStatuses]
    BY DEF OInv, OnchainTypes, Loops
  <1>2. LoopOK(loop[r])
    BY DEF OInv, LoopInv, LoopOK
  <1> DEFINE s(item) == IF deposits[u] = "none"
                        THEN IF item.confirmed THEN "insert_credit" ELSE "insert"
                        ELSE IF item.confirmed /\ deposits[u] = "pending"
                        THEN "credit" ELSE "scanned"
             after(item) == [loop[r] EXCEPT !.queue = loop[r].queue \ {item}, !.output = u,
                                            !.row = deposits[u], !.stage = s(item)]
  <1>3. PICK item \in loop[r].queue :
            item.output = u /\ loop' = [loop EXCEPT ![r] = after(item)]
    BY DEF ReadDeposit
  <1> DEFINE l == after(item)
  <1>4. loop' = [loop EXCEPT ![r] = l]
    BY <1>3
  <1>5. s(item) \in LoopStages /\ (s(item) \in {"insert_credit", "credit"} => item.confirmed)
    BY DEF LoopStages
  <1> HIDE DEF s
  <1>6. l \in Loops
    BY <1>1, <1>5 DEF Loops
  <1>7. l.queue \subseteq loop[r].queue /\ l.output = u /\ l.stage = s(item)
    BY <1>1 DEF Loops
  <1>8. utxo[u].status # "none" /\ (item.confirmed => Mined(u))
    BY <1>2, <1>3 DEF LoopOK
  <1> HIDE DEF l
  <1>9. LoopOK(l)
    BY <1>2, <1>5, <1>7, <1>8 DEF LoopOK
  <1>10. UNCHANGED <<onchain, transactions, deposits, addresses, mined>>
    BY DEF ReadDeposit, db, chain
  <1>11. /\ onchain \in [Wallets -> Nat]
         /\ \A v \in Outputs : /\ deposits[v] # "none" => utxo[v].status # "none"
                               /\ deposits[v] = "credited" => Mined(v)
    BY DEF OInv, OnchainTypes, ChainInv
  <1>12. OInv'
    BY <1>1, <1>4, <1>6, <1>9, <1>10, <1>11, LoopMove DEF ReadDeposit
  <1>13. QED
    BY <1>10, <1>12, RowsStay DEF ReadDeposit

\* The row of an output the node shows; or another loop's was first.
LEMMA RecordDepositInv ==
    ASSUME OInv, RowsInv, NEW r \in Reconcilers, RecordDeposit(r), UNCHANGED lightningVars
    PROVE  OInv' /\ RowsInv'
  <1> DEFINE u == loop[r].output
             s == IF loop[r].stage = "insert_credit" THEN "credit" ELSE "scanned"
             l == [loop[r] EXCEPT !.stage = s]
  <1>1. loop[r] \in Loops /\ deposits \in [Outputs -> DepositStatuses] /\ u \in Outputs
    BY DEF OInv, OnchainTypes, Loops
  <1>2. LoopOK(loop[r]) /\ utxo[u].status # "none"
    BY DEF OInv, LoopInv, LoopOK, RecordDeposit
  <1>3. /\ onchain \in [Wallets -> Nat]
        /\ \A v \in Outputs : /\ deposits[v] # "none" => utxo[v].status # "none"
                              /\ deposits[v] = "credited" => Mined(v)
    BY DEF OInv, OnchainTypes, ChainInv
  <1>4. UNCHANGED <<onchain, transactions, addresses, mined>>
    BY DEF RecordDeposit, InsertDeposit, db, chain
  <1>5. CASE InsertDeposit(u) /\ loop' = [loop EXCEPT ![r] = l]
    <2>1. /\ deposits[u] = "none" /\ deposits' = [deposits EXCEPT ![u] = "pending"]
      BY <1>5 DEF InsertDeposit
    <2>2. /\ deposits' \in [Outputs -> DepositStatuses]
          /\ deposits'[u] = "pending"
          /\ \A v \in Outputs : v # u => deposits'[v] = deposits[v]
      BY <1>1, <2>1 DEF DepositStatuses
    <2>3. l \in Loops /\ LoopOK(l)
      BY <1>1, <1>2 DEF Loops, LoopOK, LoopStages
    <2> HIDE DEF l, u
    <2>4. \A v \in Outputs : /\ deposits'[v] # "none" => utxo[v].status # "none"
                             /\ deposits'[v] = "credited" => Mined(v)
      BY <1>2, <1>3, <2>2
    <2>5. OInv'
      BY <1>3, <1>4, <1>5, <2>2, <2>3, <2>4, LoopMove DEF RecordDeposit
    <2>6. \A v \in Outputs : deposits[v] = "credited" => deposits'[v] = "credited"
      BY <2>1, <2>2
    <2>7. QED
      BY <1>4, <2>5, <2>6, RowsStay DEF RecordDeposit
  <1>6. CASE loop' = [loop EXCEPT ![r] = Idle] /\ UNCHANGED db
    <2>1. deposits' = deposits
      BY <1>6 DEF db
    <2>2. OInv'
      BY <1>1, <1>3, <1>4, <1>6, <2>1, LoopMove, IdleLoop DEF RecordDeposit
    <2>3. QED
      BY <1>4, <2>1, <2>2, RowsStay DEF RecordDeposit
  <1>7. QED
    BY <1>5, <1>6 DEF RecordDeposit

\* credit_confirmed_deposit: once for an output, with its row; a second time rolls back.
LEMMA CreditInv ==
    ASSUME OInv, RowsInv, NEW r \in Reconcilers, Credit(r), UNCHANGED lightningVars
    PROVE  OInv' /\ RowsInv'
  <1> DEFINE u == loop[r].output
             l == [loop[r] EXCEPT !.stage = "scanned"]
             row == Row(utxo[u].wallet, "deposit", u, utxo[u].amount, 0, "confirmed")
  <1>1. loop[r] \in Loops /\ deposits \in [Outputs -> DepositStatuses] /\ u \in Outputs
    BY DEF OInv, OnchainTypes, Loops
  <1>2. LoopOK(loop[r]) /\ utxo[u].status # "none" /\ Mined(u)
    BY DEF OInv, LoopInv, LoopOK, Credit
  <1>3. /\ onchain \in [Wallets -> Nat]
        /\ \A v \in Outputs : /\ deposits[v] # "none" => utxo[v].status # "none"
                              /\ deposits[v] = "credited" => Mined(v)
    BY DEF OInv, OnchainTypes, ChainInv
  <1>4. loop' = [loop EXCEPT ![r] = l] /\ l \in Loops /\ LoopOK(l)
    BY <1>1, <1>2 DEF Loops, LoopOK, LoopStages, Credit
  <1>5. addresses' = addresses /\ mined' = mined
    BY DEF Credit, CreditConfirmedDeposit, db, chain
  <1>6. CASE UNCHANGED db
    <2>1. UNCHANGED <<onchain, deposits, transactions>>
      BY <1>6 DEF db
    <2>2. OInv'
      <3> HIDE DEF l
      <3> QED BY <1>1, <1>3, <1>4, <1>5, <2>1, LoopMove DEF Credit
    <2>3. QED
      BY <1>5, <2>1, <2>2, RowsStay DEF Credit
  <1>7. CASE CreditConfirmedDeposit(u, utxo[u].wallet, utxo[u].amount)
    <2>1. /\ utxo[u].wallet \in Wallets /\ utxo[u].amount \in Nat /\ utxo[u].amount > 0
      BY <1>1, <1>2 DEF OInv, OnchainTypes, ChainInv
    <2>2. /\ deposits' = [deposits EXCEPT ![u] = "credited"]
          /\ onchain' = [onchain EXCEPT ![utxo[u].wallet] = @ + utxo[u].amount]
          /\ transactions' = transactions \cup {row}
      BY <1>7 DEF CreditConfirmedDeposit
    <2>3. onchain' \in [Wallets -> Nat]
      BY <1>3, <2>1, <2>2
    <2>4. /\ deposits' \in [Outputs -> DepositStatuses] /\ deposits'[u] = "credited"
          /\ \A v \in Outputs : v # u => deposits'[v] = deposits[v]
      BY <1>1, <2>2 DEF DepositStatuses
    <2>5. row \in TransactionRow /\ row.type = "deposit" /\ row.ref = u
      <3>1. u \in Refs
        BY <1>1, OnchainAssumption
      <3>2. QED
        BY <2>1, <3>1 DEF Row, TransactionRow, Statuses
    <2> HIDE DEF l, u, row
    <2>6. \A v \in Outputs : /\ deposits'[v] # "none" => utxo[v].status # "none"
                             /\ deposits'[v] = "credited" => Mined(v)
      BY <1>2, <1>3, <2>4
    <2>7. OInv'
      BY <1>4, <1>5, <2>3, <2>4, <2>6, LoopMove DEF Credit
    <2>8. \A v \in Outputs : deposits[v] = "credited" => deposits'[v] = "credited"
      BY <2>4
    <2>9. IsFiniteSet(transactions')
      BY <2>2, FS_AddElement DEF RowsInv
    <2>10. stage' = stage /\ invoice' = invoice /\ paid' = paid
      BY DEF Credit, lightningVars, node
    <2>11. \A t \in transactions' :
              /\ t.type = "withdrawal" =>
                    /\ t.ref \in Withdrawals \cup Pegouts
                    /\ stage'[t.ref] \in Settled
                    /\ t.status = "confirmed" => t.ref \in mined'
              /\ t.type = "deposit" => t.ref \in Outputs /\ deposits'[t.ref] = "credited"
              /\ t.type = "ln_receive" =>
                    t.ref \in Invoices /\ (t.status = "confirmed" => invoice'[t.ref] = "settled")
              /\ t.type = "ln_send" => t.ref \in paid'
      BY <1>1, <1>5, <2>2, <2>4, <2>5, <2>8, <2>10 DEF RowsInv, Settled
    <2>12. \A t, v \in transactions' :
               t.type = "withdrawal" /\ v.type = "withdrawal" /\ t.ref = v.ref => t = v
      BY <2>2, <2>5 DEF RowsInv
    <2>13. RowsInv'
      BY <2>2, <2>5, <2>9, <2>11, <2>12 DEF RowsInv, Settled
    <2>14. QED
      BY <2>7, <2>13
  <1>8. QED
    BY <1>6, <1>7 DEF Credit

\* Only the statuses of rows change, to what has happened.
Relabels(h) ==
    /\ h = [t \in transactions |-> h[t]]
    /\ \A t \in transactions :
          /\ h[t] \in TransactionRow
          /\ h[t].wallet = t.wallet /\ h[t].type = t.type /\ h[t].ref = t.ref
          /\ h[t].amount = t.amount /\ h[t].fee = t.fee
          /\ t.type = "withdrawal" /\ h[t].status = "confirmed" => t.ref \in mined
          /\ t.type = "ln_receive" /\ h[t].status = "confirmed" => invoice[t.ref] = "settled"

\* Rows that change their status keep what they account for.
LEMMA RelabelRows ==
    ASSUME RowsInv, NEW h, Relabels(h), transactions' = {h[t] : t \in transactions},
           UNCHANGED <<stage, mined, deposits, invoice, paid>>
    PROVE  RowsInv'
  <1>1. h \in Surjection(transactions, {h[t] : t \in transactions})
    BY DEF Relabels, Surjection
  <1>2. IsFiniteSet(transactions')
    BY <1>1, FS_Surjection DEF RowsInv
  <1>3. transactions' \subseteq TransactionRow
    BY DEF Relabels
  <1>4. ASSUME NEW t \in transactions
        PROVE  /\ h[t].type = "withdrawal" =>
                     /\ h[t].ref \in Withdrawals \cup Pegouts
                     /\ stage[h[t].ref] \in Ended \cup {"recorded"}
                     /\ h[t].status = "confirmed" => h[t].ref \in mined
               /\ h[t].type = "deposit" => h[t].ref \in Outputs /\ deposits[h[t].ref] = "credited"
               /\ h[t].type = "ln_receive" =>
                     /\ h[t].ref \in Invoices
                     /\ h[t].status = "confirmed" => invoice[h[t].ref] = "settled"
               /\ h[t].type = "ln_send" => h[t].ref \in paid
    BY DEF RowsInv, Relabels
  <1>5. ASSUME NEW s \in transactions, NEW t \in transactions, h[s].type = "withdrawal",
               h[t].type = "withdrawal", h[s].ref = h[t].ref
        PROVE  h[s] = h[t]
    BY <1>5 DEF RowsInv, Relabels
  <1>6. QED
    BY <1>2, <1>3, <1>4, <1>5 DEF RowsInv

\* update_transaction_status_by_txid, for rows of mined transactions.
LEMMA TxidRelabels ==
    ASSUME OInv, RowsInv, NEW rows, rows \subseteq {t \in PendingOnchainWithdrawals : t.ref \in mined},
           NEW h, h = [t \in transactions |->
                          IF \E row \in rows : t.wallet = row.wallet /\ t.ref = row.ref
                          THEN [t EXCEPT !.status = "confirmed"] ELSE t]
    PROVE  Relabels(h)
  <1>1. mined \subseteq Withdrawals \cup Pegouts
    BY DEF OInv, OnchainTypes
  <1>2. ASSUME NEW t \in transactions,
               \E row \in rows : t.wallet = row.wallet /\ t.ref = row.ref
        PROVE  t.ref \in mined /\ t.type # "ln_receive"
    BY <1>1, <1>2, RefAssumption DEF RowsInv
  <1>3. ASSUME NEW t \in transactions
        PROVE  /\ h[t] \in TransactionRow
               /\ h[t].wallet = t.wallet /\ h[t].type = t.type /\ h[t].ref = t.ref
               /\ h[t].amount = t.amount /\ h[t].fee = t.fee
               /\ h[t].status = t.status \/ (t.ref \in mined /\ t.type # "ln_receive")
    <2>1. t \in TransactionRow
      BY DEF RowsInv
    <2>2. CASE \E row \in rows : t.wallet = row.wallet /\ t.ref = row.ref
      <3>1. h[t] = [t EXCEPT !.status = "confirmed"]
        BY <2>2
      <3>2. QED
        BY <1>2, <2>1, <2>2, <3>1 DEF TransactionRow, Statuses
    <2>3. CASE ~\E row \in rows : t.wallet = row.wallet /\ t.ref = row.ref
      <3>1. h[t] = t
        BY <2>3
      <3>2. QED
        BY <2>1, <3>1
    <2>4. QED
      BY <2>2, <2>3
  <1>4. \A t \in transactions :
            /\ t.type = "withdrawal" /\ t.status = "confirmed" => t.ref \in mined
            /\ t.type = "ln_receive" /\ t.status = "confirmed" => invoice[t.ref] = "settled"
    BY DEF RowsInv
  <1>5. h = [t \in transactions |-> h[t]]
    OBVIOUS
  <1>6. QED
    BY <1>3, <1>4, <1>5 DEF Relabels

\* The rows of transactions in a block are confirmed.
LEMMA ReconcileInv ==
    ASSUME OInv, RowsInv, NEW r \in Reconcilers, ReconcileWithdrawals(r), UNCHANGED lightningVars
    PROVE  OInv' /\ RowsInv'
  <1>1. UNCHANGED <<onchain, deposits, addresses, mined, invoice, paid>>
    BY DEF ReconcileWithdrawals, UpdateTransactionStatusByTxid, db, chain, lightningVars, node
  <1>2. /\ onchain \in [Wallets -> Nat] /\ deposits \in [Outputs -> DepositStatuses]
        /\ \A v \in Outputs : /\ deposits[v] # "none" => utxo[v].status # "none"
                              /\ deposits[v] = "credited" => Mined(v)
    BY DEF OInv, OnchainTypes, ChainInv
  <1>3. OInv'
    BY <1>1, <1>2, LoopMove, IdleLoop DEF ReconcileWithdrawals
  <1>4. CASE UNCHANGED db
    BY <1>1, <1>3, <1>4, RowsStay DEF ReconcileWithdrawals, db
  <1>5. ASSUME NEW rows \in SUBSET {t \in PendingOnchainWithdrawals : t.ref \in mined},
               UpdateTransactionStatusByTxid(rows, "confirmed")
        PROVE  RowsInv'
    <2> DEFINE h == [t \in transactions |->
                        IF \E row \in rows : t.wallet = row.wallet /\ t.ref = row.ref
                        THEN [t EXCEPT !.status = "confirmed"] ELSE t]
    <2>1. Relabels(h)
      <3> DEFINE H == h
      <3>1. H = h
        OBVIOUS
      <3> QED BY TxidRelabels
    <2>2. transactions' = {h[t] : t \in transactions}
      BY <1>5 DEF UpdateTransactionStatusByTxid
    <2> HIDE DEF h
    <2>3. QED
      BY <1>1, <2>1, <2>2, RelabelRows DEF ReconcileWithdrawals
  <1>6. QED
    BY <1>3, <1>4, <1>5 DEF ReconcileWithdrawals

\* The loop loses its pass, and what it had read.
LEMMA LoopFailsInv ==
    ASSUME OInv, RowsInv, NEW r \in Reconcilers, LoopFails(r), UNCHANGED lightningVars
    PROVE  OInv' /\ RowsInv'
  <1>1. UNCHANGED <<onchain, transactions, deposits, addresses, mined>>
    BY DEF LoopFails, db, chain
  <1>2. /\ onchain \in [Wallets -> Nat] /\ deposits \in [Outputs -> DepositStatuses]
        /\ \A v \in Outputs : /\ deposits[v] # "none" => utxo[v].status # "none"
                              /\ deposits[v] = "credited" => Mined(v)
    BY DEF OInv, OnchainTypes, ChainInv
  <1>3. OInv'
    BY <1>1, <1>2, LoopMove, IdleLoop DEF LoopFails
  <1>4. QED
    BY <1>1, <1>3, RowsStay DEF LoopFails

-----------------------------------------------------------------------------
(* The Lightning half.                                                     *)

\* A step of the Lightning half leaves the on-chain half alone.
LEMMA OnchainStays ==
    ASSUME OInv, UNCHANGED <<onchain, deposits, addresses>>, UNCHANGED onchainVars
    PROVE  OInv'
  <1>1. /\ UNCHANGED <<utxo, broadcast, mined, cached, inflight, stage, task, loop>>
    BY DEF onchainVars, chain, memory
  <1>2. OnchainTypes' /\ ChainInv' /\ LoopInv'
    BY <1>1 DEF OInv, OnchainTypes, ChainInv, LoopInv, Mined
  <1>3. QED
    BY <1>1, <1>2, RequestsStay DEF OInv

\* An on-chain step leaves the Lightning half alone.
LEMMA LightningStays ==
    ASSUME LInv, lightning' = lightning, UNCHANGED lightningVars
    PROVE  LInv'
  BY DEF LInv, lightningVars, node

\* A new row of the Lightning ledger.
LEMMA LightningRow ==
    ASSUME RowsInv, NEW row \in TransactionRow, transactions' = transactions \cup {row},
           \/ row.type = "ln_receive" /\ row.ref \in Invoices /\ row.status = "pending"
           \/ row.type = "ln_send" /\ row.ref \in paid,
           UNCHANGED <<stage, mined, deposits, invoice, paid>>
    PROVE  RowsInv'
  <1>1. IsFiniteSet(transactions')
    BY FS_AddElement DEF RowsInv
  <1>2. \A t \in transactions' :
            /\ t.type = "withdrawal" =>
                  /\ t.ref \in Withdrawals \cup Pegouts
                  /\ stage[t.ref] \in Settled
                  /\ t.status = "confirmed" => t.ref \in mined
            /\ t.type = "deposit" => t.ref \in Outputs /\ deposits[t.ref] = "credited"
            /\ t.type = "ln_receive" =>
                  t.ref \in Invoices /\ (t.status = "confirmed" => invoice[t.ref] = "settled")
            /\ t.type = "ln_send" => t.ref \in paid
    BY DEF RowsInv, Settled
  <1>3. \A t, v \in transactions' :
             t.type = "withdrawal" /\ v.type = "withdrawal" /\ t.ref = v.ref => t = v
    BY DEF RowsInv
  <1>4. QED
    BY <1>1, <1>2, <1>3 DEF RowsInv, Settled

\* What a step of the Lightning half may do to what a caller is and holds.
LEMMA CallerMoves ==
    ASSUME LInv, NEW p \in Callers, NEW s \in LightningStages \ {"paid"}, at' = [at EXCEPT ![p] = s],
           lightning' \in [Wallets -> Nat], UNCHANGED node,
           holding' \in [Callers -> [rows : SUBSET TransactionRow, sum : Nat]],
           \A q \in Callers : \A row \in holding'[q].rows : row.type = "ln_receive"
    PROVE  LInv'
  <1>1. invoice' = invoice /\ paid' = paid
    BY DEF node
  <1>2. at' \in [Invoices \cup Callers -> LightningStages]
    BY DEF LInv
  <1>3. \A i \in Invoices : at'[i] = at[i]
    BY LightningAssumption DEF LInv
  <1>4. \A q \in Payments : at'[q] = "paid" => at[q] = "paid"
    BY DEF LInv, Callers
  <1>5. QED
    BY <1>1, <1>2, <1>3, <1>4 DEF LInv

\* create_invoice: LND has the invoice before the row is written.
LEMMA CreateInvoiceInv ==
    ASSUME WInv, NEW i \in Invoices, CreateInvoice(i) \/ Settle(i), UNCHANGED onchainVars
    PROVE  WInv'
  <1>1. UNCHANGED <<stage, mined>> /\ i \notin Callers /\ at[i] \in LightningStages
    BY LightningAssumption DEF onchainVars, chain, WInv, LInv
  <1>2. CASE AddInvoice(i)
    <2>1. UNCHANGED <<onchain, lightning, transactions, deposits, addresses, paid, holding>>
      BY <1>2 DEF AddInvoice, db
    <2>2. at[i] = "idle" /\ invoice[i] = "none"
      BY <1>2 DEF AddInvoice, WInv, LInv
    <2>3. PICK s \in {"row", "failed"} : at' = [at EXCEPT ![i] = s]
      BY <1>2 DEF AddInvoice, MoveTo
    <2>4. invoice' = [invoice EXCEPT ![i] = "open"] \/ invoice' = invoice
      BY <1>2 DEF AddInvoice
    <2>5. /\ at' \in [Invoices \cup Callers -> LightningStages] /\ at'[i] = s
          /\ \A q \in Invoices \cup Callers : q # i => at'[q] = at[q]
      BY <2>3 DEF WInv, LInv, LightningStages
    <2>6. /\ invoice' \in [Invoices -> {"none", "open", "settled", "canceled"}]
          /\ \A j \in Invoices : j # i => invoice'[j] = invoice[j]
      BY <2>4 DEF WInv, LInv
    <2>7. \A q \in Payments : at'[q] = at[q]
      BY <1>1, <2>5 DEF Callers
    <2>8. LInv'
      BY <2>1, <2>3, <2>5, <2>6, <2>7 DEF WInv, LInv
    <2>9. RowsInv'
      BY <1>1, <2>1, <2>2, <2>6, RowsFrame DEF WInv
    <2>10. QED
      BY <2>1, <2>8, <2>9, OnchainStays DEF WInv
  <1>3. CASE InsertReceive(i)
    <2>1. UNCHANGED <<onchain, lightning, deposits, addresses, invoice, paid, holding>>
      BY <1>3 DEF InsertReceive, CreateTransaction, db, node
    <2>2. at[i] = "row" /\ \E s \in {"answered", "failed"} : at' = [at EXCEPT ![i] = s]
      BY <1>3 DEF InsertReceive, MoveTo
    <2>3. PICK s \in {"answered", "failed"} : at' = [at EXCEPT ![i] = s]
      BY <2>2
    <2>4. /\ at' \in [Invoices \cup Callers -> LightningStages] /\ at'[i] = s
          /\ \A q \in Invoices \cup Callers : q # i => at'[q] = at[q]
      BY <2>3 DEF WInv, LInv, LightningStages
    <2>5. \A q \in Payments : at'[q] = at[q]
      BY <1>1, <2>4 DEF Callers
    <2>6. LInv'
      BY <2>1, <2>3, <2>4, <2>5 DEF WInv, LInv
    <2>7. RowsInv'
      <3> DEFINE row == Row(WalletOf[i], "ln_receive", i, Sats, 0, "pending")
      <3>1. /\ row \in TransactionRow /\ row.type = "ln_receive" /\ row.ref \in Invoices
            /\ row.status = "pending"
        BY LightningAssumption DEF Row, TransactionRow, Statuses
      <3>2. CASE transactions' = transactions \cup {row}
        <4> HIDE DEF row
        <4> QED BY <1>1, <2>1, <3>1, <3>2, LightningRow DEF WInv
      <3>3. CASE transactions' = transactions
        BY <1>1, <2>1, <3>3, RowsFrame DEF WInv
      <3>4. QED
        BY <1>3, <3>2, <3>3 DEF InsertReceive, CreateTransaction, db
    <2>8. QED
      BY <2>1, <2>6, <2>7, OnchainStays DEF WInv
  <1>4. CASE Settle(i)
    <2>1. UNCHANGED <<onchain, lightning, transactions, deposits, addresses, paid, at, holding>>
      BY <1>4 DEF Settle, db
    <2>2. /\ invoice[i] = "open"
          /\ invoice' \in [Invoices -> {"none", "open", "settled", "canceled"}]
          /\ \A j \in Invoices : j # i => invoice'[j] = invoice[j]
      BY <1>4 DEF Settle, WInv, LInv
    <2>3. LInv'
      BY <2>1, <2>2 DEF WInv, LInv
    <2>4. RowsInv'
      BY <1>1, <2>1, <2>2, RowsFrame DEF WInv
    <2>5. QED
      BY <2>1, <2>3, <2>4, OnchainStays DEF WInv
  <1>5. QED
    BY <1>2, <1>3, <1>4 DEF CreateInvoice

\* pay_invoice: LND pays a hash once.
LEMMA PayInvoiceInv ==
    ASSUME WInv, NEW p \in Payments, PayInvoice(p), UNCHANGED onchainVars
    PROVE  WInv'
  <1>1. UNCHANGED <<stage, mined>> /\ p \in Callers
    BY DEF onchainVars, chain, Callers
  <1>2. UNCHANGED <<onchain, lightning, transactions, deposits, addresses, invoice, holding>>
    BY DEF PayInvoice, db
  <1>3. PICK s \in {"paid", "failed", "payment_error"} :
            /\ at' = [at EXCEPT ![p] = s]
            /\ paid' \in {paid, paid \cup {HashOf[p]}}
            /\ s = "paid" => HashOf[p] \in paid'
    BY DEF PayInvoice, MoveTo
  <1>4. /\ at' \in [Invoices \cup Callers -> LightningStages] /\ at'[p] = s
        /\ \A q \in Invoices \cup Callers : q # p => at'[q] = at[q]
    BY <1>1, <1>3 DEF WInv, LInv, LightningStages
  <1>5. \A i \in Invoices : at'[i] = at[i]
    BY <1>1, <1>4, LightningAssumption
  <1>6. \A q \in Payments : at'[q] = "paid" => HashOf[q] \in paid'
    BY <1>3, <1>4 DEF WInv, LInv, Callers
  <1>7. paid \subseteq paid' /\ paid' \subseteq Hashes
    BY <1>3 DEF WInv, LInv, Hashes
  <1>8. LInv'
    BY <1>2, <1>4, <1>5, <1>6, <1>7 DEF WInv, LInv
  <1>9. RowsInv'
    BY <1>1, <1>2, <1>7, RowsFrame DEF WInv
  <1>10. QED
    BY <1>2, <1>8, <1>9, OnchainStays DEF WInv

\* The row of a payment LND made.
LEMMA RecordPaymentInv ==
    ASSUME WInv, NEW p \in Payments, RecordPayment(p), UNCHANGED onchainVars
    PROVE  WInv'
  <1> DEFINE row == Row(WalletOf[p], "ln_send", HashOf[p], Sats, 0, "confirmed")
  <1>1. UNCHANGED <<stage, mined>> /\ p \in Callers
    BY DEF onchainVars, chain, Callers
  <1>2. UNCHANGED <<onchain, lightning, deposits, addresses, invoice, paid, holding>>
    BY DEF RecordPayment, CreateTransaction, db, node
  <1>3. PICK s \in {"refresh", "failed"} : at' = [at EXCEPT ![p] = s]
    BY DEF RecordPayment, MoveTo
  <1>4. LInv'
    <2>1. s \in LightningStages \ {"paid"} /\ UNCHANGED node
      BY <1>2 DEF LightningStages, node
    <2>2. QED
      BY <1>1, <1>2, <1>3, <2>1, CallerMoves DEF WInv, LInv
  <1>5. RowsInv'
    <2>1. CASE at[p] = "paid" /\ transactions' = transactions \cup {row}
      <3>1. HashOf[p] \in paid /\ HashOf[p] \in Refs
        BY <2>1, LightningAssumption DEF WInv, LInv, Hashes
      <3>2. row \in TransactionRow /\ row.type = "ln_send" /\ row.ref \in paid
        BY <1>1, <3>1, LightningAssumption DEF Row, TransactionRow, Statuses
      <3> HIDE DEF row
      <3>3. QED
        BY <1>1, <1>2, <2>1, <3>2, LightningRow DEF WInv
    <2>2. CASE transactions' = transactions
      BY <1>1, <1>2, <2>2, RowsFrame DEF WInv
    <2>3. QED
      BY <2>1, <2>2 DEF RecordPayment, CreateTransaction, db
  <1>6. QED
    BY <1>2, <1>4, <1>5, OnchainStays DEF WInv

\* update_transaction_status of an invoice's row, by what LND says of the invoice.
LEMMA LookupRelabels ==
    ASSUME RowsInv, NEW row, row.type = "ln_receive", NEW st \in Statuses,
           st = "confirmed" => invoice[row.ref] = "settled",
           NEW h, h = [t \in transactions |->
                          IF t.wallet = row.wallet /\ t.type = row.type /\ t.ref = row.ref
                          THEN [t EXCEPT !.status = st] ELSE t]
    PROVE  Relabels(h)
  <1>1. ASSUME NEW t \in transactions
        PROVE  /\ h[t] \in TransactionRow
               /\ h[t].wallet = t.wallet /\ h[t].type = t.type /\ h[t].ref = t.ref
               /\ h[t].amount = t.amount /\ h[t].fee = t.fee
               /\ \/ h[t].status = t.status
                  \/ t.type = "ln_receive" /\ t.ref = row.ref /\ h[t].status = st
    <2>1. t \in TransactionRow
      BY DEF RowsInv
    <2>2. CASE t.wallet = row.wallet /\ t.type = row.type /\ t.ref = row.ref
      <3>1. h[t] = [t EXCEPT !.status = st]
        BY <2>2
      <3>2. QED
        BY <2>1, <2>2, <3>1 DEF TransactionRow
    <2>3. CASE ~(t.wallet = row.wallet /\ t.type = row.type /\ t.ref = row.ref)
      <3>1. h[t] = t
        BY <2>3
      <3>2. QED
        BY <2>1, <3>1
    <2>4. QED
      BY <2>2, <2>3
  <1>2. \A t \in transactions :
            /\ t.type = "withdrawal" /\ t.status = "confirmed" => t.ref \in mined
            /\ t.type = "ln_receive" /\ t.status = "confirmed" => invoice[t.ref] = "settled"
    BY DEF RowsInv
  <1>3. h = [t \in transactions |-> h[t]]
    OBVIOUS
  <1>4. QED
    BY <1>1, <1>2, <1>3 DEF Relabels

\* One invoice of a refresh.
LEMMA LookupInvoiceInv ==
    ASSUME WInv, NEW p \in Callers, LookupInvoice(p), UNCHANGED onchainVars
    PROVE  WInv'
  <1>1. UNCHANGED <<stage, mined>>
    BY DEF onchainVars, chain
  <1>2. UNCHANGED <<onchain, lightning, deposits, addresses, invoice, paid, at>>
    BY DEF LookupInvoice, UpdateTransactionStatus, db, node
  <1>3. PICK row \in holding[p].rows :
            /\ \/ invoice[row.ref] = "settled" /\ UpdateTransactionStatus(row, "confirmed")
               \/ invoice[row.ref] = "canceled" /\ UpdateTransactionStatus(row, "failed")
               \/ UNCHANGED db
            /\ holding' = [holding EXCEPT ![p].rows = @ \ {row}]
    BY DEF LookupInvoice
  <1>4. /\ holding' \in [Callers -> [rows : SUBSET TransactionRow, sum : Nat]]
        /\ \A q \in Callers : holding'[q].rows \subseteq holding[q].rows
    <2>1. ASSUME NEW q \in Callers
          PROVE  /\ holding'[q] \in [rows : SUBSET TransactionRow, sum : Nat]
                 /\ holding'[q].rows \subseteq holding[q].rows
      <3>1. CASE q = p
        BY <1>3, <3>1 DEF WInv, LInv
      <3>2. CASE q # p
        BY <1>3, <3>2 DEF WInv, LInv
      <3>3. QED
        BY <3>1, <3>2
    <2>2. QED
      BY <1>3, <2>1 DEF WInv, LInv
  <1>5. LInv'
    BY <1>2, <1>4 DEF WInv, LInv
  <1>6. row.type = "ln_receive"
    BY DEF WInv, LInv
  <1>7. ASSUME NEW st \in Statuses, UpdateTransactionStatus(row, st),
               st = "confirmed" => invoice[row.ref] = "settled"
        PROVE  RowsInv'
    <2> DEFINE h == [t \in transactions |->
                        IF t.wallet = row.wallet /\ t.type = row.type /\ t.ref = row.ref
                        THEN [t EXCEPT !.status = st] ELSE t]
    <2>1. Relabels(h)
      BY <1>6, <1>7, LookupRelabels DEF WInv
    <2>2. transactions' = {h[t] : t \in transactions}
      BY <1>7 DEF UpdateTransactionStatus
    <2> HIDE DEF h
    <2>3. QED
      BY <1>1, <1>2, <2>1, <2>2, RelabelRows DEF WInv
  <1>8. ASSUME UNCHANGED db
        PROVE  RowsInv'
    <2>1. transactions' = transactions
      BY <1>8 DEF db
    <2>2. QED
      BY <1>1, <1>2, <2>1, RowsFrame DEF WInv
  <1>9. RowsInv'
    <2>1. "confirmed" \in Statuses /\ "failed" \in Statuses
      BY DEF Statuses
    <2>2. CASE invoice[row.ref] = "settled" /\ UpdateTransactionStatus(row, "confirmed")
      BY <1>7, <2>1, <2>2
    <2>3. CASE UpdateTransactionStatus(row, "failed")
      BY <1>7, <2>1, <2>3
    <2>4. QED
      BY <1>3, <1>8, <2>2, <2>3
  <1>10. QED
    BY <1>2, <1>5, <1>9, OnchainStays DEF WInv

\* The other steps of a refresh write what it holds, and the balance.
LEMMA RefreshInv ==
    ASSUME WInv, NEW p \in Callers, UNCHANGED onchainVars,
           ListReceives(p) \/ ReadLedger(p) \/ WriteBalance(p) \/ RefreshFails(p)
    PROVE  WInv'
  <1>1. UNCHANGED <<stage, mined>> /\ WalletOf[p] \in Wallets
    BY LightningAssumption DEF onchainVars, chain
  <1>2. UNCHANGED <<onchain, transactions, deposits, addresses, invoice, paid>> /\ UNCHANGED node
    BY DEF ListReceives, ReadLedger, WriteBalance, RefreshFails, UpdateLightningBalance, db, node
  <1>3. PICK s \in LightningStages \ {"paid"} : at' = [at EXCEPT ![p] = s]
    BY DEF ListReceives, ReadLedger, WriteBalance, RefreshFails, MoveTo, LightningStages
  <1>4. holding[p] \in [rows : SUBSET TransactionRow, sum : Nat]
    BY DEF WInv, LInv
  <1>5. PICK k \in [rows : SUBSET TransactionRow, sum : Nat] :
            /\ holding' = [holding EXCEPT ![p] = k]
            /\ \A row \in k.rows : row.type = "ln_receive"
    <2>1. CASE ListReceives(p)
      <3>1. PendingLightningReceives(WalletOf[p]) \subseteq TransactionRow
        BY DEF PendingLightningReceives, WInv, RowsInv
      <3>2. [holding[p] EXCEPT !.rows = PendingLightningReceives(WalletOf[p])]
                \in [rows : SUBSET TransactionRow, sum : Nat]
        BY <1>4, <3>1
      <3>3. [holding[p] EXCEPT !.rows = PendingLightningReceives(WalletOf[p])].rows
            = PendingLightningReceives(WalletOf[p])
        BY <1>4
      <3>4. \A row \in PendingLightningReceives(WalletOf[p]) : row.type = "ln_receive"
        BY DEF PendingLightningReceives
      <3>5. holding' = [holding EXCEPT ![p] = [holding[p] EXCEPT
                            !.rows = PendingLightningReceives(WalletOf[p])]]
        BY <2>1 DEF ListReceives
      <3>6. QED
        BY <3>2, <3>3, <3>4, <3>5
    <2>2. CASE ReadLedger(p)
      <3>1. LedgerLightning(WalletOf[p]) \in Nat
        BY LedgerType DEF WInv
      <3>2. /\ [holding[p] EXCEPT !.sum = LedgerLightning(WalletOf[p])]
                   \in [rows : SUBSET TransactionRow, sum : Nat]
            /\ [holding[p] EXCEPT !.sum = LedgerLightning(WalletOf[p])].rows = holding[p].rows
        BY <1>4, <3>1
      <3>3. \A row \in holding[p].rows : row.type = "ln_receive"
        BY DEF WInv, LInv
      <3>4. holding' = [holding EXCEPT ![p] =
                [holding[p] EXCEPT !.sum = LedgerLightning(WalletOf[p])]]
        BY <2>2 DEF ReadLedger
      <3>5. QED
        BY <3>2, <3>3, <3>4
    <2>3. CASE WriteBalance(p) \/ RefreshFails(p)
      <3>1. NothingHeld \in [rows : SUBSET TransactionRow, sum : Nat] /\ NothingHeld.rows = {}
        BY DEF NothingHeld
      <3>2. QED
        BY <2>3, <3>1 DEF WriteBalance, RefreshFails
    <2>4. QED
      BY <2>1, <2>2, <2>3
  <1>6. /\ holding' \in [Callers -> [rows : SUBSET TransactionRow, sum : Nat]]
        /\ \A q \in Callers : \A row \in holding'[q].rows : row.type = "ln_receive"
    <2>1. holding' \in [Callers -> [rows : SUBSET TransactionRow, sum : Nat]]
      BY <1>5 DEF WInv, LInv
    <2>2. ASSUME NEW q \in Callers PROVE \A row \in holding'[q].rows : row.type = "ln_receive"
      <3>1. CASE q = p
        BY <1>5, <3>1 DEF WInv, LInv
      <3>2. CASE q # p
        BY <1>5, <3>2 DEF WInv, LInv
      <3>3. QED
        BY <3>1, <3>2
    <2>3. QED
      BY <2>1, <2>2
  <1>7. lightning' \in [Wallets -> Nat]
    BY <1>1, <1>4 DEF ListReceives, ReadLedger, WriteBalance, RefreshFails,
       UpdateLightningBalance, db, WInv, LInv
  <1>8. LInv'
    BY <1>2, <1>3, <1>6, <1>7, CallerMoves DEF WInv
  <1>9. RowsInv'
    BY <1>1, <1>2, RowsFrame DEF WInv
  <1>10. QED
    BY <1>2, <1>8, <1>9, OnchainStays DEF WInv

-----------------------------------------------------------------------------
(* The invariant of both halves.                                           *)

\* The wallet service starts with empty tables and an idle memory.
LEMMA WalletInitInv == Init => WInv
  <1> SUFFICES ASSUME Init PROVE WInv
    OBVIOUS
  <1>1. /\ onchain = [w \in Wallets |-> 0] /\ lightning = [w \in Wallets |-> 0]
        /\ transactions = {} /\ deposits = [u \in Outputs |-> "none"]
        /\ addresses = [w \in Wallets |-> {0}]
    BY DEF Init, TablesInit
  <1>2. /\ utxo = [u \in Outputs |-> NoUtxo] /\ broadcast = {} /\ mined = {}
        /\ stage = [p \in Requests |-> "idle"] /\ task = [p \in Requests |-> NoTask]
        /\ loop = [r \in Reconcilers |-> Idle]
    BY DEF Init, OnchainInit
  <1>3. NoUtxo \in [wallet : Wallets, amount : Nat, status : UtxoStatuses]
        /\ NoUtxo.status = "none"
    BY WalletAssumption DEF NoUtxo, UtxoStatuses
  <1>4. /\ NoTask \in [index : Nat, inputs : SUBSET Outputs, held : Nat]
        /\ NoTask.index = 0 /\ NoTask.held = 0
    BY DEF NoTask
  <1>5. /\ Idle \in Loops /\ Idle.queue = {} /\ Idle.stage = "idle"
    BY IdleLoop DEF Idle
  <1>6. 0 \in 0..MaxIndex /\ "idle" \in Stages /\ "none" \in DepositStatuses
    BY WalletAssumption DEF Stages, DepositStatuses
  <1>7. OnchainTypes
    BY <1>1, <1>2, <1>3, <1>4, <1>5, <1>6 DEF OnchainTypes, Loops
  <1>8. TaskInv /\ AddressInv /\ KeyInv
    BY <1>2, <1>4 DEF TaskInv, AddressInv, HasAddress, KeyInv, Mid
  <1>9. ChainInv /\ LoopInv
    BY <1>1, <1>2, <1>3, <1>5 DEF ChainInv, LoopInv
  <1>10. LInv
    <2>1. NothingHeld \in [rows : SUBSET TransactionRow, sum : Nat] /\ NothingHeld.rows = {}
      BY DEF NothingHeld
    <2>2. QED
      BY <1>1, <2>1 DEF Init, LightningInit, LInv, LightningStages, Callers
  <1>11. RowsInv
    BY <1>1, FS_EmptySet DEF RowsInv
  <1>12. QED
    BY <1>7, <1>8, <1>9, <1>10, <1>11 DEF OInv, WInv

\* A step of a request, whichever endpoint it came by.
RequestMoves(p) ==
    \/ WithdrawOnchain(p) \/ PegoutToMainchain(p)
    \/ CreateOnchainAddress(p) \/ EnsureWalletSettlementAddress(p)

\* Every step of a request, whichever endpoint it came by, keeps the wallets' invariants.
LEMMA RequestInv ==
    ASSUME OInv, RowsInv, NEW p \in Requests, RequestMoves(p), UNCHANGED lightningVars
    PROVE  OInv' /\ RowsInv'
  <1>1. CASE DeriveAddress(p) \/ SaveAddress(p)
    BY <1>1, DeriveAddressInv, SaveAddressInv
  <1>2. CASE p \in Withdrawals /\ (Begin(p) \/ Fund(p))
    BY <1>2, BeginInv, FundInv
  <1>3. CASE p \in Withdrawals \cup Pegouts /\ Reserve(p)
    <2>1. p \in Withdrawals => stage[p] = "reserve"
      BY <1>3, OnchainAssumption DEF Reserve
    <2>2. QED
      BY <1>3, <2>1, ReserveInv
  <1>4. CASE p \in Withdrawals \cup Pegouts /\ (Send(p) \/ SendFails(p) \/ ReleaseFails(p))
    BY <1>4, SendInv, SendFailsInv, ReleaseFailsInv
  <1>5. CASE p \in Withdrawals \cup Pegouts /\ (Record(p) \/ RecordFails(p) \/ Answer(p))
    BY <1>5, RecordInv, RecordFailsInv, AnswerInv
  <1>6. QED
    BY <1>1, <1>2, <1>3, <1>4, <1>5 DEF RequestMoves, WithdrawOnchain, PegoutToMainchain,
       CreateOnchainAddress, EnsureWalletSettlementAddress

\* A step of a reconciliation loop.
LEMMA LoopStepInv ==
    ASSUME OInv, RowsInv, NEW r \in Reconcilers, LoopStep(r), UNCHANGED lightningVars
    PROVE  OInv' /\ RowsInv'
  BY ScanDepositsInv, ReadDepositInv, RecordDepositInv, CreditInv, ReconcileInv, LoopFailsInv
     DEF LoopStep

\* The on-chain half.
LEMMA OnchainNextInv ==
    ASSUME WInv, OnchainNext, UNCHANGED lightningVars
    PROVE  WInv'
  <1>1. lightning' = lightning
    <2>1. ASSUME NEW p \in Requests, RequestMoves(p) PROVE lightning' = lightning
      BY <2>1 DEF RequestMoves, WithdrawOnchain, PegoutToMainchain, CreateOnchainAddress,
         EnsureWalletSettlementAddress, Begin, DeriveAddress, SaveAddress, SaveWalletAddress,
         Fund, Reserve, ReserveOnchainBalance, Send, SendFails, ReleaseFails, ReleaseOnchainBalance,
         Record, CreateOnchainWithdrawal, CreateTransaction, RecordFails, Answer, db
    <2>2. ASSUME NEW r \in Reconcilers, LoopStep(r) PROVE lightning' = lightning
      BY <2>2 DEF LoopStep, ScanDeposits, ReadDeposit, RecordDeposit, InsertDeposit, Credit,
         CreditConfirmedDeposit, ReconcileWithdrawals, UpdateTransactionStatusByTxid,
         LoopFails, db
    <2>3. QED
      BY <2>1, <2>2 DEF OnchainNext, RequestMoves, Pay, MineCoin, MineTransaction,
         CacheExpires, Restart, db
  <1>2. LInv'
    BY <1>1, LightningStays DEF WInv
  <1>3. OInv' /\ RowsInv'
    <2>1. OInv /\ RowsInv
      BY DEF WInv
    <2>2. ASSUME NEW p \in Requests, RequestMoves(p) PROVE OInv' /\ RowsInv'
      BY <2>1, <2>2, RequestInv
    <2>3. CASE \E r \in Reconcilers : LoopStep(r)
      BY <2>1, <2>3, LoopStepInv
    <2>4. CASE (\E c \in Coins, w \in Wallets : Pay(c, w)) \/ Mine
      BY <2>1, <2>4, OutsideInv
    <2>5. CASE \E k \in cached : CacheExpires(k)
      BY <2>1, <2>5, CacheExpiresInv
    <2>6. CASE \E replica \in Replicas : Restart(replica)
      BY <2>1, <2>6, RestartInv
    <2>7. QED
      BY <2>2, <2>3, <2>4, <2>5, <2>6 DEF OnchainNext, RequestMoves, Mine
  <1>4. QED
    BY <1>2, <1>3 DEF WInv

\* The Lightning half.
LEMMA LightningNextInv ==
    ASSUME WInv, LightningNext, UNCHANGED onchainVars
    PROVE  WInv'
  <1>1. CASE \E i \in Invoices : CreateInvoice(i) \/ Settle(i)
    BY <1>1, CreateInvoiceInv
  <1>2. CASE \E p \in Payments : PayInvoice(p) \/ RecordPayment(p)
    BY <1>2, PayInvoiceInv, RecordPaymentInv
  <1>3. CASE \E p \in Callers : LookupInvoice(p)
    BY <1>3, LookupInvoiceInv
  <1>4. CASE \E p \in Callers :
                 ListReceives(p) \/ ReadLedger(p) \/ WriteBalance(p) \/ RefreshFails(p)
    BY <1>4, RefreshInv
  <1>5. QED
    BY <1>1, <1>2, <1>3, <1>4
       DEF LightningNext, PayInvoiceStep, GetInvoice, RefreshStep, Callers

\* Nothing moves.
LEMMA WalletStutterInv ==
    ASSUME WInv, UNCHANGED vars
    PROVE  WInv'
  <1>1. /\ UNCHANGED <<onchain, lightning, deposits, addresses>>
        /\ UNCHANGED onchainVars /\ UNCHANGED lightningVars
    BY DEF vars, db
  <1>2. UNCHANGED <<transactions, stage, mined, invoice, paid>>
    BY DEF vars, db, onchainVars, chain, lightningVars, node
  <1>3. RowsInv'
    BY <1>1, <1>2, RowsFrame DEF WInv
  <1>4. QED
    BY <1>1, <1>3, OnchainStays, LightningStays DEF WInv

\* WInv holds throughout.
LEMMA WalletInv == Spec => []WInv
  <1>1. ASSUME WInv, [Next]_vars PROVE WInv'
    BY <1>1, OnchainNextInv, LightningNextInv, WalletStutterInv DEF Next
  <1>2. QED
    BY WalletInitInv, <1>1, PTL DEF Spec

-----------------------------------------------------------------------------
(* What the wallet promises.                                               *)

\* The workload is chosen once.
LEMMA WorkloadStays == Spec => [](active \in Workloads)
  <1>1. ASSUME active \in Workloads, [Next]_vars PROVE (active \in Workloads)'
    <2>1. ASSUME NEW p \in Requests, RequestMoves(p) PROVE active' = active
      BY <2>1 DEF RequestMoves, WithdrawOnchain, PegoutToMainchain, CreateOnchainAddress,
         EnsureWalletSettlementAddress, Begin, DeriveAddress, SaveAddress,
         Fund, Reserve, Send, SendFails, ReleaseFails, Record, RecordFails, Answer
    <2>2. ASSUME NEW r \in Reconcilers, LoopStep(r) PROVE active' = active
      BY <2>2 DEF LoopStep, ScanDeposits, ReadDeposit, RecordDeposit, Credit,
         ReconcileWithdrawals, LoopFails
    <2>3. CASE OnchainNext
      BY <1>1, <2>1, <2>2, <2>3 DEF OnchainNext, RequestMoves, Pay, MineCoin, MineTransaction,
         CacheExpires, Restart
    <2>4. CASE LightningNext
      BY <1>1, <2>4 DEF LightningNext, CreateInvoice, AddInvoice, InsertReceive, Settle,
         PayInvoiceStep, GetInvoice, PayInvoice, RecordPayment, RefreshStep, RefreshFails,
         ListReceives, LookupInvoice, ReadLedger, WriteBalance
    <2>5. CASE UNCHANGED vars
      BY <1>1, <2>5 DEF vars
    <2>6. QED
      BY <1>1, <2>3, <2>4, <2>5 DEF Next
  <1>2. Init => active \in Workloads
    BY DEF Init
  <1>3. QED
    BY <1>1, <1>2, PTL DEF Spec

\* Types; no interleaving overdraws a balance or gives an address twice.
THEOREM WalletTypes == Spec => []TypeOK
  <1>1. ASSUME WInv, active \in Workloads PROVE TypeOK
    <2>1. TablesTypeOK
      <3>1. DOMAIN deposits = Outputs /\ Outputs \subseteq Refs
        BY <1>1, OnchainAssumption DEF WInv, OInv, OnchainTypes
      <3>2. \A u \in Outputs : deposits[u] \in DepositStatuses
        BY <1>1 DEF WInv, OInv, OnchainTypes
      <3>3. QED
        BY <1>1, <3>1, <3>2 DEF TablesTypeOK, WInv, OInv, OnchainTypes, LInv, RowsInv
    <2>2. \A p, q \in Requests :
              p # q /\ WalletOf[p] = WalletOf[q] /\ HasAddress(p) /\ HasAddress(q)
                => task[p].index # task[q].index
      BY <1>1 DEF WInv, OInv, AddressInv
    <2>3. /\ \A u \in Outputs : /\ utxo[u].wallet \in Wallets /\ utxo[u].amount \in Nat
                                /\ utxo[u].status \in UtxoStatuses
          /\ mined \subseteq broadcast /\ broadcast \subseteq Withdrawals \cup Pegouts
          /\ \A p \in Requests : task[p].held \in Nat /\ task[p].inputs \subseteq Outputs
          /\ \A r \in Reconcilers : loop[r].output \in Outputs
      BY <1>1 DEF WInv, OInv, OnchainTypes
    <2>4. /\ paid \subseteq Hashes
          /\ \A p \in Callers : holding[p].sum \in Nat /\ holding[p].rows \subseteq TransactionRow
      BY <1>1 DEF WInv, LInv
    <2>5. QED
      BY <1>1, <2>1, <2>2, <2>3, <2>4 DEF TypeOK, UtxoStatuses
  <1>2. QED
    BY <1>1, WalletInv, WorkloadStays, PTL

\* A row says confirmed only of what happened.
THEOREM ConfirmedHappened == Spec => []ConfirmedRowsHappened
  <1>1. ASSUME WInv PROVE ConfirmedRowsHappened
    <2>1. SUFFICES ASSUME NEW t \in transactions, t.status = "confirmed"
                   PROVE  CASE t.type = "withdrawal" -> t.ref \in mined
                            [] t.type = "deposit" -> utxo[t.ref].status \in {"confirmed", "spent"}
                            [] t.type = "ln_receive" -> invoice[t.ref] = "settled"
                            [] t.type = "ln_send" -> t.ref \in paid
      BY DEF ConfirmedRowsHappened
    <2>2. t.type \in {"deposit", "withdrawal", "ln_send", "ln_receive"}
      BY <1>1 DEF WInv, RowsInv, TransactionRow
    <2>3. t.type = "deposit" => utxo[t.ref].status \in {"confirmed", "spent"}
      BY <1>1 DEF WInv, RowsInv, OInv, ChainInv, Mined
    <2>4. /\ t.type = "withdrawal" => t.ref \in mined
          /\ t.type = "ln_receive" => invoice[t.ref] = "settled"
          /\ t.type = "ln_send" => t.ref \in paid
      BY <1>1, <2>1 DEF WInv, RowsInv
    <2>5. QED
      BY <2>2, <2>3, <2>4
  <1>2. QED
    BY <1>1, WalletInv, PTL

\* While a replica remembers the answer of a key, no request with it sends.
THEOREM AnsweredKeys == Spec => AnsweredKeySendsNoMore
  <1>1. ASSUME WInv, [Next]_vars
        PROVE  [\A p \in Withdrawals :
                   Keyed(p) /\ Key(p) \in cached /\ p \notin broadcast => p \notin broadcast']_vars
    <2>1. SUFFICES ASSUME NEW p \in Withdrawals, Keyed(p), Key(p) \in cached, p \notin broadcast
                   PROVE  p \notin broadcast'
      OBVIOUS
    <2>2. p \in Requests /\ stage[p] # "send"
      BY <1>1, <2>1 DEF WInv, OInv, KeyInv, Mid, Requests
    <2>3. ASSUME NEW q \in Requests, RequestMoves(q) PROVE p \notin broadcast'
      BY <2>1, <2>2, <2>3 DEF RequestMoves, WithdrawOnchain, PegoutToMainchain,
         CreateOnchainAddress, EnsureWalletSettlementAddress, Begin, DeriveAddress, SaveAddress,
         Fund, Reserve, Send, SendFails, ReleaseFails, Spend, Record, RecordFails, Answer, chain
    <2>4. ASSUME NEW r \in Reconcilers, LoopStep(r) PROVE p \notin broadcast'
      BY <2>1, <2>4 DEF LoopStep, ScanDeposits, ReadDeposit, RecordDeposit, Credit,
         ReconcileWithdrawals, LoopFails, chain
    <2>5. CASE OnchainNext
      BY <2>1, <2>3, <2>4, <2>5 DEF OnchainNext, RequestMoves, Pay, MineCoin, MineTransaction,
         CacheExpires, Restart, chain
    <2>6. CASE UNCHANGED onchainVars \/ UNCHANGED vars
      BY <2>1, <2>6 DEF vars, onchainVars, chain
    <2>7. QED
      BY <1>1, <2>5, <2>6 DEF Next
  <1>2. QED
    BY <1>1, WalletInv, PTL DEF Spec, AnsweredKeySendsNoMore

-----------------------------------------------------------------------------
(* The satoshis: what was credited is the balance, on record, or reserved. *)

CreditedSum(w) == SumOf(Amounts, CreditedTo(w))
WithdrawnSum(w) == SumOf(Costs, WithdrawnFrom(w))
HeldSum(w) == SumOf(Reserved, RequestsOf(w))

\* All three are numbers.
LEMMA SumsTyped ==
    ASSUME OInv, RowsInv, NEW w \in Wallets
    PROVE  /\ CreditedSum(w) \in Int /\ WithdrawnSum(w) \in Int /\ HeldSum(w) \in Int
           /\ onchain[w] \in Int
           /\ IsFiniteSet(CreditedTo(w)) /\ IsFiniteSet(WithdrawnFrom(w))
           /\ IsFiniteSet(RequestsOf(w))
           /\ \A u \in Outputs : Amounts[u] \in Int
           /\ \A t \in TransactionRow : Costs[t] \in Int
           /\ \A p \in Requests : Reserved[p] \in Int
  <1>1. IsFiniteSet(CreditedTo(w)) /\ CreditedTo(w) \subseteq Outputs
    BY AmountType DEF CreditedTo, OInv
  <1>2. IsFiniteSet(WithdrawnFrom(w)) /\ WithdrawnFrom(w) \subseteq TransactionRow
    BY FS_Subset DEF WithdrawnFrom, RowsInv
  <1>3. IsFiniteSet(RequestsOf(w)) /\ RequestsOf(w) \subseteq Requests
    BY OnchainAssumption, FS_Subset DEF RequestsOf
  <1>4. \A u \in Outputs : Amounts[u] \in Int
    BY DEF Amounts, OInv, OnchainTypes
  <1>5. \A t \in TransactionRow : Costs[t] \in Int
    BY DEF Costs, TransactionRow
  <1>6. \A p \in Requests : Reserved[p] \in Int
    BY DEF Reserved, OInv, OnchainTypes
  <1>7. CreditedSum(w) \in Int
    BY <1>1, <1>4, SumType DEF CreditedSum
  <1>8. WithdrawnSum(w) \in Int
    BY <1>2, <1>5, SumType DEF WithdrawnSum
  <1>9. HeldSum(w) \in Int
    BY <1>3, <1>6, SumType DEF HeldSum
  <1>10. onchain[w] \in Int
    BY DEF OInv, OnchainTypes
  <1>11. QED
    BY <1>1, <1>2, <1>3, <1>4, <1>5, <1>6, <1>7, <1>8, <1>9, <1>10

\* Whatever the chain does, a credited output keeps its worth and its wallet.
LEMMA CreditsStay ==
    ASSUME OInv, RowsInv, Evolves(utxo, utxo', broadcast'), deposits' = deposits,
           NEW w \in Wallets
    PROVE  CreditedSum(w)' = CreditedSum(w)
  <1>1. ASSUME NEW u \in Outputs, deposits[u] = "credited"
        PROVE  utxo'[u].amount = utxo[u].amount /\ utxo'[u].wallet = utxo[u].wallet
    BY <1>1 DEF OInv, ChainInv, Evolves
  <1>2. CreditedTo(w)' = CreditedTo(w)
    BY <1>1 DEF CreditedTo
  <1>3. \A u \in CreditedTo(w) : Amounts'[u] = Amounts[u]
    BY <1>1 DEF Amounts, CreditedTo
  <1>4. SumOf(Amounts', CreditedTo(w)) = SumOf(Amounts, CreditedTo(w))
    BY <1>3, SumEqual, SumsTyped
  <1>5. CreditedSum(w)' = SumOf(Amounts', CreditedTo(w)')
    BY DEF CreditedSum
  <1>6. QED
    BY <1>2, <1>4, <1>5 DEF CreditedSum

\* Rows of other types are no withdrawals.
LEMMA WithdrawnStays ==
    ASSUME NEW w, NEW row, row.type # "withdrawal",
           transactions' \in {transactions, transactions \cup {row}}
    PROVE  WithdrawnSum(w)' = WithdrawnSum(w)
  <1>1. WithdrawnFrom(w)' = WithdrawnFrom(w)
    BY DEF WithdrawnFrom
  <1>2. WithdrawnSum(w)' = SumOf(Costs, WithdrawnFrom(w)')
    BY DEF WithdrawnSum, Costs
  <1>3. QED
    BY <1>1, <1>2 DEF WithdrawnSum

\* A new status is the same withdrawal.
LEMMA WithdrawnRelabels ==
    ASSUME OInv, RowsInv, NEW h, Relabels(h), transactions' = {h[t] : t \in transactions},
           NEW w \in Wallets
    PROVE  WithdrawnSum(w)' = WithdrawnSum(w)
  <1> DEFINE S == WithdrawnFrom(w)
  <1>1. {h[t] : t \in S} = WithdrawnFrom(w)'
    BY DEF WithdrawnFrom, Relabels
  <1>2. \A t \in S : Costs[t] \in Int /\ Costs[h[t]] = Costs[t]
    BY DEF WithdrawnFrom, Relabels, Costs, TransactionRow, RowsInv
  <1>3. \A s, t \in S : h[s] = h[t] => s = t
    BY DEF WithdrawnFrom, Relabels, RowsInv
  <1>4. SumOf(Costs, {h[t] : t \in S}) = SumOf(Costs, S)
    <2>1. IsFiniteSet(S)
      BY SumsTyped
    <2> HIDE DEF S
    <2>2. QED
      BY <1>2, <1>3, <2>1, SumImage
  <1>5. WithdrawnSum(w)' = SumOf(Costs, WithdrawnFrom(w)')
    BY DEF WithdrawnSum, Costs
  <1>6. QED
    BY <1>1, <1>4, <1>5 DEF WithdrawnSum

\* A task may change and hold as much as before.
LEMMA HeldStays ==
    ASSUME OInv, RowsInv, \A p \in Requests : task'[p].held = task[p].held, NEW w \in Wallets
    PROVE  HeldSum(w)' = HeldSum(w)
  <1>1. \A p \in RequestsOf(w) : Reserved'[p] = Reserved[p]
    BY DEF Reserved, RequestsOf
  <1>2. SumOf(Reserved', RequestsOf(w)) = SumOf(Reserved, RequestsOf(w))
    BY <1>1, SumEqual, SumsTyped
  <1>3. HeldSum(w)' = SumOf(Reserved', RequestsOf(w))
    BY DEF HeldSum, RequestsOf
  <1>4. QED
    BY <1>2, <1>3 DEF HeldSum

\* One request comes to hold sat: its wallet's sum changes by the difference.
LEMMA HeldChanges ==
    ASSUME OInv, RowsInv, NEW p \in Requests, NEW sat \in Nat,
           task' = [task EXCEPT ![p].held = sat], NEW w \in Wallets
    PROVE  HeldSum(w)' = HeldSum(w) + (IF w = WalletOf[p] THEN sat - task[p].held ELSE 0)
  <1>1. /\ Reserved'[p] = sat /\ Reserved[p] = task[p].held
        /\ \A q \in Requests : q # p => Reserved'[q] = Reserved[q]
        /\ \A q \in Requests : Reserved[q] \in Int /\ Reserved'[q] \in Int
    BY DEF Reserved, OInv, OnchainTypes
  <1>2. HeldSum(w)' = SumOf(Reserved', RequestsOf(w))
    BY DEF HeldSum, RequestsOf
  <1>3. CASE w = WalletOf[p]
    <2>1. p \in RequestsOf(w) /\ RequestsOf(w) \subseteq Requests
      BY <1>3 DEF RequestsOf
    <2>2. \A q \in RequestsOf(w) : Reserved[q] \in Int /\ Reserved'[q] \in Int
      BY <1>1, <2>1
    <2>3. \A q \in RequestsOf(w) \ {p} : Reserved'[q] = Reserved[q]
      BY <1>1, <2>1
    <2>4. SumOf(Reserved', RequestsOf(w))
          = SumOf(Reserved, RequestsOf(w)) + (Reserved'[p] - Reserved[p])
      BY <2>1, <2>2, <2>3, SumUpdate, SumsTyped
    <2>5. QED
      BY <1>1, <1>2, <1>3, <2>4 DEF HeldSum
  <1>4. CASE w # WalletOf[p]
    <2>1. \A q \in RequestsOf(w) : Reserved'[q] = Reserved[q]
      BY <1>1, <1>4 DEF RequestsOf
    <2>2. SumOf(Reserved', RequestsOf(w)) = SumOf(Reserved, RequestsOf(w))
      BY <2>1, SumEqual, SumsTyped
    <2>3. QED
      BY <1>2, <1>4, <2>2, SumsTyped DEF HeldSum
  <1>5. QED
    BY <1>3, <1>4

\* Nothing is credited, recorded or reserved, and no balance moves.
LEMMA BalanceStays ==
    ASSUME OInv, RowsInv, Balanced, onchain' = onchain,
           \A w \in Wallets : /\ CreditedSum(w)' = CreditedSum(w)
                              /\ WithdrawnSum(w)' = WithdrawnSum(w)
                              /\ HeldSum(w)' = HeldSum(w)
    PROVE  Balanced'
  <1>1. \A w \in Wallets : CreditedSum(w)' = (onchain[w])' + WithdrawnSum(w)' + HeldSum(w)'
    BY DEF Balanced, CreditedSum, WithdrawnSum, HeldSum
  <1>2. QED
    BY <1>1 DEF Balanced, CreditedSum, WithdrawnSum, HeldSum

\* reserve_onchain_balance moves the cost from the balance to the reservation.
LEMMA ReserveBalances ==
    ASSUME OInv, RowsInv, Balanced, NEW p \in Requests, Reserve(p)
    PROVE  Balanced'
  <1>1. UNCHANGED <<deposits, transactions, utxo>>
    BY DEF Reserve, ReserveOnchainBalance, db, chain
  <1>2. \A w \in Wallets : CreditedSum(w)' = CreditedSum(w) /\ WithdrawnSum(w)' = WithdrawnSum(w)
    <2>1. Evolves(utxo, utxo', broadcast')
      BY <1>1, SameChain
    <2>2. \A w \in Wallets : CreditedSum(w)' = CreditedSum(w)
      BY <1>1, <2>1, CreditsStay
    <2>3. QED
      BY <1>1, <2>2 DEF WithdrawnSum, WithdrawnFrom, Costs
  <1>3. CASE UNCHANGED <<db, task>>
    <2>1. onchain' = onchain /\ \A w \in Wallets : HeldSum(w)' = HeldSum(w)
      BY <1>3, HeldStays DEF db
    <2>2. QED
      BY <1>2, <2>1, BalanceStays
  <1>4. CASE /\ ReserveOnchainBalance(WalletOf[p], Cost(p))
             /\ task' = [task EXCEPT ![p].held = Cost(p)]
    <2>1. stage[p] \in {"reserve", "idle"} /\ Cost(p) \in Nat /\ task[p].held = 0
      BY RequestFacts DEF Reserve, TaskOK
    <2>2. \A w \in Wallets : HeldSum(w)' = HeldSum(w) + (IF w = WalletOf[p] THEN Cost(p) ELSE 0)
      <3>1. \A w \in Wallets :
                HeldSum(w)' = HeldSum(w)
                              + (IF w = WalletOf[p] THEN Cost(p) - task[p].held ELSE 0)
        BY <1>4, <2>1, HeldChanges
      <3>2. Cost(p) - task[p].held = Cost(p)
        BY <2>1
      <3>3. QED
        BY <3>1, <3>2
    <2>3. \A w \in Wallets :
              onchain'[w] = onchain[w] - (IF w = WalletOf[p] THEN Cost(p) ELSE 0)
      BY <1>4, <2>1 DEF ReserveOnchainBalance, OInv, OnchainTypes
    <2>4. ASSUME NEW w \in Wallets
          PROVE  CreditedSum(w)' = (onchain[w])' + WithdrawnSum(w)' + HeldSum(w)'
      <3>1. CreditedSum(w) = onchain[w] + WithdrawnSum(w) + HeldSum(w)
        BY DEF Balanced, CreditedSum, WithdrawnSum, HeldSum
      <3>2. QED
        BY <1>2, <2>1, <2>2, <2>3, <3>1, SumsTyped
    <2>5. QED
      BY <2>4 DEF Balanced, CreditedSum, WithdrawnSum, HeldSum
  <1>5. QED
    BY <1>3, <1>4 DEF Reserve

\* release_onchain_balance moves it back, whether the transaction went out or not.
LEMMA SendFailsBalances ==
    ASSUME OInv, RowsInv, Balanced, NEW p \in Withdrawals \cup Pegouts, SendFails(p)
    PROVE  Balanced'
  <1>0. p \in Requests
    BY DEF Requests
  <1>1. UNCHANGED <<deposits, transactions>> /\ stage[p] = "send"
    BY DEF SendFails, ReleaseOnchainBalance
  <1>2. Evolves(utxo, utxo', broadcast')
    BY <1>1, SameChain, SpendEffect DEF SendFails, chain
  <1>3. \A w \in Wallets : CreditedSum(w)' = CreditedSum(w) /\ WithdrawnSum(w)' = WithdrawnSum(w)
    <2>1. \A w \in Wallets : CreditedSum(w)' = CreditedSum(w)
      BY <1>1, <1>2, CreditsStay
    <2>2. QED
      BY <1>1, <2>1 DEF WithdrawnSum, WithdrawnFrom, Costs
  <1>4. task[p].held \in Nat
    BY <1>0, RequestFacts DEF Tasks
  <1>5. \A w \in Wallets :
            HeldSum(w)' = HeldSum(w) + (IF w = WalletOf[p] THEN 0 - task[p].held ELSE 0)
    BY <1>0, HeldChanges DEF SendFails
  <1>6. \A w \in Wallets :
            onchain'[w] = onchain[w] + (IF w = WalletOf[p] THEN task[p].held ELSE 0)
    BY <1>4 DEF SendFails, ReleaseOnchainBalance, OInv, OnchainTypes
  <1>7. ASSUME NEW w \in Wallets
        PROVE  CreditedSum(w)' = (onchain[w])' + WithdrawnSum(w)' + HeldSum(w)'
    <2>1. CreditedSum(w) = onchain[w] + WithdrawnSum(w) + HeldSum(w)
      BY DEF Balanced, CreditedSum, WithdrawnSum, HeldSum
    <2>2. QED
      BY <1>3, <1>4, <1>5, <1>6, <2>1, SumsTyped
  <1>8. QED
    BY <1>7 DEF Balanced, CreditedSum, WithdrawnSum, HeldSum

\* The ledger row takes the place of the reservation.
LEMMA RecordBalances ==
    ASSUME OInv, RowsInv, Balanced, NEW p \in Withdrawals \cup Pegouts, Record(p)
    PROVE  Balanced'
  <1> DEFINE row == Row(WalletOf[p], "withdrawal", p, Amount, Cost(p) - Amount, "pending")
  <1>0. p \in Requests
    BY DEF Requests
  <1>1. /\ UNCHANGED <<deposits, onchain, utxo>> /\ stage[p] = "record"
        /\ transactions' = transactions \cup {row}
        /\ task' = [task EXCEPT ![p].held = 0]
    BY DEF Record, CreateOnchainWithdrawal, CreateTransaction, chain
  <1>2. task[p].held = Cost(p) /\ Cost(p) \in Nat /\ WalletOf[p] \in Wallets
    BY <1>0, <1>1, RequestFacts DEF TaskOK
  <1>3. \A w \in Wallets : CreditedSum(w)' = CreditedSum(w)
    BY <1>1, SameChain, CreditsStay
  <1>4. \A w \in Wallets :
            HeldSum(w)' = HeldSum(w) + (IF w = WalletOf[p] THEN 0 - Cost(p) ELSE 0)
    BY <1>0, <1>1, <1>2, HeldChanges
  <1>5. /\ row \in TransactionRow /\ row.wallet = WalletOf[p] /\ row.type = "withdrawal"
        /\ row.ref = p /\ row.amount = Amount /\ row.fee = Cost(p) - Amount
    <2>1. Cost(p) - Amount \in Nat /\ Amount \in Nat \ {0} /\ p \in Refs
      BY OnchainAssumption DEF Cost, Outputs
    <2>2. QED
      BY <1>2, <2>1 DEF Row, TransactionRow, Statuses
  <1> HIDE DEF row
  <1>6. Costs[row] = Cost(p)
    BY <1>2, <1>5, OnchainAssumption DEF Costs
  <1>7. row \notin transactions
    BY <1>1, <1>5 DEF RowsInv, Ended
  <1>8. ASSUME NEW w \in Wallets
        PROVE  WithdrawnSum(w)' = WithdrawnSum(w) + (IF w = WalletOf[p] THEN Cost(p) ELSE 0)
    <2>1. WithdrawnSum(w)' = SumOf(Costs, WithdrawnFrom(w)')
      BY DEF WithdrawnSum, Costs
    <2>2. CASE w = WalletOf[p]
      <3>1. WithdrawnFrom(w)' = WithdrawnFrom(w) \cup {row} /\ row \notin WithdrawnFrom(w)
        BY <1>1, <1>5, <1>7, <2>2 DEF WithdrawnFrom
      <3>2. \A t \in WithdrawnFrom(w) \cup {row} : Costs[t] \in Int
        BY <1>5, SumsTyped DEF WithdrawnFrom, RowsInv
      <3>3. SumOf(Costs, WithdrawnFrom(w) \cup {row}) = Costs[row] + WithdrawnSum(w)
        BY <3>1, <3>2, SumAdd, SumsTyped DEF WithdrawnSum
      <3>4. QED
        BY <1>2, <1>6, <2>1, <2>2, <3>1, <3>3, SumsTyped
    <2>3. CASE w # WalletOf[p]
      <3>1. WithdrawnFrom(w)' = WithdrawnFrom(w)
        BY <1>1, <1>5, <2>3 DEF WithdrawnFrom
      <3>2. QED
        BY <2>1, <2>3, <3>1, SumsTyped DEF WithdrawnSum
    <2>4. QED
      BY <2>2, <2>3
  <1>9. ASSUME NEW w \in Wallets
        PROVE  CreditedSum(w)' = (onchain[w])' + WithdrawnSum(w)' + HeldSum(w)'
    <2>1. CreditedSum(w) = onchain[w] + WithdrawnSum(w) + HeldSum(w)
      BY DEF Balanced, CreditedSum, WithdrawnSum, HeldSum
    <2>2. QED
      BY <1>1, <1>2, <1>3, <1>4, <1>8, <2>1, SumsTyped
  <1>10. QED
    BY <1>9 DEF Balanced, CreditedSum, WithdrawnSum, HeldSum

\* credit_confirmed_deposit adds an output to what was credited, and its worth to the balance.
LEMMA CreditBalances ==
    ASSUME OInv, RowsInv, Balanced, NEW r \in Reconcilers, Credit(r)
    PROVE  Balanced'
  <1> DEFINE u == loop[r].output
             row == Row(utxo[u].wallet, "deposit", u, utxo[u].amount, 0, "confirmed")
  <1>1. u \in Outputs /\ UNCHANGED <<utxo, task>> /\ row.type # "withdrawal"
    BY DEF OInv, OnchainTypes, Credit, chain, Row
  <1>2. \A w \in Wallets : HeldSum(w)' = HeldSum(w)
    BY <1>1, HeldStays
  <1>3. CASE UNCHANGED db
    <2>1. UNCHANGED <<onchain, deposits, transactions>>
      BY <1>3 DEF db
    <2>2. \A w \in Wallets : CreditedSum(w)' = CreditedSum(w)
      BY <1>1, <2>1, SameChain, CreditsStay
    <2>3. \A w \in Wallets : WithdrawnSum(w)' = WithdrawnSum(w)
      BY <2>1 DEF WithdrawnSum, WithdrawnFrom, Costs
    <2>4. QED
      BY <1>2, <2>1, <2>2, <2>3, BalanceStays
  <1>4. CASE CreditConfirmedDeposit(u, utxo[u].wallet, utxo[u].amount)
    <2>1. /\ deposits[u] # "credited"
          /\ deposits' = [deposits EXCEPT ![u] = "credited"]
          /\ onchain' = [onchain EXCEPT ![utxo[u].wallet] = @ + utxo[u].amount]
          /\ transactions' = transactions \cup {row}
      BY <1>4 DEF CreditConfirmedDeposit
    <2>2. utxo[u].wallet \in Wallets /\ utxo[u].amount \in Nat
      BY <1>1 DEF OInv, OnchainTypes
    <2>3. \A w \in Wallets : WithdrawnSum(w)' = WithdrawnSum(w)
      BY <1>1, <2>1, WithdrawnStays
    <2>4. \A w \in Wallets :
              onchain'[w] = onchain[w] + (IF w = utxo[u].wallet THEN utxo[u].amount ELSE 0)
      BY <2>1, <2>2 DEF OInv, OnchainTypes
    <2> HIDE DEF u, row
    <2>5. \A v \in Outputs : deposits'[v] = IF v = u THEN "credited" ELSE deposits[v]
      BY <1>1, <2>1 DEF OInv, OnchainTypes
    <2>6. ASSUME NEW w \in Wallets
          PROVE  CreditedSum(w)' =
                     CreditedSum(w) + (IF w = utxo[u].wallet THEN utxo[u].amount ELSE 0)
      <3>1. CreditedSum(w)' = SumOf(Amounts, CreditedTo(w)')
        BY <1>1 DEF CreditedSum, Amounts
      <3>2. CASE w = utxo[u].wallet
        <4>1. CreditedTo(w)' = CreditedTo(w) \cup {u} /\ u \notin CreditedTo(w)
          BY <1>1, <2>1, <2>5, <3>2 DEF CreditedTo
        <4>2. \A v \in CreditedTo(w) \cup {u} : Amounts[v] \in Int
          BY <1>1, SumsTyped DEF CreditedTo
        <4>3. SumOf(Amounts, CreditedTo(w) \cup {u}) = Amounts[u] + CreditedSum(w)
          BY <4>1, <4>2, SumAdd, SumsTyped DEF CreditedSum
        <4>4. Amounts[u] = utxo[u].amount
          BY <1>1 DEF Amounts
        <4>5. QED
          BY <2>2, <3>1, <3>2, <4>1, <4>3, <4>4, SumsTyped
      <3>3. CASE w # utxo[u].wallet
        <4>1. CreditedTo(w)' = CreditedTo(w)
          BY <1>1, <2>5, <3>3 DEF CreditedTo
        <4>2. QED
          BY <3>1, <3>3, <4>1, SumsTyped DEF CreditedSum
      <3>4. QED
        BY <3>2, <3>3
    <2>7. ASSUME NEW w \in Wallets
          PROVE  CreditedSum(w)' = (onchain[w])' + WithdrawnSum(w)' + HeldSum(w)'
      <3>1. CreditedSum(w) = onchain[w] + WithdrawnSum(w) + HeldSum(w)
        BY DEF Balanced, CreditedSum, WithdrawnSum, HeldSum
      <3>2. QED
        BY <1>2, <2>2, <2>3, <2>4, <2>6, <3>1, SumsTyped
    <2>8. QED
      BY <2>7 DEF Balanced, CreditedSum, WithdrawnSum, HeldSum
  <1>5. QED
    BY <1>3, <1>4 DEF Credit

\* A step that leaves balances, deposits and withdrawals as they are, and every reservation.
LEMMA OtherBalances ==
    ASSUME OInv, RowsInv, Balanced, UNCHANGED <<onchain, deposits>>,
           Evolves(utxo, utxo', broadcast'), \A p \in Requests : task'[p].held = task[p].held,
           \A w \in Wallets : WithdrawnSum(w)' = WithdrawnSum(w)
    PROVE  Balanced'
  BY CreditsStay, HeldStays, BalanceStays

\* No row is written.
LEMMA SameRows ==
    ASSUME transactions' = transactions
    PROVE  \A w \in Wallets : WithdrawnSum(w)' = WithdrawnSum(w)
  BY DEF WithdrawnSum, WithdrawnFrom, Costs

\* The steps of a request that move no satoshi.
LEMMA RequestBalances ==
    ASSUME OInv, RowsInv, Balanced, NEW p \in Requests, RequestMoves(p)
    PROVE  Balanced'
  <1>1. CASE Reserve(p)
    BY <1>1, ReserveBalances
  <1>2. CASE p \in Withdrawals \cup Pegouts /\ (SendFails(p) \/ Record(p))
    BY <1>2, SendFailsBalances, RecordBalances
  <1>3. CASE Begin(p) \/ DeriveAddress(p) \/ SaveAddress(p) \/ Fund(p) \/ RecordFails(p)
             \/ Answer(p)
    <2>1. UNCHANGED <<onchain, deposits, transactions, utxo>>
      BY <1>3 DEF Begin, DeriveAddress, SaveAddress, SaveWalletAddress, Fund, RecordFails,
         Answer, chain, db
    <2>2. \A q \in Requests : task'[q].held = task[q].held
      <3>1. CASE task' = task
        BY <3>1
      <3>2. ASSUME NEW n, task' = [task EXCEPT ![p].index = n]
            PROVE  \A q \in Requests : task'[q].held = task[q].held
        BY <3>2 DEF OInv, OnchainTypes
      <3>3. ASSUME NEW n, task' = [task EXCEPT ![p].inputs = n]
            PROVE  \A q \in Requests : task'[q].held = task[q].held
        BY <3>3 DEF OInv, OnchainTypes
      <3>4. QED
        BY <1>3, <3>1, <3>2, <3>3 DEF Begin, DeriveAddress, SaveAddress, Fund, RecordFails, Answer
    <2>3. QED
      BY <2>1, <2>2, SameChain, SameRows, OtherBalances
  <1>4. CASE p \in Withdrawals \cup Pegouts /\ (Send(p) \/ ReleaseFails(p))
    <2>1. UNCHANGED <<onchain, deposits, transactions, task>>
      BY <1>4 DEF Send, ReleaseFails, db
    <2>2. Evolves(utxo, utxo', broadcast')
      BY <1>4, SameChain, SpendEffect DEF Send, ReleaseFails, chain
    <2>3. QED
      BY <2>1, <2>2, SameRows, OtherBalances
  <1>5. QED
    BY <1>1, <1>2, <1>3, <1>4 DEF RequestMoves, WithdrawOnchain, PegoutToMainchain,
       CreateOnchainAddress, EnsureWalletSettlementAddress

\* A loop credits, or records what moves no satoshi.
LEMMA LoopBalances ==
    ASSUME OInv, RowsInv, Balanced, NEW r \in Reconcilers, LoopStep(r)
    PROVE  Balanced'
  <1>1. CASE Credit(r)
    BY <1>1, CreditBalances
  <1>2. CASE ScanDeposits(r) \/ (\E u \in Outputs : ReadDeposit(r, u)) \/ LoopFails(r)
    <2>1. UNCHANGED <<onchain, deposits, transactions, utxo, task>>
      BY <1>2 DEF ScanDeposits, ReadDeposit, LoopFails, db, chain
    <2>2. QED
      BY <2>1, SameChain, SameRows, OtherBalances
  <1>3. CASE RecordDeposit(r)
    <2>1. UNCHANGED <<onchain, transactions, utxo, task>>
      BY <1>3 DEF RecordDeposit, InsertDeposit, db, chain
    <2>2. ASSUME NEW w \in Wallets PROVE CreditedSum(w)' = CreditedSum(w)
      <3>1. \A u \in Outputs : deposits'[u] = "credited" <=> deposits[u] = "credited"
        BY <1>3 DEF RecordDeposit, InsertDeposit, db, OInv, OnchainTypes
      <3>2. CreditedTo(w)' = CreditedTo(w) /\ Amounts' = Amounts
        BY <2>1, <3>1 DEF CreditedTo, Amounts
      <3>3. CreditedSum(w)' = SumOf(Amounts', CreditedTo(w)')
        BY DEF CreditedSum
      <3>4. QED
        BY <3>2, <3>3 DEF CreditedSum
    <2>3. \A w \in Wallets : HeldSum(w)' = HeldSum(w)
      BY <2>1, HeldStays
    <2>4. QED
      BY <2>1, <2>2, <2>3, SameRows, BalanceStays
  <1>4. CASE ReconcileWithdrawals(r)
    <2>1. UNCHANGED <<onchain, deposits, utxo, task>>
      BY <1>4 DEF ReconcileWithdrawals, UpdateTransactionStatusByTxid, db, chain
    <2>2. CASE UNCHANGED db
      BY <2>1, <2>2, SameChain, SameRows, OtherBalances DEF db
    <2>3. ASSUME NEW rows \in SUBSET {t \in PendingOnchainWithdrawals : t.ref \in mined},
                 UpdateTransactionStatusByTxid(rows, "confirmed")
          PROVE  Balanced'
      <3> DEFINE h == [t \in transactions |->
                          IF \E row \in rows : t.wallet = row.wallet /\ t.ref = row.ref
                          THEN [t EXCEPT !.status = "confirmed"] ELSE t]
      <3>1. Relabels(h)
        BY TxidRelabels
      <3>2. transactions' = {h[t] : t \in transactions}
        BY <2>3 DEF UpdateTransactionStatusByTxid
      <3> HIDE DEF h
      <3>3. \A w \in Wallets : WithdrawnSum(w)' = WithdrawnSum(w)
        BY <3>1, <3>2, WithdrawnRelabels
      <3>4. QED
        BY <2>1, <3>3, SameChain, OtherBalances
    <2>4. QED
      BY <1>4, <2>2, <2>3 DEF ReconcileWithdrawals
  <1>5. QED
    BY <1>1, <1>2, <1>3, <1>4 DEF LoopStep

\* The chain, the cache and a restart move no satoshi of the ledger.
LEMMA OutsideBalances ==
    ASSUME OInv, RowsInv, Balanced,
           \/ (\E c \in Coins, w \in Wallets : Pay(c, w)) \/ Mine
           \/ \E k \in cached : CacheExpires(k)
           \/ \E replica \in Replicas : Restart(replica)
    PROVE  Balanced'
  <1>1. UNCHANGED <<onchain, deposits, transactions, broadcast, task>>
    BY DEF Pay, Mine, MineCoin, MineTransaction, CacheExpires, Restart, db, chain
  <1>2. Evolves(utxo, utxo', broadcast')
    <2>1. CASE (\E c \in Coins, w \in Wallets : Pay(c, w)) \/ Mine
      BY <1>1, <2>1, PayEvolves, MineEvolves
    <2>2. CASE utxo' = utxo
      BY <2>2, SameChain
    <2>3. QED
      BY <2>1, <2>2 DEF CacheExpires, Restart, chain
  <1>3. QED
    BY <1>1, <1>2, SameRows, OtherBalances

\* Lightning rows are no withdrawals.
LEMMA LightningBalances ==
    ASSUME WInv, Balanced, LightningNext, UNCHANGED onchainVars
    PROVE  Balanced'
  <1>1. UNCHANGED <<utxo, task>> /\ OInv /\ RowsInv
    BY DEF onchainVars, chain, WInv
  <1>2. UNCHANGED <<onchain, deposits>>
    BY DEF LightningNext, CreateInvoice, AddInvoice, InsertReceive, Settle, PayInvoiceStep,
       GetInvoice, PayInvoice, RecordPayment, RefreshStep, RefreshFails, ListReceives,
       LookupInvoice, ReadLedger, WriteBalance, UpdateLightningBalance, CreateTransaction,
       UpdateTransactionStatus, db
  <1>3. ASSUME \A w \in Wallets : WithdrawnSum(w)' = WithdrawnSum(w)
        PROVE  Balanced'
    BY <1>1, <1>2, <1>3, SameChain, OtherBalances
  <1>4. ASSUME NEW row, row.type # "withdrawal",
               transactions' \in {transactions, transactions \cup {row}}
        PROVE  Balanced'
    BY <1>3, <1>4, WithdrawnStays
  <1>5. CASE transactions' = transactions
    BY <1>3, <1>5, SameRows
  <1>6. ASSUME NEW i \in Invoices, InsertReceive(i) PROVE Balanced'
    <2> DEFINE row == Row(WalletOf[i], "ln_receive", i, Sats, 0, "pending")
    <2>1. row.type # "withdrawal" /\ transactions' \in {transactions, transactions \cup {row}}
      BY <1>6 DEF Row, InsertReceive, CreateTransaction, db
    <2> HIDE DEF row
    <2>2. QED
      BY <1>4, <2>1
  <1>7. ASSUME NEW p \in Payments, RecordPayment(p) PROVE Balanced'
    <2> DEFINE row == Row(WalletOf[p], "ln_send", HashOf[p], Sats, 0, "confirmed")
    <2>1. row.type # "withdrawal" /\ transactions' \in {transactions, transactions \cup {row}}
      BY <1>7 DEF Row, RecordPayment, CreateTransaction, db
    <2> HIDE DEF row
    <2>2. QED
      BY <1>4, <2>1
  <1>8. ASSUME NEW p \in Callers, LookupInvoice(p) PROVE Balanced'
    <2>1. ASSUME NEW row, row.type = "ln_receive", NEW st \in Statuses,
                 st = "confirmed" => invoice[row.ref] = "settled",
                 UpdateTransactionStatus(row, st)
          PROVE  Balanced'
      <3> DEFINE h == [t \in transactions |->
                          IF t.wallet = row.wallet /\ t.type = row.type /\ t.ref = row.ref
                          THEN [t EXCEPT !.status = st] ELSE t]
      <3>1. Relabels(h)
        BY <1>1, <2>1, LookupRelabels
      <3>2. transactions' = {h[t] : t \in transactions}
        BY <2>1 DEF UpdateTransactionStatus
      <3> HIDE DEF h
      <3>3. \A w \in Wallets : WithdrawnSum(w)' = WithdrawnSum(w)
        BY <1>1, <3>1, <3>2, WithdrawnRelabels
      <3>4. QED
        BY <1>3, <3>3
    <2>2. PICK row \in holding[p].rows :
              \/ invoice[row.ref] = "settled" /\ UpdateTransactionStatus(row, "confirmed")
              \/ UpdateTransactionStatus(row, "failed")
              \/ UNCHANGED db
      BY <1>8 DEF LookupInvoice
    <2>3. row.type = "ln_receive" /\ "confirmed" \in Statuses /\ "failed" \in Statuses
      BY DEF WInv, LInv, Statuses
    <2>4. CASE UNCHANGED db
      BY <1>5, <2>4 DEF db
    <2>5. CASE invoice[row.ref] = "settled" /\ UpdateTransactionStatus(row, "confirmed")
      BY <2>1, <2>3, <2>5
    <2>6. CASE UpdateTransactionStatus(row, "failed")
      BY <2>1, <2>3, <2>6
    <2>7. QED
      BY <2>2, <2>4, <2>5, <2>6
  <1>9. CASE \/ \E i \in Invoices : InsertReceive(i)
             \/ \E p \in Payments : RecordPayment(p)
             \/ \E p \in Callers : LookupInvoice(p)
    BY <1>6, <1>7, <1>8, <1>9
  <1>10. transactions' = transactions \/ <1>9!1
    BY DEF LightningNext, CreateInvoice, AddInvoice, Settle, PayInvoiceStep,
       GetInvoice, PayInvoice, RefreshStep, RefreshFails, ListReceives,
       ReadLedger, WriteBalance, UpdateLightningBalance, db, Callers
  <1>11. QED
    BY <1>5, <1>9, <1>10

\* Balanced holds throughout: nothing is credited, and nothing withdrawn, without its satoshis.
LEMMA BalancedThroughout == Spec => []Balanced
  <1>1. Init => Balanced
    <2> SUFFICES ASSUME Init PROVE Balanced
      OBVIOUS
    <2>1. /\ OInv /\ RowsInv
          /\ onchain = [w \in Wallets |-> 0] /\ transactions = {}
          /\ deposits = [u \in Outputs |-> "none"] /\ task = [p \in Requests |-> NoTask]
      BY WalletInitInv DEF WInv, Init, TablesInit, OnchainInit
    <2>2. ASSUME NEW w \in Wallets
          PROVE  SumOf(Amounts, CreditedTo(w))
                 = onchain[w] + SumOf(Costs, WithdrawnFrom(w)) + SumOf(Reserved, RequestsOf(w))
      <3>1. CreditedTo(w) = {} /\ WithdrawnFrom(w) = {}
        BY <2>1 DEF CreditedTo, WithdrawnFrom
      <3>2. SumOf(Amounts, {}) = 0 /\ SumOf(Costs, {}) = 0
        BY FS_EmptySet, SumEquation
      <3>3. SumOf(Reserved, RequestsOf(w)) = 0
        <4>1. \A p \in RequestsOf(w) : Reserved[p] = 0
          BY <2>1 DEF Reserved, RequestsOf, NoTask
        <4>2. QED
          BY <2>1, <4>1, SumOfZeros, SumsTyped
      <3>4. QED
        BY <2>1, <3>1, <3>2, <3>3
    <2>3. QED
      BY <2>2 DEF Balanced
  <1>2. ASSUME WInv, Balanced, [Next]_vars PROVE Balanced'
    <2>1. OInv /\ RowsInv
      BY <1>2 DEF WInv
    <2>2. CASE OnchainNext
      <3>1. ASSUME NEW p \in Requests, RequestMoves(p) PROVE Balanced'
        BY <1>2, <2>1, <3>1, RequestBalances
      <3>2. CASE \E r \in Reconcilers : LoopStep(r)
        BY <1>2, <2>1, <3>2, LoopBalances
      <3>3. CASE \/ (\E c \in Coins, w \in Wallets : Pay(c, w)) \/ Mine
                 \/ \E k \in cached : CacheExpires(k)
                 \/ \E replica \in Replicas : Restart(replica)
        BY <1>2, <2>1, <3>3, OutsideBalances
      <3>4. QED
        BY <2>2, <3>1, <3>2, <3>3 DEF OnchainNext, RequestMoves, Mine
    <2>3. CASE LightningNext /\ UNCHANGED onchainVars
      BY <1>2, <2>3, LightningBalances
    <2>4. CASE UNCHANGED vars
      <3>1. UNCHANGED <<onchain, deposits, transactions, utxo, task>>
        BY <2>4 DEF vars, db, onchainVars, chain
      <3>2. QED
        BY <1>2, <2>1, <3>1, SameChain, SameRows, OtherBalances
    <2>5. QED
      BY <1>2, <2>2, <2>3, <2>4 DEF Next
  <1>3. QED
    BY <1>1, <1>2, WalletInv, PTL DEF Spec

\* Reserve, release and record, over every failure and restart.
THEOREM CreditsAccounted == Spec => []CreditsAreAccounted
  <1>1. ASSUME WInv, Balanced PROVE CreditsAreAccounted
    <2>1. OInv /\ RowsInv
      BY <1>1 DEF WInv
    <2>2. ASSUME NEW w \in Wallets
          PROVE  TotalOf({u \in Outputs : deposits[u] = "credited" /\ utxo[u].wallet = w},
                         LAMBDA u : utxo[u].amount)
                 = onchain[w]
                   + TotalOf({t \in transactions : t.wallet = w /\ t.type = "withdrawal"},
                             LAMBDA t : t.amount + t.fee)
                   + TotalOf({p \in Requests : WalletOf[p] = w}, LAMBDA p : task[p].held)
      <3>1. TotalOf({u \in Outputs : deposits[u] = "credited" /\ utxo[u].wallet = w},
                    LAMBDA u : utxo[u].amount) = SumOf(Amounts, CreditedTo(w))
        <4>1. CreditedTo(w) \in SUBSET Outputs /\ IsFiniteSet(CreditedTo(w))
          BY <2>1, SumsTyped DEF CreditedTo
        <4>2. QED
          BY <4>1, AmountSum DEF CreditedTo
      <3>2. TotalOf({t \in transactions : t.wallet = w /\ t.type = "withdrawal"},
                    LAMBDA t : t.amount + t.fee) = SumOf(Costs, WithdrawnFrom(w))
        <4>1. WithdrawnFrom(w) \in SUBSET TransactionRow /\ IsFiniteSet(WithdrawnFrom(w))
          BY <2>1, SumsTyped DEF WithdrawnFrom, RowsInv
        <4>2. QED
          BY <4>1, CostSum DEF WithdrawnFrom
      <3>3. TotalOf({p \in Requests : WalletOf[p] = w}, LAMBDA p : task[p].held)
            = SumOf(Reserved, RequestsOf(w))
        <4>1. RequestsOf(w) \in SUBSET Requests /\ IsFiniteSet(RequestsOf(w))
          BY <2>1, SumsTyped DEF RequestsOf
        <4>2. QED
          BY <4>1, ReservedSum DEF RequestsOf
      <3>4. QED
        BY <1>1, <3>1, <3>2, <3>3 DEF Balanced
    <2>3. QED
      BY <2>2 DEF CreditsAreAccounted
  <1>2. QED
    BY <1>1, WalletInv, BalancedThroughout, PTL

-----------------------------------------------------------------------------
(* FundsLedger: a step of the wallet moves the satoshis of one output or   *)
(* of one request, or none.                                                *)

CreditBar == [u \in Outputs |-> CreditOf(u)]
ClaimBar == [p \in Spenders |-> ClaimOf(p)]

\* No row of a type comes or goes; its status may change.
SameRecords(type) ==
    \A w, ref, sats : Recorded(w, type, ref, sats)' <=> Recorded(w, type, ref, sats)

\* A row of another type.
LEMMA OtherRecords ==
    ASSUME NEW row, NEW type, row.type # type,
           transactions' \in {transactions, transactions \cup {row}}
    PROVE  SameRecords(type)
  BY DEF SameRecords, Recorded

\* Rows that change their status.
LEMMA RelabelledRecords ==
    ASSUME NEW h, Relabels(h), transactions' = {h[t] : t \in transactions}, NEW type
    PROVE  SameRecords(type)
  BY DEF SameRecords, Recorded, Relabels

\* A row is a record of its own, and no other row's.
LEMMA NewRecord ==
    ASSUME NEW row, transactions' = transactions \cup {row}
    PROVE  \A w, type, ref, sats :
             Recorded(w, type, ref, sats)' <=>
                \/ Recorded(w, type, ref, sats)
                \/ row.wallet = w /\ row.type = type /\ row.ref = ref /\ row.amount + row.fee = sats
  BY DEF Recorded

\* A request has no ledger row before its commit.
LEMMA NotRecorded ==
    ASSUME RowsInv, NEW p \in Requests, stage[p] \notin Settled, NEW w, NEW sats
    PROVE  ~Recorded(w, "withdrawal", p, sats)
  BY DEF Recorded, RowsInv, Settled

\* An output stays credited as it was.
LEMMA CreditsKept ==
    ASSUME OInv, Evolves(utxo, utxo', broadcast'), SameRecords("deposit"),
           \A u \in Outputs : deposits'[u] = "credited" <=> deposits[u] = "credited"
    PROVE  CreditBar' = CreditBar
  <1>1. ASSUME NEW u \in Outputs PROVE CreditOf(u)' = CreditOf(u)
    <2>1. CASE deposits[u] = "credited"
      <3>1. utxo'[u].amount = utxo[u].amount /\ utxo'[u].wallet = utxo[u].wallet
        BY <2>1 DEF OInv, ChainInv, Evolves
      <3>2. QED
        BY <3>1 DEF CreditOf, SameRecords, NoUtxo
    <2>2. CASE deposits[u] # "credited"
      BY <2>2 DEF CreditOf, NoUtxo
    <2>3. QED
      BY <2>1, <2>2
  <1>2. QED
    BY <1>1 DEF CreditBar

\* What the claim of a request depends on.
LEMMA ClaimKept ==
    ASSUME NEW p \in Spenders, task'[p].held = task[p].held,
           Recorded(WalletOf[p], "withdrawal", p, Cost(p))'
             <=> Recorded(WalletOf[p], "withdrawal", p, Cost(p)),
           task[p].held = 0 => (stage'[p] = "failed" <=> stage[p] = "failed")
                               \/ Recorded(WalletOf[p], "withdrawal", p, Cost(p))
    PROVE  ClaimOf(p)' = ClaimOf(p)
  BY DEF ClaimOf, Cost

\* No request's claim changes.
LEMMA ClaimsKept ==
    ASSUME SameRecords("withdrawal"),
           \A p \in Spenders : /\ task'[p].held = task[p].held
                               /\ stage'[p] = "failed" <=> stage[p] = "failed"
    PROVE  ClaimBar' = ClaimBar
  <1>1. ASSUME NEW p \in Spenders PROVE ClaimOf(p)' = ClaimOf(p)
    BY ClaimKept DEF SameRecords
  <1>2. QED
    BY <1>1 DEF ClaimBar

\* One request moves: the claims of the others stay.
LEMMA OneClaim ==
    ASSUME OInv, NEW p \in Spenders, NEW s, stage' = [stage EXCEPT ![p] = s],
           \A q \in Requests : q # p => task'[q].held = task[q].held,
           \A q \in Spenders : q # p =>
               (Recorded(WalletOf[q], "withdrawal", q, Cost(q))'
                  <=> Recorded(WalletOf[q], "withdrawal", q, Cost(q))),
           NEW c, ClaimOf(p)' = c
    PROVE  ClaimBar' = [ClaimBar EXCEPT ![p] = c]
  <1>1. ASSUME NEW q \in Spenders, q # p PROVE ClaimOf(q)' = ClaimOf(q)
    <2>1. q \in Requests /\ p \in Requests
      BY DEF Spenders, Requests
    <2>2. stage'[q] = stage[q]
      BY <1>1, <2>1 DEF OInv, OnchainTypes
    <2>3. QED
      BY <1>1, <2>1, <2>2, ClaimKept
  <1>2. ASSUME NEW q \in Spenders
        PROVE  ClaimBar'[q] = IF q = p THEN c ELSE ClaimBar[q]
    BY <1>1 DEF ClaimBar
  <1>3. ClaimBar' = [q \in Spenders |-> ClaimBar'[q]] /\ ClaimBar = [q \in Spenders |-> ClaimBar[q]]
    BY DEF ClaimBar
  <1>4. QED
    BY <1>2, <1>3

\* A request that is not through: its claim follows from its stage.
LEMMA ClaimNow ==
    ASSUME OInv, RowsInv, NEW p \in Spenders
    PROVE  /\ stage[p] \in {"idle", "address", "derived", "fund", "reserve"} => ClaimOf(p) = "none"
           /\ stage[p] \in {"send", "record"} => ClaimOf(p) = "held"
           /\ ClaimBar[p] = ClaimOf(p)
  <1>1. p \in Requests
    BY DEF Spenders, Requests
  <1>2. TaskOK(p, stage[p], task[p], broadcast) /\ Cost(p) > 0 /\ Cost(p) \in Nat
    BY <1>1, RequestFacts
  <1>3. stage[p] \in {"idle", "address", "derived", "fund", "reserve"} =>
            /\ task[p].held = 0 /\ stage[p] # "failed"
            /\ ~Recorded(WalletOf[p], "withdrawal", p, Cost(p))
    BY <1>1, <1>2, NotRecorded DEF TaskOK, Settled, Ended
  <1>4. QED
    BY <1>2, <1>3 DEF TaskOK, ClaimOf, ClaimBar

\* The balances, credits and claims FundsLedger sees.
LEMMA FundsVars ==
    /\ Funds!vars = <<onchain, CreditBar, ClaimBar>>
    /\ (Funds!vars)' = <<onchain', CreditBar', ClaimBar'>>
  BY DEF Funds!vars, CreditBar, ClaimBar

\* A request that fails before it has reserved anything.
LEMMA Refuses ==
    ASSUME OInv, RowsInv, NEW p \in Requests,
           stage[p] \in {"idle", "address", "derived", "fund", "reserve"},
           stage' = [stage EXCEPT ![p] = "failed"],
           \A q \in Requests : task'[q].held = task[q].held,
           UNCHANGED <<onchain, deposits, transactions, utxo>>
    PROVE  [Funds!Next]_(Funds!vars)
  <1>1. SameRecords("deposit") /\ SameRecords("withdrawal")
    BY DEF SameRecords, Recorded
  <1>2. CreditBar' = CreditBar
    BY <1>1, SameChain, CreditsKept
  <1>3. CASE p \in Spenders
    <2>1. TaskOK(p, stage[p], task[p], broadcast) /\ Cost(p) > 0 /\ Cost(p) \in Nat
      BY RequestFacts
    <2>2. task'[p].held = 0 /\ ~Recorded(WalletOf[p], "withdrawal", p, Cost(p))'
      BY <1>1, <2>1, NotRecorded DEF TaskOK, Settled, Ended, SameRecords
    <2>3. stage'[p] = "failed"
      BY DEF OInv, OnchainTypes
    <2>4. ClaimOf(p)' = "void"
      BY <2>1, <2>2, <2>3 DEF ClaimOf, Cost
    <2>5. ClaimBar' = [ClaimBar EXCEPT ![p] = "void"]
      BY <1>1, <1>3, <2>4, OneClaim DEF SameRecords
    <2>6. ClaimBar[p] = "none"
      BY <1>3, ClaimNow
    <2>7. Funds!Refuse(p)
      BY <1>2, <2>5, <2>6 DEF Funds!Refuse, Funds!Become, CreditBar, ClaimBar
    <2>8. QED
      BY <1>3, <2>7 DEF Funds!Next
  <1>4. CASE p \notin Spenders
    <2>1. \A q \in Spenders : stage'[q] = stage[q] /\ q \in Requests
      BY <1>4 DEF OInv, OnchainTypes, Spenders, Requests
    <2>2. ClaimBar' = ClaimBar
      BY <1>1, <2>1, ClaimsKept
    <2>3. QED
      BY <1>2, <2>2, FundsVars
  <1>5. QED
    BY <1>3, <1>4

\* No satoshi moves.
LEMMA FundsStay ==
    ASSUME OInv, onchain' = onchain, Evolves(utxo, utxo', broadcast'),
           SameRecords("deposit"), SameRecords("withdrawal"),
           \A u \in Outputs : deposits'[u] = "credited" <=> deposits[u] = "credited",
           \A p \in Spenders : /\ task'[p].held = task[p].held
                               /\ stage'[p] = "failed" <=> stage[p] = "failed"
    PROVE  UNCHANGED Funds!vars
  BY CreditsKept, ClaimsKept, FundsVars

\* reserve_onchain_balance takes the cost from the balance, or the request is refused.
LEMMA ReserveHolds ==
    ASSUME OInv, RowsInv, NEW p \in Spenders, Reserve(p)
    PROVE  [Funds!Next]_(Funds!vars)
  <1>0. p \in Requests
    BY DEF Spenders, Requests
  <1>1. UNCHANGED <<deposits, transactions, utxo>> /\ stage[p] \in {"reserve", "idle"}
    BY DEF Reserve, ReserveOnchainBalance, db, chain
  <1>2. SameRecords("deposit") /\ SameRecords("withdrawal")
    BY <1>1 DEF SameRecords, Recorded
  <1>3. CASE UNCHANGED <<db, task>> /\ Goto(p, "failed")
    <2>1. onchain' = onchain /\ stage' = [stage EXCEPT ![p] = "failed"]
          /\ \A q \in Requests : task'[q].held = task[q].held
      BY <1>3 DEF db, Goto
    <2>2. QED
      BY <1>0, <1>1, <2>1, Refuses
  <1>4. CASE /\ ReserveOnchainBalance(WalletOf[p], Cost(p)) /\ Goto(p, "send")
             /\ task' = [task EXCEPT ![p].held = Cost(p)]
    <2>1. CreditBar' = CreditBar
      BY <1>1, <1>2, SameChain, CreditsKept
    <2>2. /\ task'[p].held = Cost(p)
          /\ \A q \in Requests : q # p => task'[q].held = task[q].held
      BY <1>0, <1>4 DEF OInv, OnchainTypes
    <2>3. ClaimOf(p)' = "held"
      <3>1. Cost(p) \in Nat /\ Cost(p) > 0
        BY <1>0, RequestFacts
      <3>2. QED
        BY <2>2, <3>1 DEF ClaimOf, Cost
    <2>4. ClaimBar' = [ClaimBar EXCEPT ![p] = "held"]
      BY <1>2, <1>4, <2>2, <2>3, OneClaim DEF Goto, SameRecords
    <2>5. ClaimBar[p] = "none"
      BY <1>1, ClaimNow
    <2>6. /\ Cost(p) <= onchain[WalletOf[p]]
          /\ onchain' = [onchain EXCEPT ![WalletOf[p]] = @ - Cost(p)]
      BY <1>0, <1>4, RequestFacts DEF ReserveOnchainBalance
    <2>7. Funds!Hold(p)
      BY <2>1, <2>4, <2>5, <2>6 DEF Funds!Hold, Funds!Become, CreditBar, ClaimBar
    <2>8. QED
      BY <2>7 DEF Funds!Next
  <1>5. QED
    BY <1>3, <1>4 DEF Reserve

\* release_onchain_balance gives the cost back, once.
LEMMA SendFailsGivesBack ==
    ASSUME OInv, RowsInv, NEW p \in Spenders, SendFails(p)
    PROVE  Funds!GiveBack(p)
  <1>0. p \in Requests /\ p \in Withdrawals \cup Pegouts
    BY DEF Spenders, Requests
  <1>1. /\ UNCHANGED <<deposits, transactions>> /\ stage[p] = "send"
        /\ stage' = [stage EXCEPT ![p] = "failed"] /\ task' = [task EXCEPT ![p].held = 0]
    BY DEF SendFails, ReleaseOnchainBalance, Goto
  <1>2. SameRecords("deposit") /\ SameRecords("withdrawal")
    BY <1>1 DEF SameRecords, Recorded
  <1>3. Evolves(utxo, utxo', broadcast')
    BY <1>0, <1>1, SameChain, SpendEffect DEF SendFails, chain
  <1>4. CreditBar' = CreditBar
    BY <1>1, <1>2, <1>3, CreditsKept
  <1>5. /\ task'[p].held = 0 /\ stage'[p] = "failed"
        /\ \A q \in Requests : q # p => task'[q].held = task[q].held
    BY <1>0, <1>1 DEF OInv, OnchainTypes
  <1>6. /\ ~Recorded(WalletOf[p], "withdrawal", p, Cost(p))'
        /\ Cost(p) # 0 /\ task[p].held = Cost(p)
    <2>1. TaskOK(p, stage[p], task[p], broadcast) /\ Cost(p) > 0
      BY <1>0, RequestFacts
    <2>2. QED
      BY <1>0, <1>1, <1>2, <2>1, NotRecorded DEF TaskOK, Settled, Ended, SameRecords
  <1>7. ClaimOf(p)' = "void"
    BY <1>5, <1>6 DEF ClaimOf, Cost
  <1>8. ClaimBar' = [ClaimBar EXCEPT ![p] = "void"]
    BY <1>1, <1>2, <1>5, <1>7, OneClaim DEF SameRecords
  <1>9. ClaimBar[p] = "held"
    BY <1>1, ClaimNow
  <1>10. onchain' = [onchain EXCEPT ![WalletOf[p]] = @ + Cost(p)]
    BY <1>6 DEF SendFails, ReleaseOnchainBalance
  <1>11. QED
    BY <1>4, <1>8, <1>9, <1>10 DEF Funds!GiveBack, Funds!Become, CreditBar, ClaimBar

\* The ledger row takes the place of the reservation.
LEMMA RecordSpends ==
    ASSUME OInv, RowsInv, NEW p \in Spenders, Record(p)
    PROVE  Funds!Spend(p)
  <1> DEFINE row == Row(WalletOf[p], "withdrawal", p, Amount, Cost(p) - Amount, "pending")
  <1>0. p \in Requests
    BY DEF Spenders, Requests
  <1>1. /\ UNCHANGED <<deposits, onchain, utxo>> /\ stage[p] = "record"
        /\ transactions' = transactions \cup {row}
        /\ task' = [task EXCEPT ![p].held = 0]
    BY DEF Record, CreateOnchainWithdrawal, CreateTransaction, chain
  <1>2. PICK s : stage' = [stage EXCEPT ![p] = s]
    BY DEF Record, Goto
  <1>3. Cost(p) \in Nat /\ Cost(p) > 0 /\ Amount \in Nat
    BY <1>0, RequestFacts, OnchainAssumption
  <1>4. /\ row.wallet = WalletOf[p] /\ row.type = "withdrawal" /\ row.ref = p
        /\ row.amount + row.fee = Cost(p)
    BY <1>3 DEF Row
  <1> HIDE DEF row
  <1>5. SameRecords("deposit")
    BY <1>1, <1>4, OtherRecords
  <1>6. CreditBar' = CreditBar
    BY <1>1, <1>5, SameChain, CreditsKept
  <1>7. /\ Recorded(WalletOf[p], "withdrawal", p, Cost(p))'
        /\ \A q \in Spenders : q # p =>
              (Recorded(WalletOf[q], "withdrawal", q, Cost(q))'
                 <=> Recorded(WalletOf[q], "withdrawal", q, Cost(q)))
    BY <1>1, <1>4, NewRecord DEF Cost
  <1>8. /\ task'[p].held = 0
        /\ \A q \in Requests : q # p => task'[q].held = task[q].held
    BY <1>0, <1>1 DEF OInv, OnchainTypes
  <1>9. ClaimOf(p)' = "spent"
    BY <1>3, <1>7, <1>8 DEF ClaimOf, Cost
  <1>10. ClaimBar' = [ClaimBar EXCEPT ![p] = "spent"]
    BY <1>2, <1>7, <1>8, <1>9, OneClaim
  <1>11. ClaimBar[p] = "held"
    BY <1>1, ClaimNow
  <1>12. QED
    BY <1>1, <1>6, <1>10, <1>11 DEF Funds!Spend, Funds!Become, CreditBar, ClaimBar

\* The steps of a request, whichever endpoint it came by.
LEMMA RequestFunds ==
    ASSUME OInv, RowsInv, NEW p \in Requests, RequestMoves(p)
    PROVE  [Funds!Next]_(Funds!vars)
  <1>0. p \in Withdrawals \cup Pegouts <=> p \in Spenders
    BY DEF Spenders
  <1>1. CASE p \in Spenders /\ Reserve(p)
    BY <1>1, ReserveHolds
  <1>2. CASE p \in Spenders /\ (SendFails(p) \/ Record(p))
    BY <1>2, SendFailsGivesBack, RecordSpends DEF Funds!Next
  <1>3. CASE Begin(p) \/ DeriveAddress(p) \/ SaveAddress(p) \/ Fund(p)
    <2>1. /\ UNCHANGED <<onchain, deposits, transactions, utxo>>
          /\ stage[p] \in {"idle", "address", "derived", "fund"}
      BY <1>3 DEF Begin, DeriveAddress, SaveAddress, SaveWalletAddress, Fund, chain, db
    <2>2. \A q \in Requests : task'[q].held = task[q].held
      <3>1. CASE task' = task
        BY <3>1
      <3>2. ASSUME NEW n, task' = [task EXCEPT ![p].index = n]
            PROVE  \A q \in Requests : task'[q].held = task[q].held
        BY <3>2 DEF OInv, OnchainTypes
      <3>3. ASSUME NEW n, task' = [task EXCEPT ![p].inputs = n]
            PROVE  \A q \in Requests : task'[q].held = task[q].held
        BY <3>3 DEF OInv, OnchainTypes
      <3>4. QED
        BY <1>3, <3>1, <3>2, <3>3 DEF Begin, DeriveAddress, SaveAddress, Fund
    <2>3. PICK s : stage' = [stage EXCEPT ![p] = s]
      BY <1>3 DEF Begin, DeriveAddress, SaveAddress, Fund, Goto
    <2>4. CASE s = "failed"
      BY <2>1, <2>2, <2>3, <2>4, Refuses
    <2>5. CASE s # "failed"
      <3>1. \A q \in Spenders : /\ task'[q].held = task[q].held
                                /\ stage'[q] = "failed" <=> stage[q] = "failed"
        BY <2>1, <2>2, <2>3, <2>5 DEF Spenders, Requests, OInv, OnchainTypes
      <3>2. SameRecords("deposit") /\ SameRecords("withdrawal")
        BY <2>1 DEF SameRecords, Recorded
      <3>3. QED
        BY <2>1, <3>1, <3>2, SameChain, FundsStay
    <2>6. QED
      BY <2>4, <2>5
  <1>4. CASE p \in Spenders /\ (Send(p) \/ Answer(p))
    <2>1. UNCHANGED <<onchain, deposits, transactions, task>>
      BY <1>4 DEF Send, Answer, db
    <2>2. Evolves(utxo, utxo', broadcast')
      BY <1>0, <1>4, SameChain, SpendEffect DEF Send, Answer, chain
    <2>3. SameRecords("deposit") /\ SameRecords("withdrawal")
      BY <2>1 DEF SameRecords, Recorded
    <2>4. PICK s \in {"record", "answered"} : stage' = [stage EXCEPT ![p] = s]
      BY <1>4 DEF Send, Answer, Goto
    <2>5. stage[p] # "failed"
      BY <1>4 DEF Send, Answer
    <2>6. \A q \in Spenders : stage'[q] = "failed" <=> stage[q] = "failed"
      BY <2>4, <2>5 DEF Spenders, Requests, OInv, OnchainTypes
    <2>7. QED
      BY <2>1, <2>2, <2>3, <2>6, FundsStay
  <1>5. CASE p \in Spenders /\ (RecordFails(p) \/ ReleaseFails(p))
    <2>1. /\ UNCHANGED <<onchain, deposits, transactions, task>>
          /\ stage' = [stage EXCEPT ![p] = "failed"] /\ stage[p] \in {"send", "record"}
          /\ Evolves(utxo, utxo', broadcast')
      BY <1>0, <1>5, SameChain, SpendEffect DEF RecordFails, ReleaseFails, Goto, chain, db
    <2>2. SameRecords("deposit") /\ SameRecords("withdrawal")
      BY <2>1 DEF SameRecords, Recorded
    <2>3. CreditBar' = CreditBar
      BY <2>1, <2>2, CreditsKept
    <2>4. task[p].held # 0
      <3>1. TaskOK(p, stage[p], task[p], broadcast) /\ Cost(p) > 0
        BY RequestFacts
      <3>2. QED
        BY <2>1, <3>1 DEF TaskOK
    <2>5. ClaimOf(p)' = ClaimOf(p)
      BY <1>5, <2>1, <2>2, <2>4, ClaimKept DEF SameRecords
    <2>6. ClaimBar' = [ClaimBar EXCEPT ![p] = ClaimOf(p)]
      BY <1>5, <2>1, <2>2, <2>5, OneClaim DEF SameRecords
    <2>7. ClaimBar' = ClaimBar
      BY <1>5, <2>6 DEF ClaimBar
    <2>8. QED
      BY <2>1, <2>3, <2>7, FundsVars
  <1>6. QED
    BY <1>0, <1>1, <1>2, <1>3, <1>4, <1>5 DEF RequestMoves, WithdrawOnchain, PegoutToMainchain,
       CreateOnchainAddress, EnsureWalletSettlementAddress

\* credit_confirmed_deposit credits an output that was not, for what it is worth.
LEMMA CreditDeposits ==
    ASSUME OInv, NEW u \in Outputs, utxo[u].status # "none", UNCHANGED <<utxo, stage, task>>,
           CreditConfirmedDeposit(u, utxo[u].wallet, utxo[u].amount)
    PROVE  Funds!Deposit(u)
  <1> DEFINE row == Row(utxo[u].wallet, "deposit", u, utxo[u].amount, 0, "confirmed")
  <1>1. /\ deposits[u] # "credited" /\ deposits' = [deposits EXCEPT ![u] = "credited"]
        /\ onchain' = [onchain EXCEPT ![utxo[u].wallet] = @ + utxo[u].amount]
        /\ transactions' = transactions \cup {row}
    BY DEF CreditConfirmedDeposit
  <1>2. utxo[u].wallet \in Wallets /\ utxo[u].amount \in Nat /\ utxo[u].amount > 0
    BY DEF OInv, OnchainTypes, ChainInv
  <1>3. /\ row.wallet = utxo[u].wallet /\ row.type = "deposit" /\ row.ref = u
        /\ row.amount + row.fee = utxo[u].amount
    BY <1>2 DEF Row
  <1> HIDE DEF row
  <1>4. ClaimBar' = ClaimBar
    BY <1>1, <1>3, OtherRecords, ClaimsKept
  <1>5. CreditOf(u)' = [wallet |-> utxo[u].wallet, amount |-> utxo[u].amount]
    <2>1. Recorded(utxo[u].wallet, "deposit", u, utxo[u].amount)'
      BY <1>1, <1>3 DEF Recorded
    <2>2. deposits'[u] = "credited"
      BY <1>1 DEF OInv, OnchainTypes
    <2>3. QED
      BY <2>1, <2>2 DEF CreditOf
  <1>6. ASSUME NEW v \in Outputs, v # u PROVE CreditOf(v)' = CreditOf(v)
    <2>1. deposits'[v] = deposits[v]
      BY <1>1, <1>6 DEF OInv, OnchainTypes
    <2>2. Recorded(utxo[v].wallet, "deposit", v, utxo[v].amount)'
            <=> Recorded(utxo[v].wallet, "deposit", v, utxo[v].amount)
      BY <1>1, <1>3, <1>6 DEF Recorded
    <2>3. QED
      BY <2>1, <2>2 DEF CreditOf, NoUtxo
  <1>7. CreditBar[u].amount = 0
    BY <1>1 DEF CreditBar, CreditOf
  <1>8. CreditBar'[u] = [wallet |-> utxo[u].wallet, amount |-> utxo[u].amount]
    BY <1>5 DEF CreditBar
  <1>9. CreditBar' = [CreditBar EXCEPT ![u] = CreditBar'[u]]
    <2>1. ASSUME NEW v \in Outputs
          PROVE  CreditBar'[v] = IF v = u THEN CreditBar'[u] ELSE CreditBar[v]
      BY <1>6 DEF CreditBar
    <2>2. /\ CreditBar' = [v \in Outputs |-> CreditBar'[v]]
          /\ CreditBar = [v \in Outputs |-> CreditBar[v]]
      BY DEF CreditBar
    <2>3. QED
      BY <2>1, <2>2
  <1>10. CreditBar'[u] \in Funds!Credits /\ CreditBar'[u].amount > 0
    BY <1>2, <1>8 DEF Funds!Credits
  <1>11. onchain' = [onchain EXCEPT ![CreditBar'[u].wallet] = @ + CreditBar'[u].amount]
    BY <1>1, <1>8
  <1>12. QED
    BY <1>4, <1>7, <1>9, <1>10, <1>11 DEF Funds!Deposit, CreditBar, ClaimBar

\* A loop credits a deposit, or moves no satoshi.
LEMMA LoopFunds ==
    ASSUME OInv, RowsInv, NEW r \in Reconcilers, LoopStep(r)
    PROVE  [Funds!Next]_(Funds!vars)
  <1>1. ASSUME UNCHANGED <<onchain, utxo, stage, task>>,
               SameRecords("deposit"), SameRecords("withdrawal"),
               \A u \in Outputs : deposits'[u] = "credited" <=> deposits[u] = "credited"
        PROVE  UNCHANGED Funds!vars
    BY <1>1, SameChain, FundsStay
  <1>2. ASSUME UNCHANGED <<onchain, deposits, transactions, utxo, stage, task>>
        PROVE  UNCHANGED Funds!vars
    BY <1>1, <1>2 DEF SameRecords, Recorded
  <1>3. CASE ScanDeposits(r) \/ (\E u \in Outputs : ReadDeposit(r, u)) \/ LoopFails(r)
    BY <1>2, <1>3 DEF ScanDeposits, ReadDeposit, LoopFails, db, chain
  <1>4. CASE Credit(r)
    <2>1. /\ loop[r].output \in Outputs /\ utxo[loop[r].output].status # "none"
          /\ UNCHANGED <<utxo, stage, task>>
      BY <1>4 DEF Credit, chain, OInv, OnchainTypes, LoopInv
    <2>2. CASE UNCHANGED db
      BY <1>2, <2>1, <2>2 DEF db
    <2>3. PICK u \in Outputs : u = loop[r].output
      BY <2>1
    <2>4. CASE CreditConfirmedDeposit(u, utxo[u].wallet, utxo[u].amount)
      BY <2>1, <2>3, <2>4, CreditDeposits DEF Funds!Next
    <2>5. QED
      BY <1>4, <2>2, <2>3, <2>4 DEF Credit
  <1>5. CASE RecordDeposit(r)
    <2>1. UNCHANGED <<onchain, transactions, utxo, stage, task>>
      BY <1>5 DEF RecordDeposit, InsertDeposit, db, chain
    <2>2. \A u \in Outputs : deposits'[u] = "credited" <=> deposits[u] = "credited"
      BY <1>5 DEF RecordDeposit, InsertDeposit, db, OInv, OnchainTypes
    <2>3. QED
      BY <1>1, <2>1, <2>2 DEF SameRecords, Recorded
  <1>6. CASE ReconcileWithdrawals(r)
    <2>1. UNCHANGED <<onchain, deposits, utxo, stage, task>>
      BY <1>6 DEF ReconcileWithdrawals, UpdateTransactionStatusByTxid, db, chain
    <2>2. CASE UNCHANGED db
      BY <1>2, <2>1, <2>2 DEF db
    <2>3. ASSUME NEW rows \in SUBSET {t \in PendingOnchainWithdrawals : t.ref \in mined},
                 UpdateTransactionStatusByTxid(rows, "confirmed")
          PROVE  UNCHANGED Funds!vars
      <3> DEFINE h == [t \in transactions |->
                          IF \E row \in rows : t.wallet = row.wallet /\ t.ref = row.ref
                          THEN [t EXCEPT !.status = "confirmed"] ELSE t]
      <3>1. Relabels(h)
        BY TxidRelabels
      <3>2. transactions' = {h[t] : t \in transactions}
        BY <2>3 DEF UpdateTransactionStatusByTxid
      <3> HIDE DEF h
      <3>3. SameRecords("deposit") /\ SameRecords("withdrawal")
        BY <3>1, <3>2, RelabelledRecords
      <3>4. QED
        BY <1>1, <2>1, <3>3
    <2>4. QED
      BY <1>6, <2>2, <2>3 DEF ReconcileWithdrawals
  <1>7. QED
    BY <1>3, <1>4, <1>5, <1>6 DEF LoopStep

\* The chain, the cache and a restart move no satoshi of the ledger.
LEMMA OutsideFunds ==
    ASSUME OInv, RowsInv,
           \/ (\E c \in Coins, w \in Wallets : Pay(c, w)) \/ Mine
           \/ \E k \in cached : CacheExpires(k)
           \/ \E replica \in Replicas : Restart(replica)
    PROVE  UNCHANGED Funds!vars
  <1>1. UNCHANGED <<onchain, deposits, transactions, task>>
    BY DEF Pay, Mine, MineCoin, MineTransaction, CacheExpires, Restart, db, chain
  <1>2. Evolves(utxo, utxo', broadcast')
    <2>1. ASSUME NEW c \in Coins, NEW w \in Wallets, Pay(c, w)
          PROVE  Evolves(utxo, utxo', broadcast')
      <3>1. broadcast' = broadcast
        BY <2>1 DEF Pay
      <3>2. Evolves(utxo, utxo', broadcast)
        BY <2>1, PayEvolves
      <3>3. QED
        BY <3>1, <3>2
    <2>2. CASE Mine
      <3>1. broadcast' = broadcast
        BY <2>2 DEF Mine, MineCoin, MineTransaction
      <3>2. Evolves(utxo, utxo', broadcast)
        BY <2>2, MineEvolves
      <3>3. QED
        BY <3>1, <3>2
    <2>3. CASE utxo' = utxo
      BY <2>3, SameChain
    <2>4. QED
      BY <2>1, <2>2, <2>3 DEF CacheExpires, Restart, chain
  <1>3. \A p \in Spenders : stage'[p] = "failed" <=> stage[p] = "failed"
    <2>1. CASE stage' = stage
      BY <2>1
    <2>2. ASSUME NEW replica \in Replicas, Restart(replica)
          PROVE  \A p \in Spenders : stage'[p] = "failed" <=> stage[p] = "failed"
      BY <2>2 DEF Restart, Running, Ended, Spenders, Requests
    <2>3. QED
      BY <2>1, <2>2 DEF Pay, Mine, MineCoin, MineTransaction, CacheExpires
  <1>4. SameRecords("deposit") /\ SameRecords("withdrawal")
    BY <1>1 DEF SameRecords, Recorded
  <1>5. QED
    BY <1>1, <1>2, <1>3, <1>4, FundsStay

\* Lightning rows are neither deposits nor withdrawals.
LEMMA LightningFunds ==
    ASSUME WInv, LightningNext, UNCHANGED onchainVars
    PROVE  UNCHANGED Funds!vars
  <1>1. UNCHANGED <<utxo, broadcast, stage, task>> /\ OInv /\ RowsInv
    BY DEF onchainVars, chain, WInv
  <1>2. UNCHANGED <<onchain, deposits>>
    BY DEF LightningNext, CreateInvoice, AddInvoice, InsertReceive, Settle, PayInvoiceStep,
       GetInvoice, PayInvoice, RecordPayment, RefreshStep, RefreshFails, ListReceives,
       LookupInvoice, ReadLedger, WriteBalance, UpdateLightningBalance, CreateTransaction,
       UpdateTransactionStatus, db
  <1>3. ASSUME SameRecords("deposit"), SameRecords("withdrawal")
        PROVE  UNCHANGED Funds!vars
    <2>1. Evolves(utxo, utxo', broadcast')
      BY <1>1, SameChain
    <2>2. QED
      BY <1>1, <1>2, <1>3, <2>1, FundsStay
  <1>4. ASSUME NEW row, row.type \in {"ln_receive", "ln_send"},
               transactions' \in {transactions, transactions \cup {row}}
        PROVE  UNCHANGED Funds!vars
    <2>1. row.type # "deposit" /\ row.type # "withdrawal"
      BY <1>4
    <2>2. SameRecords("deposit") /\ SameRecords("withdrawal")
      BY <1>4, <2>1, OtherRecords
    <2>3. QED
      BY <1>3, <2>2
  <1>5. CASE transactions' = transactions
    <2>1. SameRecords("deposit") /\ SameRecords("withdrawal")
      BY <1>5 DEF SameRecords, Recorded
    <2>2. QED
      BY <1>3, <2>1
  <1>6. ASSUME NEW i \in Invoices, InsertReceive(i) PROVE UNCHANGED Funds!vars
    <2> DEFINE row == Row(WalletOf[i], "ln_receive", i, Sats, 0, "pending")
    <2>1. /\ row.type \in {"ln_receive", "ln_send"}
          /\ transactions' \in {transactions, transactions \cup {row}}
      BY <1>6 DEF Row, InsertReceive, CreateTransaction, db
    <2> HIDE DEF row
    <2>2. QED
      BY <1>4, <2>1
  <1>7. ASSUME NEW p \in Payments, RecordPayment(p) PROVE UNCHANGED Funds!vars
    <2> DEFINE row == Row(WalletOf[p], "ln_send", HashOf[p], Sats, 0, "confirmed")
    <2>1. /\ row.type \in {"ln_receive", "ln_send"}
          /\ transactions' \in {transactions, transactions \cup {row}}
      BY <1>7 DEF Row, RecordPayment, CreateTransaction, db
    <2> HIDE DEF row
    <2>2. QED
      BY <1>4, <2>1
  <1>8. ASSUME NEW p \in Callers, LookupInvoice(p) PROVE UNCHANGED Funds!vars
    <2>1. ASSUME NEW row, row.type = "ln_receive", NEW st \in Statuses,
                 st = "confirmed" => invoice[row.ref] = "settled",
                 UpdateTransactionStatus(row, st)
          PROVE  UNCHANGED Funds!vars
      <3> DEFINE h == [t \in transactions |->
                          IF t.wallet = row.wallet /\ t.type = row.type /\ t.ref = row.ref
                          THEN [t EXCEPT !.status = st] ELSE t]
      <3>1. Relabels(h)
        BY <1>1, <2>1, LookupRelabels
      <3>2. transactions' = {h[t] : t \in transactions}
        BY <2>1 DEF UpdateTransactionStatus
      <3> HIDE DEF h
      <3>3. SameRecords("deposit") /\ SameRecords("withdrawal")
        BY <3>1, <3>2, RelabelledRecords
      <3>4. QED
        BY <1>3, <3>3
    <2>2. PICK row \in holding[p].rows :
              \/ invoice[row.ref] = "settled" /\ UpdateTransactionStatus(row, "confirmed")
              \/ UpdateTransactionStatus(row, "failed")
              \/ UNCHANGED db
      BY <1>8 DEF LookupInvoice
    <2>3. row.type = "ln_receive" /\ "confirmed" \in Statuses /\ "failed" \in Statuses
      BY DEF WInv, LInv, Statuses
    <2>4. CASE UNCHANGED db
      BY <1>5, <2>4 DEF db
    <2>5. CASE invoice[row.ref] = "settled" /\ UpdateTransactionStatus(row, "confirmed")
      BY <2>1, <2>3, <2>5
    <2>6. CASE UpdateTransactionStatus(row, "failed")
      BY <2>1, <2>3, <2>6
    <2>7. QED
      BY <2>2, <2>4, <2>5, <2>6
  <1>9. CASE \/ \E i \in Invoices : InsertReceive(i)
             \/ \E p \in Payments : RecordPayment(p)
             \/ \E p \in Callers : LookupInvoice(p)
    BY <1>6, <1>7, <1>8, <1>9
  <1>10. transactions' = transactions \/ <1>9!1
    BY DEF LightningNext, CreateInvoice, AddInvoice, Settle, PayInvoiceStep,
       GetInvoice, PayInvoice, RefreshStep, RefreshFails, ListReceives,
       ReadLedger, WriteBalance, UpdateLightningBalance, db, Callers
  <1>11. QED
    BY <1>5, <1>9, <1>10

\* A fresh database has credited and claimed nothing.
LEMMA InitFunds == Init => Funds!Init
  <1> SUFFICES ASSUME Init PROVE Funds!Init
    OBVIOUS
  <1>1. /\ OInv /\ RowsInv
        /\ onchain = [w \in Wallets |-> 0] /\ transactions = {}
        /\ deposits = [u \in Outputs |-> "none"] /\ task = [p \in Requests |-> NoTask]
        /\ stage = [p \in Requests |-> "idle"]
    BY WalletInitInv DEF WInv, Init, TablesInit, OnchainInit
  <1>2. CreditBar \in [Outputs -> [wallet : Wallets, amount : {0}]]
    <2>1. ASSUME NEW u \in Outputs PROVE CreditOf(u) \in [wallet : Wallets, amount : {0}]
      <3>1. CreditOf(u) = [wallet |-> NoUtxo.wallet, amount |-> 0]
        BY <1>1 DEF CreditOf
      <3>2. NoUtxo.wallet \in Wallets
        BY WalletAssumption DEF NoUtxo
      <3>3. QED
        BY <3>1, <3>2
    <2>2. QED
      BY <2>1 DEF CreditBar
  <1>3. ClaimBar = [p \in Spenders |-> "none"]
    <2>1. ASSUME NEW p \in Spenders PROVE ClaimOf(p) = "none"
      <3>1. stage[p] = "idle"
        BY <1>1 DEF Spenders, Requests
      <3>2. QED
        BY <1>1, <3>1, ClaimNow
    <2>2. QED
      BY <2>1 DEF ClaimBar
  <1>4. QED
    BY <1>1, <1>2, <1>3 DEF Funds!Init, CreditBar, ClaimBar

\* Every step of the wallet is a step of FundsLedger, or moves no satoshi of it.
LEMMA NextFunds == WInv /\ [Next]_vars => [Funds!Next]_(Funds!vars)
  <1> SUFFICES ASSUME WInv, [Next]_vars PROVE [Funds!Next]_(Funds!vars)
    OBVIOUS
  <1>1. OInv /\ RowsInv
    BY DEF WInv
  <1>2. CASE OnchainNext
    <2>1. ASSUME NEW p \in Requests, RequestMoves(p) PROVE [Funds!Next]_(Funds!vars)
      BY <1>1, <2>1, RequestFunds
    <2>2. CASE \E r \in Reconcilers : LoopStep(r)
      BY <1>1, <2>2, LoopFunds
    <2>3. CASE \/ (\E c \in Coins, w \in Wallets : Pay(c, w)) \/ Mine
               \/ \E k \in cached : CacheExpires(k)
               \/ \E replica \in Replicas : Restart(replica)
      BY <1>1, <2>3, OutsideFunds
    <2>4. QED
      BY <1>2, <2>1, <2>2, <2>3 DEF OnchainNext, RequestMoves, Mine
  <1>3. CASE LightningNext /\ UNCHANGED onchainVars
    BY <1>3, LightningFunds
  <1>4. CASE UNCHANGED vars
    <2>1. UNCHANGED <<onchain, deposits, transactions, utxo, stage, task>>
      BY <1>4 DEF vars, db, onchainVars, chain
    <2>2. SameRecords("deposit") /\ SameRecords("withdrawal")
      BY <2>1 DEF SameRecords, Recorded
    <2>3. Evolves(utxo, utxo', broadcast')
      BY <1>1, <2>1, SameChain
    <2>4. QED
      BY <1>1, <2>1, <2>2, <2>3, FundsStay
  <1>5. QED
    BY <1>2, <1>3, <1>4 DEF Next

\* However requests, retries, loops, failures and restarts interleave, the wallet implements
\* FundsLedger: an output is credited once, to the wallet it paid, and the satoshis of a
\* withdrawal or a peg-out leave the balance once and then either stand in the ledger or are
\* given back, once (reserve_onchain_balance, release_onchain_balance,
\* create_onchain_withdrawal, credit_confirmed_deposit).
THEOREM FundsImplemented == Spec => ImplementsFunds
  BY InitFunds, NextFunds, WalletInv, PTL DEF Spec, ImplementsFunds, Funds!Spec
=============================================================================
