------------------------ MODULE EscrowSettlement_proofs ------------------------
(***************************************************************************)
(* Proofs about EscrowSettlement, for every set of users, orders, trades   *)
(* and handlers.                                                           *)
(*                                                                         *)
(* A settlement is decided on rows a handler read several steps before it  *)
(* writes, so the properties are not inductive by themselves: IInv adds    *)
(* what the rows in a handler's hands still say about the tables.          *)
(***************************************************************************)
EXTENDS EscrowSettlement, FiniteSums, TLAPS

\* No transaction changes whose an order is, or how many units it asks for.
OrdersKeepTerms ==
    \A o \in OrderIds :
        /\ orders[o].user = InitOrders[o].user
        /\ orders[o].quantity = InitOrders[o].quantity

\* An order row read earlier is right about those.
Snapshot(row) ==
    /\ row.user = InitOrders[row.id].user
    /\ row.quantity = InitOrders[row.id].quantity
    /\ row.filled <= row.quantity

\* Only a signature recorded in inspection, or a settlement, leaves one in the row,
\* and the buyer's never precedes the seller's.
SignaturesInv ==
    \A t \in TradeIds :
        /\ escrows[t].signatures # {} =>
             escrows[t].status \in {"inspection_pending", "released", "refunded"}
        /\ <<"release", "buyer">> \in escrows[t].signatures =>
             <<"release", "seller">> \in escrows[t].signatures
        /\ escrows[t].status = "inspection_pending" =>
             <<"release", "seller">> \in escrows[t].signatures

InHands(h) == task[h].stage \in {"prepare", "sign", "record", "broadcast", "persist"}

WatchInv(w) ==
    LET t == task[w].trade IN
    /\ task[w].stage \in {"idle", "listed", "expire", "scan", "mark", "prepare"}
    /\ task[w].stage \in {"listed", "expire", "scan", "mark"} =>
         trades[t].status # "none" /\ escrows[t].status # "none"
    /\ task[w].stage = "expire" =>
         /\ task[w].buyRow.id = trades[t].buyOrder
         /\ task[w].sellRow.id = trades[t].sellOrder

\* The buyer signs only in inspection, which ends by release alone.
SignInv(r) ==
    LET t == task[r].trade IN
    /\ task[r].stage \in {"idle", "prepare", "sign", "record", "broadcast", "persist"}
    /\ InHands(r) =>
         /\ task[r].path = "release"
         /\ <<"release", "buyer">> \in task[r].row.signatures =>
              <<"release", "seller">> \in task[r].row.signatures
         /\ task[r].role = "buyer" =>
              /\ escrows[t].status \in {"inspection_pending", "released"}
              /\ disputes[t] = "none"
         /\ task[r].row.status \in {"funded", "inspection_pending"}
              \/ escrows[t].status \in {"disputed", "released", "refunded"}
         /\ escrows[t].status \notin {"none", "created", "expired"}
    /\ task[r].stage = "record" => task[r].role = "seller"
    /\ task[r].stage \in {"broadcast", "persist"} =>
         /\ task[r].role = "buyer"
         /\ {"release"} \X {"seller", "buyer"} \subseteq task[r].row.signatures
    /\ task[r].stage = "persist" => chain[t] = "release"

Beneficiary(path) == IF path = "release" THEN "seller" ELSE "buyer"

ResolveInv(a) ==
    LET t == task[a].trade
    IN  /\ task[a].stage \in {"idle", "prepare", "sign", "broadcast", "persist"}
        /\ InHands(a) =>
             /\ escrows[t].status \in {"disputed", "released", "refunded"}
             /\ disputes[t] # "none"
             /\ <<"release", "buyer">> \in task[a].row.signatures =>
                  <<"release", "seller">> \in task[a].row.signatures
        /\ task[a].stage \in {"broadcast", "persist"} =>
             {<<task[a].path, Beneficiary(task[a].path)>>, <<task[a].path, "platform">>}
               \subseteq task[a].row.signatures
        /\ task[a].stage = "persist" => chain[t] = task[a].path

TasksInv ==
    /\ \A h \in Handlers : Snapshot(task[h].buyRow) /\ Snapshot(task[h].sellRow)
    /\ \A w \in Watchers : WatchInv(w)
    /\ \A r \in SignRequests : SignInv(r)
    /\ \A a \in Resolutions : ResolveInv(a)

IInv ==
    /\ TypeOK
    /\ OrdersKeepTerms
    /\ StatusesAgree
    /\ BroadcastCanBeRecorded
    /\ TerminalStateIsOnChain
    /\ SettlementIsSigned
    /\ SignaturesInv
    /\ TasksInv

-----------------------------------------------------------------------------
(* Orders.                                                                 *)

\* apply_order_fill and revert_order_fill keep an order's terms and its quantity
\* between 0 and what it asks for, however old the row they are given.
KeepsOrder(current, new) ==
    /\ new \in OrderRow
    /\ new.id = current.id /\ new.user = current.user
    /\ new.quantity = current.quantity /\ new.filled <= new.quantity

\* Storing a quantity the order can hold, with a status, keeps the order's terms.
LEMMA StoreFillKeepsOrder ==
    ASSUME NEW current \in OrderRow, NEW filled \in 0..MaxQuantity,
           NEW status \in OrderStatuses, filled <= current.quantity
    PROVE  KeepsOrder(current, [current EXCEPT !.filled = filled, !.status = status])
  BY DEF OrderRow, KeepsOrder

\* So do apply_order_fill and revert_order_fill, whatever row they compute from.
LEMMA FillKeepsOrder ==
    ASSUME NEW current \in OrderRow, NEW row \in OrderRow, NEW quantity \in Nat,
           row.quantity = current.quantity, row.filled <= row.quantity
    PROVE  /\ KeepsOrder(current, ApplyOrderFill(current, row, quantity))
           /\ KeepsOrder(current, RevertOrderFill(current, row, quantity))
  <1> DEFINE fa == IF row.filled + quantity < row.quantity
                   THEN row.filled + quantity ELSE row.quantity
             fr == IF row.filled > quantity THEN row.filled - quantity ELSE 0
  <1>1. fa \in 0..MaxQuantity /\ fa <= current.quantity
    BY MarketAssumption DEF OrderRow
  <1>2. fr \in 0..MaxQuantity /\ fr <= current.quantity
    BY MarketAssumption DEF OrderRow
  <1>3. FillStatus(row, fa) \in OrderStatuses /\ FillStatus(row, fr) \in OrderStatuses
    BY DEF FillStatus, OrderStatuses, OpenOrderStatuses
  <1>4. ApplyOrderFill(current, row, quantity)
          = [current EXCEPT !.filled = fa, !.status = FillStatus(row, fa)]
    BY DEF ApplyOrderFill
  <1>5. RevertOrderFill(current, row, quantity)
          = [current EXCEPT !.filled = fr, !.status = FillStatus(row, fr)]
    BY DEF RevertOrderFill
  <1> HIDE DEF fa, fr
  <1>6. KeepsOrder(current, [current EXCEPT !.filled = fa, !.status = FillStatus(row, fa)])
    BY <1>1, <1>3, StoreFillKeepsOrder
  <1>7. KeepsOrder(current, [current EXCEPT !.filled = fr, !.status = FillStatus(row, fr)])
    BY <1>2, <1>3, StoreFillKeepsOrder
  <1>8. QED
    BY <1>4, <1>5, <1>6, <1>7

-----------------------------------------------------------------------------
(* Types.                                                                  *)

\* The value of an escrow not created yet is an escrow row.
LEMMA NoEscrowType == NoEscrow \in EscrowRow
  BY DEF NoEscrow, EscrowRow, NoMetadata, SettlementMetadata

\* An idle handler holds well-typed rows that are right about their orders.
LEMMA IdleTaskType ==
    IdleTask \in Task /\ Snapshot(IdleTask.buyRow) /\ Snapshot(IdleTask.sellRow)
  <1> DEFINE o == CHOOSE o \in OrderIds : TRUE
             t == CHOOSE t \in TradeIds : TRUE
  <1>1. o \in OrderIds /\ t \in TradeIds
    BY EscrowAssumption DEF EscrowAssumption
  <1>2. InitOrders[o] \in OrderRow /\ Snapshot(InitOrders[o])
    BY <1>1, EscrowAssumption DEF EscrowAssumption, Snapshot, OrderRow
  <1> HIDE DEF o, t
  <1>3. QED
    BY <1>1, <1>2, NoEscrowType DEF IdleTask, Task, Stages, Roles, Paths, o, t

\* The invariant holds of the initial tables.
LEMMA InitInv == Init => IInv
  <1> SUFFICES ASSUME Init PROVE IInv
    OBVIOUS
  <1> USE EscrowAssumption DEF EscrowAssumption, Init
  <1>1. TypeOK
    <2>1. orders \in [OrderIds -> OrderRow]
          /\ \A o \in OrderIds : orders[o].id = o /\ orders[o].filled <= orders[o].quantity
      BY DEF OrderRow
    <2>2. trades \in [TradeIds -> TradeRow]
      BY MarketAssumption DEF TradeRow
    <2>3. QED
      BY <2>1, <2>2, NoEscrowType, IdleTaskType
      DEF TypeOK, DBTypeOK, DisputeStatuses, ChainStatuses
  <1>2. OrdersKeepTerms
    BY DEF OrdersKeepTerms
  <1>3. StatusesAgree /\ BroadcastCanBeRecorded /\ TerminalStateIsOnChain
    BY DEF StatusesAgree, BroadcastCanBeRecorded, TerminalStateIsOnChain, NoEscrow
  <1>4. SettlementIsSigned /\ SignaturesInv
    BY DEF SettlementIsSigned, SignaturesInv, NoEscrow
  <1>5. TasksInv
    BY IdleTaskType DEF TasksInv, Handlers, WatchInv, SignInv, ResolveInv, InHands, IdleTask
  <1>6. QED
    BY <1>1, <1>2, <1>3, <1>4, <1>5 DEF IInv

-----------------------------------------------------------------------------
(* Every step runs one transaction of MarketplaceDB, with what the         *)
(* handler that runs it has made sure of, or leaves the tables alone.      *)

Match(t) ==
    \E b, s \in OrderIds, quantity \in 1..MaxQuantity, price \in Prices :
        CreateTradeEscrow(t, orders[b], orders[s], quantity, price)

Expire(t) ==
    \E row \in EscrowRow, buyRow, sellRow \in OrderRow :
        /\ Snapshot(buyRow) /\ buyRow.id = trades[t].buyOrder
        /\ Snapshot(sellRow) /\ sellRow.id = trades[t].sellOrder
        /\ ExpireUnfundedEscrow(t, row, buyRow, sellRow)

Prepare(t) ==
    \E metadata \in SettlementMetadata : UpdateEscrowSettlementMetadata(t, metadata)

SellerSigns(t) ==
    \E row \in EscrowRow, metadata \in SettlementMetadata :
        /\ row.status \in {"funded", "inspection_pending"}
             \/ escrows[t].status \in {"disputed", "released", "refunded"}
        /\ RecordEscrowSignature(t, row, <<"release", "seller">>, metadata)

BuyerReleases(t) ==
    \E signatures \in SUBSET Signatures, metadata \in SettlementMetadata :
        /\ {"release"} \X {"seller", "buyer"} \subseteq signatures
        /\ chain[t] = "release"
        /\ escrows[t].status \in {"inspection_pending", "released"}
        /\ ProcessEscrowSignature(t, signatures, metadata)

Resolve(t) ==
    \E path \in Paths, signatures \in SUBSET Signatures, metadata \in SettlementMetadata :
        /\ {<<path, Beneficiary(path)>>, <<path, "platform">>} \subseteq signatures
        /\ <<"release", "buyer">> \in signatures => <<"release", "seller">> \in signatures
        /\ chain[t] = path
        /\ ResolveDispute(t, path, signatures, metadata)

Transaction(t) ==
    \/ Match(t) \/ MarkEscrowFunded(t) \/ Expire(t) \/ Prepare(t)
    \/ SellerSigns(t) \/ BuyerReleases(t) \/ OpenDispute(t) \/ Resolve(t)

-----------------------------------------------------------------------------
(* Type correctness.                                                       *)

OrdersOK(os) ==
    /\ os \in [OrderIds -> OrderRow]
    /\ \A o \in OrderIds :
         /\ os[o].id = o /\ os[o].filled <= os[o].quantity
         /\ os[o].user = InitOrders[o].user /\ os[o].quantity = InitOrders[o].quantity

\* Updating the two orders of a trade keeps the orders well typed.
LEMMA StoreTwoOrders ==
    ASSUME NEW os, NEW b \in OrderIds, NEW s \in OrderIds, NEW newBuy, NEW newSell,
           OrdersOK(os), KeepsOrder(os[b], newBuy), KeepsOrder(os[s], newSell)
    PROVE  OrdersOK([os EXCEPT ![b] = newBuy, ![s] = newSell])
  <1>1. ASSUME NEW o \in OrderIds, NEW fs, OrdersOK(fs), NEW new, KeepsOrder(fs[o], new)
        PROVE  OrdersOK([fs EXCEPT ![o] = new])
    BY <1>1 DEF OrdersOK, KeepsOrder
  <1>2. OrdersOK([os EXCEPT ![b] = newBuy])
    BY <1>1
  <1>3. KeepsOrder([os EXCEPT ![b] = newBuy][s], newSell)
    BY DEF OrdersOK, KeepsOrder
  <1> DEFINE one == [os EXCEPT ![b] = newBuy]
  <1>4. OrdersOK(one) /\ KeepsOrder(one[s], newSell)
    BY <1>2, <1>3
  <1> HIDE DEF one
  <1>5. OrdersOK([one EXCEPT ![s] = newSell])
    BY <1>1, <1>4
  <1>6. [os EXCEPT ![b] = newBuy, ![s] = newSell] = [one EXCEPT ![s] = newSell]
    BY DEF one
  <1>7. QED
    BY <1>5, <1>6

\* OrdersOK is the part of the invariant that is about orders.
LEMMA OrdersOKNow == TypeOK /\ OrdersKeepTerms <=> TypeOK /\ OrdersOK(orders)
  BY DEF TypeOK, DBTypeOK, OrdersKeepTerms, OrdersOK

\* create_trade_escrow keeps the types and the orders' terms.
LEMMA MatchType ==
    ASSUME IInv, NEW t \in TradeIds, Match(t)
    PROVE  DBTypeOK' /\ OrdersKeepTerms'
  <1> PICK b \in OrderIds, s \in OrderIds, quantity \in 1..MaxQuantity, price \in Prices :
          CreateTradeEscrow(t, orders[b], orders[s], quantity, price)
    BY DEF Match
  <1> DEFINE newBuy == ApplyOrderFill(orders[b], orders[b], quantity)
             newSell == ApplyOrderFill(orders[s], orders[s], quantity)
  <1> USE DEF IInv, TypeOK, DBTypeOK
  <1>1. /\ KeepsOrder(orders[b], newBuy) /\ KeepsOrder(orders[s], newSell)
        /\ orders[b].id = b /\ orders[s].id = s
    BY FillKeepsOrder, MarketAssumption
  <1>2. orders' = [orders EXCEPT ![b] = newBuy, ![s] = newSell]
    BY <1>1 DEF CreateTradeEscrow
  <1> HIDE DEF newBuy, newSell
  <1>3. OrdersOK(orders')
    BY <1>1, <1>2, OrdersOKNow, StoreTwoOrders
  <1>4. trades' \in [TradeIds -> TradeRow]
    BY <1>1, MarketAssumption DEF CreateTradeEscrow, TradeRow, TradeStatuses
  <1>5. escrows' \in [TradeIds -> EscrowRow]
    BY DEF CreateTradeEscrow, EscrowRow, NoMetadata, SettlementMetadata, EscrowStatuses
  <1>6. balance' \in [Users -> Nat]
    BY DEF CreateTradeEscrow, OrderRow
  <1>7. disputes' \in [TradeIds -> DisputeStatuses]
    BY DEF CreateTradeEscrow
  <1>8. QED
    BY <1>3, <1>4, <1>5, <1>6, <1>7 DEF OrdersOK, OrdersKeepTerms

\* expire_unfunded_escrow does, with the order rows a watcher read earlier.
LEMMA ExpireType ==
    ASSUME IInv, NEW t \in TradeIds, Expire(t)
    PROVE  DBTypeOK' /\ OrdersKeepTerms'
  <1> PICK row \in EscrowRow, buyRow \in OrderRow, sellRow \in OrderRow :
          /\ Snapshot(buyRow) /\ buyRow.id = trades[t].buyOrder
          /\ Snapshot(sellRow) /\ sellRow.id = trades[t].sellOrder
          /\ ExpireUnfundedEscrow(t, row, buyRow, sellRow)
    BY DEF Expire
  <1> DEFINE b == trades[t].buyOrder
             s == trades[t].sellOrder
             quantity == trades[t].quantity
             newBuy == RevertOrderFill(orders[b], buyRow, quantity)
             newSell == RevertOrderFill(orders[s], sellRow, quantity)
  <1> USE DEF IInv, TypeOK, DBTypeOK
  <1>1. b \in OrderIds /\ s \in OrderIds /\ quantity \in Nat
    BY MarketAssumption DEF TradeRow
  <1>2. KeepsOrder(orders[b], newBuy) /\ KeepsOrder(orders[s], newSell)
    BY <1>1, FillKeepsOrder DEF OrdersKeepTerms, Snapshot
  <1>3. orders' = [orders EXCEPT ![b] = newBuy, ![s] = newSell]
    BY DEF ExpireUnfundedEscrow
  <1> HIDE DEF newBuy, newSell
  <1>4. OrdersOK(orders')
    BY <1>1, <1>2, <1>3, OrdersOKNow, StoreTwoOrders
  <1>5. trades' \in [TradeIds -> TradeRow]
    BY DEF ExpireUnfundedEscrow, TradeRow, TradeStatuses
  <1>6. escrows' \in [TradeIds -> EscrowRow]
    <2>1. [escrows[t] EXCEPT !.status = "expired", !.metadata = row.metadata] \in EscrowRow
      BY DEF EscrowRow, EscrowStatuses
    <2>2. QED
      BY <2>1 DEF ExpireUnfundedEscrow
  <1>7. balance' \in [Users -> Nat]
    BY <1>1 DEF ExpireUnfundedEscrow, OrderRow
  <1>8. disputes' \in [TradeIds -> DisputeStatuses]
    BY DEF ExpireUnfundedEscrow
  <1>9. QED
    BY <1>4, <1>5, <1>6, <1>7, <1>8 DEF OrdersOK, OrdersKeepTerms

\* Every transaction does.
LEMMA TransactionType ==
    ASSUME IInv, NEW t \in TradeIds, Transaction(t)
    PROVE  DBTypeOK' /\ OrdersKeepTerms'
  <1> USE DEF IInv, TypeOK, DBTypeOK
  <1>1. trades[t].quantity \in Nat /\ trades[t] \in TradeRow /\ escrows[t] \in EscrowRow
        /\ trades[t].buyOrder \in OrderIds /\ trades[t].sellOrder \in OrderIds
    BY MarketAssumption DEF TradeRow
  <1>2. Buyer(t) \in Users /\ Seller(t) \in Users
    BY <1>1 DEF Buyer, Seller, OrderRow
  <1>3. ASSUME NEW status \in TradeStatuses
        PROVE  [trades EXCEPT ![t].status = status] \in [TradeIds -> TradeRow]
    BY <1>1 DEF TradeRow
  <1>4. ASSUME NEW row \in EscrowRow
        PROVE  [escrows EXCEPT ![t] = row] \in [TradeIds -> EscrowRow]
    OBVIOUS
  <1>5. CASE Match(t)
    BY <1>5, MatchType
  <1>6. CASE MarkEscrowFunded(t)
    <2>1. [escrows[t] EXCEPT !.status = "funded", !.metadata.funding = TRUE] \in EscrowRow
      BY <1>1 DEF EscrowRow, EscrowStatuses, SettlementMetadata
    <2>2. escrows' \in [TradeIds -> EscrowRow] /\ trades' \in [TradeIds -> TradeRow]
      BY <1>3, <1>6, <2>1 DEF MarkEscrowFunded, TradeStatuses
    <2>3. QED
      BY <1>6, <2>2 DEF MarkEscrowFunded, OrdersKeepTerms
  <1>7. CASE Expire(t)
    BY <1>7, ExpireType
  <1>8. CASE Prepare(t)
    <2>1. PICK metadata \in SettlementMetadata : UpdateEscrowSettlementMetadata(t, metadata)
      BY <1>8 DEF Prepare
    <2>2. escrows' \in [TradeIds -> EscrowRow]
      BY <1>1, <2>1 DEF UpdateEscrowSettlementMetadata, EscrowRow
    <2>3. QED
      BY <2>1, <2>2 DEF UpdateEscrowSettlementMetadata, OrdersKeepTerms
  <1>9. CASE SellerSigns(t)
    <2>1. PICK row \in EscrowRow, metadata \in SettlementMetadata :
              RecordEscrowSignature(t, row, <<"release", "seller">>, metadata)
      BY <1>9 DEF SellerSigns
    <2>2. <<"release", "seller">> \in Signatures
      BY DEF Signatures, Paths
    <2>3. escrows' \in [TradeIds -> EscrowRow]
      BY <2>1, <2>2 DEF RecordEscrowSignature, EscrowRow, EscrowStatuses
    <2>4. QED
      BY <2>1, <2>3 DEF RecordEscrowSignature, OrdersKeepTerms
  <1>10. CASE BuyerReleases(t)
    <2>1. PICK signatures \in SUBSET Signatures, metadata \in SettlementMetadata :
              ProcessEscrowSignature(t, signatures, metadata)
      BY <1>10 DEF BuyerReleases
    <2>2. escrows' \in [TradeIds -> EscrowRow]
      BY <2>1 DEF ProcessEscrowSignature, EscrowRow, EscrowStatuses
    <2>3. trades' \in [TradeIds -> TradeRow]
      BY <1>3, <2>1 DEF ProcessEscrowSignature, TradeStatuses
    <2>4. balance' \in [Users -> Nat]
      BY <1>1, <1>2, <2>1 DEF ProcessEscrowSignature
    <2>5. QED
      BY <2>1, <2>2, <2>3, <2>4 DEF ProcessEscrowSignature, OrdersKeepTerms
  <1>11. CASE OpenDispute(t)
    <2>1. escrows' \in [TradeIds -> EscrowRow]
      BY <1>1, <1>11 DEF OpenDispute, EscrowRow, EscrowStatuses
    <2>2. trades' \in [TradeIds -> TradeRow] /\ disputes' \in [TradeIds -> DisputeStatuses]
      BY <1>3, <1>11 DEF OpenDispute, TradeStatuses, DisputeStatuses
    <2>3. QED
      BY <1>11, <2>1, <2>2 DEF OpenDispute, OrdersKeepTerms
  <1>12. CASE Resolve(t)
    <2>1. PICK path \in Paths, signatures \in SUBSET Signatures,
               metadata \in SettlementMetadata :
              ResolveDispute(t, path, signatures, metadata)
      BY <1>12 DEF Resolve
    <2>2. MergeMetadata(escrows[t].metadata, metadata) \in SettlementMetadata
      BY <1>1 DEF MergeMetadata, SettlementMetadata, EscrowRow
    <2>3. escrows' \in [TradeIds -> EscrowRow]
      BY <2>1, <2>2 DEF ResolveDispute, EscrowRow, EscrowStatuses
    <2>4. trades' \in [TradeIds -> TradeRow] /\ disputes' \in [TradeIds -> DisputeStatuses]
      BY <1>3, <2>1 DEF ResolveDispute, TradeStatuses, DisputeStatuses
    <2>5. balance' \in [Users -> Nat]
      BY <1>1, <1>2, <2>1 DEF ResolveDispute
    <2>6. QED
      BY <2>1, <2>3, <2>4, <2>5 DEF ResolveDispute, OrdersKeepTerms
  <1>13. QED
    BY <1>5, <1>6, <1>7, <1>8, <1>9, <1>10, <1>11, <1>12 DEF Transaction

-----------------------------------------------------------------------------
(* What a transaction may do to the rows of a trade.                       *)

Agree(tradeStatus, escrowStatus, dispute) ==
    <<tradeStatus, escrowStatus, dispute>> \in
        {<<"none", "none", "none">>,
         <<"pending", "created", "none">>,
         <<"cancelled", "expired", "none">>,
         <<"escrowed", "funded", "none">>,
         <<"escrowed", "inspection_pending", "none">>,
         <<"settled", "released", "none">>,
         <<"disputed", "disputed", "open">>,
         <<"settled", "released", "release">>,
         <<"cancelled", "refunded", "refund">>}

\* The rows of t move along the diagram, all three of them or none.
RowsMove(t) ==
    /\ Agree(trades'[t].status, escrows'[t].status, disputes'[t])
    /\ escrows'[t].status \in {escrows[t].status} \cup Progress(escrows[t].status)
    /\ \/ escrows[t].status # "none" /\ trades'[t] = [trades[t] EXCEPT !.status = trades'[t].status]
       \/ trades'[t].status \in {"none", "pending"} /\ escrows[t].status = "none"
    /\ disputes[t] # "none" => disputes'[t] # "none"
    /\ escrows[t].status \in {"inspection_pending", "released"} => disputes'[t] = disputes[t]

\* A transaction of one trade leaves the rows of the others.
LEMMA OtherRowsStay ==
    ASSUME IInv, NEW t \in TradeIds, Transaction(t), NEW u \in TradeIds, u # t
    PROVE  trades'[u] = trades[u] /\ escrows'[u] = escrows[u] /\ disputes'[u] = disputes[u]
  <1> USE DEF IInv, TypeOK, DBTypeOK
  <1>1. CASE Match(t)
    BY <1>1 DEF Match, CreateTradeEscrow
  <1>2. CASE MarkEscrowFunded(t)
    BY <1>2 DEF MarkEscrowFunded
  <1>3. CASE Expire(t)
    BY <1>3 DEF Expire, ExpireUnfundedEscrow
  <1>4. CASE Prepare(t)
    BY <1>4 DEF Prepare, UpdateEscrowSettlementMetadata
  <1>5. CASE SellerSigns(t)
    BY <1>5 DEF SellerSigns, RecordEscrowSignature
  <1>6. CASE BuyerReleases(t)
    BY <1>6 DEF BuyerReleases, ProcessEscrowSignature
  <1>7. CASE OpenDispute(t)
    BY <1>7 DEF OpenDispute
  <1>8. CASE Resolve(t)
    BY <1>8 DEF Resolve, ResolveDispute
  <1>9. QED
    BY <1>1, <1>2, <1>3, <1>4, <1>5, <1>6, <1>7, <1>8 DEF Transaction

\* Every transaction moves the three rows of a trade together, forward, or leaves them.
LEMMA TransactionMovesRows ==
    ASSUME IInv, NEW t \in TradeIds, Transaction(t)
    PROVE  \A u \in TradeIds : RowsMove(u)
  <1> USE DEF IInv, TypeOK, DBTypeOK
  <1>1. \A u \in TradeIds :
            /\ Agree(trades[u].status, escrows[u].status, disputes[u])
            /\ trades[u] = [trades[u] EXCEPT !.status = trades[u].status]
    BY DEF StatusesAgree, Agree, TradeRow
  <1>2. ASSUME NEW u \in TradeIds, u # t
        PROVE  trades'[u] = trades[u] /\ escrows'[u] = escrows[u] /\ disputes'[u] = disputes[u]
    BY <1>2, OtherRowsStay
  <1>3. ASSUME NEW u \in TradeIds, u # t
        PROVE  RowsMove(u)
    BY <1>1, <1>2, <1>3 DEF RowsMove, Agree
  <1>4. RowsMove(t)
    <2> USE DEF RowsMove, Agree, Progress
    <2>1. CASE Match(t)
      BY <1>1, <2>1 DEF Match, CreateTradeEscrow
    <2>2. CASE MarkEscrowFunded(t)
      BY <1>1, <2>2 DEF MarkEscrowFunded, EscrowRow, TradeRow
    <2>3. CASE Expire(t)
      BY <1>1, <2>3 DEF Expire, ExpireUnfundedEscrow, EscrowRow, TradeRow
    <2>4. CASE Prepare(t)
      BY <1>1, <2>4 DEF Prepare, UpdateEscrowSettlementMetadata, EscrowRow
    <2>5. CASE SellerSigns(t)
      BY <1>1, <2>5 DEF SellerSigns, RecordEscrowSignature
    <2>6. CASE BuyerReleases(t)
      BY <1>1, <2>6 DEF BuyerReleases, ProcessEscrowSignature, TradeRow
    <2>7. CASE OpenDispute(t)
      BY <1>1, <2>7 DEF OpenDispute, EscrowRow, TradeRow
    <2>8. CASE Resolve(t)
      BY <1>1, <2>8 DEF Resolve, ResolveDispute, TradeRow, Paths
    <2>9. QED
      BY <2>1, <2>2, <2>3, <2>4, <2>5, <2>6, <2>7, <2>8 DEF Transaction
  <1>5. QED
    BY <1>3, <1>4

\* Every transaction keeps what the rows promise of the chain and of the signatures.
LEMMA TransactionKeepsSettlement ==
    ASSUME IInv, NEW t \in TradeIds, Transaction(t), UNCHANGED chain
    PROVE  /\ TerminalStateIsOnChain' /\ BroadcastCanBeRecorded'
           /\ SettlementIsSigned' /\ SignaturesInv'
  <1> DEFINE Settled(u, status, dispute, signatures) ==
               /\ status = "released" => chain[u] = "release"
               /\ status = "refunded" => chain[u] = "refund"
               /\ chain[u] = "release" =>
                    status \in {"inspection_pending", "disputed", "released"}
               /\ chain[u] = "refund" => status \in {"disputed", "refunded"}
               /\ status = "released" =>
                    \/ {"release"} \X {"seller", "buyer"} \subseteq signatures /\ dispute = "none"
                    \/ {"release"} \X {"seller", "platform"} \subseteq signatures
                         /\ dispute = "release"
               /\ status = "refunded" => {"refund"} \X {"buyer", "platform"} \subseteq signatures
               /\ signatures # {} => status \in {"inspection_pending", "released", "refunded"}
               /\ <<"release", "buyer">> \in signatures => <<"release", "seller">> \in signatures
               /\ status = "inspection_pending" => <<"release", "seller">> \in signatures
  <1> USE DEF IInv, TypeOK, DBTypeOK
  <1>1. \A u \in TradeIds :
            /\ Settled(u, escrows[u].status, disputes[u], escrows[u].signatures)
            /\ Agree(trades[u].status, escrows[u].status, disputes[u])
    BY DEF StatusesAgree, Agree, TerminalStateIsOnChain, BroadcastCanBeRecorded,
       SettlementIsSigned, SettledBy, SignaturesInv
  <1>2. ASSUME NEW u \in TradeIds, u # t
        PROVE  escrows'[u] = escrows[u] /\ disputes'[u] = disputes[u]
    BY <1>2, OtherRowsStay
  <1>3. Settled(t, escrows'[t].status, disputes'[t], escrows'[t].signatures)
    <2> USE DEF Agree
    <2>1. CASE Match(t)
      BY <1>1, <2>1 DEF Match, CreateTradeEscrow
    <2>2. CASE MarkEscrowFunded(t)
      BY <1>1, <2>2 DEF MarkEscrowFunded, EscrowRow
    <2>3. CASE Expire(t)
      BY <1>1, <2>3 DEF Expire, ExpireUnfundedEscrow, EscrowRow
    <2>4. CASE Prepare(t)
      BY <1>1, <2>4 DEF Prepare, UpdateEscrowSettlementMetadata, EscrowRow
    <2>5. CASE SellerSigns(t)
      BY <1>1, <2>5 DEF SellerSigns, RecordEscrowSignature
    <2>6. CASE BuyerReleases(t)
      BY <1>1, <2>6 DEF BuyerReleases, ProcessEscrowSignature
    <2>7. CASE OpenDispute(t)
      BY <1>1, <2>7 DEF OpenDispute, EscrowRow
    <2>8. CASE Resolve(t)
      <3>1. PICK path \in Paths, signatures \in SUBSET Signatures,
                 metadata \in SettlementMetadata :
                /\ {<<path, Beneficiary(path)>>, <<path, "platform">>} \subseteq signatures
                /\ <<"release", "buyer">> \in signatures => <<"release", "seller">> \in signatures
                /\ chain[t] = path
                /\ ResolveDispute(t, path, signatures, metadata)
        BY <2>8 DEF Resolve
      <3>2. escrows'[t].signatures = signatures /\ disputes'[t] = path
            /\ escrows'[t].status = IF path = "release" THEN "released" ELSE "refunded"
        BY <3>1 DEF ResolveDispute
      <3>3. QED
        BY <3>1, <3>2 DEF Paths, Beneficiary
    <2>9. QED
      BY <2>1, <2>2, <2>3, <2>4, <2>5, <2>6, <2>7, <2>8 DEF Transaction
  <1>4. \A u \in TradeIds :
            Settled(u, escrows'[u].status, disputes'[u], escrows'[u].signatures)
    BY <1>1, <1>2, <1>3
  <1>5. QED
    BY <1>4 DEF TerminalStateIsOnChain, BroadcastCanBeRecorded,
       SettlementIsSigned, SettledBy, SignaturesInv

-----------------------------------------------------------------------------
(* What a step may do to the tables and the chain.                         *)

Quiet == UNCHANGED <<db, chain>>

Works == UNCHANGED chain /\ \E t \in TradeIds : Transaction(t)

Pays ==
    /\ UNCHANGED db
    /\ \E t \in TradeIds : chain[t] = "unfunded" /\ chain' = [chain EXCEPT ![t] = "paid"]

Spends ==
    /\ UNCHANGED db
    /\ \E t \in TradeIds, path \in Paths :
         /\ chain[t] \in {"paid", path}
         /\ chain' = [chain EXCEPT ![t] = path]
         /\ escrows[t].status \in (IF path = "release"
                                   THEN {"inspection_pending", "disputed", "released"}
                                   ELSE {"disputed", "refunded"})

Effect == Quiet \/ Works \/ Pays \/ Spends

\* What the invariant says of one handler's rows and of the rows of its trade.
LEMMA HandlerType ==
    ASSUME IInv, NEW h \in Handlers
    PROVE  /\ task[h] \in Task /\ task[h].trade \in TradeIds /\ task[h].path \in Paths
           /\ task[h].row \in EscrowRow /\ escrows[task[h].trade] \in EscrowRow
           /\ task[h].buyRow \in OrderRow /\ task[h].sellRow \in OrderRow
           /\ Snapshot(task[h].buyRow) /\ Snapshot(task[h].sellRow)
           /\ Agree(trades[task[h].trade].status, escrows[task[h].trade].status,
                    disputes[task[h].trade])
  BY DEF IInv, TypeOK, DBTypeOK, Task, TasksInv, StatusesAgree, Agree

\* Preparing a PSET writes nothing but metadata, if that.
LEMMA PrepareEffect ==
    ASSUME NEW t \in TradeIds, NEW row \in EscrowRow, NEW path \in Paths,
           PrepareEscrowTransactionPset(t, row, path)
    PROVE  UNCHANGED db \/ Prepare(t)
  <1>1. [row.metadata EXCEPT !.unsigned = @ \cup {path}] \in SettlementMetadata
    BY DEF EscrowRow, SettlementMetadata
  <1>2. QED
    BY <1>1 DEF PrepareEscrowTransactionPset, Prepare

\* A watcher's step runs one transaction or none; the chain stays.
LEMMA WatcherEffect ==
    ASSUME IInv, NEW w \in Watchers, WatcherStep(w)
    PROVE  Quiet \/ Works
  <1>1. w \in Handlers /\ WatchInv(w)
    BY DEF Handlers, IInv, TasksInv
  <1> USE DEF Quiet, Works, db
  <1>2. CASE \E t \in TradeIds : WatchList(w, t)
    BY <1>2 DEF WatchList
  <1>3. CASE WatchCheckExpiry(w)
    BY <1>3 DEF WatchCheckExpiry
  <1>4. CASE WatchExpire(w)
    <2>1. CASE ExpireUnfundedEscrow(task[w].trade, task[w].row, task[w].buyRow, task[w].sellRow)
      <3>1. Expire(task[w].trade)
        BY <1>1, <1>4, <2>1, HandlerType DEF Expire, WatchExpire, WatchInv
      <3>2. QED
        BY <1>1, <1>4, <3>1, HandlerType DEF WatchExpire, Transaction
    <2>2. QED
      BY <1>4, <2>1 DEF WatchExpire
  <1>5. CASE WatchScan(w)
    BY <1>5 DEF WatchScan
  <1>6. CASE WatchMarkFunded(w)
    BY <1>1, <1>6, HandlerType DEF WatchMarkFunded, Transaction
  <1>7. CASE WatchPrepare(w)
    <2>1. UNCHANGED db \/ Prepare(task[w].trade)
      BY <1>1, <1>7, HandlerType, PrepareEffect DEF WatchPrepare, Paths
    <2>2. QED
      BY <1>1, <1>7, <2>1, HandlerType DEF WatchPrepare, Transaction
  <1>8. QED
    BY <1>2, <1>3, <1>4, <1>5, <1>6, <1>7 DEF WatcherStep

\* The preparation step of a request runs one transaction or none.
LEMMA PrepareForSigningEffect ==
    ASSUME IInv, NEW h \in Handlers, PrepareForSigning(h)
    PROVE  Quiet \/ Works
  <1>1. UNCHANGED db \/ Prepare(task[h].trade)
    BY HandlerType, PrepareEffect DEF PrepareForSigning
  <1>2. QED
    BY <1>1, HandlerType DEF PrepareForSigning, Transaction, Quiet, Works, db

\* A broadcast spends the escrow output only where the outcome can be recorded.
LEMMA BroadcastEffect ==
    ASSUME IInv, NEW h \in Handlers, Broadcast(h),
           LET t == task[h].trade IN
             \/ task[h].path = "release" /\ escrows[t].status \in {"inspection_pending", "released"}
             \/ escrows[t].status \in {"disputed", "released", "refunded"}
    PROVE  Spends
  <1> DEFINE t == task[h].trade
  <1>1. t \in TradeIds /\ task[h].path \in Paths
    BY HandlerType
  <1>2. /\ escrows[t].status = "released" => chain[t] = "release"
        /\ escrows[t].status = "refunded" => chain[t] = "refund"
    BY <1>1 DEF IInv, TerminalStateIsOnChain
  <1>3. QED
    BY <1>1, <1>2 DEF Broadcast, Spends, Paths, db

\* A sign request's step runs one transaction, spends the output, or does neither.
LEMMA SignEffect ==
    ASSUME IInv, NEW r \in SignRequests, SignStep(r)
    PROVE  Quiet \/ Works \/ Spends
  <1>1. r \in Handlers /\ SignInv(r)
    BY DEF Handlers, IInv, TasksInv
  <1> USE DEF Quiet, Works, db
  <1>2. CASE \E t \in TradeIds, role \in Roles : SignRead(r, t, role)
    BY <1>2 DEF SignRead
  <1>3. CASE PrepareForSigning(r)
    BY <1>1, <1>3, PrepareForSigningEffect
  <1>4. CASE SignPset(r)
    BY <1>4 DEF SignPset
  <1>5. CASE SignRecord(r)
    <2>1. SignedRow(r, "seller").metadata \in SettlementMetadata
      <3>1. task[r].path = "release" /\ task[r].row \in EscrowRow
        BY <1>1, <1>5, HandlerType DEF SignRecord, SignInv, InHands
      <3>2. QED
        BY <3>1 DEF SignedRow, EscrowRow, SettlementMetadata, Signatures, Paths
    <2>2. task[r].role = "seller" /\ task[r].row \in EscrowRow /\ task[r].trade \in TradeIds
      BY <1>1, <1>5, HandlerType DEF SignRecord, SignInv
    <2>3. SellerSigns(task[r].trade)
      BY <1>1, <1>5, <2>1, <2>2 DEF SignRecord, SellerSigns, SignInv, InHands
    <2>4. QED
      BY <1>5, <2>2, <2>3 DEF SignRecord, Transaction
  <1>6. CASE Broadcast(r)
    BY <1>1, <1>6, BroadcastEffect DEF Broadcast, SignInv, InHands
  <1>7. CASE SignPersist(r)
    <2>1. task[r].trade \in TradeIds /\ task[r].row.signatures \in SUBSET Signatures
          /\ task[r].row.metadata \in SettlementMetadata
      BY <1>1, HandlerType DEF EscrowRow
    <2>2. BuyerReleases(task[r].trade)
      BY <1>1, <1>7, <2>1 DEF SignPersist, BuyerReleases, SignInv, InHands
    <2>3. QED
      BY <1>7, <2>1, <2>2 DEF SignPersist, Transaction
  <1>8. QED
    BY <1>2, <1>3, <1>4, <1>5, <1>6, <1>7 DEF SignStep

\* So does a dispute resolution's.
LEMMA ResolveEffect ==
    ASSUME IInv, NEW a \in Resolutions, ResolveStep(a)
    PROVE  Quiet \/ Works \/ Spends
  <1>1. a \in Handlers /\ ResolveInv(a)
    BY DEF Handlers, IInv, TasksInv
  <1> USE DEF Quiet, Works, db
  <1>2. CASE \E t \in TradeIds, resolution \in Paths : ResolveRead(a, t, resolution)
    BY <1>2 DEF ResolveRead
  <1>3. CASE PrepareForSigning(a)
    BY <1>1, <1>3, PrepareForSigningEffect
  <1>4. CASE ResolveSign(a)
    BY <1>4 DEF ResolveSign
  <1>5. CASE Broadcast(a)
    BY <1>1, <1>5, BroadcastEffect DEF Broadcast, ResolveInv, InHands
  <1>6. CASE ResolvePersist(a)
    <2>1. task[a].trade \in TradeIds /\ task[a].row.signatures \in SUBSET Signatures
          /\ task[a].row.metadata \in SettlementMetadata /\ task[a].path \in Paths
      BY <1>1, HandlerType DEF EscrowRow
    <2>2. Resolve(task[a].trade)
      BY <1>1, <1>6, <2>1 DEF ResolvePersist, Resolve, ResolveInv, InHands
    <2>3. QED
      BY <1>6, <2>1, <2>2 DEF ResolvePersist, Transaction
  <1>7. QED
    BY <1>2, <1>3, <1>4, <1>5, <1>6 DEF ResolveStep

\* Every step of the system has one of the four effects.
LEMMA StepEffect == IInv /\ [Next]_vars => Effect
  <1> SUFFICES ASSUME IInv, [Next]_vars PROVE Effect
    OBVIOUS
  <1> USE DEF Effect, Quiet, Works, db
  <1>1. CASE Environment
    <2>1. ASSUME NEW t \in TradeIds, MatchOrders(t)
          PROVE  Works
      <3>1. \A o \in OrderIds : orders[o].price \in Prices
        BY DEF IInv, TypeOK, DBTypeOK, OrderRow
      <3>2. Match(t)
        BY <2>1, <3>1 DEF MatchOrders, Match
      <3>3. QED
        BY <2>1, <3>2 DEF MatchOrders, Transaction
    <2>2. ASSUME NEW t \in TradeIds, BuyerPays(t)
          PROVE  Pays
      BY <2>2 DEF BuyerPays, Pays
    <2>3. ASSUME NEW t \in TradeIds, ExpiryPasses(t)
          PROVE  Quiet
      BY <2>3 DEF ExpiryPasses
    <2>4. ASSUME NEW t \in TradeIds, CreateDispute(t)
          PROVE  Works
      BY <2>4 DEF CreateDispute, Transaction
    <2>5. ASSUME NEW h \in Handlers, HandlerFails(h)
          PROVE  Quiet
      BY <2>5 DEF HandlerFails
    <2>6. QED
      BY <1>1, <2>1, <2>2, <2>3, <2>4, <2>5 DEF Environment
  <1>2. CASE UNCHANGED vars
    BY <1>2 DEF vars
  <1>3. QED
    BY <1>1, <1>2, WatcherEffect, SignEffect, ResolveEffect DEF Next

-----------------------------------------------------------------------------
(* The tables' part of the invariant.                                      *)

TablesInv ==
    /\ DBTypeOK /\ OrdersKeepTerms /\ StatusesAgree /\ BroadcastCanBeRecorded
    /\ TerminalStateIsOnChain /\ SettlementIsSigned /\ SignaturesInv

\* Once a path has spent the escrow output, nothing takes it back.
ChainMoves ==
    /\ chain' \in [TradeIds -> ChainStatuses]
    /\ \A u \in TradeIds : chain[u] \in Paths => chain'[u] = chain[u]

\* A step that writes no table leaves the rows of every trade where they are.
LEMMA SameRowsMove ==
    ASSUME IInv, UNCHANGED db
    PROVE  \A u \in TradeIds : RowsMove(u)
  <1>1. \A u \in TradeIds : Agree(trades[u].status, escrows[u].status, disputes[u])
          /\ trades[u] = [trades[u] EXCEPT !.status = trades[u].status]
    BY DEF IInv, TypeOK, DBTypeOK, StatusesAgree, Agree, TradeRow
  <1>2. QED
    BY <1>1 DEF RowsMove, Agree, db

\* Each effect keeps the part of the invariant that is about tables and chain.
LEMMA EffectKeepsTables ==
    ASSUME IInv, Effect
    PROVE  TablesInv' /\ ChainMoves /\ \A u \in TradeIds : RowsMove(u)
  <1>1. CASE Quiet
    <2>1. TablesInv'
      BY <1>1 DEF Quiet, db, TablesInv, IInv, TypeOK, DBTypeOK, OrdersKeepTerms,
         StatusesAgree, BroadcastCanBeRecorded, TerminalStateIsOnChain,
         SettlementIsSigned, SettledBy, SignaturesInv
    <2>2. QED
      BY <1>1, <2>1, SameRowsMove DEF Quiet, ChainMoves, IInv, TypeOK
  <1>2. CASE Works
    <2>1. PICK t \in TradeIds : Transaction(t) /\ UNCHANGED chain
      BY <1>2 DEF Works
    <2>2. \A u \in TradeIds : RowsMove(u)
      BY <2>1, TransactionMovesRows
    <2>3. StatusesAgree'
      BY <2>2 DEF StatusesAgree, RowsMove, Agree
    <2>4. TablesInv'
      BY <2>1, <2>3, TransactionType, TransactionKeepsSettlement DEF TablesInv
    <2>5. QED
      BY <2>1, <2>2, <2>4 DEF ChainMoves, IInv, TypeOK
  <1>3. CASE Pays \/ Spends
    <2>1. UNCHANGED db
      BY <1>3 DEF Pays, Spends
    <2>2. /\ DBTypeOK' /\ OrdersKeepTerms' /\ StatusesAgree'
          /\ SettlementIsSigned' /\ SignaturesInv'
      BY <2>1 DEF db, IInv, TypeOK, DBTypeOK, OrdersKeepTerms, StatusesAgree,
         SettlementIsSigned, SettledBy, SignaturesInv
    <2>3. ChainMoves
      BY <1>3 DEF Pays, Spends, ChainMoves, IInv, TypeOK, ChainStatuses, Paths
    <2>4. BroadcastCanBeRecorded'
      BY <1>3, <2>1 DEF Pays, Spends, db, IInv, TypeOK, BroadcastCanBeRecorded, Paths
    <2>5. TerminalStateIsOnChain'
      BY <2>1, <2>3 DEF db, IInv, TerminalStateIsOnChain, ChainMoves, Paths
    <2>6. QED
      BY <2>1, <2>2, <2>3, <2>4, <2>5, SameRowsMove DEF TablesInv
  <1>4. QED
    BY <1>1, <1>2, <1>3 DEF Effect

-----------------------------------------------------------------------------
(* The handlers' part of the invariant: first the handlers a step leaves   *)
(* alone, then the one that takes it.                                      *)

Moves == ChainMoves /\ \A u \in TradeIds : RowsMove(u)

\* What a watcher relies on survives the steps of the others.
LEMMA WatchInvStable ==
    ASSUME IInv, Moves, NEW w \in Watchers, task'[w] = task[w]
    PROVE  WatchInv(w)'
  <1>1. WatchInv(w) /\ task[w].trade \in TradeIds
    BY HandlerType DEF IInv, TasksInv, Handlers
  <1>2. RowsMove(task[w].trade) /\ trades[task[w].trade] \in TradeRow
    BY <1>1 DEF Moves, IInv, TypeOK, DBTypeOK
  <1> DEFINE t == task[w].trade
  <1>3. ASSUME trades[t].status # "none", escrows[t].status # "none"
        PROVE  trades'[t].status # "none" /\ escrows'[t].status # "none"
               /\ trades'[t] = [trades[t] EXCEPT !.status = trades'[t].status]
    BY <1>2, <1>3 DEF RowsMove, Agree, Progress
  <1>4. ASSUME trades'[t] = [trades[t] EXCEPT !.status = trades'[t].status]
        PROVE  trades'[t].buyOrder = trades[t].buyOrder /\ trades'[t].sellOrder = trades[t].sellOrder
    BY <1>2, <1>4 DEF TradeRow
  <1>5. QED
    BY <1>1, <1>3, <1>4 DEF WatchInv

\* What a sign request relies on survives the steps of the others: no dispute can take
\* an escrow out of inspection, and what is spent stays spent.
LEMMA SignInvStable ==
    ASSUME IInv, Moves, NEW r \in SignRequests, task'[r] = task[r]
    PROVE  SignInv(r)'
  <1>1. SignInv(r) /\ task[r].trade \in TradeIds
    BY HandlerType DEF IInv, TasksInv, Handlers
  <1>2. RowsMove(task[r].trade)
        /\ (chain[task[r].trade] = "release" => chain'[task[r].trade] = "release")
    BY <1>1 DEF Moves, ChainMoves, Paths
  <1>3. QED
    BY <1>1, <1>2 DEF SignInv, InHands, RowsMove, Progress

\* What a dispute resolution relies on survives the steps of the others.
LEMMA ResolveInvStable ==
    ASSUME IInv, Moves, NEW a \in Resolutions, task'[a] = task[a]
    PROVE  ResolveInv(a)'
  <1>1. ResolveInv(a) /\ task[a].trade \in TradeIds /\ task[a].path \in Paths
    BY HandlerType DEF IInv, TasksInv, Handlers
  <1>2. RowsMove(task[a].trade)
        /\ (chain[task[a].trade] = task[a].path => chain'[task[a].trade] = task[a].path)
    BY <1>1 DEF Moves, ChainMoves
  <1>3. QED
    BY <1>1, <1>2 DEF ResolveInv, InHands, RowsMove, Progress

Acts(h) ==
    /\ task' \in [Handlers -> Task]
    /\ \A g \in Handlers \ {h} : task'[g] = task[g]
    /\ Snapshot(task'[h].buyRow) /\ Snapshot(task'[h].sellRow)

\* Giving a handler a well-typed task changes no other handler's.
LEMMA TaskUpdate ==
    ASSUME IInv, NEW h \in Handlers, NEW new \in Task,
           Snapshot(new.buyRow), Snapshot(new.sellRow), task' = [task EXCEPT ![h] = new]
    PROVE  Acts(h) /\ task'[h] = new
  BY DEF IInv, TypeOK, Acts

\* So does ending a handler's work.
LEMMA DoneUpdate ==
    ASSUME IInv, NEW h \in Handlers, Done(h)
    PROVE  Acts(h) /\ task'[h] = IdleTask /\ task'[h].stage = "idle"
  <1>1. IdleTask.stage = "idle"
    BY DEF IdleTask
  <1>2. QED
    BY <1>1, IdleTaskType, TaskUpdate DEF Done

\* So does moving a handler to its next stage, which keeps its rows.
LEMMA GotoUpdate ==
    ASSUME IInv, NEW h \in Handlers, NEW stage \in Stages, Goto(h, stage)
    PROVE  Acts(h) /\ task'[h] = [task[h] EXCEPT !.stage = stage]
  <1>1. [task[h] EXCEPT !.stage = stage] \in Task
        /\ Snapshot([task[h] EXCEPT !.stage = stage].buyRow)
        /\ Snapshot([task[h] EXCEPT !.stage = stage].sellRow)
    BY HandlerType DEF Task
  <1> DEFINE new == [task[h] EXCEPT !.stage = stage]
  <1>2. new \in Task /\ Snapshot(new.buyRow) /\ Snapshot(new.sellRow)
    BY <1>1
  <1>3. task' = [task EXCEPT ![h] = new]
    BY DEF Goto
  <1> HIDE DEF new
  <1>4. Acts(h) /\ task'[h] = new
    BY <1>2, <1>3, TaskUpdate
  <1>5. QED
    BY <1>4 DEF new

\* A watcher's own step leaves it with what it relies on next.
LEMMA WatcherTask ==
    ASSUME IInv, Moves, NEW w \in Watchers, WatcherStep(w)
    PROVE  Acts(w) /\ WatchInv(w)'
  <1> w \in Handlers
    BY DEF Handlers
  <1> DEFINE t == task[w].trade
  <1>1. task[w] \in Task /\ t \in TradeIds /\ trades[t] \in TradeRow /\ WatchInv(w)
    BY HandlerType DEF IInv, TypeOK, DBTypeOK, TasksInv
  <1>2. ASSUME Done(w) PROVE Acts(w) /\ WatchInv(w)'
    BY <1>2, DoneUpdate DEF WatchInv
  <1>3. CASE \E u \in TradeIds : WatchList(w, u)
    <2>1. PICK u \in TradeIds : WatchList(w, u)
      BY <1>3
    <2> DEFINE new == [task[w] EXCEPT !.stage = "listed", !.trade = u, !.row = escrows[u]]
    <2>2. new \in Task /\ Snapshot(new.buyRow) /\ Snapshot(new.sellRow)
      <3>1. escrows[u] \in EscrowRow
        BY DEF IInv, TypeOK, DBTypeOK
      <3>2. task[w] \in Task /\ Snapshot(task[w].buyRow) /\ Snapshot(task[w].sellRow)
        BY HandlerType
      <3>3. new \in Task
        BY <3>1, <3>2 DEF Task, Stages
      <3>4. new.buyRow = task[w].buyRow /\ new.sellRow = task[w].sellRow
        BY <3>2 DEF Task
      <3>5. QED
        BY <3>2, <3>3, <3>4
    <2>3. task' = [task EXCEPT ![w] = new]
      BY <2>1 DEF WatchList, IInv, TypeOK
    <2>4. new.stage = "listed" /\ new.trade = u
      BY <1>1 DEF Task
    <2> HIDE DEF new
    <2>5. Acts(w) /\ task'[w] = new
      BY <2>2, <2>3, TaskUpdate
    <2>6. trades'[u].status # "none" /\ escrows'[u].status # "none"
      BY <2>1 DEF WatchList, IInv, StatusesAgree, db
    <2>7. QED
      BY <2>4, <2>5, <2>6 DEF WatchInv
  <1>4. CASE WatchCheckExpiry(w)
    <2> DEFINE stage == IF t \in overdue THEN "expire" ELSE "scan"
               buyRow == orders[trades[t].buyOrder]
               sellRow == orders[trades[t].sellOrder]
               new == [task[w] EXCEPT !.stage = stage, !.buyRow = buyRow, !.sellRow = sellRow]
    <2>1. /\ buyRow \in OrderRow /\ buyRow.id = trades[t].buyOrder /\ Snapshot(buyRow)
          /\ sellRow \in OrderRow /\ sellRow.id = trades[t].sellOrder /\ Snapshot(sellRow)
      BY <1>1 DEF TradeRow, IInv, TypeOK, DBTypeOK, OrdersKeepTerms, Snapshot
    <2>2. task' = [task EXCEPT ![w] = new]
      BY <1>4 DEF WatchCheckExpiry, IInv, TypeOK
    <2>3. new.stage = stage /\ new.trade = t /\ new.buyRow = buyRow /\ new.sellRow = sellRow
          /\ stage \in {"expire", "scan"}
      BY <1>1 DEF Task
    <2> HIDE DEF buyRow, sellRow
    <2>4. new \in Task
      BY <1>1, <2>1 DEF Task, Stages
    <2> HIDE DEF new, stage
    <2>5. Acts(w) /\ task'[w] = new
      BY <2>1, <2>2, <2>3, <2>4, TaskUpdate
    <2>6. UNCHANGED <<trades, escrows>> /\ task[w].stage = "listed"
      BY <1>4 DEF WatchCheckExpiry, db
    <2>7. QED
      BY <1>1, <2>1, <2>3, <2>5, <2>6 DEF WatchInv
  <1>5. CASE WatchExpire(w)
    BY <1>2, <1>5 DEF WatchExpire
  <1>6. CASE WatchScan(w)
    <2>1. CASE Goto(w, "mark")
      <3>1. Acts(w) /\ task'[w] = [task[w] EXCEPT !.stage = "mark"]
        BY <2>1, GotoUpdate DEF Stages
      <3>2. task'[w].stage = "mark" /\ task'[w].trade = t
        BY <1>1, <3>1 DEF Task
      <3>3. QED
        BY <1>1, <1>6, <3>1, <3>2 DEF WatchScan, WatchInv, db
    <2>2. QED
      BY <1>2, <1>6, <2>1 DEF WatchScan
  <1>7. CASE WatchMarkFunded(w)
    <2>1. CASE MarkEscrowFunded(t)
               /\ task' = [task EXCEPT ![w].stage = "prepare", ![w].row = escrows'[t]]
      <3> DEFINE new == [task[w] EXCEPT !.stage = "prepare", !.row = escrows'[t]]
      <3>1. escrows'[t] \in EscrowRow
        <4>1. Transaction(t)
          BY <2>1 DEF Transaction
        <4>2. QED
          BY <1>1, <4>1, TransactionType DEF DBTypeOK
      <3>2. new \in Task /\ Snapshot(new.buyRow) /\ Snapshot(new.sellRow)
            /\ new.stage = "prepare"
        BY <3>1, HandlerType DEF Task, Stages
      <3>3. task' = [task EXCEPT ![w] = new]
        BY <2>1 DEF IInv, TypeOK
      <3> HIDE DEF new
      <3>4. Acts(w) /\ task'[w] = new
        BY <3>2, <3>3, TaskUpdate
      <3>5. QED
        BY <3>2, <3>4 DEF WatchInv
    <2>2. QED
      BY <1>2, <1>7, <2>1 DEF WatchMarkFunded
  <1>8. CASE WatchPrepare(w)
    BY <1>2, <1>8 DEF WatchPrepare
  <1>9. QED
    BY <1>3, <1>4, <1>5, <1>6, <1>7, <1>8 DEF WatcherStep

\* The row a request goes on with after it prepared its PSET: the one it had, or
\* the one its UPDATE returned.
LEMMA PrepareForSigningTask ==
    ASSUME IInv, TablesInv', NEW h \in Handlers, PrepareForSigning(h)
    PROVE  \E row \in EscrowRow :
             /\ row = task[h].row \/ row = escrows'[task[h].trade]
             /\ Acts(h)
             /\ task'[h] = [task[h] EXCEPT !.stage = "sign", !.row = row]
  <1> DEFINE t == task[h].trade
             row == PreparedRow(t, task[h].row, task[h].path)
             new == [task[h] EXCEPT !.stage = "sign", !.row = row]
  <1>1. row = task[h].row \/ row = escrows'[t]
    BY DEF PreparedRow
  <1>2. row \in EscrowRow
    BY <1>1, HandlerType DEF TablesInv, DBTypeOK
  <1>3. task' = [task EXCEPT ![h] = new]
    BY DEF PrepareForSigning, IInv, TypeOK
  <1> HIDE DEF row
  <1>4. new \in Task /\ Snapshot(new.buyRow) /\ Snapshot(new.sellRow)
    BY <1>2, HandlerType DEF Task, Stages
  <1> HIDE DEF new
  <1>5. Acts(h) /\ task'[h] = new
    BY <1>3, <1>4, TaskUpdate
  <1>6. QED
    BY <1>1, <1>2, <1>5 DEF new

\* A sign request's own step leaves it with what it relies on next.
LEMMA SignerTask ==
    ASSUME IInv, Moves, TablesInv', NEW r \in SignRequests, SignStep(r)
    PROVE  Acts(r) /\ SignInv(r)'
  <1> r \in Handlers
    BY DEF Handlers
  <1> DEFINE t == task[r].trade
             row == task[r].row
             role == task[r].role
  <1>1. /\ task[r] \in Task /\ t \in TradeIds /\ row \in EscrowRow /\ role \in Roles
        /\ SignInv(r) /\ RowsMove(t)
        /\ Agree(trades[t].status, escrows[t].status, disputes[t])
    BY HandlerType DEF IInv, TypeOK, TasksInv, Moves, Task
  <1>2. ASSUME Done(r) PROVE Acts(r) /\ SignInv(r)'
    BY <1>2, DoneUpdate DEF SignInv, InHands
  <1>3. CASE \E u \in TradeIds, signer \in Roles : SignRead(r, u, signer)
    <2>1. PICK u \in TradeIds, signer \in Roles : SignRead(r, u, signer)
      BY <1>3
    <2> DEFINE new == [task[r] EXCEPT !.stage = "prepare", !.trade = u, !.role = signer,
                                      !.path = "release", !.row = escrows[u]]
    <2>2. new \in Task /\ Snapshot(new.buyRow) /\ Snapshot(new.sellRow)
      <3>1. escrows[u] \in EscrowRow
        BY DEF IInv, TypeOK, DBTypeOK
      <3>2. task[r] \in Task /\ Snapshot(task[r].buyRow) /\ Snapshot(task[r].sellRow)
        BY HandlerType
      <3>3. new \in Task
        BY <3>1, <3>2 DEF Task, Stages, Paths
      <3>4. new.buyRow = task[r].buyRow /\ new.sellRow = task[r].sellRow
        BY <3>2 DEF Task
      <3>5. QED
        BY <3>2, <3>3, <3>4
    <2>3. task' = [task EXCEPT ![r] = new]
      BY <2>1 DEF SignRead, IInv, TypeOK
    <2>4. new.stage = "prepare" /\ new.trade = u /\ new.role = signer
          /\ new.path = "release" /\ new.row = escrows[u]
      BY <1>1 DEF Task
    <2> HIDE DEF new
    <2>5. Acts(r) /\ task'[r] = new
      BY <2>2, <2>3, TaskUpdate
    <2>6. /\ escrows'[u].status \in {"funded", "inspection_pending"}
          /\ signer = "buyer" => escrows'[u].status = "inspection_pending"
          /\ escrows'[u] = escrows[u] /\ disputes'[u] = "none"
          /\ <<"release", "buyer">> \in escrows[u].signatures =>
               <<"release", "seller">> \in escrows[u].signatures
      BY <2>1 DEF SignRead, IInv, StatusesAgree, SignaturesInv, db
    <2>7. QED
      BY <2>4, <2>5, <2>6 DEF SignInv, InHands
  <1>4. CASE PrepareForSigning(r)
    <2>1. PICK new \in EscrowRow :
            /\ new = row \/ new = escrows'[t]
            /\ Acts(r) /\ task'[r] = [task[r] EXCEPT !.stage = "sign", !.row = new]
      BY <1>4, PrepareForSigningTask
    <2>2. /\ task'[r].stage = "sign" /\ task'[r].trade = t /\ task'[r].role = role
          /\ task'[r].path = task[r].path /\ task'[r].row = new
      BY <1>1, <2>1 DEF Task
    <2>3. /\ task[r].path = "release" /\ task[r].stage = "prepare"
          /\ role = "buyer" => /\ escrows[t].status \in {"inspection_pending", "released"}
                               /\ disputes[t] = "none"
          /\ row.status \in {"funded", "inspection_pending"}
               \/ escrows[t].status \in {"disputed", "released", "refunded"}
          /\ escrows[t].status \notin {"none", "created", "expired"}
      BY <1>1, <1>4 DEF PrepareForSigning, SignInv, InHands
    <2>4. <<"release", "buyer">> \in new.signatures => <<"release", "seller">> \in new.signatures
      BY <1>1, <1>4, <2>1 DEF PrepareForSigning, SignInv, InHands, TablesInv, SignaturesInv
    <2>5. /\ role = "buyer" => /\ escrows'[t].status \in {"inspection_pending", "released"}
                               /\ disputes'[t] = "none"
          /\ row.status \in {"funded", "inspection_pending"}
               \/ escrows'[t].status \in {"disputed", "released", "refunded"}
          /\ escrows'[t].status \in {"funded", "inspection_pending", "disputed",
                                     "released", "refunded"}
      BY <1>1, <2>3 DEF RowsMove, Progress, Agree
    <2>6. QED
      BY <2>1, <2>2, <2>3, <2>4, <2>5 DEF SignInv, InHands
  <1>5. CASE SignPset(r)
    <2> DEFINE signed == SignedRow(r, role)
    <2>1. /\ task[r].path = "release" /\ <<"release", role>> \notin row.signatures
          /\ <<"release", "buyer">> \in row.signatures => <<"release", "seller">> \in row.signatures
          /\ role = "buyer" => <<"release", "seller">> \in row.signatures
          /\ UNCHANGED <<escrows, disputes>>
      BY <1>1, <1>5 DEF SignPset, SignInv, InHands, db
    <2>2. signed \in EscrowRow /\ signed.signatures = row.signatures \cup {<<"release", role>>}
          /\ signed.status = row.status
      <3>1. <<"release", role>> \in Signatures
        BY <1>1 DEF Signatures, Paths, Roles
      <3>2. signed = [row EXCEPT !.signatures = row.signatures \cup {<<"release", role>>},
                                 !.metadata = [row.metadata EXCEPT !.signed =
                                      row.metadata.signed \cup {<<"release", role>>}]]
        BY <1>1, <2>1 DEF SignedRow, EscrowRow
      <3>3. [row.metadata EXCEPT !.signed = row.metadata.signed \cup {<<"release", role>>}]
              \in SettlementMetadata
        BY <1>1, <3>1 DEF EscrowRow, SettlementMetadata
      <3> HIDE DEF signed
      <3>4. QED
        BY <1>1, <3>1, <3>2, <3>3 DEF EscrowRow
    <2>3. ({"release"} \X Roles \subseteq signed.signatures) <=> role = "buyer"
      BY <1>1, <2>1, <2>2 DEF Roles
    <2>4. CASE role = "buyer"
      <3> DEFINE new == [task[r] EXCEPT !.stage = "broadcast", !.row = signed]
      <3>1. task' = [task EXCEPT ![r] = new]
        BY <1>5, <2>3, <2>4 DEF SignPset, IInv, TypeOK
      <3> HIDE DEF signed
      <3>2. new \in Task /\ Snapshot(new.buyRow) /\ Snapshot(new.sellRow)
        BY <2>2, HandlerType DEF Task, Stages
      <3>3. new.stage = "broadcast" /\ new.trade = t /\ new.role = role
            /\ new.path = task[r].path /\ new.row = signed
        BY <1>1 DEF Task
      <3> HIDE DEF new
      <3>4. Acts(r) /\ task'[r] = new
        BY <3>1, <3>2, TaskUpdate
      <3>5. {"release"} \X {"seller", "buyer"} \subseteq signed.signatures
        BY <2>1, <2>2, <2>4
      <3>6. QED
        BY <1>1, <1>5, <2>1, <2>2, <2>4, <3>3, <3>4, <3>5 DEF SignPset, SignInv, InHands
    <2>5. CASE role # "buyer"
      <3>1. Goto(r, "record")
        BY <1>5, <2>3, <2>5 DEF SignPset, Goto
      <3>2. Acts(r) /\ task'[r] = [task[r] EXCEPT !.stage = "record"]
        BY <3>1, GotoUpdate DEF Stages
      <3>3. task'[r].stage = "record" /\ task'[r].trade = t /\ task'[r].role = role
            /\ task'[r].path = task[r].path /\ task'[r].row = row
        BY <1>1, <3>2 DEF Task
      <3>4. role = "seller"
        BY <1>1, <2>5 DEF Roles
      <3>5. QED
        BY <1>1, <1>5, <2>1, <3>2, <3>3, <3>4 DEF SignPset, SignInv, InHands
    <2>6. QED
      BY <2>4, <2>5
  <1>6. CASE SignRecord(r)
    BY <1>2, <1>6 DEF SignRecord
  <1>7. CASE Broadcast(r)
    <2>1. Acts(r) /\ task'[r] = [task[r] EXCEPT !.stage = "persist"]
      BY <1>7, GotoUpdate DEF Broadcast, Stages
    <2>2. task'[r].stage = "persist" /\ task'[r].trade = t /\ task'[r].role = role
          /\ task'[r].path = task[r].path /\ task'[r].row = row
      BY <1>1, <2>1 DEF Task
    <2>3. chain'[t] = task[r].path /\ UNCHANGED <<escrows, disputes>>
      BY <1>1, <1>7 DEF Broadcast, db, IInv, TypeOK
    <2>4. QED
      BY <1>1, <1>7, <2>1, <2>2, <2>3 DEF Broadcast, SignInv, InHands
  <1>8. CASE SignPersist(r)
    BY <1>2, <1>8 DEF SignPersist
  <1>9. QED
    BY <1>3, <1>4, <1>5, <1>6, <1>7, <1>8 DEF SignStep

\* A dispute resolution's own step leaves it with what it relies on next.
LEMMA ResolverTask ==
    ASSUME IInv, Moves, TablesInv', NEW a \in Resolutions, ResolveStep(a)
    PROVE  Acts(a) /\ ResolveInv(a)'
  <1> a \in Handlers
    BY DEF Handlers
  <1> DEFINE t == task[a].trade
             row == task[a].row
             path == task[a].path
  <1>1. /\ task[a] \in Task /\ t \in TradeIds /\ row \in EscrowRow /\ path \in Paths
        /\ ResolveInv(a) /\ RowsMove(t)
    BY HandlerType DEF IInv, TypeOK, TasksInv, Moves
  <1>2. ASSUME Done(a) PROVE Acts(a) /\ ResolveInv(a)'
    BY <1>2, DoneUpdate DEF ResolveInv, InHands
  <1>3. CASE \E u \in TradeIds, resolution \in Paths : ResolveRead(a, u, resolution)
    <2>1. PICK u \in TradeIds, resolution \in Paths : ResolveRead(a, u, resolution)
      BY <1>3
    <2> DEFINE new == [task[a] EXCEPT !.stage = "prepare", !.trade = u,
                                      !.path = resolution, !.row = escrows[u]]
    <2>2. new \in Task /\ Snapshot(new.buyRow) /\ Snapshot(new.sellRow)
      <3>1. escrows[u] \in EscrowRow
        BY DEF IInv, TypeOK, DBTypeOK
      <3>2. task[a] \in Task /\ Snapshot(task[a].buyRow) /\ Snapshot(task[a].sellRow)
        BY HandlerType
      <3>3. new \in Task
        BY <3>1, <3>2 DEF Task, Stages
      <3>4. new.buyRow = task[a].buyRow /\ new.sellRow = task[a].sellRow
        BY <3>2 DEF Task
      <3>5. QED
        BY <3>2, <3>3, <3>4
    <2>3. task' = [task EXCEPT ![a] = new]
      BY <2>1 DEF ResolveRead, IInv, TypeOK
    <2>4. new.stage = "prepare" /\ new.trade = u /\ new.path = resolution
          /\ new.row = escrows[u]
      BY <1>1 DEF Task
    <2> HIDE DEF new
    <2>5. Acts(a) /\ task'[a] = new
      BY <2>2, <2>3, TaskUpdate
    <2>6. /\ escrows'[u].status = "disputed" /\ disputes'[u] = "open"
          /\ <<"release", "buyer">> \in escrows[u].signatures =>
               <<"release", "seller">> \in escrows[u].signatures
      BY <2>1 DEF ResolveRead, IInv, SignaturesInv, db
    <2>7. QED
      BY <2>4, <2>5, <2>6 DEF ResolveInv, InHands
  <1>4. CASE PrepareForSigning(a)
    <2>1. PICK new \in EscrowRow :
            /\ new = row \/ new = escrows'[t]
            /\ Acts(a) /\ task'[a] = [task[a] EXCEPT !.stage = "sign", !.row = new]
      BY <1>4, PrepareForSigningTask
    <2>2. task'[a].stage = "sign" /\ task'[a].trade = t /\ task'[a].path = path
          /\ task'[a].row = new
      BY <1>1, <2>1 DEF Task
    <2>3. <<"release", "buyer">> \in new.signatures => <<"release", "seller">> \in new.signatures
      BY <1>1, <1>4, <2>1 DEF PrepareForSigning, ResolveInv, InHands, TablesInv, SignaturesInv
    <2>4. escrows'[t].status \in {"disputed", "released", "refunded"} /\ disputes'[t] # "none"
      BY <1>1, <1>4 DEF PrepareForSigning, ResolveInv, InHands, RowsMove, Progress
    <2>5. QED
      BY <2>1, <2>2, <2>3, <2>4 DEF ResolveInv, InHands
  <1>5. CASE ResolveSign(a)
    <2> DEFINE signers == {<<path, Beneficiary(path)>>, <<path, "platform">>}
               made == signers \ (row.signatures \ {<<path, "platform">>})
               metadata == [row.metadata EXCEPT !.signed = row.metadata.signed \cup made]
               signed == [row EXCEPT !.signatures = row.signatures \cup signers,
                                     !.metadata = metadata]
               new == [task[a] EXCEPT !.stage = "broadcast", !.row = signed]
    <2>1. signers \subseteq Signatures
      BY <1>1 DEF Signatures, Beneficiary, Paths
    <2>2. metadata \in SettlementMetadata
      BY <1>1, <2>1 DEF EscrowRow, SettlementMetadata
    <2>3. task' = [task EXCEPT ![a] = new]
      BY <1>1, <1>5 DEF ResolveSign, Beneficiary, EscrowRow, IInv, TypeOK
    <2>4. <<"release", "buyer">> \in row.signatures \cup signers
            => <<"release", "seller">> \in row.signatures \cup signers
      BY <1>1, <1>5 DEF ResolveSign, ResolveInv, InHands, Beneficiary, Paths
    <2> HIDE DEF metadata, signers
    <2>5. signed \in EscrowRow /\ signed.signatures = row.signatures \cup signers
      BY <1>1, <2>1, <2>2 DEF EscrowRow
    <2> HIDE DEF signed
    <2>6. new \in Task /\ Snapshot(new.buyRow) /\ Snapshot(new.sellRow)
      BY <2>5, HandlerType DEF Task, Stages
    <2>7. new.stage = "broadcast" /\ new.trade = t /\ new.path = path /\ new.row = signed
      BY <1>1 DEF Task
    <2> HIDE DEF new
    <2>8. Acts(a) /\ task'[a] = new
      BY <2>3, <2>6, TaskUpdate
    <2>9. /\ escrows'[t].status \in {"disputed", "released", "refunded"} /\ disputes'[t] # "none"
          /\ signers \subseteq signed.signatures
      BY <1>1, <1>5, <2>5 DEF ResolveSign, ResolveInv, InHands, db
    <2>10. QED
      BY <2>4, <2>5, <2>7, <2>8, <2>9 DEF ResolveInv, InHands, signers
  <1>6. CASE Broadcast(a)
    <2>1. Acts(a) /\ task'[a] = [task[a] EXCEPT !.stage = "persist"]
      BY <1>6, GotoUpdate DEF Broadcast, Stages
    <2>2. task'[a].stage = "persist" /\ task'[a].trade = t /\ task'[a].path = path
          /\ task'[a].row = row
      BY <1>1, <2>1 DEF Task
    <2>3. chain'[t] = path /\ UNCHANGED <<escrows, disputes>>
      BY <1>1, <1>6 DEF Broadcast, db, IInv, TypeOK
    <2>4. QED
      BY <1>1, <1>6, <2>1, <2>2, <2>3 DEF Broadcast, ResolveInv, InHands
  <1>7. CASE ResolvePersist(a)
    BY <1>2, <1>7 DEF ResolvePersist
  <1>8. QED
    BY <1>3, <1>4, <1>5, <1>6, <1>7 DEF ResolveStep

-----------------------------------------------------------------------------
(* The invariant.                                                          *)

\* The tasks after a step of handler h, or of none of them.
LEMMA TasksKept ==
    ASSUME IInv, Moves, NEW h \in Handlers, Acts(h),
           h \in Watchers => WatchInv(h)',
           h \in SignRequests => SignInv(h)',
           h \in Resolutions => ResolveInv(h)'
    PROVE  task' \in [Handlers -> Task] /\ TasksInv'
  <1>1. \A g \in Handlers : Snapshot(task'[g].buyRow) /\ Snapshot(task'[g].sellRow)
    BY HandlerType DEF Acts
  <1>2. \A w \in Watchers : WatchInv(w)'
    BY WatchInvStable DEF Acts, Handlers
  <1>3. \A r \in SignRequests : SignInv(r)'
    BY SignInvStable DEF Acts, Handlers
  <1>4. \A a \in Resolutions : ResolveInv(a)'
    BY ResolveInvStable DEF Acts, Handlers
  <1>5. QED
    BY <1>1, <1>2, <1>3, <1>4 DEF Acts, TasksInv, Snapshot

\* A step of the environment keeps what every handler relies on.
LEMMA TasksUnchanged ==
    ASSUME IInv, Moves, UNCHANGED task
    PROVE  task' \in [Handlers -> Task] /\ TasksInv'
  <1>1. \A w \in Watchers : WatchInv(w)'
    BY WatchInvStable
  <1>2. \A r \in SignRequests : SignInv(r)'
    BY SignInvStable
  <1>3. \A a \in Resolutions : ResolveInv(a)'
    BY ResolveInvStable
  <1>4. QED
    BY <1>1, <1>2, <1>3 DEF IInv, TypeOK, TasksInv, Snapshot

\* The invariant is inductive.
LEMMA NextInv == IInv /\ [Next]_vars => IInv'
  <1> SUFFICES ASSUME IInv, [Next]_vars PROVE IInv'
    OBVIOUS
  <1>1. TablesInv' /\ Moves
    BY StepEffect, EffectKeepsTables DEF Moves
  <1>2. overdue' \subseteq TradeIds
    <2>1. overdue \subseteq TradeIds
      BY DEF IInv, TypeOK
    <2>2. CASE Environment
      BY <2>1, <2>2 DEF Environment, MatchOrders, BuyerPays, ExpiryPasses, CreateDispute,
         HandlerFails
    <2>3. ASSUME NEW w \in Watchers, WatcherStep(w) PROVE UNCHANGED overdue
      BY <2>3 DEF WatcherStep, WatchList, WatchCheckExpiry, WatchExpire, WatchScan,
         WatchMarkFunded, WatchPrepare
    <2>4. ASSUME NEW r \in SignRequests, SignStep(r) PROVE UNCHANGED overdue
      BY <2>4 DEF SignStep, SignRead, PrepareForSigning, SignPset, SignRecord, Broadcast,
         SignPersist
    <2>5. ASSUME NEW a \in Resolutions, ResolveStep(a) PROVE UNCHANGED overdue
      BY <2>5 DEF ResolveStep, ResolveRead, PrepareForSigning, ResolveSign, Broadcast,
         ResolvePersist
    <2>6. QED
      BY <2>1, <2>2, <2>3, <2>4, <2>5 DEF Next, vars
  <1>3. task' \in [Handlers -> Task] /\ TasksInv'
    <2>1. CASE UNCHANGED task
      BY <1>1, <2>1, TasksUnchanged
    <2>2. ASSUME NEW h \in Handlers, HandlerFails(h)
          PROVE  task' \in [Handlers -> Task] /\ TasksInv'
      <3>1. Acts(h) /\ task'[h].stage = "idle"
        BY <2>2, DoneUpdate DEF HandlerFails
      <3>2. QED
        BY <1>1, <3>1, TasksKept DEF WatchInv, SignInv, ResolveInv, InHands
    <2>3. ASSUME NEW w \in Watchers, WatcherStep(w)
          PROVE  task' \in [Handlers -> Task] /\ TasksInv'
      <3>1. w \in Handlers /\ w \notin SignRequests /\ w \notin Resolutions
        BY EscrowAssumption DEF EscrowAssumption, Handlers
      <3>2. QED
        BY <1>1, <2>3, <3>1, WatcherTask, TasksKept
    <2>4. ASSUME NEW r \in SignRequests, SignStep(r)
          PROVE  task' \in [Handlers -> Task] /\ TasksInv'
      <3>1. r \in Handlers /\ r \notin Watchers /\ r \notin Resolutions
        BY EscrowAssumption DEF EscrowAssumption, Handlers
      <3>2. QED
        BY <1>1, <2>4, <3>1, SignerTask, TasksKept
    <2>5. ASSUME NEW a \in Resolutions, ResolveStep(a)
          PROVE  task' \in [Handlers -> Task] /\ TasksInv'
      <3>1. a \in Handlers /\ a \notin Watchers /\ a \notin SignRequests
        BY EscrowAssumption DEF EscrowAssumption, Handlers
      <3>2. QED
        BY <1>1, <2>5, <3>1, ResolverTask, TasksKept
    <2>6. CASE Environment
      BY <2>1, <2>2, <2>6 DEF Environment, MatchOrders, BuyerPays, ExpiryPasses, CreateDispute
    <2>7. QED
      BY <2>1, <2>3, <2>4, <2>5, <2>6 DEF Next, vars
  <1>4. QED
    BY <1>1, <1>2, <1>3 DEF TablesInv, Moves, ChainMoves, IInv, TypeOK

\* IInv holds throughout: what each handler of the marketplace still knows, at each stage,
\* of rows and chain it read earlier.
THEOREM SpecInv == Spec => []IInv
  BY InitInv, NextInv, PTL DEF Spec

\* Every row, the chain and every handler's memory keep their types: in particular
\* a token balance is never negative and an order never fills beyond its quantity.
THEOREM TypeCorrect == Spec => []TypeOK
  <1>1. IInv => TypeOK
    BY DEF IInv
  <1>2. QED
    BY <1>1, SpecInv, PTL

\* The trade, escrow and dispute rows of a trade always agree.
THEOREM RowsAgree == Spec => []StatusesAgree
  <1>1. IInv => StatusesAgree
    BY DEF IInv
  <1>2. QED
    BY <1>1, SpecInv, PTL

\* A persisted settlement is the one on the chain, carries its two signatures, and
\* what has been broadcast can still be recorded, whoever broadcasts or fails when.
THEOREM SettlementSafe == Spec => []SettlementIsSafe
  <1>1. IInv => SettlementIsSafe
    BY DEF IInv, SettlementIsSafe
  <1>2. QED
    BY <1>1, SpecInv, PTL

\* An escrow only moves along the documented diagram.
THEOREM EscrowsProgress == Spec => EscrowsOnlyProgress
  <1>1. IInv /\ [Next]_vars =>
          [\A t \in TradeIds :
             escrows'[t].status \in {escrows[t].status} \cup Progress(escrows[t].status)]_vars
    BY StepEffect, EffectKeepsTables DEF RowsMove
  <1>2. QED
    BY <1>1, SpecInv, PTL DEF Spec, EscrowsOnlyProgress

-----------------------------------------------------------------------------
(* Refinement: a match locks the seller's tokens, a release delivers them, *)
(* an expiry or a refund returns them, and every other step stutters.      *)

CustodyBar == [t \in TradeIds |-> CustodyOf(trades[t].status)]
Deal(t) == [buyer |-> Buyer(t), seller |-> Seller(t), quantity |-> trades[t].quantity]
DealBar == [t \in TradeIds |-> Deal(t)]

\* A trade's participants are those of the orders it joins.
LEMMA DealType ==
    ASSUME IInv, NEW t \in TradeIds
    PROVE  /\ Deal(t) \in Custody!Deals
           /\ trades[t].buyOrder \in OrderIds /\ trades[t].sellOrder \in OrderIds
           /\ Buyer(t) = InitOrders[trades[t].buyOrder].user
           /\ Seller(t) = InitOrders[trades[t].sellOrder].user
  <1>1. trades[t] \in TradeRow /\ orders \in [OrderIds -> OrderRow]
    BY DEF IInv, TypeOK, DBTypeOK
  <1>2. trades[t].buyOrder \in OrderIds /\ trades[t].sellOrder \in OrderIds
        /\ trades[t].quantity \in 0..MaxQuantity
    BY <1>1 DEF TradeRow
  <1>3. Buyer(t) \in Users /\ Seller(t) \in Users
    BY <1>1, <1>2 DEF Buyer, Seller, OrderRow
  <1>4. QED
    BY <1>2, <1>3 DEF Deal, Custody!Deals, IInv, OrdersKeepTerms, Buyer, Seller

\* The deal of a trade whose row keeps its terms is the same after the step.
LEMMA DealKept ==
    ASSUME IInv, IInv', NEW t \in TradeIds,
           trades'[t].buyOrder = trades[t].buyOrder,
           trades'[t].sellOrder = trades[t].sellOrder,
           trades'[t].quantity = trades[t].quantity
    PROVE  Deal(t)' = Deal(t)
  <1>1. trades[t].buyOrder \in OrderIds /\ trades[t].sellOrder \in OrderIds
    BY DealType
  <1>2. Buyer(t)' = Buyer(t) /\ Seller(t)' = Seller(t)
    BY <1>1 DEF Buyer, Seller, IInv, OrdersKeepTerms
  <1>3. QED
    BY <1>2 DEF Deal

\* create_trade_escrow takes the seller's tokens into custody.
LEMMA MatchLocks ==
    ASSUME IInv, IInv', NEW t \in TradeIds, Match(t)
    PROVE  Custody!Lock(t)
  <1> PICK b \in OrderIds, s \in OrderIds, quantity \in 1..MaxQuantity, price \in Prices :
          CreateTradeEscrow(t, orders[b], orders[s], quantity, price)
    BY DEF Match
  <1> USE DEF IInv, TypeOK, DBTypeOK
  <1>1. orders[b].id = b /\ orders[s].id = s
    OBVIOUS
  <1>2. /\ trades[t].status = "none" /\ balance[orders[s].user] >= quantity
        /\ balance' = [balance EXCEPT ![orders[s].user] = @ - quantity]
        /\ trades' = [trades EXCEPT ![t] =
              [buyOrder |-> b, sellOrder |-> s, quantity |-> quantity, price |-> price,
               status |-> "pending"]]
    BY <1>1 DEF CreateTradeEscrow
  <1> DEFINE d == Deal(t)'
  <1>3. d \in Custody!Deals /\ d.seller = orders[s].user /\ d.quantity = quantity
    <2>1. trades'[t].sellOrder = s /\ trades'[t].quantity = quantity
      BY <1>2
    <2>2. Buyer(t)' \in Users /\ Seller(t)' = orders[s].user /\ orders[s].user \in Users
      BY <1>2 DEF Buyer, Seller, OrdersKeepTerms, OrderRow
    <2>3. QED
      BY <2>1, <2>2 DEF Deal, Custody!Deals
  <1>4. DealBar' = [DealBar EXCEPT ![t] = d]
    <2>1. ASSUME NEW u \in TradeIds, u # t PROVE Deal(u)' = Deal(u)
      BY <1>2, <2>1, DealKept
    <2>2. QED
      BY <2>1 DEF DealBar
  <1>5. CustodyBar' = [CustodyBar EXCEPT ![t] = "locked"] /\ CustodyBar[t] = "none"
    BY <1>2 DEF CustodyBar, CustodyOf
  <1> HIDE DEF d
  <1>6. d.quantity \in 1..balance[d.seller]
    BY <1>2, <1>3 DEF OrderRow
  <1>7. QED
    BY <1>2, <1>3, <1>4, <1>5, <1>6 DEF Custody!Lock, CustodyBar, DealBar, Deal

\* A transaction that only changes the status of one trade, and pays its tokens to
\* payee if that takes it out of custody.
LEMMA StatusChange ==
    ASSUME IInv, IInv', NEW t \in TradeIds, NEW status \in TradeStatuses,
           trades' = [trades EXCEPT ![t].status = status]
    PROVE  /\ CustodyBar' = [CustodyBar EXCEPT ![t] = CustodyOf(status)]
           /\ DealBar' = DealBar
  <1>1. trades[t] \in TradeRow /\ trades \in [TradeIds -> TradeRow]
    BY DEF IInv, TypeOK, DBTypeOK
  <1>2. \A u \in TradeIds : Deal(u)' = Deal(u)
    BY <1>1, DealKept DEF TradeRow
  <1>3. QED
    BY <1>1, <1>2 DEF DealBar, CustodyBar, TradeRow

\* A transaction that pays no tokens and keeps a trade's custody is a stutter.
LEMMA Stutter ==
    ASSUME IInv, IInv', UNCHANGED balance, NEW t \in TradeIds,
           trades' = trades \/ \E status \in TradeStatuses :
                                 /\ trades' = [trades EXCEPT ![t].status = status]
                                 /\ CustodyOf(status) = CustodyOf(trades[t].status)
    PROVE  UNCHANGED Custody!vars
  <1>1. CustodyBar' = CustodyBar /\ DealBar' = DealBar
    <2>1. CASE trades' = trades
      BY <2>1, DealKept DEF CustodyBar, DealBar
    <2>2. ASSUME NEW status \in TradeStatuses,
                 trades' = [trades EXCEPT ![t].status = status],
                 CustodyOf(status) = CustodyOf(trades[t].status)
          PROVE  CustodyBar' = CustodyBar /\ DealBar' = DealBar
      <3>1. CustodyBar' = [CustodyBar EXCEPT ![t] = CustodyOf(status)] /\ DealBar' = DealBar
        BY <2>2, StatusChange
      <3>2. CustodyBar[t] = CustodyOf(status) /\ CustodyBar = [u \in TradeIds |-> CustodyBar[u]]
        BY <2>2 DEF CustodyBar
      <3>3. QED
        BY <3>1, <3>2
    <2>3. QED
      BY <2>1, <2>2
  <1>2. QED
    BY <1>1 DEF Custody!vars, CustodyBar, DealBar, Deal

\* Every transaction of the marketplace is a step of TokenCustody or a stutter.
LEMMA TransactionIsCustodyStep ==
    ASSUME IInv, IInv', NEW t \in TradeIds, Transaction(t)
    PROVE  [Custody!Next]_(Custody!vars)
  <1> USE DEF Custody!Next
  <1>1. /\ Agree(trades[t].status, escrows[t].status, disputes[t])
        /\ Buyer(t) = DealBar[t].buyer /\ Seller(t) = DealBar[t].seller
        /\ trades[t].quantity = DealBar[t].quantity
        /\ CustodyBar[t] = CustodyOf(trades[t].status)
    BY DEF IInv, StatusesAgree, Agree, DealBar, Deal, CustodyBar
  <1>2. ASSUME trades' = [trades EXCEPT ![t].status = "settled"],
               balance' = [balance EXCEPT ![Buyer(t)] = @ + trades[t].quantity],
               trades[t].status \in {"escrowed", "disputed"}
        PROVE  Custody!Deliver(t)
    <2>1. CustodyBar' = [CustodyBar EXCEPT ![t] = "delivered"] /\ DealBar' = DealBar
      BY <1>2, StatusChange DEF CustodyOf, TradeStatuses
    <2>2. CustodyBar[t] = "locked"
      BY <1>1, <1>2 DEF CustodyOf
    <2>3. QED
      BY <1>1, <1>2, <2>1, <2>2 DEF Custody!Deliver, CustodyBar, DealBar, Deal
  <1>3. ASSUME trades' = [trades EXCEPT ![t].status = "cancelled"],
               balance' = [balance EXCEPT ![Seller(t)] = @ + trades[t].quantity],
               trades[t].status \in {"pending", "disputed"}
        PROVE  Custody!Return(t)
    <2>1. CustodyBar' = [CustodyBar EXCEPT ![t] = "returned"] /\ DealBar' = DealBar
      BY <1>3, StatusChange DEF CustodyOf, TradeStatuses
    <2>2. CustodyBar[t] = "locked"
      BY <1>1, <1>3 DEF CustodyOf
    <2>3. QED
      BY <1>1, <1>3, <2>1, <2>2 DEF Custody!Return, CustodyBar, DealBar, Deal
  <1>4. CASE Match(t)
    BY <1>4, MatchLocks
  <1>5. CASE MarkEscrowFunded(t)
    BY <1>1, <1>5, Stutter DEF MarkEscrowFunded, Agree, CustodyOf, TradeStatuses
  <1>6. CASE Expire(t)
    <2>1. PICK row \in EscrowRow, buyRow \in OrderRow, sellRow \in OrderRow :
            /\ Snapshot(sellRow) /\ sellRow.id = trades[t].sellOrder
            /\ ExpireUnfundedEscrow(t, row, buyRow, sellRow)
      BY <1>6 DEF Expire
    <2>2. sellRow.user = Seller(t)
      BY <2>1, DealType DEF Snapshot
    <2>3. QED
      BY <1>3, <2>1, <2>2 DEF ExpireUnfundedEscrow
  <1>7. CASE Prepare(t)
    BY <1>7, Stutter DEF Prepare, UpdateEscrowSettlementMetadata
  <1>8. CASE SellerSigns(t)
    BY <1>8, Stutter DEF SellerSigns, RecordEscrowSignature
  <1>9. CASE BuyerReleases(t)
    BY <1>1, <1>2, <1>9 DEF BuyerReleases, ProcessEscrowSignature, Agree
  <1>10. CASE OpenDispute(t)
    BY <1>1, <1>10, Stutter DEF OpenDispute, CustodyOf, TradeStatuses
  <1>11. CASE Resolve(t)
    <2>1. PICK path \in Paths, signatures \in SUBSET Signatures,
               metadata \in SettlementMetadata : ResolveDispute(t, path, signatures, metadata)
      BY <1>11 DEF Resolve
    <2>2. CASE path = "release"
      BY <1>2, <2>1, <2>2 DEF ResolveDispute
    <2>3. CASE path = "refund"
      BY <1>3, <2>1, <2>3 DEF ResolveDispute
    <2>4. QED
      BY <2>2, <2>3 DEF Paths
  <1>12. QED
    BY <1>4, <1>5, <1>6, <1>7, <1>8, <1>9, <1>10, <1>11 DEF Transaction

\* Before the first match no tokens are in custody.
LEMMA InitIsCustodyInit == Init => Custody!Init
  <1> SUFFICES ASSUME Init PROVE Custody!Init
    OBVIOUS
  <1>1. IInv
    BY InitInv
  <1>2. \A t \in TradeIds : CustodyOf(trades[t].status) = "none"
    BY DEF Init, CustodyOf
  <1>3. \A t \in TradeIds : Deal(t) \in Custody!Deals
    BY <1>1, DealType
  <1>4. QED
    BY <1>2, <1>3 DEF Custody!Init, Deal, Init

\* A step of the marketplace is a step of TokenCustody or a stutter.
LEMMA NextIsCustodyStep == IInv /\ IInv' /\ [Next]_vars => [Custody!Next]_(Custody!vars)
  <1> SUFFICES ASSUME IInv, IInv', [Next]_vars PROVE [Custody!Next]_(Custody!vars)
    OBVIOUS
  <1>1. Effect
    BY StepEffect
  <1>2. CASE Works
    BY <1>2, TransactionIsCustodyStep DEF Works
  <1>3. CASE UNCHANGED db
    BY <1>3, EscrowAssumption, Stutter DEF db, EscrowAssumption
  <1>4. QED
    BY <1>1, <1>2, <1>3 DEF Effect, Quiet, Pays, Spends

\* The marketplace keeps the custody promise: each trade's tokens leave the seller
\* once, and go once to the buyer or back, through every interleaving of watchers,
\* signatures, disputes and failures.
THEOREM CustodyImplemented == Spec => ImplementsCustody
  BY NextIsCustodyStep, InitIsCustodyInit, SpecInv, PTL DEF Spec, ImplementsCustody, Custody!Spec

-----------------------------------------------------------------------------
(* Conservation: the steps of TokenCustody move tokens between a user and  *)
(* the custody of one trade, so the sum of both stays what it was.         *)

Quantities(deals) == [t \in TradeIds |-> deals[t].quantity]
LockedIn(custodies) == {t \in TradeIds : custodies[t] = "locked"}

\* The books balance; only finitely many trades have been made so far.
Balanced(custodies, deals, holdings) ==
    /\ IsFiniteSet(LockedIn(custodies))
    /\ SumOf(holdings, Users) + SumOf(Quantities(deals), LockedIn(custodies))
          = SumOf(InitBalance, Users)

BooksInv == Balanced(CustodyBar, DealBar, balance)

\* What is in custody, as a sum of the function of quantities.
LEMMA CustodySum ==
    ASSUME NEW deals, NEW S \in SUBSET TradeIds, IsFiniteSet(S)
    PROVE  MapThenSumSet(LAMBDA t : deals[t].quantity, S) = SumOf(Quantities(deals), S)
  <1> DEFINE q == Quantities(deals)
             G == CHOOSE g : g = [s \in SUBSET S |-> IF s = {} THEN 0
                      ELSE LET x == CHOOSE x \in s : TRUE
                           IN deals[x].quantity + g[s \ {x}]]
  <1>1. MapThenSumSet(LAMBDA t : deals[t].quantity, S) = G[S]
    BY DEF MapThenSumSet, MapThenFoldSet
  <1>2. PICK g : Sums(g, q, S)
    BY SumsExist
  <1>3. \A s \in SUBSET S : s # {} => q[Pick(s)] = deals[Pick(s)].quantity
    BY DEF Pick, Quantities
  <1>4. g = [s \in SUBSET S |-> IF s = {} THEN 0
                ELSE LET x == CHOOSE x \in s : TRUE IN deals[x].quantity + g[s \ {x}]]
    <2> HIDE DEF q
    <2>1. \A s \in SUBSET S : s # {} => g[s] = deals[Pick(s)].quantity + g[s \ {Pick(s)}]
      BY <1>2, <1>3 DEF Sums
    <2>2. g = [s \in SUBSET S |-> g[s]] /\ g[{}] = 0
      BY <1>2 DEF Sums
    <2>3. QED
      BY <2>1, <2>2 DEF Pick
  <1>5. G = [s \in SUBSET S |-> IF s = {} THEN 0
                ELSE LET x == CHOOSE x \in s : TRUE IN deals[x].quantity + G[s \ {x}]]
    BY <1>4
  <1>6. Sums(G, q, S)
    <2> HIDE DEF q, G
    <2>1. \A s \in SUBSET S : s # {} => G[s] = deals[Pick(s)].quantity + G[s \ {Pick(s)}]
      BY <1>5 DEF Pick
    <2>2. G = [s \in SUBSET S |-> G[s]] /\ G[{}] = 0
      BY <1>5
    <2>3. QED
      BY <1>3, <2>1, <2>2 DEF Sums
  <1>7. QED
    BY <1>1, <1>6, SumsGiveSum

\* A seller's tokens go into the custody of a new trade.
LEMMA LockBalances ==
    ASSUME NEW c, NEW d, NEW b \in [Users -> Int], Balanced(c, d, b),
           NEW t \in TradeIds, c \in [TradeIds -> Custody!Custodies], c[t] # "locked",
           d \in [TradeIds -> Custody!Deals], NEW deal \in Custody!Deals
    PROVE  Balanced([c EXCEPT ![t] = "locked"], [d EXCEPT ![t] = deal],
                    [b EXCEPT ![deal.seller] = @ - deal.quantity])
  <1> DEFINE c2 == [c EXCEPT ![t] = "locked"]
             d2 == [d EXCEPT ![t] = deal]
             b2 == [b EXCEPT ![deal.seller] = @ - deal.quantity]
             S == LockedIn(c)
  <1>1. LockedIn(c2) = S \cup {t} /\ t \notin S /\ IsFiniteSet(S) /\ IsFiniteSet(S \cup {t})
    BY FS_AddElement DEF LockedIn, Balanced
  <1>2. /\ \A u \in TradeIds : Quantities(d)[u] \in Int /\ Quantities(d2)[u] \in Int
        /\ \A u \in S : Quantities(d2)[u] = Quantities(d)[u]
        /\ Quantities(d2)[t] = deal.quantity /\ deal.quantity \in Int
    BY <1>1, MarketAssumption DEF Quantities, Custody!Deals, LockedIn
  <1>3. SumOf(Quantities(d2), S \cup {t}) = deal.quantity + SumOf(Quantities(d), S)
        /\ SumOf(Quantities(d), S) \in Int
    <2>1. S \subseteq TradeIds /\ S \cup {t} \subseteq TradeIds
      BY DEF LockedIn
    <2> HIDE DEF S, d2
    <2>2. SumOf(Quantities(d2), S) = SumOf(Quantities(d), S)
      BY <1>1, <1>2, SumEqual
    <2>3. SumOf(Quantities(d2), S \cup {t}) = Quantities(d2)[t] + SumOf(Quantities(d2), S)
      BY <1>1, <1>2, <2>1, SumAdd
    <2>4. SumOf(Quantities(d), S) \in Int
      BY <1>1, <1>2, <2>1, SumType
    <2>5. QED
      BY <1>2, <2>2, <2>3, <2>4
  <1>4. SumOf(b2, Users) = SumOf(b, Users) - deal.quantity /\ SumOf(b, Users) \in Int
    <2>1. deal.seller \in Users /\ b2 \in [Users -> Int]
          /\ b2[deal.seller] = b[deal.seller] - deal.quantity /\ b[deal.seller] \in Int
          /\ \A u \in Users \ {deal.seller} : b2[u] = b[u]
      BY <1>2 DEF Custody!Deals
    <2> HIDE DEF b2
    <2>2. SumOf(b2, Users) = SumOf(b, Users) + (b2[deal.seller] - b[deal.seller])
      BY <2>1, UsersAssumption, SumUpdate
    <2>3. SumOf(b, Users) \in Int
      BY UsersAssumption, SumType
    <2>4. QED
      BY <1>2, <2>1, <2>2, <2>3
  <1>5. Balanced(c2, d2, b2)
    <2> HIDE DEF c2, d2, b2, S
    <2>1. SumOf(b, Users) + SumOf(Quantities(d), S) = SumOf(InitBalance, Users)
      BY DEF Balanced, S
    <2>2. QED
      BY <1>1, <1>2, <1>3, <1>4, <2>1 DEF Balanced
  <1>6. QED
    BY <1>5

\* The tokens of a trade leave custody for one user.
LEMMA ReleaseBalances ==
    ASSUME NEW c, NEW d, NEW b \in [Users -> Int], Balanced(c, d, b),
           NEW t \in TradeIds, c \in [TradeIds -> Custody!Custodies], c[t] = "locked",
           d \in [TradeIds -> Custody!Deals], NEW to \in {"delivered", "returned"},
           NEW u \in Users
    PROVE  Balanced([c EXCEPT ![t] = to], d, [b EXCEPT ![u] = @ + d[t].quantity])
  <1> DEFINE c2 == [c EXCEPT ![t] = to]
             b2 == [b EXCEPT ![u] = @ + d[t].quantity]
             S == LockedIn(c)
  <1>1. LockedIn(c2) = S \ {t} /\ t \in S /\ IsFiniteSet(S) /\ IsFiniteSet(S \ {t})
    BY FS_RemoveElement DEF LockedIn, Balanced
  <1>2. (\A v \in TradeIds : Quantities(d)[v] \in Int) /\ Quantities(d)[t] = d[t].quantity
    BY MarketAssumption DEF Quantities, Custody!Deals
  <1>3. SumOf(Quantities(d), S) = d[t].quantity + SumOf(Quantities(d), S \ {t})
        /\ SumOf(Quantities(d), S \ {t}) \in Int
    <2>1. S \subseteq TradeIds /\ S \ {t} \subseteq TradeIds
      BY DEF LockedIn
    <2> HIDE DEF S
    <2>2. SumOf(Quantities(d), S) = Quantities(d)[t] + SumOf(Quantities(d), S \ {t})
      BY <1>1, <1>2, <2>1, SumRemove
    <2>3. SumOf(Quantities(d), S \ {t}) \in Int
      BY <1>1, <1>2, <2>1, SumType
    <2>4. QED
      BY <1>2, <2>2, <2>3
  <1>4. SumOf(b2, Users) = SumOf(b, Users) + d[t].quantity /\ SumOf(b, Users) \in Int
    <2>1. b2 \in [Users -> Int] /\ b2[u] = b[u] + d[t].quantity /\ b[u] \in Int
          /\ \A v \in Users \ {u} : b2[v] = b[v]
      BY <1>2
    <2> HIDE DEF b2
    <2>2. SumOf(b2, Users) = SumOf(b, Users) + (b2[u] - b[u])
      BY <2>1, UsersAssumption, SumUpdate
    <2>3. SumOf(b, Users) \in Int
      BY UsersAssumption, SumType
    <2>4. QED
      BY <1>2, <2>1, <2>2, <2>3
  <1>5. Balanced(c2, d, b2)
    <2> HIDE DEF c2, b2, S
    <2>1. d[t].quantity \in Int
      BY <1>2
    <2>2. SumOf(b, Users) + SumOf(Quantities(d), S) = SumOf(InitBalance, Users)
      BY DEF Balanced, S
    <2>3. QED
      BY <1>1, <1>3, <1>4, <2>1, <2>2 DEF Balanced
  <1>6. QED
    BY <1>5

\* Custody and deals have their types, in every state of the invariant.
LEMMA BarTypes ==
    ASSUME IInv
    PROVE  /\ CustodyBar \in [TradeIds -> Custody!Custodies]
           /\ DealBar \in [TradeIds -> Custody!Deals]
           /\ balance \in [Users -> Int]
  <1>1. \A t \in TradeIds : Deal(t) \in Custody!Deals
    BY DealType
  <1>2. QED
    BY <1>1 DEF CustodyBar, DealBar, CustodyOf, Custody!Custodies, IInv, TypeOK, DBTypeOK

\* So a step of TokenCustody balances the books.
LEMMA CustodyStepBalances ==
    ASSUME IInv, BooksInv, [Custody!Next]_(Custody!vars)
    PROVE  BooksInv'
  <1> USE BarTypes DEF BooksInv
  <1>1. ASSUME NEW t \in TradeIds, Custody!Lock(t)
        PROVE  BooksInv'
    <2>1. PICK deal \in Custody!Deals :
            /\ DealBar' = [DealBar EXCEPT ![t] = deal]
            /\ balance' = [balance EXCEPT ![deal.seller] = @ - deal.quantity]
      BY <1>1 DEF Custody!Lock, DealBar, Deal
    <2>2. CustodyBar[t] = "none" /\ CustodyBar' = [CustodyBar EXCEPT ![t] = "locked"]
      BY <1>1 DEF Custody!Lock, CustodyBar
    <2>3. QED
      BY <2>1, <2>2, LockBalances
  <1>2. ASSUME NEW t \in TradeIds, NEW to \in {"delivered", "returned"}, NEW u \in Users,
               CustodyBar[t] = "locked", CustodyBar' = [CustodyBar EXCEPT ![t] = to],
               DealBar' = DealBar,
               balance' = [balance EXCEPT ![u] = @ + DealBar[t].quantity]
        PROVE  BooksInv'
    BY <1>2, ReleaseBalances
  <1>3. \A t \in TradeIds : DealBar[t].buyer \in Users /\ DealBar[t].seller \in Users
    BY DEF Custody!Deals
  <1>4. ASSUME NEW t \in TradeIds, Custody!Deliver(t)
        PROVE  BooksInv'
    BY <1>2, <1>3, <1>4 DEF Custody!Deliver, CustodyBar, DealBar, Deal
  <1>5. ASSUME NEW t \in TradeIds, Custody!Return(t)
        PROVE  BooksInv'
    BY <1>2, <1>3, <1>5 DEF Custody!Return, CustodyBar, DealBar, Deal
  <1>6. CASE UNCHANGED Custody!vars
    BY <1>6 DEF Custody!vars, CustodyBar, DealBar, Deal
  <1>7. QED
    BY <1>1, <1>4, <1>5, <1>6 DEF Custody!Next

\* Balanced books are conserved tokens.
LEMMA BooksConserve ==
    ASSUME BooksInv
    PROVE  TokensConserved
  <1> DEFINE Tokens(f) == Custody!MapThenSumSet(LAMBDA u : f[u], Users)
             Held(S) == Custody!MapThenSumSet(LAMBDA t : DealBar[t].quantity, S)
  <1>1. Custody!InCustody = LockedIn(CustodyBar)
    BY DEF Custody!InCustody, LockedIn, CustodyBar
  <1>2. Held(LockedIn(CustodyBar)) = SumOf(Quantities(DealBar), LockedIn(CustodyBar))
    <2>1. Held(LockedIn(CustodyBar))
            = MapThenSumSet(LAMBDA t : DealBar[t].quantity, LockedIn(CustodyBar))
      BY DEF MapThenSumSet, MapThenFoldSet, Custody!MapThenSumSet, Custody!MapThenFoldSet
    <2>2. QED
      BY <2>1, CustodySum DEF BooksInv, Balanced, LockedIn
  <1>3. ASSUME NEW f
        PROVE  Tokens(f) = SumOf(f, Users)
    BY DEF SumOf, MapThenSumSet, MapThenFoldSet, Custody!MapThenSumSet, Custody!MapThenFoldSet
  <1>4. TokensConserved <=> Tokens(balance) + Held(Custody!InCustody) = Tokens(InitBalance)
    BY DEF TokensConserved, Custody!TokensConserved, DealBar, Deal
  <1>5. QED
    <2> HIDE DEF Tokens, Held
    <2>1. QED
      BY <1>1, <1>2, <1>3, <1>4 DEF BooksInv, Balanced

\* No token is made or lost, by any interleaving of matches, settlements, disputes,
\* expiries and failures.
THEOREM NoTokenIsLost == Spec => []TokensConserved
  <1>1. Init => BooksInv
    <2> SUFFICES ASSUME Init PROVE BooksInv
      OBVIOUS
    <2>1. LockedIn(CustodyBar) = {}
      BY DEF Init, LockedIn, CustodyBar, CustodyOf
    <2>2. SumOf(Quantities(DealBar), {}) = 0
      BY SumEquation, FS_EmptySet
    <2>3. \A u \in Users : InitBalance[u] \in Int
      BY EscrowAssumption DEF EscrowAssumption
    <2>4. SumOf(InitBalance, Users) \in Int
      BY <2>3, UsersAssumption, SumType
    <2>5. balance = InitBalance
      BY DEF Init
    <2>6. QED
      BY <2>1, <2>2, <2>4, <2>5, FS_EmptySet DEF BooksInv, Balanced
  <1>2. IInv /\ IInv' /\ BooksInv /\ [Next]_vars => BooksInv'
    BY NextIsCustodyStep, CustodyStepBalances
  <1>3. BooksInv => TokensConserved
    BY BooksConserve
  <1>4. QED
    BY <1>1, <1>2, <1>3, SpecInv, PTL DEF Spec
=============================================================================
