---------------------------- MODULE MarketplaceDB ----------------------------
(***************************************************************************)
(* The tables the marketplace service shares and the transactions of       *)
(* services/marketplace/db.py that write them.  PostgreSQL runs every one  *)
(* of these transactions atomically: their UPDATEs carry the guards below, *)
(* and a guard that matches no row raises and rolls the transaction back.  *)
(* The handlers that call them live in other modules; what they pass in is *)
(* a ROW: a copy read earlier, which may be out of date when it is used.   *)
(* One token is modelled: every statement filters by token_id, and no      *)
(* transaction touches two tokens.                                         *)
(***************************************************************************)
EXTENDS Integers

CONSTANTS
    Users,        \* users holding a wallet
    OrderIds,     \* primary keys of the orders table
    TradeIds,     \* primary keys of the trades table
    MaxQuantity,  \* bound on an order's quantity
    Prices        \* prices (sat per unit) orders are placed at

ASSUME MarketAssumption ==
    /\ MaxQuantity \in Nat \ {0}
    /\ Prices \subseteq Nat \ {0}

VARIABLES
    orders,    \* order rows
    trades,    \* trade rows
    escrows,   \* escrow rows, one per trade (escrows.trade_id is unique)
    disputes,  \* dispute of each trade (disputes.trade_id is unique)
    balance    \* token_balances.balance of each user

db == <<orders, trades, escrows, disputes, balance>>

-----------------------------------------------------------------------------
(* Rows.  "none" is the status of a row not inserted yet.                  *)

OpenOrderStatuses == {"open", "partially_filled"}
OrderStatuses == OpenOrderStatuses \cup {"filled", "cancelled"}
TradeStatuses == {"pending", "escrowed", "settled", "disputed", "cancelled"}
EscrowStatuses == {"created", "funded", "inspection_pending", "released",
                   "refunded", "disputed", "expired"}

\* A settlement path is the transaction that spends the escrow output.
Paths == {"release", "refund"}
Signatures == Paths \X {"buyer", "seller", "platform"}

OrderRow ==
    [id: OrderIds, user: Users, side: {"buy", "sell"},
     type: {"limit", "stop_limit"}, quantity: 1..MaxQuantity, price: Prices,
     trigger: Prices, triggered: BOOLEAN, filled: 0..MaxQuantity,
     status: OrderStatuses \cup {"none"}]

TradeRow ==
    [buyOrder: OrderIds, sellOrder: OrderIds, quantity: 0..MaxQuantity,
     price: Nat, status: TradeStatuses \cup {"none"}]

\* settlement_metadata: are the funding inputs known, which unsigned PSETs are
\* prepared, and which signatures the stored signed PSETs carry.
SettlementMetadata ==
    [funding: BOOLEAN, unsigned: SUBSET Paths, signed: SUBSET Signatures]

EscrowRow ==
    [status: EscrowStatuses \cup {"none"},
     signatures: SUBSET Signatures,   \* collected_signatures
     metadata: SettlementMetadata]

DisputeStatuses == {"none", "open"} \cup Paths  \* resolved disputes: their resolution

DBTypeOK ==
    /\ orders \in [OrderIds -> OrderRow]
    /\ \A o \in OrderIds : orders[o].id = o /\ orders[o].filled <= orders[o].quantity
    /\ trades \in [TradeIds -> TradeRow]
    /\ escrows \in [TradeIds -> EscrowRow]
    /\ disputes \in [TradeIds -> DisputeStatuses]
    /\ balance \in [Users -> Nat]

NoMetadata == [funding |-> FALSE, unsigned |-> {}, signed |-> {}]

\* _merge_settlement_metadata: the keys of both.
MergeMetadata(existing, updates) ==
    [funding |-> existing.funding \/ updates.funding,
     unsigned |-> existing.unsigned \cup updates.unsigned,
     signed |-> existing.signed \cup updates.signed]

Buyer(t) == orders[trades[t].buyOrder].user
Seller(t) == orders[trades[t].sellOrder].user

-----------------------------------------------------------------------------
(* Orders.                                                                 *)

Remaining(row) == IF row.quantity > row.filled THEN row.quantity - row.filled ELSE 0

\* The status apply_order_fill and revert_order_fill store beside a quantity.
FillStatus(row, filled) ==
    CASE filled = row.quantity -> "filled"
      [] filled = 0            -> "open"
      [] OTHER                 -> "partially_filled"

\* Both write an absolute quantity computed from the row they are given, over
\* whatever the table holds (current), whatever its status.
ApplyOrderFill(current, row, quantity) ==
    LET filled == IF row.filled + quantity < row.quantity
                  THEN row.filled + quantity ELSE row.quantity
    IN  [current EXCEPT !.filled = filled, !.status = FillStatus(row, filled)]

RevertOrderFill(current, row, quantity) ==
    LET filled == IF row.filled > quantity THEN row.filled - quantity ELSE 0
    IN  [current EXCEPT !.filled = filled, !.status = FillStatus(row, filled)]

\* _validate_trade_inputs, for orders of the same token.
ValidTradeInputs(buyRow, sellRow, quantity) ==
    /\ buyRow.side = "buy" /\ sellRow.side = "sell"
    /\ quantity \in 1..Remaining(buyRow)
    /\ quantity \in 1..Remaining(sellRow)

\* Mutant: the seller's tokens are checked but not taken.
CreateWithoutLock(t, buyRow, sellRow, quantity, price) ==
    /\ trades[t].status = "none"
    /\ ValidTradeInputs(buyRow, sellRow, quantity)
    /\ balance[sellRow.user] >= quantity
    /\ orders' = [orders EXCEPT
                    ![buyRow.id] = ApplyOrderFill(orders[buyRow.id], buyRow, quantity),
                    ![sellRow.id] = ApplyOrderFill(orders[sellRow.id], sellRow, quantity)]
    /\ trades' = [trades EXCEPT ![t] =
                    [buyOrder |-> buyRow.id, sellOrder |-> sellRow.id,
                     quantity |-> quantity, price |-> price, status |-> "pending"]]
    /\ escrows' = [escrows EXCEPT ![t].status = "created"]
    /\ UNCHANGED <<disputes, balance>>

\* Mutant: only the buy order is filled.
CreateFillingBuyOnly(t, buyRow, sellRow, quantity, price) ==
    /\ trades[t].status = "none"
    /\ ValidTradeInputs(buyRow, sellRow, quantity)
    /\ balance[sellRow.user] >= quantity
    /\ balance' = [balance EXCEPT ![sellRow.user] = @ - quantity]
    /\ orders' = [orders EXCEPT
                    ![buyRow.id] = ApplyOrderFill(orders[buyRow.id], buyRow, quantity)]
    /\ trades' = [trades EXCEPT ![t] =
                    [buyOrder |-> buyRow.id, sellOrder |-> sellRow.id,
                     quantity |-> quantity, price |-> price, status |-> "pending"]]
    /\ escrows' = [escrows EXCEPT ![t].status = "created"]
    /\ UNCHANGED disputes

CreateTradeEscrow(t, buyRow, sellRow, quantity, price) ==
    /\ trades[t].status = "none"
    /\ ValidTradeInputs(buyRow, sellRow, quantity)
    /\ balance[sellRow.user] >= quantity
    /\ balance' = [balance EXCEPT ![sellRow.user] = @ - quantity]
    /\ orders' = [orders EXCEPT
                    ![buyRow.id] = ApplyOrderFill(orders[buyRow.id], buyRow, quantity),
                    ![sellRow.id] = ApplyOrderFill(orders[sellRow.id], sellRow, quantity)]
    /\ trades' = [trades EXCEPT ![t] =
                    [buyOrder |-> buyRow.id, sellOrder |-> sellRow.id,
                     quantity |-> quantity, price |-> price, status |-> "pending"]]
    /\ escrows' = [escrows EXCEPT ![t] =
                    [status |-> "created", signatures |-> {}, metadata |-> NoMetadata]]
    /\ UNCHANGED disputes

-----------------------------------------------------------------------------
(* Escrows.                                                                *)

\* Mutants: the UPDATE without its status filter, and with the escrow's status
\* written to the trade.
MarkFundedAnyStatus(t) ==
    /\ escrows' = [escrows EXCEPT ![t] =
                    [@ EXCEPT !.status = "funded", !.metadata.funding = TRUE]]
    /\ trades' = [trades EXCEPT ![t].status = "escrowed"]
    /\ UNCHANGED <<orders, disputes, balance>>

MarkTradeFunded(t) ==
    /\ escrows[t].status = "created"
    /\ escrows' = [escrows EXCEPT ![t] =
                    [@ EXCEPT !.status = "funded", !.metadata.funding = TRUE]]
    /\ trades' = [trades EXCEPT ![t].status = "funded"]
    /\ UNCHANGED <<orders, disputes, balance>>

MarkEscrowFunded(t) ==
    /\ escrows[t].status = "created"
    /\ escrows' = [escrows EXCEPT ![t] =
                    [@ EXCEPT !.status = "funded", !.metadata.funding = TRUE]]
    /\ trades' = [trades EXCEPT ![t].status = "escrowed"]
    /\ UNCHANGED <<orders, disputes, balance>>

\* Mutant: trusts the row it is given, and filters neither UPDATE by status.
ExpireAnyStatus(t, row, buyRow, sellRow) ==
    /\ row.status = "created"
    /\ balance' = [balance EXCEPT ![sellRow.user] = @ + trades[t].quantity]
    /\ escrows' = [escrows EXCEPT ![t].status = "expired"]
    /\ trades' = [trades EXCEPT ![t].status = "cancelled"]
    /\ UNCHANGED <<orders, disputes>>

ExpireUnfundedEscrow(t, row, buyRow, sellRow) ==
    LET quantity == trades[t].quantity IN
    /\ row.status = "created"
    /\ escrows[t].status = "created"
    /\ trades[t].status = "pending"
    /\ balance' = [balance EXCEPT ![sellRow.user] = @ + quantity]
    /\ orders' = [orders EXCEPT
                    ![buyRow.id] = RevertOrderFill(orders[buyRow.id], buyRow, quantity),
                    ![sellRow.id] = RevertOrderFill(orders[sellRow.id], sellRow, quantity)]
    /\ escrows' = [escrows EXCEPT ![t] =
                    [@ EXCEPT !.status = "expired", !.metadata = row.metadata]]
    /\ trades' = [trades EXCEPT ![t].status = "cancelled"]
    /\ UNCHANGED disputes

\* Writes the whole metadata column, whatever the escrow's status is by now.
UpdateEscrowSettlementMetadata(t, metadata) ==
    /\ escrows' = [escrows EXCEPT ![t].metadata = metadata]
    /\ UNCHANGED <<orders, trades, disputes, balance>>

RecordEscrowSignature(t, row, signature, metadata) ==
    /\ escrows[t].status \in {"funded", "inspection_pending"}
    /\ escrows' = [escrows EXCEPT ![t] =
                    [status |-> IF row.status = "funded" THEN "inspection_pending"
                                ELSE row.status,
                     signatures |-> row.signatures \cup {signature},
                     metadata |-> metadata]]
    /\ UNCHANGED <<orders, trades, disputes, balance>>

\* fee_sat is 0 for every trade create_trade_escrow makes here, so
\* record_trade_fee_income inserts no treasury row.
ProcessEscrowSignature(t, signatures, metadata) ==
    /\ escrows[t].status \in {"inspection_pending", "disputed"}
    /\ escrows' = [escrows EXCEPT ![t] =
                    [status |-> "released", signatures |-> signatures,
                     metadata |-> metadata]]
    /\ trades' = [trades EXCEPT ![t].status = "settled"]
    /\ balance' = [balance EXCEPT ![Buyer(t)] = @ + trades[t].quantity]
    /\ UNCHANGED <<orders, disputes>>

-----------------------------------------------------------------------------
(* Disputes.                                                               *)

\* Mutant: disputes are also accepted in inspection.
OpenDisputeInInspection(t) ==
    /\ trades[t].status = "escrowed"
    /\ disputes[t] = "none"
    /\ trades' = [trades EXCEPT ![t].status = "disputed"]
    /\ escrows' = [escrows EXCEPT ![t].status = "disputed"]
    /\ disputes' = [disputes EXCEPT ![t] = "open"]
    /\ UNCHANGED <<orders, balance>>

OpenDispute(t) ==
    /\ trades[t].status = "escrowed"
    /\ escrows[t].status = "funded"
    /\ disputes[t] = "none"
    /\ trades' = [trades EXCEPT ![t].status = "disputed"]
    /\ escrows' = [escrows EXCEPT ![t].status = "disputed"]
    /\ disputes' = [disputes EXCEPT ![t] = "open"]
    /\ UNCHANGED <<orders, balance>>

\* Mutant: the buyer gets the tokens whatever the resolution.
ResolveForBuyer(t, resolution, signatures, metadata) ==
    /\ trades[t].status = "disputed"
    /\ escrows[t].status = "disputed"
    /\ disputes[t] = "open"
    /\ balance' = [balance EXCEPT ![Buyer(t)] = @ + trades[t].quantity]
    /\ escrows' = [escrows EXCEPT ![t] =
                    [status |-> IF resolution = "release" THEN "released" ELSE "refunded",
                     signatures |-> signatures,
                     metadata |-> MergeMetadata(escrows[t].metadata, metadata)]]
    /\ trades' = [trades EXCEPT ![t].status =
                    IF resolution = "release" THEN "settled" ELSE "cancelled"]
    /\ disputes' = [disputes EXCEPT ![t] = resolution]
    /\ UNCHANGED orders

\* A refund gives the tokens back but leaves the two orders filled.
ResolveDispute(t, resolution, signatures, metadata) ==
    LET payee == IF resolution = "release" THEN Buyer(t) ELSE Seller(t) IN
    /\ trades[t].status = "disputed"
    /\ escrows[t].status = "disputed"
    /\ disputes[t] = "open"
    /\ balance' = [balance EXCEPT ![payee] = @ + trades[t].quantity]
    /\ escrows' = [escrows EXCEPT ![t] =
                    [status |-> IF resolution = "release" THEN "released" ELSE "refunded",
                     signatures |-> signatures,
                     metadata |-> MergeMetadata(escrows[t].metadata, metadata)]]
    /\ trades' = [trades EXCEPT ![t].status =
                    IF resolution = "release" THEN "settled" ELSE "cancelled"]
    /\ disputes' = [disputes EXCEPT ![t] = resolution]
    /\ UNCHANGED orders
=============================================================================
