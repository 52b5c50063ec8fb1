------------------------- MODULE OrderMatching_proofs -------------------------
(***************************************************************************)
(* Proofs about OrderMatching, for every set of users, orders, trades,     *)
(* requests and watchers, and every set of orders requests may ask for.    *)
(*                                                                         *)
(* Between two steps of a place request anything may run, and the rows it  *)
(* trades with may be out of date.  The first half shows what holds        *)
(* nevertheless: an order row never forgets its terms and is never dormant *)
(* again, so a stale row is still right about everything but the filled    *)
(* quantity and the status.  The second half is about a service that runs  *)
(* one place request at a time, where the filled quantities are right too. *)
(***************************************************************************)
EXTENDS OrderMatching, FiniteSums, TLAPS

-----------------------------------------------------------------------------
(* The inductive invariant.                                                *)

Live(row) == row.type = "limit" \/ row.triggered

\* What an inserted order's row may have become since it was read.
Successor(old, new) ==
    /\ new.id = old.id /\ new.user = old.user /\ new.side = old.side
    /\ new.type = old.type /\ new.quantity = old.quantity
    /\ new.price = old.price /\ new.trigger = old.trigger
    /\ old.triggered => new.triggered
    /\ new.status # "none"

\* A row read earlier, of an order of the table.
Held(os, row) == Successor(row, os[row.id]) /\ row.filled <= row.quantity

StatusFits(row) ==
    CASE row.status = "open"             -> row.filled = 0
      [] row.status = "partially_filled" -> row.filled \in 1..(row.quantity - 1)
      [] row.status = "filled"           -> row.filled = row.quantity
      [] OTHER                           -> row.filled < row.quantity

RowOK(o, row) == row.id = o /\ row.filled <= row.quantity /\ StatusFits(row)

\* The terms on which a trade joins a buy and a sell order.
Terms(b, s, price) ==
    /\ b.side = "buy" /\ s.side = "sell" /\ b.user # s.user
    /\ s.price <= price /\ price <= b.price
    /\ Live(b) /\ Live(s)

Joins(os, trade) ==
    trade.status # "none" =>
        /\ os[trade.buyOrder].status # "none" /\ os[trade.sellOrder].status # "none"
        /\ Terms(os[trade.buyOrder], os[trade.sellOrder], trade.price)

\* Both rows of a trade are written in every transaction.
StatusesMatch(trade, escrow) ==
    <<trade.status, escrow.status>> \in
        {<<"none", "none">>, <<"pending", "created">>, <<"cancelled", "expired">>,
         <<"escrowed", "funded">>, <<"escrowed", "inspection_pending">>,
         <<"settled", "released">>}

\* A find_best_match candidate suits the order it is found for.
Suits(mine, theirs) ==
    /\ theirs.user # mine.user /\ theirs.side # mine.side
    /\ IF mine.side = "buy" THEN theirs.price <= mine.price ELSE theirs.price >= mine.price

Looping == {"current", "latest", "activate", "find", "trade", "activate_after", "cancel"}
Matched == {"trade", "cancel"}

RequestOK(os, r) ==
    /\ r.stage \in Looping => Held(os, r.current) /\ Live(r.current)
    /\ r.stage \in Matched =>
         Held(os, r.matched) /\ Live(r.matched) /\ Suits(r.current, r.matched)

WatchOK(os, ts, w) ==
    w.trade # 0 =>
        /\ ts[w.trade].status # "none"
        /\ w.buyRow.id = ts[w.trade].buyOrder /\ Held(os, w.buyRow)
        /\ w.sellRow.id = ts[w.trade].sellOrder /\ Held(os, w.sellRow)

TablesInv ==
    /\ DBTypeOK
    /\ \A o \in OrderIds : RowOK(o, orders[o])
    /\ \A t \in TradeIds : Joins(orders, trades[t]) /\ StatusesMatch(trades[t], escrows[t])

MInv ==
    /\ TypeOK
    /\ TablesInv
    /\ \A p \in Requests : RequestOK(orders, request[p])
    /\ \A w \in Watchers : WatchOK(orders, trades, watch[w])

-----------------------------------------------------------------------------
(* Order rows.                                                             *)

\* A row for what create_order and the UPDATEs make of an order.
GoodRow(o, row) == row \in OrderRow /\ RowOK(o, row)

\* What is left of an order's row is what it asks for less what is filled.
LEMMA RemainingOf ==
    ASSUME NEW row \in OrderRow, row.filled <= row.quantity
    PROVE  Remaining(row) = row.quantity - row.filled /\ Remaining(row) \in Nat
  BY MarketAssumption DEF Remaining, OrderRow

\* A row of an order not inserted yet, and the row create_order inserts, are good.
LEMMA NewRowGood ==
    ASSUME NEW o \in OrderIds, NEW input \in Inputs, NEW triggered \in BOOLEAN
    PROVE  /\ NewRow(o, input, triggered) \in OrderRow
           /\ RowOK(o, NewRow(o, input, triggered))
           /\ NewRow(o, input, triggered).status # "none"
           /\ NoRow(o) \in OrderRow /\ RowOK(o, NoRow(o))
  <1>1. input \in Input /\ NoInput \in Inputs /\ NoInput \in Input
    BY MatchingAssumption DEF MatchingAssumption, NoInput
  <1>2. NewRow(o, input, triggered) \in OrderRow /\ NewRow(o, NoInput, FALSE) \in OrderRow
    BY <1>1, MarketAssumption DEF NewRow, OrderRow, OrderStatuses, OpenOrderStatuses, Input
  <1>3. NoRow(o) \in OrderRow
    BY <1>2 DEF NoRow, OrderRow
  <1>4. NewRow(o, input, triggered).quantity \in Nat \ {0} /\ NoRow(o).quantity \in Nat \ {0}
    BY <1>2, <1>3, MarketAssumption DEF OrderRow
  <1>a. LET row == NewRow(o, input, triggered)
        IN  row.status = "open" /\ row.filled = 0 /\ row.id = o
    BY DEF NewRow
  <1>5. RowOK(o, NewRow(o, input, triggered))
    BY <1>4, <1>a DEF RowOK, StatusFits
  <1>6. NoRow(o).status = "none" /\ NoRow(o).filled = 0 /\ NoRow(o).id = o
    BY DEF NoRow, NewRow
  <1>7. RowOK(o, NoRow(o))
    BY <1>4, <1>6 DEF RowOK, StatusFits
  <1>8. QED
    BY <1>2, <1>3, <1>5, <1>7, <1>a

\* What an order's row may have become twice over is what it may have become.
LEMMA SuccessorTransitive ==
    ASSUME NEW a, NEW b, NEW c, Successor(a, b), Successor(b, c)
    PROVE  Successor(a, c)
  BY DEF Successor

SetFilled(current, row, filled) ==
    [current EXCEPT !.filled = filled, !.status = FillStatus(row, filled)]

\* The status stored beside a filled quantity fits it.
LEMMA FillStatusFits ==
    ASSUME NEW current \in OrderRow, NEW row \in OrderRow, NEW filled \in 0..MaxQuantity,
           row.quantity = current.quantity, filled <= current.quantity,
           NEW new, new = SetFilled(current, row, filled)
    PROVE  /\ new \in OrderRow /\ new.filled <= new.quantity /\ StatusFits(new)
           /\ Successor(current, new)
           /\ new.filled = filled
  <1>1. FillStatus(row, filled) \in {"filled", "open", "partially_filled"}
    BY DEF FillStatus
  <1>2. new \in OrderRow /\ new.filled = filled /\ new.quantity = current.quantity
        /\ new.status = FillStatus(row, filled)
    BY <1>1 DEF OrderRow, OrderStatuses, OpenOrderStatuses, SetFilled
  <1>3. current.quantity \in Nat /\ filled \in Nat
    BY MarketAssumption DEF OrderRow
  <1>4. StatusFits(new)
    <2>1. CASE filled = current.quantity
      BY <1>2, <1>3, <2>1 DEF StatusFits, FillStatus
    <2>2. CASE filled # current.quantity /\ filled = 0
      BY <1>2, <1>3, <2>2 DEF StatusFits, FillStatus
    <2>3. CASE filled # current.quantity /\ filled # 0
      BY <1>2, <1>3, <2>3 DEF StatusFits, FillStatus
    <2>4. QED
      BY <2>1, <2>2, <2>3
  <1>5. Successor(current, new)
    BY <1>1 DEF Successor, OrderRow, SetFilled
  <1>6. QED
    BY <1>2, <1>4, <1>5

\* apply_order_fill and revert_order_fill leave an order a good row, with its
\* terms, however old the row they compute from is.
LEMMA FillsFit ==
    ASSUME NEW o, NEW current, GoodRow(o, current),
           NEW row \in OrderRow, NEW quantity \in Nat,
           row.quantity = current.quantity, row.filled <= row.quantity
    PROVE  /\ GoodRow(o, ApplyOrderFill(current, row, quantity))
           /\ Successor(current, ApplyOrderFill(current, row, quantity))
           /\ GoodRow(o, RevertOrderFill(current, row, quantity))
           /\ Successor(current, RevertOrderFill(current, row, quantity))
           /\ quantity <= Remaining(row) =>
                ApplyOrderFill(current, row, quantity).filled = row.filled + quantity
  <1> DEFINE fa == IF row.filled + quantity < row.quantity
                   THEN row.filled + quantity ELSE row.quantity
             fr == IF row.filled > quantity THEN row.filled - quantity ELSE 0
             na == SetFilled(current, row, fa)
             nr == SetFilled(current, row, fr)
  <1>1. fa \in 0..MaxQuantity /\ fa <= current.quantity
    BY MarketAssumption DEF GoodRow, OrderRow
  <1>2. fr \in 0..MaxQuantity /\ fr <= current.quantity
    BY MarketAssumption DEF GoodRow, OrderRow
  <1>3. quantity <= Remaining(row) => fa = row.filled + quantity
    BY RemainingOf, MarketAssumption DEF OrderRow
  <1>4. ApplyOrderFill(current, row, quantity) = na
    BY DEF ApplyOrderFill, SetFilled
  <1>5. RevertOrderFill(current, row, quantity) = nr
    BY DEF RevertOrderFill, SetFilled
  <1> HIDE DEF fa, fr
  <1>6. /\ na \in OrderRow /\ na.filled <= na.quantity /\ StatusFits(na)
        /\ Successor(current, na) /\ na.filled = fa
    BY <1>1, FillStatusFits DEF GoodRow
  <1>7. /\ nr \in OrderRow /\ nr.filled <= nr.quantity /\ StatusFits(nr)
        /\ Successor(current, nr)
    BY <1>2, FillStatusFits DEF GoodRow
  <1> HIDE DEF na, nr
  <1>8. QED
    BY <1>3, <1>4, <1>5, <1>6, <1>7 DEF GoodRow, RowOK, Successor

\* Cancelling an order leaves it a good row, which is its successor.
LEMMA CancelFits ==
    ASSUME NEW o, NEW row, GoodRow(o, row), Open(row),
           NEW new, new = [row EXCEPT !.status = "cancelled"]
    PROVE  GoodRow(o, new) /\ Successor(row, new) /\ new.filled = row.filled
  <1>1. new \in OrderRow /\ new.filled = row.filled /\ new.quantity = row.quantity
        /\ new.status = "cancelled" /\ new.id = row.id
    BY DEF GoodRow, OrderRow, OrderStatuses, OpenOrderStatuses
  <1>2. row.filled < row.quantity
    BY MarketAssumption DEF GoodRow, RowOK, StatusFits, Open, OpenOrderStatuses, OrderRow
  <1>3. Successor(row, new)
    BY DEF Successor, GoodRow, OrderRow
  <1>4. QED
    BY <1>1, <1>2, <1>3 DEF GoodRow, RowOK, StatusFits

\* So does waking a stop order up.
LEMMA TriggerFits ==
    ASSUME NEW o, NEW row, GoodRow(o, row), row.status # "none",
           NEW new, new = [row EXCEPT !.triggered = TRUE]
    PROVE  GoodRow(o, new) /\ Successor(row, new) /\ new.filled = row.filled
  <1>1. /\ new \in OrderRow /\ new.filled = row.filled /\ new.quantity = row.quantity
        /\ new.status = row.status /\ new.id = row.id
    BY DEF GoodRow, OrderRow
  <1>2. Successor(row, new)
    BY DEF Successor, GoodRow, OrderRow
  <1>3. QED
    BY <1>1, <1>2 DEF GoodRow, RowOK, StatusFits

-----------------------------------------------------------------------------
(* The tables.                                                             *)

OrdersGrow(os, ns) ==
    /\ ns \in [OrderIds -> OrderRow]
    /\ \A o \in OrderIds :
         RowOK(o, ns[o]) /\ (os[o].status # "none" => Successor(os[o], ns[o]))

TradesGrow(ts, us) ==
    /\ us \in [TradeIds -> TradeRow]
    /\ \A t \in TradeIds : ts[t].status # "none" =>
         /\ us[t].status # "none"
         /\ us[t].buyOrder = ts[t].buyOrder /\ us[t].sellOrder = ts[t].sellOrder
         /\ us[t].quantity = ts[t].quantity /\ us[t].price = ts[t].price

TablesGrow ==
    OrdersGrow(orders, orders') /\ TradesGrow(trades, trades') /\ TablesInv'

\* A row read earlier stays one, whatever is done to the orders.
LEMMA HeldGrows ==
    ASSUME NEW os, NEW ns, OrdersGrow(os, ns), NEW row \in OrderRow, Held(os, row)
    PROVE  Held(ns, row)
  <1>1. row.id \in OrderIds /\ Successor(row, os[row.id]) /\ os[row.id].status # "none"
    BY DEF OrderRow, Held, Successor
  <1>2. Successor(os[row.id], ns[row.id])
    BY <1>1 DEF OrdersGrow
  <1>3. QED
    BY <1>1, <1>2, SuccessorTransitive DEF Held

\* A trade's orders stay inserted, with the terms it was made on.
LEMMA JoinsGrow ==
    ASSUME NEW os, NEW ns, OrdersGrow(os, ns), NEW trade \in TradeRow, Joins(os, trade)
    PROVE  Joins(ns, trade)
  <1>1. trade.buyOrder \in OrderIds /\ trade.sellOrder \in OrderIds
    BY DEF TradeRow
  <1>2. ASSUME NEW b, NEW s, NEW nb, NEW ns1, Successor(b, nb), Successor(s, ns1),
               NEW price, Terms(b, s, price)
        PROVE  Terms(nb, ns1, price)
    BY <1>2 DEF Terms, Successor, Live
  <1>3. CASE trade.status # "none"
    <2>1. /\ Successor(os[trade.buyOrder], ns[trade.buyOrder])
          /\ Successor(os[trade.sellOrder], ns[trade.sellOrder])
      BY <1>1, <1>3 DEF OrdersGrow, Joins
    <2>2. Terms(os[trade.buyOrder], os[trade.sellOrder], trade.price)
      BY <1>3 DEF Joins
    <2>3. Terms(ns[trade.buyOrder], ns[trade.sellOrder], trade.price)
      BY <1>2, <2>1, <2>2
    <2>4. QED
      BY <2>1, <2>3 DEF Joins, Successor
  <1>4. CASE trade.status = "none"
    BY <1>4 DEF Joins
  <1>5. QED
    BY <1>3, <1>4

RequestRow ==
    [stage: Stages, input: Inputs, funds: Nat, price: Nat, triggered: BOOLEAN,
     current: OrderRow, matched: OrderRow]
WatchRow == [trade: TradeIds \cup {0}, buyRow: OrderRow, sellRow: OrderRow]

\* What a request holds stays right while others run.
LEMMA RequestGrows ==
    ASSUME NEW os, NEW ns, OrdersGrow(os, ns), NEW r \in RequestRow, RequestOK(os, r)
    PROVE  RequestOK(ns, r)
  <1>1. r.current \in OrderRow /\ r.matched \in OrderRow
    BY DEF RequestRow
  <1>2. QED
    BY <1>1, HeldGrows DEF RequestOK

\* What a watcher holds does too.
LEMMA WatchGrows ==
    ASSUME NEW os, NEW ns, OrdersGrow(os, ns), NEW ts, NEW us, TradesGrow(ts, us),
           NEW w \in WatchRow, WatchOK(os, ts, w)
    PROVE  WatchOK(ns, us, w)
  <1>1. w.buyRow \in OrderRow /\ w.sellRow \in OrderRow /\ w.trade \in TradeIds \cup {0}
    BY DEF WatchRow
  <1>2. CASE w.trade = 0
    BY <1>2 DEF WatchOK
  <1>3. CASE w.trade # 0
    <2>1. Held(ns, w.buyRow) /\ Held(ns, w.sellRow)
      BY <1>1, <1>3, HeldGrows DEF WatchOK
    <2>2. QED
      BY <1>1, <1>3, <2>1 DEF WatchOK, TradesGrow
  <1>4. QED
    BY <1>2, <1>3

\* A step keeps the invariant if its transaction keeps the tables', and what it
\* hands to a request or a watcher is right.
LEMMA StepInv ==
    ASSUME MInv, TablesGrow, latest' \in TradeIds \cup {0},
           request' \in [Requests -> RequestRow],
           \A p \in Requests : request'[p] = request[p] \/ RequestOK(orders', request'[p]),
           watch' \in [Watchers -> WatchRow],
           \A w \in Watchers : watch'[w] = watch[w] \/ WatchOK(orders', trades', watch'[w])
    PROVE  MInv'
  <1>1. TypeOK'
    BY DEF TablesGrow, TablesInv, TypeOK, RequestRow, WatchRow
  <1>2. ASSUME NEW p \in Requests PROVE RequestOK(orders', request'[p])
    <2>1. request[p] \in RequestRow /\ RequestOK(orders, request[p])
      BY DEF MInv, TypeOK, RequestRow
    <2>2. RequestOK(orders', request[p])
      BY <2>1, RequestGrows DEF TablesGrow
    <2>3. QED
      BY <2>2
  <1>3. ASSUME NEW w \in Watchers PROVE WatchOK(orders', trades', watch'[w])
    <2>1. watch[w] \in WatchRow /\ WatchOK(orders, trades, watch[w])
      BY DEF MInv, TypeOK, WatchRow
    <2>2. WatchOK(orders', trades', watch[w])
      BY <2>1, WatchGrows DEF TablesGrow
    <2>3. QED
      BY <2>2
  <1>4. QED
    BY <1>1, <1>2, <1>3 DEF MInv, TablesGrow

\* A statement that writes orders alone keeps the tables' invariant if it makes
\* each inserted order its successor.
LEMMA OrdersOnly ==
    ASSUME MInv, OrdersGrow(orders, orders'), UNCHANGED <<trades, escrows, disputes, balance>>
    PROVE  TablesGrow
  <1>1. orders' \in [OrderIds -> OrderRow]
        /\ \A o \in OrderIds : RowOK(o, orders'[o])
    BY DEF OrdersGrow
  <1>2. DBTypeOK'
    BY <1>1 DEF MInv, TablesInv, DBTypeOK, RowOK
  <1>3. ASSUME NEW t \in TradeIds
        PROVE  Joins(orders', trades'[t]) /\ StatusesMatch(trades'[t], escrows'[t])
    <2>1. trades[t] \in TradeRow /\ Joins(orders, trades[t])
          /\ StatusesMatch(trades[t], escrows[t])
      BY DEF MInv, TablesInv, DBTypeOK
    <2>2. QED
      BY <2>1, JoinsGrow
  <1>4. TradesGrow(trades, trades')
    BY DEF TradesGrow, MInv, TablesInv, DBTypeOK
  <1>5. QED
    BY <1>1, <1>2, <1>3, <1>4 DEF TablesGrow, TablesInv

\* A step that writes no table keeps it.
LEMMA NoTables ==
    ASSUME MInv, UNCHANGED db
    PROVE  TablesGrow
  <1>1. ASSUME NEW o \in OrderIds, orders[o].status # "none"
        PROVE  Successor(orders[o], orders[o])
    BY <1>1 DEF Successor
  <1>2. OrdersGrow(orders, orders')
    BY <1>1 DEF db, OrdersGrow, MInv, TablesInv, DBTypeOK
  <1>3. QED
    BY <1>2, OrdersOnly DEF db

\* Writing one order a good row that succeeds it.
LEMMA OneOrder ==
    ASSUME NEW os, NEW ns, NEW o \in OrderIds, NEW new,
           os \in [OrderIds -> OrderRow], \A q \in OrderIds : RowOK(q, os[q]),
           GoodRow(o, new), os[o].status # "none" => Successor(os[o], new),
           ns = [os EXCEPT ![o] = new]
    PROVE  OrdersGrow(os, ns)
  <1>1. ns \in [OrderIds -> OrderRow]
    BY DEF GoodRow
  <1>2. ASSUME NEW q \in OrderIds
        PROVE  RowOK(q, ns[q]) /\ (os[q].status # "none" => Successor(os[q], ns[q]))
    <2>1. CASE q = o
      BY <2>1 DEF GoodRow
    <2>2. CASE q # o
      BY <2>2 DEF Successor
    <2>3. QED
      BY <2>1, <2>2
  <1>3. QED
    BY <1>1, <1>2 DEF OrdersGrow

\* Writing two orders.
LEMMA TwoOrders ==
    ASSUME NEW os, NEW ns, NEW b \in OrderIds, NEW s \in OrderIds, b # s, NEW nb, NEW new,
           os \in [OrderIds -> OrderRow], \A q \in OrderIds : RowOK(q, os[q]),
           GoodRow(b, nb), Successor(os[b], nb), GoodRow(s, new), Successor(os[s], new),
           ns = [os EXCEPT ![b] = nb, ![s] = new]
    PROVE  OrdersGrow(os, ns)
  <1>1. ns \in [OrderIds -> OrderRow] /\ ns[b] = nb /\ ns[s] = new
    BY DEF GoodRow
  <1>2. ASSUME NEW q \in OrderIds
        PROVE  RowOK(q, ns[q]) /\ (os[q].status # "none" => Successor(os[q], ns[q]))
    <2>1. CASE q = b
      BY <1>1, <2>1 DEF GoodRow
    <2>2. CASE q = s
      BY <1>1, <2>2 DEF GoodRow
    <2>3. CASE q # b /\ q # s
      <3>1. ns[q] = os[q]
        BY <2>3
      <3>2. QED
        BY <3>1 DEF Successor
    <2>4. QED
      BY <2>1, <2>2, <2>3
  <1>3. QED
    BY <1>1, <1>2 DEF OrdersGrow

-----------------------------------------------------------------------------
(* The transactions.                                                       *)

\* The two orders of a trade are distinct, and each is the order of its row.
LEMMA TwoSides ==
    ASSUME MInv, NEW b \in OrderRow, NEW s \in OrderRow,
           Held(orders, b), Held(orders, s), b.side # s.side
    PROVE  /\ b.id \in OrderIds /\ s.id \in OrderIds /\ b.id # s.id
           /\ GoodRow(b.id, orders[b.id]) /\ Successor(b, orders[b.id])
           /\ GoodRow(s.id, orders[s.id]) /\ Successor(s, orders[s.id])
           /\ b.quantity = orders[b.id].quantity /\ b.filled <= b.quantity
           /\ s.quantity = orders[s.id].quantity /\ s.filled <= s.quantity
  <1>1. b.id \in OrderIds /\ s.id \in OrderIds
    BY DEF OrderRow
  <1>2. Successor(b, orders[b.id]) /\ Successor(s, orders[s.id])
        /\ b.filled <= b.quantity /\ s.filled <= s.quantity
    BY DEF Held
  <1>3. b.id # s.id
    BY <1>2 DEF Successor
  <1>4. GoodRow(b.id, orders[b.id]) /\ GoodRow(s.id, orders[s.id])
    BY <1>1 DEF MInv, TablesInv, DBTypeOK, GoodRow
  <1>5. QED
    BY <1>1, <1>2, <1>3, <1>4 DEF Successor

\* The escrow and trade rows create_trade_escrow inserts are well typed.
LEMMA NewTradeRows ==
    ASSUME NEW b \in OrderIds, NEW s \in OrderIds, NEW quantity \in 0..MaxQuantity, NEW price \in Nat
    PROVE  /\ [buyOrder |-> b, sellOrder |-> s, quantity |-> quantity, price |-> price,
               status |-> "pending"] \in TradeRow
           /\ [status |-> "created", signatures |-> {}, metadata |-> NoMetadata] \in EscrowRow
           /\ NoEscrow \in EscrowRow
  BY DEF TradeRow, TradeStatuses, EscrowRow, EscrowStatuses, NoMetadata, SettlementMetadata,
         NoEscrow

\* create_trade_escrow makes its trade on the terms of both orders, with rows of
\* them however old.
LEMMA CreateGrows ==
    ASSUME MInv, NEW t \in TradeIds, NEW b \in OrderRow, NEW s \in OrderRow,
           NEW quantity, NEW price \in Nat,
           Held(orders, b), Held(orders, s), Terms(b, s, price),
           CreateTradeEscrow(t, b, s, quantity, price)
    PROVE  TablesGrow
  <1> DEFINE nb == ApplyOrderFill(orders[b.id], b, quantity)
             new == ApplyOrderFill(orders[s.id], s, quantity)
             trade == [buyOrder |-> b.id, sellOrder |-> s.id, quantity |-> quantity,
                       price |-> price, status |-> "pending"]
             escrow == [status |-> "created", signatures |-> {}, metadata |-> NoMetadata]
  <1>1. /\ b.id \in OrderIds /\ s.id \in OrderIds /\ b.id # s.id
        /\ GoodRow(b.id, orders[b.id]) /\ Successor(b, orders[b.id])
        /\ GoodRow(s.id, orders[s.id]) /\ Successor(s, orders[s.id])
        /\ b.quantity = orders[b.id].quantity /\ b.filled <= b.quantity
        /\ s.quantity = orders[s.id].quantity /\ s.filled <= s.quantity
    BY TwoSides DEF Terms
  <1>2. quantity \in 1..Remaining(b) /\ Remaining(b) \in Nat /\ Remaining(b) <= MaxQuantity
    BY <1>1, RemainingOf, MarketAssumption DEF CreateTradeEscrow, ValidTradeInputs, OrderRow
  <1>3. quantity \in Nat /\ quantity \in 0..MaxQuantity
    BY <1>2, MarketAssumption
  <1>4. /\ GoodRow(b.id, nb) /\ Successor(orders[b.id], nb)
        /\ GoodRow(s.id, new) /\ Successor(orders[s.id], new)
    BY <1>1, <1>3, FillsFit
  <1>5. /\ orders' = [orders EXCEPT ![b.id] = nb, ![s.id] = new]
        /\ trades' = [trades EXCEPT ![t] = trade] /\ trades[t].status = "none"
        /\ escrows' = [escrows EXCEPT ![t] = escrow] /\ disputes' = disputes
    BY DEF CreateTradeEscrow
  <1> HIDE DEF nb, new
  <1>6. /\ orders \in [OrderIds -> OrderRow] /\ \A o \in OrderIds : RowOK(o, orders[o])
        /\ trades \in [TradeIds -> TradeRow] /\ escrows \in [TradeIds -> EscrowRow]
        /\ disputes \in [TradeIds -> DisputeStatuses] /\ balance \in [Users -> Nat]
    BY DEF MInv, TablesInv, DBTypeOK
  <1>7. OrdersGrow(orders, orders')
    BY <1>1, <1>4, <1>5, <1>6, TwoOrders
  <1>8. trade \in TradeRow /\ escrow \in EscrowRow
    BY <1>1, <1>3, NewTradeRows
  <1>9. trades' \in [TradeIds -> TradeRow] /\ escrows' \in [TradeIds -> EscrowRow]
    BY <1>5, <1>6, <1>8
  <1>10. balance' \in [Users -> Nat]
    BY <1>3, <1>6 DEF CreateTradeEscrow, OrderRow
  <1>11. TradesGrow(trades, trades')
    BY <1>5, <1>6, <1>9 DEF TradesGrow
  <1>12. Joins(orders', trade)
    <2>1. Successor(b, orders'[b.id]) /\ Successor(s, orders'[s.id])
      BY <1>1, <1>4, <1>5, <1>6, SuccessorTransitive
    <2>2. Terms(orders'[b.id], orders'[s.id], price)
      BY <2>1 DEF Terms, Successor, Live
    <2>3. QED
      BY <2>1, <2>2 DEF Joins, Successor
  <1>13. ASSUME NEW u \in TradeIds
         PROVE  Joins(orders', trades'[u]) /\ StatusesMatch(trades'[u], escrows'[u])
    <2>1. CASE u = t
      <3>1. trades'[u] = trade /\ escrows'[u] = escrow
        BY <1>5, <1>6, <2>1
      <3>2. QED
        BY <1>12, <3>1 DEF StatusesMatch
    <2>2. CASE u # t
      <3>1. trades'[u] = trades[u] /\ escrows'[u] = escrows[u] /\ trades[u] \in TradeRow
        BY <1>5, <1>6, <2>2
      <3>2. Joins(orders, trades[u]) /\ StatusesMatch(trades[u], escrows[u])
        BY DEF MInv, TablesInv
      <3>3. QED
        BY <1>7, <3>1, <3>2, JoinsGrow
    <2>3. QED
      BY <2>1, <2>2
  <1>14. DBTypeOK'
    BY <1>5, <1>6, <1>7, <1>9, <1>10 DEF DBTypeOK, OrdersGrow, RowOK
  <1>15. QED
    BY <1>7, <1>11, <1>13, <1>14 DEF TablesGrow, TablesInv, OrdersGrow

\* The other transactions of a trade change nothing of it but its status.
LEMMA TradeStatusGrows ==
    ASSUME MInv, OrdersGrow(orders, orders'), NEW t \in TradeIds,
           NEW status \in TradeStatuses, NEW escrow \in EscrowRow,
           trades[t].status # "none",
           trades' = [trades EXCEPT ![t].status = status],
           escrows' = [escrows EXCEPT ![t] = escrow],
           StatusesMatch([status |-> status], escrow),
           disputes' = disputes, balance' \in [Users -> Nat]
    PROVE  TablesGrow
  <1> DEFINE trade == [trades[t] EXCEPT !.status = status]
  <1>1. /\ trades \in [TradeIds -> TradeRow] /\ escrows \in [TradeIds -> EscrowRow]
        /\ disputes \in [TradeIds -> DisputeStatuses]
    BY DEF MInv, TablesInv, DBTypeOK
  <1>2. /\ trade \in TradeRow /\ trade.status = status
        /\ trade.buyOrder = trades[t].buyOrder /\ trade.sellOrder = trades[t].sellOrder
        /\ trade.quantity = trades[t].quantity /\ trade.price = trades[t].price
    BY <1>1 DEF TradeRow
  <1>3. trades' = [trades EXCEPT ![t] = trade]
    BY <1>1
  <1> HIDE DEF trade
  <1>4. trades' \in [TradeIds -> TradeRow] /\ escrows' \in [TradeIds -> EscrowRow]
    BY <1>1, <1>2, <1>3
  <1>5. TradesGrow(trades, trades')
    <2>1. status # "none"
      BY DEF TradeStatuses
    <2>2. QED
      BY <1>1, <1>2, <1>3, <1>4, <2>1 DEF TradesGrow
  <1>6. ASSUME NEW u \in TradeIds
        PROVE  Joins(orders', trades'[u]) /\ StatusesMatch(trades'[u], escrows'[u])
    <2>1. trades[u] \in TradeRow /\ Joins(orders, trades[u]) /\ StatusesMatch(trades[u], escrows[u])
      BY <1>1 DEF MInv, TablesInv
    <2>2. Joins(orders', trades[u])
      BY <2>1, JoinsGrow
    <2>3. CASE u = t
      <3>1. trades'[u] = trade /\ escrows'[u] = escrow
        BY <1>1, <1>3, <2>3
      <3>2. Joins(orders', trade)
        BY <1>2, <2>2, <2>3 DEF Joins
      <3>3. StatusesMatch(trade, escrow)
        BY <1>2 DEF StatusesMatch
      <3>4. QED
        BY <3>1, <3>2, <3>3
    <2>4. CASE u # t
      BY <1>1, <1>3, <2>1, <2>2, <2>4
    <2>5. QED
      BY <2>3, <2>4
  <1>7. DBTypeOK'
    BY <1>1, <1>4 DEF DBTypeOK, OrdersGrow, RowOK
  <1>8. QED
    BY <1>5, <1>6, <1>7 DEF TablesGrow, TablesInv, OrdersGrow

\* expire_unfunded_escrow puts the trade's units back with the rows a watcher read.
LEMMA ExpireGrows ==
    ASSUME MInv, NEW t \in TradeIds, NEW b \in OrderRow, NEW s \in OrderRow,
           Held(orders, b), Held(orders, s),
           b.id = trades[t].buyOrder, s.id = trades[t].sellOrder,
           ExpireUnfundedEscrow(t, CreatedRow, b, s)
    PROVE  TablesGrow
  <1> DEFINE nb == RevertOrderFill(orders[b.id], b, trades[t].quantity)
             new == RevertOrderFill(orders[s.id], s, trades[t].quantity)
             escrow == [escrows[t] EXCEPT !.status = "expired",
                                          !.metadata = CreatedRow.metadata]
  <1>1. /\ orders \in [OrderIds -> OrderRow] /\ \A o \in OrderIds : RowOK(o, orders[o])
        /\ trades[t] \in TradeRow /\ escrows \in [TradeIds -> EscrowRow]
        /\ balance \in [Users -> Nat] /\ trades[t].quantity \in Nat
    BY MarketAssumption DEF MInv, TablesInv, DBTypeOK, TradeRow
  <1>2. trades[t].status = "pending" /\ Joins(orders, trades[t])
    BY DEF ExpireUnfundedEscrow, MInv, TablesInv
  <1>3. b.side # s.side
    BY <1>2 DEF Joins, Terms, Held, Successor
  <1>4. /\ b.id \in OrderIds /\ s.id \in OrderIds /\ b.id # s.id
        /\ GoodRow(b.id, orders[b.id]) /\ Successor(b, orders[b.id])
        /\ GoodRow(s.id, orders[s.id]) /\ Successor(s, orders[s.id])
        /\ b.quantity = orders[b.id].quantity /\ b.filled <= b.quantity
        /\ s.quantity = orders[s.id].quantity /\ s.filled <= s.quantity
    BY <1>3, TwoSides
  <1>5. /\ GoodRow(b.id, nb) /\ Successor(orders[b.id], nb)
        /\ GoodRow(s.id, new) /\ Successor(orders[s.id], new)
    BY <1>1, <1>4, FillsFit
  <1>6. escrow \in EscrowRow /\ escrow.status = "expired"
    BY <1>1 DEF EscrowRow, EscrowStatuses, CreatedRow, NoEscrow, NoMetadata, SettlementMetadata
  <1>7. /\ orders' = [orders EXCEPT ![b.id] = nb, ![s.id] = new]
        /\ trades' = [trades EXCEPT ![t].status = "cancelled"]
        /\ escrows' = [escrows EXCEPT ![t] = escrow] /\ disputes' = disputes
        /\ balance' = [balance EXCEPT ![s.user] = @ + trades[t].quantity]
    BY DEF ExpireUnfundedEscrow
  <1> HIDE DEF nb, new, escrow
  <1>8. OrdersGrow(orders, orders')
    BY <1>1, <1>4, <1>5, <1>7, TwoOrders
  <1>9. balance' \in [Users -> Nat]
    BY <1>1, <1>7 DEF OrderRow
  <1>10. StatusesMatch([status |-> "cancelled"], escrow)
    BY <1>6 DEF StatusesMatch
  <1>11. "cancelled" \in TradeStatuses /\ trades[t].status # "none"
    BY <1>2 DEF TradeStatuses
  <1>12. QED
    BY <1>6, <1>7, <1>8, <1>9, <1>10, <1>11, TradeStatusGrows

\* The trade of an escrow row that was inserted was inserted too, and the statuses
\* of both move together.
LEMMA EscrowGrows ==
    ASSUME MInv, NEW t \in TradeIds, Escrow(t)
    PROVE  TablesGrow
  <1>1. /\ trades \in [TradeIds -> TradeRow] /\ trades[t] \in TradeRow /\ escrows[t] \in EscrowRow
        /\ StatusesMatch(trades[t], escrows[t]) /\ balance \in [Users -> Nat]
        /\ orders \in [OrderIds -> OrderRow] /\ \A o \in OrderIds : RowOK(o, orders[o])
        /\ trades[t].quantity \in Nat
    BY MarketAssumption DEF MInv, TablesInv, DBTypeOK, TradeRow
  <1>2. trades[t].status # "none"
    BY <1>1 DEF Escrow, Funded, SellerSigns, Released, MarkEscrowFunded, StatusesMatch
  <1>3. orders' = orders /\ disputes' = disputes
    BY DEF Escrow, Funded, SellerSigns, Released, MarkEscrowFunded, RecordEscrowSignature,
           ProcessEscrowSignature
  <1>4. OrdersGrow(orders, orders')
    BY <1>1, <1>3 DEF OrdersGrow, Successor
  <1>5. {"pending", "escrowed", "settled"} \subseteq TradeStatuses
    BY DEF TradeStatuses
  <1>6. CASE Funded(t)
    <2> DEFINE escrow == [escrows[t] EXCEPT !.status = "funded", !.metadata.funding = TRUE]
    <2>1. escrow \in EscrowRow /\ escrow.status = "funded"
      BY <1>1 DEF EscrowRow, EscrowStatuses, SettlementMetadata
    <2>2. escrows' = [escrows EXCEPT ![t] = escrow] /\ balance' = balance
          /\ trades' = [trades EXCEPT ![t].status = "escrowed"]
      BY <1>6 DEF Funded, MarkEscrowFunded
    <2> HIDE DEF escrow
    <2>3. StatusesMatch([status |-> "escrowed"], escrow)
      BY <2>1 DEF StatusesMatch
    <2>4. QED
      BY <1>1, <1>2, <1>3, <1>4, <1>5, <2>1, <2>2, <2>3, TradeStatusGrows
  <1>7. CASE SellerSigns(t)
    <2> DEFINE escrow == [status |-> "inspection_pending",
                          signatures |-> escrows[t].signatures \cup {<<"release", "seller">>},
                          metadata |-> escrows[t].metadata]
    <2>1. <<"release", "seller">> \in Signatures
      BY DEF Signatures, Paths
    <2>2. escrow \in EscrowRow /\ escrow.status = "inspection_pending"
      BY <1>1, <2>1 DEF EscrowRow, EscrowStatuses
    <2>3. escrows' = [escrows EXCEPT ![t] = escrow] /\ trades' = trades /\ balance' = balance
      BY <1>7 DEF SellerSigns, RecordEscrowSignature
    <2>4. trades[t].status = "escrowed"
      BY <1>1, <1>7 DEF SellerSigns, StatusesMatch
    <2> HIDE DEF escrow
    <2>5. trades' = [trades EXCEPT ![t].status = "escrowed"]
      <3>1. [trades[t] EXCEPT !.status = "escrowed"] = trades[t]
        BY <1>1, <2>4 DEF TradeRow
      <3>2. QED
        BY <1>1, <2>3, <3>1
    <2>6. StatusesMatch([status |-> "escrowed"], escrow)
      BY <2>2 DEF StatusesMatch
    <2>7. QED
      BY <1>1, <1>2, <1>3, <1>4, <1>5, <2>2, <2>3, <2>5, <2>6, TradeStatusGrows
  <1>8. CASE Released(t)
    <2> DEFINE escrow == [status |-> "released",
                          signatures |-> escrows[t].signatures \cup {<<"release", "buyer">>},
                          metadata |-> escrows[t].metadata]
    <2>1. <<"release", "buyer">> \in Signatures
      BY DEF Signatures, Paths
    <2>2. escrow \in EscrowRow /\ escrow.status = "released"
      BY <1>1, <2>1 DEF EscrowRow, EscrowStatuses
    <2>3. /\ escrows' = [escrows EXCEPT ![t] = escrow]
          /\ trades' = [trades EXCEPT ![t].status = "settled"]
          /\ balance' = [balance EXCEPT ![Buyer(t)] = @ + trades[t].quantity]
      BY <1>8 DEF Released, ProcessEscrowSignature
    <2>4. Buyer(t) \in Users
      BY <1>1 DEF Buyer, OrderRow, TradeRow
    <2> HIDE DEF escrow
    <2>5. balance' \in [Users -> Nat]
      BY <1>1, <2>3, <2>4
    <2>6. StatusesMatch([status |-> "settled"], escrow)
      BY <2>2 DEF StatusesMatch
    <2>7. QED
      BY <1>1, <1>2, <1>3, <1>4, <1>5, <2>2, <2>3, <2>5, <2>6, TradeStatusGrows
  <1>9. QED
    BY <1>6, <1>7, <1>8 DEF Escrow

-----------------------------------------------------------------------------
(* The initial tables.                                                     *)

\* What an idle request and an idle watcher hold is well typed.
LEMMA IdleRows == AnyOrder \in OrderIds /\ Idle \in RequestRow /\ NoWatch \in WatchRow
  <1>1. AnyOrder \in OrderIds /\ NoInput \in Inputs
    BY MatchingAssumption DEF MatchingAssumption, AnyOrder, NoInput
  <1>2. NoRow(AnyOrder) \in OrderRow
    BY <1>1, NewRowGood
  <1>3. QED
    BY <1>1, <1>2 DEF Idle, NoWatch, RequestRow, WatchRow, Stages

\* The invariant holds of the initial tables.
LEMMA InitInv == Init => MInv
  <1> SUFFICES ASSUME Init PROVE MInv
    OBVIOUS
  <1>1. AnyOrder \in OrderIds /\ AnyTrade \in TradeIds /\ NoInput \in Inputs
    BY MatchingAssumption DEF MatchingAssumption, AnyOrder, AnyTrade, NoInput
  <1>2. \A o \in OrderIds : NoRow(o) \in OrderRow /\ RowOK(o, NoRow(o))
    BY <1>1, NewRowGood
  <1>3. orders \in [OrderIds -> OrderRow] /\ \A o \in OrderIds : RowOK(o, orders[o])
    BY <1>2 DEF Init
  <1>4. trades \in [TradeIds -> TradeRow]
    BY <1>1, MarketAssumption DEF Init, TradeRow
  <1>5. escrows \in [TradeIds -> EscrowRow]
    BY DEF Init, EscrowRow, NoEscrow, NoMetadata, SettlementMetadata
  <1>6. DBTypeOK
    BY <1>3, <1>4, <1>5, MatchingAssumption
    DEF Init, DBTypeOK, RowOK, DisputeStatuses, MatchingAssumption
  <1>7. ASSUME NEW t \in TradeIds
        PROVE  Joins(orders, trades[t]) /\ StatusesMatch(trades[t], escrows[t])
    BY DEF Init, Joins, StatusesMatch, NoEscrow
  <1>8. TypeOK
    BY <1>6, IdleRows DEF Init, TypeOK, RequestRow, WatchRow
  <1>9. ASSUME NEW p \in Requests PROVE RequestOK(orders, request[p])
    BY DEF Init, RequestOK, Idle, Looping, Matched
  <1>10. ASSUME NEW w \in Watchers PROVE WatchOK(orders, trades, watch[w])
    BY DEF Init, WatchOK, NoWatch
  <1>11. QED
    BY <1>3, <1>6, <1>7, <1>8, <1>9, <1>10 DEF MInv, TablesInv

-----------------------------------------------------------------------------
(* The steps of a place request.                                           *)

\* What a request holds is well typed and right.
LEMMA RequestNow ==
    ASSUME MInv, NEW p \in Requests
    PROVE  /\ request \in [Requests -> RequestRow] /\ request[p] \in RequestRow
           /\ RequestOK(orders, request[p])
           /\ request[p].stage \in Stages /\ request[p].input \in Inputs
           /\ request[p].input \in Input /\ request[p].input.user \in Users
           /\ request[p].triggered \in BOOLEAN /\ request[p].price \in Nat
           /\ request[p].current \in OrderRow /\ request[p].matched \in OrderRow
  <1>1. request \in [Requests -> RequestRow]
    BY DEF MInv, TypeOK, RequestRow
  <1>2. request[p] \in RequestRow /\ request[p].input \in Inputs
    BY <1>1 DEF RequestRow
  <1>3. request[p].input \in Input
    BY <1>2, MatchingAssumption DEF MatchingAssumption
  <1>4. RequestOK(orders, request[p])
    BY DEF MInv
  <1>5. QED
    BY <1>1, <1>2, <1>3, <1>4 DEF RequestRow, Input

\* A request that keeps the tables' invariant and holds right rows afterwards keeps
\* the invariant.
LEMMA RequestStep ==
    ASSUME MInv, NEW p \in Requests, TablesGrow, latest' \in TradeIds \cup {0},
           NEW r \in RequestRow, request' = [request EXCEPT ![p] = r],
           RequestOK(orders', r), watch' = watch
    PROVE  MInv'
  <1>1. request \in [Requests -> RequestRow] /\ watch \in [Watchers -> WatchRow]
    BY DEF MInv, TypeOK, RequestRow, WatchRow
  <1>2. request' \in [Requests -> RequestRow]
    BY <1>1
  <1>3. \A q \in Requests : request'[q] = request[q] \/ RequestOK(orders', request'[q])
    BY <1>1
  <1>4. QED
    BY <1>1, <1>2, <1>3, StepInv

\* A request that is over holds nothing.
LEMMA DoneInv ==
    ASSUME MInv, NEW p \in Requests, TablesGrow, Done(p), UNCHANGED <<latest, watch>>
    PROVE  MInv'
  <1>1. RequestOK(orders', Idle)
    BY DEF RequestOK, Idle, Looping, Matched
  <1>2. latest' \in TradeIds \cup {0}
    BY DEF MInv, TypeOK
  <1>3. QED
    BY <1>1, <1>2, IdleRows, RequestStep DEF Done

\* The price of the last trade, or the token's unit price, is a price.
LEMMA ReferencePriceType == MInv => ReferencePrice \in Nat
  <1> SUFFICES ASSUME MInv PROVE ReferencePrice \in Nat
    OBVIOUS
  <1>1. CASE latest = 0
    BY <1>1, MatchingAssumption DEF MatchingAssumption, ReferencePrice
  <1>2. CASE latest # 0
    BY <1>2 DEF MInv, TypeOK, DBTypeOK, TradeRow, ReferencePrice
  <1>3. QED
    BY <1>1, <1>2

\* The queries and checks before an order is inserted hold no row.
LEMMA ChecksInv ==
    ASSUME MInv, NEW p \in Requests, ReadFunds(p) \/ CheckReserved(p) \/ ReadReference(p)
    PROVE  MInv'
  <1> USE DEF Looping, Matched, Stages
  <1>0. UNCHANGED <<db, latest, watch>>
    BY DEF ReadFunds, CheckReserved, ReadReference
  <1>a. TablesGrow /\ latest' \in TradeIds \cup {0} /\ watch' = watch
    BY <1>0, NoTables DEF MInv, TypeOK
  <1>1. CASE ReadFunds(p)
    <2>1. PICK input \in Inputs : request' = [request EXCEPT ![p] = [Idle EXCEPT
              !.stage = "reserved", !.input = input,
              !.funds = IF input.side = "buy" THEN Sats[input.user] ELSE balance[input.user]]]
      BY <1>1 DEF ReadFunds
    <2> DEFINE funds == IF input.side = "buy" THEN Sats[input.user] ELSE balance[input.user]
               r == [Idle EXCEPT !.stage = "reserved", !.input = input, !.funds = funds]
    <2>2. funds \in Nat
      BY MatchingAssumption DEF MatchingAssumption, Input, MInv, TypeOK, DBTypeOK
    <2> HIDE DEF funds
    <2>3. r \in RequestRow /\ r.stage = "reserved"
      BY <2>2, IdleRows DEF RequestRow
    <2>4. request' = [request EXCEPT ![p] = r]
      BY <2>1 DEF funds
    <2> HIDE DEF r
    <2>5. RequestOK(orders', r)
      BY <2>3 DEF RequestOK
    <2>6. QED
      BY <1>a, <2>3, <2>4, <2>5, RequestStep
  <1>2. CASE CheckReserved(p)
    <2>1. CASE Done(p)
      BY <1>0, <1>a, <2>1, DoneInv
    <2>2. CASE ~Done(p)
      <3> DEFINE stage == IF request[p].input.type = "stop_limit" THEN "reference" ELSE "insert"
                 r == [request[p] EXCEPT !.funds = 0, !.stage = stage]
      <3>1. request' = [request EXCEPT ![p].funds = 0, ![p].stage = stage]
        BY <1>2, <2>2 DEF CheckReserved
      <3>2. stage \in {"reference", "insert"}
        OBVIOUS
      <3> HIDE DEF stage
      <3>3. r \in RequestRow /\ r.stage = stage
        BY <3>2, RequestNow DEF RequestRow
      <3>4. request' = [request EXCEPT ![p] = r]
        BY <3>1, RequestNow
      <3> HIDE DEF r
      <3>5. RequestOK(orders', r)
        BY <3>2, <3>3 DEF RequestOK
      <3>6. QED
        BY <1>a, <3>3, <3>4, <3>5, RequestStep
    <2>3. QED
      BY <2>1, <2>2
  <1>3. CASE ReadReference(p)
    <2> DEFINE crossed == Crosses(request[p].input.trigger, request[p].input.side, ReferencePrice)
               r == [request[p] EXCEPT !.stage = "insert", !.triggered = crossed]
    <2>1. crossed \in BOOLEAN
      <3>1. \A a, b \in Nat : (a <= b) \in BOOLEAN /\ (a >= b) \in BOOLEAN
        OBVIOUS
      <3>2. request[p].input.trigger \in Nat /\ ReferencePrice \in Nat
        BY ReferencePriceType, RequestNow, MarketAssumption DEF Input
      <3>3. QED
        BY <3>1, <3>2, Zenon DEF Crosses
    <2>2. request' = [request EXCEPT ![p].stage = "insert", ![p].triggered = crossed]
      BY <1>3 DEF ReadReference
    <2> HIDE DEF crossed
    <2>3. r \in RequestRow /\ r.stage = "insert"
      BY <2>1, RequestNow DEF RequestRow
    <2>4. request' = [request EXCEPT ![p] = r]
      BY <2>2, RequestNow
    <2> HIDE DEF r
    <2>5. RequestOK(orders', r)
      BY <2>3 DEF RequestOK
    <2>6. QED
      BY <1>a, <2>3, <2>4, <2>5, RequestStep
  <1>4. QED
    BY <1>1, <1>2, <1>3

FirstFree ==
    CHOOSE o \in OrderIds :
        orders[o].status = "none" /\ \A q \in OrderIds : orders[q].status = "none" => o <= q

\* Among numbers with a property one is least.
LEMMA LeastOf ==
    ASSUME NEW S \in SUBSET Nat, S # {}
    PROVE  \E n \in S : \A m \in S : n <= m
  <1>1. \E n \in S : \A m \in S : ~(<<m, n>> \in OpToRel(<, Nat))
    BY NatLessThanWellFounded, WFMin
  <1>2. \E n \in S : \A m \in S : ~(m < n)
    BY <1>1 DEF OpToRel
  <1>3. QED
    BY <1>2

\* The id create_order takes is that of an order not inserted yet.
LEMMA FirstFreeIs ==
    ASSUME \E free \in OrderIds : orders[free].status = "none"
    PROVE  FirstFree \in OrderIds /\ orders[FirstFree].status = "none"
  <1> DEFINE F == {o \in OrderIds : orders[o].status = "none"}
  <1>1. F \in SUBSET Nat /\ F # {}
    BY MatchingAssumption DEF MatchingAssumption
  <1>2. PICK o \in F : \A q \in F : o <= q
    BY <1>1, LeastOf
  <1>3. QED
    BY <1>2 DEF FirstFree

\* create_order inserts a row with the terms asked for; the request holds it.
LEMMA InsertInv ==
    ASSUME MInv, NEW p \in Requests, Insert(p)
    PROVE  MInv' /\ OrdersGrow(orders, orders')
  <1> DEFINE input == request[p].input
             o == FirstFree
             row == NewRow(o, input, request[p].triggered)
             r == [Idle EXCEPT !.stage = "current", !.input = input, !.current = row]
  <1>1. orders' = [orders EXCEPT ![o] = row] /\ UNCHANGED <<trades, escrows, disputes, balance>>
    BY DEF Insert, FirstFree
  <1>2. o \in OrderIds /\ orders[o].status = "none"
    BY FirstFreeIs DEF Insert
  <1>3. row \in OrderRow /\ RowOK(o, row) /\ row.status # "none"
    BY <1>2, NewRowGood, RequestNow
  <1>4. row.type = input.type /\ row.triggered = request[p].triggered /\ row.id = o
    BY DEF NewRow
  <1>5. /\ IF input.type = "limit" \/ request[p].triggered
           THEN request' = [request EXCEPT ![p] = r] ELSE Done(p)
        /\ UNCHANGED <<latest, watch>>
    BY DEF Insert, FirstFree
  <1> HIDE DEF o, row
  <1>6. orders \in [OrderIds -> OrderRow] /\ \A q \in OrderIds : RowOK(q, orders[q])
    BY DEF MInv, TablesInv, DBTypeOK
  <1>7. OrdersGrow(orders, orders')
    BY <1>1, <1>2, <1>3, <1>6, OneOrder DEF GoodRow
  <1>8. TablesGrow
    BY <1>1, <1>7, OrdersOnly
  <1>9. CASE Done(p)
    BY <1>5, <1>7, <1>8, <1>9, DoneInv
  <1>10. CASE ~Done(p)
    <2>1. request' = [request EXCEPT ![p] = r] /\ Live(row)
      BY <1>4, <1>5, <1>10 DEF Live
    <2>2. r \in RequestRow /\ r.stage = "current" /\ r.current = row
      BY <1>3, IdleRows, RequestNow DEF RequestRow, Stages
    <2>3. orders'[row.id] = row
      BY <1>1, <1>2, <1>4, <1>6
    <2>4. Held(orders', row)
      BY <1>3, <2>3 DEF Held, Successor, RowOK
    <2> HIDE DEF r
    <2>5. RequestOK(orders', r)
      BY <2>1, <2>2, <2>4 DEF RequestOK, Looping, Matched
    <2>6. latest' \in TradeIds \cup {0}
      BY <1>5 DEF MInv, TypeOK
    <2>7. QED
      BY <1>5, <1>7, <1>8, <2>1, <2>2, <2>5, <2>6, RequestStep
  <1>11. QED
    BY <1>9, <1>10

\* Sending a request on to another stage, with a price, keeps what it holds.
LEMMA GotoStep ==
    ASSUME MInv, NEW p \in Requests, TablesGrow, NEW stage \in Stages, NEW price \in Nat,
           request' = [request EXCEPT ![p] =
                         [request[p] EXCEPT !.stage = stage, !.price = price]],
           stage \in Looping => request[p].stage \in Looping,
           stage \in Matched => request[p].stage \in Matched,
           latest' \in TradeIds \cup {0}, watch' = watch
    PROVE  MInv'
  <1> DEFINE r == [request[p] EXCEPT !.stage = stage, !.price = price]
  <1>1. /\ r \in RequestRow /\ r.stage = stage
        /\ r.current = request[p].current /\ r.matched = request[p].matched
    BY RequestNow DEF RequestRow
  <1>2. RequestOK(orders', request[p])
    BY RequestNow, RequestGrows DEF TablesGrow
  <1>3. request' = [request EXCEPT ![p] = r]
    OBVIOUS
  <1> HIDE DEF r
  <1>4. RequestOK(orders', r)
    BY <1>1, <1>2 DEF RequestOK
  <1>5. QED
    BY <1>1, <1>3, <1>4, RequestStep

\* Goto, in the form of the lemma above.
LEMMA GotoForm ==
    ASSUME MInv, NEW p \in Requests, NEW stage, Goto(p, stage)
    PROVE  request' = [request EXCEPT ![p] =
                         [request[p] EXCEPT !.stage = stage, !.price = request[p].price]]
  <1>1. request[p] \in RequestRow /\ request \in [Requests -> RequestRow]
    BY RequestNow
  <1>2. [request[p] EXCEPT !.stage = stage, !.price = request[p].price]
          = [request[p] EXCEPT !.stage = stage]
    BY <1>1 DEF RequestRow
  <1>3. QED
    BY <1>2 DEF Goto

\* The order a request reads again is the one it inserted.
LEMMA ReadCurrentInv ==
    ASSUME MInv, NEW p \in Requests, ReadCurrent(p)
    PROVE  MInv'
  <1> DEFINE row == orders[request[p].current.id]
             stage == IF row.type = "stop_limit" THEN "latest" ELSE "find"
             r == [Idle EXCEPT !.stage = stage, !.input = request[p].input, !.current = row]
  <1>1. UNCHANGED <<db, latest, watch>>
    BY DEF ReadCurrent
  <1>2. TablesGrow /\ latest' \in TradeIds \cup {0} /\ orders' = orders
    BY <1>1, NoTables DEF MInv, TypeOK, db
  <1>3. CASE Done(p)
    BY <1>1, <1>2, <1>3, DoneInv
  <1>4. CASE ~Done(p)
    <2>1. request' = [request EXCEPT ![p] = r] /\ request[p].stage = "current"
      BY <1>4 DEF ReadCurrent
    <2>2. Held(orders, request[p].current) /\ Live(request[p].current)
          /\ request[p].current.id \in OrderIds
      BY <2>1, RequestNow DEF RequestOK, Looping, OrderRow
    <2>3. row \in OrderRow /\ RowOK(request[p].current.id, row)
      BY <2>2 DEF MInv, TablesInv, DBTypeOK
    <2>4. Live(row) /\ row.status # "none" /\ row.id = request[p].current.id
      BY <2>2 DEF Live, Held, Successor
    <2>5. orders[row.id] = row
      BY <2>4
    <2> HIDE DEF row
    <2>6. Held(orders, row)
      BY <2>3, <2>4, <2>5 DEF Held, Successor, RowOK
    <2>7. stage \in {"latest", "find"}
      OBVIOUS
    <2> HIDE DEF stage
    <2>8. r \in RequestRow /\ r.stage = stage /\ r.current = row
      BY <2>3, <2>7, IdleRows, RequestNow DEF RequestRow, Stages
    <2> HIDE DEF r
    <2>9. RequestOK(orders', r)
      BY <1>2, <2>4, <2>6, <2>7, <2>8 DEF RequestOK, Matched
    <2>10. QED
      BY <1>1, <1>2, <2>1, <2>8, <2>9, RequestStep
  <1>5. QED
    BY <1>3, <1>4

\* The last price is read for a stop order.
LEMMA ReadLatestInv ==
    ASSUME MInv, NEW p \in Requests, ReadLatest(p)
    PROVE  MInv'
  <1>1. UNCHANGED <<db, latest, watch>> /\ request[p].stage = "latest"
    BY DEF ReadLatest
  <1>2. TablesGrow /\ latest' \in TradeIds \cup {0}
    BY <1>1, NoTables DEF MInv, TypeOK
  <1>3. ReferencePrice \in Nat
    BY ReferencePriceType
  <1>4. request' = [request EXCEPT ![p] =
                      [request[p] EXCEPT !.stage = "activate", !.price = ReferencePrice]]
    BY RequestNow DEF ReadLatest
  <1>5. QED
    BY <1>1, <1>2, <1>3, <1>4, GotoStep DEF Looping, Matched, Stages

\* activate_triggered_orders wakes stop orders up, and changes nothing else.
LEMMA ActivatedGrows ==
    ASSUME MInv, NEW price, orders' = Activated(price)
    PROVE  /\ OrdersGrow(orders, orders')
           /\ \A o \in OrderIds : /\ orders'[o].filled = orders[o].filled
                                  /\ orders'[o].status = orders[o].status
  <1>1. ASSUME NEW o \in OrderIds
        PROVE  /\ orders'[o] \in OrderRow /\ RowOK(o, orders'[o])
               /\ orders[o].status # "none" => Successor(orders[o], orders'[o])
               /\ orders'[o].filled = orders[o].filled /\ orders'[o].status = orders[o].status
    <2>1. GoodRow(o, orders[o])
      BY DEF MInv, TablesInv, DBTypeOK, GoodRow
    <2>2. CASE orders'[o] = orders[o]
      BY <2>1, <2>2 DEF GoodRow, Successor
    <2>3. CASE orders'[o] # orders[o]
      <3> DEFINE new == [orders[o] EXCEPT !.triggered = TRUE]
      <3>1. orders'[o] = new /\ Open(orders[o])
        BY <2>3 DEF Activated
      <3>2. new.status = orders[o].status
        BY <2>1 DEF GoodRow, OrderRow
      <3>3. GoodRow(o, new) /\ Successor(orders[o], new) /\ new.filled = orders[o].filled
        BY <2>1, <3>1, TriggerFits DEF Open, OpenOrderStatuses
      <3>4. QED
        BY <3>1, <3>2, <3>3 DEF GoodRow
    <2>4. QED
      BY <2>2, <2>3
  <1>2. orders' = [o \in OrderIds |-> orders'[o]]
    BY DEF Activated
  <1>3. QED
    BY <1>1, <1>2 DEF OrdersGrow

\* It is run before the first match of a stop order and after every trade.
LEMMA ActivateInv ==
    ASSUME MInv, NEW p \in Requests, Activate(p)
    PROVE  MInv'
  <1> DEFINE stage == IF request[p].stage = "activate" THEN "find" ELSE "current"
  <1>1. /\ UNCHANGED <<trades, escrows, disputes, balance, latest, watch>>
        /\ orders' = Activated(request[p].price) /\ Goto(p, stage)
        /\ request[p].stage \in {"activate", "activate_after"}
    BY DEF Activate
  <1>2. TablesGrow /\ latest' \in TradeIds \cup {0}
    BY <1>1, ActivatedGrows, OrdersOnly DEF MInv, TypeOK
  <1>3. stage \in {"find", "current"}
    OBVIOUS
  <1> HIDE DEF stage
  <1>4. request' = [request EXCEPT ![p] =
                      [request[p] EXCEPT !.stage = stage, !.price = request[p].price]]
    BY <1>1, GotoForm
  <1>5. stage \in Stages /\ stage \notin Matched /\ request[p].stage \in Looping
    BY <1>1, <1>3 DEF Looping, Matched, Stages
  <1>6. QED
    BY <1>1, <1>2, <1>4, <1>5, RequestNow, GotoStep

\* find_best_match finds an order of another user, on the other side, that is not
\* dormant, at a price within the limit.
LEMMA FindBestMatchInv ==
    ASSUME MInv, NEW p \in Requests, FindBestMatch(p)
    PROVE  MInv'
  <1> DEFINE row == request[p].current
             best == BestMatches(row.user, row.side, row.price)
  <1>1. UNCHANGED <<db, latest, watch>> /\ request[p].stage = "find"
    BY DEF FindBestMatch
  <1>2. TablesGrow /\ latest' \in TradeIds \cup {0} /\ orders' = orders
    BY <1>1, NoTables DEF MInv, TypeOK, db
  <1>3. CASE Done(p)
    BY <1>1, <1>2, <1>3, DoneInv
  <1>4. CASE ~Done(p)
    <2>1. PICK o \in best :
             request' = [request EXCEPT ![p].stage = "trade", ![p].matched = orders[o]]
      BY <1>4 DEF FindBestMatch
    <2>2. o \in OrderIds /\ Open(orders[o]) /\ Live(orders[o]) /\ Suits(row, orders[o])
      BY DEF BestMatches, Matchable, Live, Suits
    <2> HIDE DEF best
    <2>3. orders[o] \in OrderRow /\ RowOK(o, orders[o])
      BY <2>2 DEF MInv, TablesInv, DBTypeOK
    <2>4. orders[orders[o].id] = orders[o]
      BY <2>3 DEF RowOK
    <2>5. Held(orders, orders[o])
      BY <2>2, <2>3, <2>4 DEF Held, Successor, RowOK, Open, OpenOrderStatuses
    <2> DEFINE r == [request[p] EXCEPT !.stage = "trade", !.matched = orders[o]]
    <2>6. /\ r \in RequestRow /\ r.stage = "trade" /\ r.current = request[p].current
          /\ r.matched = orders[o]
      BY <2>3, RequestNow DEF RequestRow, Stages
    <2>7. request' = [request EXCEPT ![p] = r]
      BY <2>1, RequestNow
    <2> HIDE DEF r
    <2>8. Held(orders, request[p].current) /\ Live(request[p].current)
      BY <1>1, RequestNow DEF RequestOK, Looping
    <2>9. RequestOK(orders', r)
      BY <1>2, <2>2, <2>5, <2>6, <2>8 DEF RequestOK
    <2>10. QED
      BY <1>1, <1>2, <2>6, <2>7, <2>9, RequestStep
  <1>5. QED
    BY <1>3, <1>4

\* The two rows a request trades with are held, and on terms that suit both at the
\* resting order's price.
LEMMA TradeRows ==
    ASSUME MInv, NEW p \in Requests, request[p].stage \in Matched
    PROVE  /\ BuyRow(p) \in OrderRow /\ Held(orders, BuyRow(p))
           /\ SellRow(p) \in OrderRow /\ Held(orders, SellRow(p))
           /\ Terms(BuyRow(p), SellRow(p), request[p].matched.price)
           /\ request[p].matched.price \in Nat
  <1> DEFINE mine == request[p].current
             theirs == request[p].matched
  <1>1. mine \in OrderRow /\ theirs \in OrderRow
    BY RequestNow
  <1>2. /\ Held(orders, mine) /\ Live(mine)
        /\ Held(orders, theirs) /\ Live(theirs) /\ Suits(mine, theirs)
    BY RequestNow DEF RequestOK, Looping, Matched
  <1>3. mine.price \in Nat /\ theirs.price \in Nat
    BY <1>1, MarketAssumption DEF OrderRow
  <1>4. mine.side \in {"buy", "sell"} /\ theirs.side \in {"buy", "sell"}
    BY <1>1 DEF OrderRow
  <1>5. CASE mine.side = "buy"
    <2>1. BuyRow(p) = mine /\ SellRow(p) = theirs
      BY <1>5 DEF BuyRow, SellRow
    <2> HIDE DEF mine, theirs
    <2>2. Terms(mine, theirs, theirs.price)
      BY <1>2, <1>3, <1>4, <1>5 DEF Terms, Suits
    <2>3. QED
      BY <1>1, <1>2, <1>3, <2>1, <2>2 DEF mine, theirs
  <1>6. CASE mine.side # "buy"
    <2>1. BuyRow(p) = theirs /\ SellRow(p) = mine
      BY <1>6 DEF BuyRow, SellRow
    <2> HIDE DEF mine, theirs
    <2>2. Terms(theirs, mine, theirs.price)
      BY <1>2, <1>3, <1>4, <1>6 DEF Terms, Suits
    <2>3. QED
      BY <1>1, <1>2, <1>3, <2>1, <2>2 DEF mine, theirs
  <1>7. QED
    BY <1>5, <1>6

\* A trade is made, or the resting order is to be cancelled.
LEMMA TradeInv ==
    ASSUME MInv, NEW p \in Requests, Trade(p)
    PROVE  MInv'
  <1>1. request[p].stage = "trade" /\ watch' = watch
    BY DEF Trade
  <1>2. /\ BuyRow(p) \in OrderRow /\ Held(orders, BuyRow(p))
        /\ SellRow(p) \in OrderRow /\ Held(orders, SellRow(p))
        /\ Terms(BuyRow(p), SellRow(p), request[p].matched.price)
        /\ request[p].matched.price \in Nat
    BY <1>1, TradeRows DEF Matched
  <1>3. ASSUME NEW t \in TradeIds, latest' = t,
               CreateTradeEscrow(t, BuyRow(p), SellRow(p), FillQuantity(p),
                                 request[p].matched.price),
               request' = [request EXCEPT ![p].stage = "activate_after",
                                          ![p].price = request[p].matched.price]
        PROVE  MInv'
    <2>1. TablesGrow
      BY <1>2, <1>3, CreateGrows
    <2>2. request' = [request EXCEPT ![p] = [request[p] EXCEPT
                        !.stage = "activate_after", !.price = request[p].matched.price]]
      BY <1>3, RequestNow
    <2>3. "activate_after" \in Stages /\ "activate_after" \notin Matched /\ "trade" \in Looping
      BY DEF Stages, Matched, Looping
    <2>4. QED
      BY <1>1, <1>2, <1>3, <2>1, <2>2, <2>3, GotoStep
  <1>4. ASSUME Goto(p, "cancel"), UNCHANGED <<db, latest>>
        PROVE  MInv'
    <2>1. TablesGrow /\ latest' \in TradeIds \cup {0}
      BY <1>4, NoTables DEF MInv, TypeOK
    <2>2. request' = [request EXCEPT ![p] =
                        [request[p] EXCEPT !.stage = "cancel", !.price = request[p].price]]
      BY <1>4, GotoForm
    <2>3. "cancel" \in Stages /\ "trade" \in Matched /\ "trade" \in Looping
      BY DEF Stages, Matched, Looping
    <2>4. QED
      BY <1>1, <2>1, <2>2, <2>3, RequestNow, GotoStep
  <1>5. QED
    BY <1>3, <1>4 DEF Trade

\* Cancelling an order makes it its successor, if it was still open.
LEMMA CancelledGrows ==
    ASSUME MInv, NEW o \in OrderIds, orders' = CancelledOrder(o)
    PROVE  /\ OrdersGrow(orders, orders')
           /\ \A q \in OrderIds : orders'[q].filled = orders[q].filled
           /\ \A q \in OrderIds : orders'[q].status \in {orders[q].status, "cancelled"}
  <1> DEFINE new == [orders[o] EXCEPT !.status = "cancelled"]
  <1>1. /\ orders \in [OrderIds -> OrderRow] /\ \A q \in OrderIds : RowOK(q, orders[q])
        /\ GoodRow(o, orders[o])
    BY DEF MInv, TablesInv, DBTypeOK, GoodRow
  <1>2. CASE Open(orders[o])
    <2>1. GoodRow(o, new) /\ Successor(orders[o], new) /\ new.filled = orders[o].filled
      BY <1>1, <1>2, CancelFits
    <2>2. orders' = [orders EXCEPT ![o] = new]
      BY <1>1, <1>2 DEF CancelledOrder
    <2>3. new.status = "cancelled"
      BY <1>1 DEF GoodRow, OrderRow
    <2> HIDE DEF new
    <2>4. OrdersGrow(orders, orders')
      BY <1>1, <2>1, <2>2, OneOrder
    <2>5. ASSUME NEW q \in OrderIds
          PROVE  orders'[q].filled = orders[q].filled
                 /\ orders'[q].status \in {orders[q].status, "cancelled"}
      BY <1>1, <2>1, <2>2, <2>3
    <2>6. QED
      BY <2>4, <2>5
  <1>3. CASE ~Open(orders[o])
    <2>1. orders' = orders
      BY <1>3 DEF CancelledOrder
    <2>2. QED
      BY <1>1, <2>1 DEF OrdersGrow, Successor
  <1>4. QED
    BY <1>2, <1>3

\* The match loop goes on without an order whose seller is short of tokens.
LEMMA CancelMatchedInv ==
    ASSUME MInv, NEW p \in Requests, CancelMatched(p)
    PROVE  MInv'
  <1>1. /\ request[p].stage = "cancel" /\ orders' = CancelledOrder(request[p].matched.id)
        /\ Goto(p, "current")
        /\ UNCHANGED <<trades, escrows, disputes, balance, latest, watch>>
    BY DEF CancelMatched
  <1>2. request[p].matched.id \in OrderIds
    BY RequestNow DEF OrderRow
  <1>3. TablesGrow /\ latest' \in TradeIds \cup {0}
    BY <1>1, <1>2, CancelledGrows, OrdersOnly DEF MInv, TypeOK
  <1>4. request' = [request EXCEPT ![p] =
                      [request[p] EXCEPT !.stage = "current", !.price = request[p].price]]
    BY <1>1, GotoForm
  <1>5. "current" \in Stages /\ "current" \notin Matched /\ "cancel" \in Looping
    BY DEF Stages, Matched, Looping
  <1>6. QED
    BY <1>1, <1>3, <1>4, <1>5, RequestNow, GotoStep

-----------------------------------------------------------------------------
(* Owners, watchers and escrows.                                           *)

\* An owner's cancellation.
LEMMA DeleteInv ==
    ASSUME MInv, NEW o \in OrderIds, DeleteOrder(o)
    PROVE  MInv'
  <1>1. orders' = CancelledOrder(o)
        /\ UNCHANGED <<trades, escrows, disputes, balance, latest, request, watch>>
    BY DEF DeleteOrder, CancelledOrder
  <1>2. TablesGrow
    BY <1>1, CancelledGrows, OrdersOnly
  <1>3. QED
    BY <1>1, <1>2, StepInv DEF MInv, TypeOK, RequestRow, WatchRow

\* A watcher takes the rows of a trade's orders, and later expires the trade's escrow
\* with them if it is still unfunded.
LEMMA WatchInv ==
    ASSUME MInv, NEW w \in Watchers, Watch(w)
    PROVE  MInv'
  <1>1. watch \in [Watchers -> WatchRow] /\ watch[w] \in WatchRow
        /\ WatchOK(orders, trades, watch[w])
    BY DEF MInv, TypeOK, WatchRow
  <1>2. request \in [Requests -> RequestRow] /\ latest \in TradeIds \cup {0}
    BY DEF MInv, TypeOK, RequestRow
  <1>3. CASE WatchExpire(w)
    <2> DEFINE t == watch[w].trade
    <2>1. t # 0 /\ watch' = [watch EXCEPT ![w] = NoWatch] /\ UNCHANGED <<latest, request>>
      BY <1>3 DEF WatchExpire
    <2>2. t \in TradeIds /\ watch[w].buyRow \in OrderRow /\ watch[w].sellRow \in OrderRow
      BY <1>1, <2>1 DEF WatchRow
    <2>3. /\ watch[w].buyRow.id = trades[t].buyOrder /\ Held(orders, watch[w].buyRow)
          /\ watch[w].sellRow.id = trades[t].sellOrder /\ Held(orders, watch[w].sellRow)
      BY <1>1, <2>1 DEF WatchOK
    <2>4. TablesGrow
      <3>1. CASE ExpireUnfundedEscrow(t, CreatedRow, watch[w].buyRow, watch[w].sellRow)
        BY <2>2, <2>3, <3>1, ExpireGrows
      <3>2. CASE UNCHANGED db
        BY <3>2, NoTables
      <3>3. QED
        BY <1>3, <3>1, <3>2 DEF WatchExpire
    <2>5. WatchOK(orders', trades', NoWatch)
      BY DEF WatchOK, NoWatch
    <2>6. watch' \in [Watchers -> WatchRow]
          /\ \A v \in Watchers : watch'[v] = watch[v] \/ WatchOK(orders', trades', watch'[v])
      BY <1>1, <2>1, <2>5, IdleRows
    <2>7. QED
      BY <1>2, <2>1, <2>4, <2>6, StepInv
  <1>4. ASSUME NEW t \in TradeIds, WatchRead(w, t)
        PROVE  MInv'
    <2> DEFINE b == orders[trades[t].buyOrder]
               s == orders[trades[t].sellOrder]
               row == [trade |-> t, buyRow |-> b, sellRow |-> s]
    <2>1. /\ escrows[t].status = "created" /\ watch' = [watch EXCEPT ![w] = row]
          /\ UNCHANGED <<db, latest, request>>
      BY <1>4 DEF WatchRead
    <2>2. TablesGrow /\ orders' = orders /\ trades' = trades
      BY <2>1, NoTables DEF db
    <2>3. /\ trades[t].buyOrder \in OrderIds /\ trades[t].sellOrder \in OrderIds
          /\ StatusesMatch(trades[t], escrows[t]) /\ Joins(orders, trades[t])
      BY DEF MInv, TablesInv, DBTypeOK, TradeRow
    <2>4. trades[t].status # "none"
      BY <2>1, <2>3 DEF StatusesMatch
    <2>5. /\ b \in OrderRow /\ RowOK(trades[t].buyOrder, b)
          /\ s \in OrderRow /\ RowOK(trades[t].sellOrder, s)
      BY <2>3 DEF MInv, TablesInv, DBTypeOK
    <2>6. Held(orders, b) /\ Held(orders, s)
          /\ b.id = trades[t].buyOrder /\ s.id = trades[t].sellOrder
      BY <2>3, <2>4, <2>5 DEF Held, Successor, RowOK, Joins
    <2>7. row \in WatchRow
      BY <2>5 DEF WatchRow
    <2>8. t # 0
      BY MatchingAssumption DEF MatchingAssumption
    <2>9. WatchOK(orders', trades', row)
      BY <2>2, <2>4, <2>6, <2>8 DEF WatchOK
    <2> HIDE DEF row
    <2>10. watch' \in [Watchers -> WatchRow]
           /\ \A v \in Watchers : watch'[v] = watch[v] \/ WatchOK(orders', trades', watch'[v])
      BY <1>1, <2>1, <2>7, <2>9
    <2>11. QED
      BY <1>2, <2>1, <2>2, <2>10, StepInv
  <1>5. QED
    BY <1>3, <1>4 DEF Watch

\* The payment, the seller's signature or the release of an escrow.
LEMMA EscrowInv ==
    ASSUME MInv, NEW t \in TradeIds, Escrow(t)
    PROVE  MInv'
  <1>1. UNCHANGED <<request, watch>> /\ latest' \in TradeIds \cup {0}
    BY DEF Escrow, Funded, SellerSigns, Released, MInv, TypeOK
  <1>2. QED
    BY <1>1, EscrowGrows, StepInv DEF MInv, TypeOK, RequestRow, WatchRow

\* Every step keeps the invariant.
LEMMA NextInv == MInv /\ [Next]_vars => MInv'
  <1> SUFFICES ASSUME MInv, [Next]_vars PROVE MInv'
    OBVIOUS
  <1>1. ASSUME NEW p \in Requests, Place(p) PROVE MInv'
    <2>1. CASE ReadFunds(p) \/ CheckReserved(p) \/ ReadReference(p)
      BY <2>1, ChecksInv
    <2>2. CASE RequestFails(p)
      BY <2>2, NoTables, DoneInv DEF RequestFails
    <2>3. QED
      BY <1>1, <2>1, <2>2, InsertInv, ReadCurrentInv, ReadLatestInv, ActivateInv,
         FindBestMatchInv, TradeInv, CancelMatchedInv DEF Place
  <1>2. CASE UNCHANGED vars
    BY <1>2, NoTables, StepInv DEF vars, MInv, TypeOK, RequestRow, WatchRow
  <1>3. QED
    BY <1>1, <1>2, WatchInv, DeleteInv, EscrowInv DEF Next

-----------------------------------------------------------------------------
(* What holds however many requests and watchers run at once.              *)

\* The invariant holds of every reachable state.
LEMMA Matching == Spec => []MInv
  BY InitInv, NextInv, PTL DEF Spec

\* Every table, and every row in a request's or a watcher's hands, is well typed.
THEOREM MatchingTypes == Spec => []TypeOK
  BY Matching, PTL DEF MInv

\* The status of an order is the one its filled quantity calls for, although
\* apply_order_fill and revert_order_fill compute both from rows that may be out of
\* date.
THEOREM StatusFitsFill == Spec => []StatusMatchesFill
  <1>1. MInv => StatusMatchesFill
    BY DEF MInv, TablesInv, RowOK, StatusFits, StatusMatchesFill
  <1>2. QED
    BY <1>1, Matching, PTL

\* A trade joins a buy and a sell order of two users at a price within both limits,
\* and neither is a dormant stop order: find_best_match looks at terms an order keeps,
\* and at a trigger that never goes back.
THEOREM TradesAreHonoured == Spec => []TradesHonourOrders
  <1>1. MInv => TradesHonourOrders
    BY DEF MInv, TablesInv, Joins, Terms, Live, TradesHonourOrders
  <1>2. QED
    BY <1>1, Matching, PTL

-----------------------------------------------------------------------------
(* Refinement: a trade locks the seller's tokens, a release delivers them, *)
(* an expiry returns them, and every other step stutters.                  *)

Matches(t) ==
    \E p \in Requests :
        /\ request[p].stage = "trade"
        /\ CreateTradeEscrow(t, BuyRow(p), SellRow(p), FillQuantity(p), request[p].matched.price)

Expires(t) ==
    \E w \in Watchers :
        /\ watch[w].trade = t /\ t # 0
        /\ ExpireUnfundedEscrow(t, CreatedRow, watch[w].buyRow, watch[w].sellRow)

\* Every step runs one transaction of a trade, or leaves trades and balances alone.
LEMMA StepTables ==
    ASSUME MInv, [Next]_vars
    PROVE  /\ TablesGrow
           /\ \/ UNCHANGED <<trades, balance>>
              \/ \E t \in TradeIds : Matches(t) \/ Expires(t) \/ Escrow(t)
  <1> DEFINE Goal == /\ TablesGrow
                     /\ \/ UNCHANGED <<trades, balance>>
                        \/ \E t \in TradeIds : Matches(t) \/ Expires(t) \/ Escrow(t)
  <1>1. ASSUME UNCHANGED db PROVE Goal
    BY <1>1, NoTables DEF db
  <1>2. ASSUME OrdersGrow(orders, orders'), UNCHANGED <<trades, escrows, disputes, balance>>
        PROVE  Goal
    BY <1>2, OrdersOnly
  <1>3. ASSUME NEW p \in Requests, Place(p) PROVE Goal
    <2>1. CASE Trade(p)
      <3>1. ASSUME NEW t \in TradeIds,
                   CreateTradeEscrow(t, BuyRow(p), SellRow(p), FillQuantity(p),
                                     request[p].matched.price)
            PROVE  Goal
        <4>1. request[p].stage = "trade"
          BY <2>1 DEF Trade
        <4>2. TablesGrow
          BY <3>1, <4>1, TradeRows, CreateGrows DEF Matched
        <4>3. QED
          BY <3>1, <4>1, <4>2 DEF Matches
      <3>2. QED
        BY <1>1, <2>1, <3>1 DEF Trade
    <2>2. CASE Insert(p)
      BY <1>2, <2>2, InsertInv DEF Insert
    <2>3. CASE Activate(p)
      BY <1>2, <2>3, ActivatedGrows DEF Activate
    <2>4. CASE CancelMatched(p)
      <3>1. request[p].matched.id \in OrderIds
        BY RequestNow DEF OrderRow
      <3>2. QED
        BY <1>2, <2>4, <3>1, CancelledGrows DEF CancelMatched
    <2>5. QED
      BY <1>1, <1>3, <2>1, <2>2, <2>3, <2>4
      DEF Place, ReadFunds, CheckReserved, ReadReference, ReadCurrent, ReadLatest,
          FindBestMatch, RequestFails
  <1>4. ASSUME NEW w \in Watchers, Watch(w) PROVE Goal
    <2>1. ASSUME watch[w].trade # 0,
                 ExpireUnfundedEscrow(watch[w].trade, CreatedRow, watch[w].buyRow,
                                      watch[w].sellRow)
          PROVE  Goal
      <3>1. watch[w] \in WatchRow /\ WatchOK(orders, trades, watch[w])
        BY DEF MInv, TypeOK, WatchRow
      <3>2. /\ watch[w].trade \in TradeIds
            /\ watch[w].buyRow \in OrderRow /\ watch[w].sellRow \in OrderRow
        BY <2>1, <3>1 DEF WatchRow
      <3>3. /\ watch[w].buyRow.id = trades[watch[w].trade].buyOrder /\ Held(orders, watch[w].buyRow)
            /\ watch[w].sellRow.id = trades[watch[w].trade].sellOrder
            /\ Held(orders, watch[w].sellRow)
        BY <2>1, <3>1 DEF WatchOK
      <3>4. TablesGrow
        BY <2>1, <3>2, <3>3, ExpireGrows
      <3>5. QED
        BY <2>1, <3>2, <3>4 DEF Expires
    <2>2. QED
      BY <1>1, <1>4, <2>1 DEF Watch, WatchExpire, WatchRead
  <1>5. ASSUME NEW o \in OrderIds, DeleteOrder(o) PROVE Goal
    BY <1>2, <1>5, CancelledGrows DEF DeleteOrder, CancelledOrder
  <1>6. ASSUME NEW t \in TradeIds, Escrow(t) PROVE Goal
    BY <1>6, EscrowGrows
  <1>7. CASE UNCHANGED vars
    BY <1>1, <1>7 DEF vars
  <1>8. QED
    BY <1>3, <1>4, <1>5, <1>6, <1>7 DEF Next

NoDeal == [buyer |-> NoInput.user, seller |-> NoInput.user, quantity |-> 0]
Deal(os, trade) ==
    IF trade.status = "none" THEN NoDeal
    ELSE [buyer |-> os[trade.buyOrder].user, seller |-> os[trade.sellOrder].user,
          quantity |-> trade.quantity]
CustodyBar == [t \in TradeIds |-> CustodyOf(trades[t].status)]
DealBar == [t \in TradeIds |-> Deal(orders, trades[t])]
DealBarNext == [t \in TradeIds |-> Deal(orders', trades'[t])]
CustodyBarNext == [t \in TradeIds |-> CustodyOf(trades'[t].status)]

\* The deal of a trade does not change once it is made.
LEMMA DealKept ==
    ASSUME MInv, TablesGrow, NEW t \in TradeIds, trades[t].status # "none"
    PROVE  Deal(orders', trades'[t]) = Deal(orders, trades[t])
  <1>1. /\ trades'[t].status # "none"
        /\ trades'[t].buyOrder = trades[t].buyOrder /\ trades'[t].sellOrder = trades[t].sellOrder
        /\ trades'[t].quantity = trades[t].quantity
    BY DEF TablesGrow, TradesGrow
  <1>2. trades[t].buyOrder \in OrderIds /\ trades[t].sellOrder \in OrderIds
        /\ Joins(orders, trades[t])
    BY DEF MInv, TablesInv, DBTypeOK, TradeRow
  <1>3. /\ Successor(orders[trades[t].buyOrder], orders'[trades[t].buyOrder])
        /\ Successor(orders[trades[t].sellOrder], orders'[trades[t].sellOrder])
    BY <1>2 DEF TablesGrow, OrdersGrow, Joins
  <1>4. QED
    BY <1>1, <1>3 DEF Deal, Successor

\* A step that changes no trade is a stutter of the deals and custodies.
LEMMA BarsKept ==
    ASSUME MInv, TablesGrow, trades' = trades
    PROVE  DealBarNext = DealBar /\ CustodyBarNext = CustodyBar
  <1>1. ASSUME NEW t \in TradeIds PROVE Deal(orders', trades'[t]) = Deal(orders, trades[t])
    <2>1. CASE trades[t].status = "none"
      BY <2>1 DEF Deal
    <2>2. CASE trades[t].status # "none"
      BY <2>2, DealKept
    <2>3. QED
      BY <2>1, <2>2
  <1>2. QED
    BY <1>1 DEF DealBarNext, DealBar, CustodyBarNext, CustodyBar

\* A transaction that changes the status of one trade changes its custody alone.
LEMMA StatusChange ==
    ASSUME MInv, TablesGrow, NEW t \in TradeIds, NEW status \in TradeStatuses,
           trades[t].status # "none", trades' = [trades EXCEPT ![t].status = status]
    PROVE  /\ CustodyBarNext = [CustodyBar EXCEPT ![t] = CustodyOf(status)]
           /\ DealBarNext = DealBar
  <1>1. trades[t] \in TradeRow /\ trades \in [TradeIds -> TradeRow]
    BY DEF MInv, TablesInv, DBTypeOK
  <1>2. ASSUME NEW u \in TradeIds PROVE Deal(orders', trades'[u]) = Deal(orders, trades[u])
    <2>1. CASE trades[u].status = "none"
      BY <1>1, <2>1 DEF Deal
    <2>2. CASE trades[u].status # "none"
      BY <2>2, DealKept
    <2>3. QED
      BY <2>1, <2>2
  <1>3. trades'[t].status = status /\ \A u \in TradeIds \ {t} : trades'[u] = trades[u]
    BY <1>1 DEF TradeRow
  <1>4. CustodyBarNext = [CustodyBar EXCEPT ![t] = CustodyOf(status)]
    <2>1. ASSUME NEW u \in TradeIds
          PROVE  CustodyBarNext[u] = IF u = t THEN CustodyOf(status) ELSE CustodyBar[u]
      BY <1>3 DEF CustodyBarNext, CustodyBar
    <2>2. /\ CustodyBar = [u \in TradeIds |-> CustodyBar[u]]
          /\ CustodyBarNext = [u \in TradeIds |-> CustodyBarNext[u]]
      BY DEF CustodyBarNext, CustodyBar
    <2>3. QED
      BY <2>1, <2>2
  <1>5. QED
    BY <1>2, <1>4 DEF DealBarNext, DealBar

\* The deals and custodies TokenCustody sees.
LEMMA Bars ==
    /\ Custody!vars = <<CustodyBar, DealBar, balance>>
    /\ (Custody!vars)' = <<CustodyBarNext, DealBarNext, balance'>>
  BY DEF Custody!vars, CustodyBar, DealBar, CustodyBarNext, DealBarNext, Deal, NoDeal, Buyer, Seller

\* A step that changes neither deals, custodies nor balances.
LEMMA Stutter ==
    ASSUME CustodyBarNext = CustodyBar, DealBarNext = DealBar, balance' = balance
    PROVE  UNCHANGED Custody!vars
  BY Bars

\* create_trade_escrow takes the seller's tokens into custody.
LEMMA MatchLocks ==
    ASSUME MInv, TablesGrow, NEW t \in TradeIds, Matches(t)
    PROVE  Custody!Lock(t)
  <1>1. PICK p \in Requests :
          /\ request[p].stage = "trade"
          /\ CreateTradeEscrow(t, BuyRow(p), SellRow(p), FillQuantity(p),
                               request[p].matched.price)
    BY DEF Matches
  <1> DEFINE b == BuyRow(p)
             s == SellRow(p)
             quantity == FillQuantity(p)
             d == [buyer |-> b.user, seller |-> s.user, quantity |-> quantity]
  <1>2. /\ b \in OrderRow /\ Held(orders, b) /\ s \in OrderRow /\ Held(orders, s)
    BY <1>1, TradeRows DEF Matched
  <1>3. /\ trades[t].status = "none" /\ quantity \in 1..Remaining(b)
        /\ balance[s.user] >= quantity
        /\ balance' = [balance EXCEPT ![s.user] = @ - quantity]
        /\ trades' = [trades EXCEPT ![t] =
              [buyOrder |-> b.id, sellOrder |-> s.id, quantity |-> quantity,
               price |-> request[p].matched.price, status |-> "pending"]]
    BY <1>1 DEF CreateTradeEscrow, ValidTradeInputs
  <1> HIDE DEF b, s, quantity
  <1>4. Remaining(b) \in Nat /\ Remaining(b) <= MaxQuantity
    BY <1>2, RemainingOf, MarketAssumption DEF OrderRow, Held
  <1>5. quantity \in 0..MaxQuantity /\ quantity \in Nat /\ quantity >= 1
    BY <1>3, <1>4, MarketAssumption
  <1>6. b.user \in Users /\ s.user \in Users /\ b.id \in OrderIds /\ s.id \in OrderIds
    BY <1>2 DEF OrderRow
  <1>7. d \in Custody!Deals /\ d.seller = s.user /\ d.quantity = quantity
    BY <1>5, <1>6 DEF Custody!Deals
  <1>8. trades \in [TradeIds -> TradeRow] /\ balance \in [Users -> Nat]
    BY DEF MInv, TablesInv, DBTypeOK
  <1>9. Deal(orders', trades'[t]) = d
    <2>1. /\ trades'[t].status = "pending" /\ trades'[t].quantity = quantity
          /\ trades'[t].buyOrder = b.id /\ trades'[t].sellOrder = s.id
      BY <1>3, <1>8
    <2>2. Successor(orders[b.id], orders'[b.id]) /\ Successor(orders[s.id], orders'[s.id])
      BY <1>2, <1>6 DEF TablesGrow, OrdersGrow, Held, Successor
    <2>3. orders'[b.id].user = b.user /\ orders'[s.id].user = s.user
      BY <1>2, <2>2 DEF Held, Successor
    <2>4. QED
      BY <2>1, <2>3 DEF Deal
  <1>10. ASSUME NEW u \in TradeIds, u # t
         PROVE  trades'[u] = trades[u] /\ Deal(orders', trades'[u]) = Deal(orders, trades[u])
    <2>1. trades'[u] = trades[u]
      BY <1>3, <1>8, <1>10
    <2>2. CASE trades[u].status = "none"
      BY <2>1, <2>2 DEF Deal
    <2>3. CASE trades[u].status # "none"
      BY <2>1, <2>3, DealKept
    <2>4. QED
      BY <2>1, <2>2, <2>3
  <1>11. DealBarNext = [DealBar EXCEPT ![t] = d]
    <2>1. ASSUME NEW u \in TradeIds
          PROVE  DealBarNext[u] = IF u = t THEN d ELSE DealBar[u]
      BY <1>9, <1>10 DEF DealBarNext, DealBar
    <2>2. DealBarNext = [u \in TradeIds |-> DealBarNext[u]] /\ DealBar = [u \in TradeIds |-> DealBar[u]]
      BY DEF DealBarNext, DealBar
    <2>3. QED
      BY <2>1, <2>2
  <1>12. CustodyBarNext = [CustodyBar EXCEPT ![t] = "locked"] /\ CustodyBar[t] = "none"
    <2>1. trades'[t].status = "pending"
      BY <1>3, <1>8
    <2>2. CustodyOf("pending") = "locked" /\ CustodyOf("none") = "none"
      BY DEF CustodyOf
    <2>3. ASSUME NEW u \in TradeIds
          PROVE  CustodyBarNext[u] = IF u = t THEN "locked" ELSE CustodyBar[u]
      BY <1>10, <2>1, <2>2 DEF CustodyBarNext, CustodyBar
    <2>4. /\ CustodyBar = [u \in TradeIds |-> CustodyBar[u]]
          /\ CustodyBarNext = [u \in TradeIds |-> CustodyBarNext[u]]
      BY DEF CustodyBarNext, CustodyBar
    <2>5. QED
      BY <1>3, <2>2, <2>3, <2>4 DEF CustodyBar
  <1> HIDE DEF d
  <1>13. d.quantity \in 1..balance[d.seller]
    BY <1>3, <1>5, <1>6, <1>7, <1>8
  <1>14. balance' = [balance EXCEPT ![d.seller] = @ - d.quantity]
    BY <1>3, <1>7
  <1>15. QED
    BY <1>7, <1>11, <1>12, <1>13, <1>14
    DEF Custody!Lock, CustodyBar, DealBar, CustodyBarNext, DealBarNext, Deal, NoDeal, Buyer, Seller

\* An expiry returns the tokens to the seller, whose order row the watcher holds.
LEMMA ExpireReturns ==
    ASSUME MInv, TablesGrow, NEW t \in TradeIds, Expires(t)
    PROVE  Custody!Return(t)
  <1>1. PICK w \in Watchers :
          /\ watch[w].trade = t /\ t # 0
          /\ ExpireUnfundedEscrow(t, CreatedRow, watch[w].buyRow, watch[w].sellRow)
    BY DEF Expires
  <1>2. /\ trades[t].status = "pending"
        /\ trades' = [trades EXCEPT ![t].status = "cancelled"]
        /\ balance' = [balance EXCEPT ![watch[w].sellRow.user] = @ + trades[t].quantity]
    BY <1>1 DEF ExpireUnfundedEscrow
  <1>3. WatchOK(orders, trades, watch[w])
    BY DEF MInv
  <1>4. watch[w].sellRow.user = Seller(t)
    BY <1>1, <1>3 DEF WatchOK, Held, Successor, Seller
  <1>5. CustodyOf("pending") = "locked" /\ CustodyOf("cancelled") = "returned"
    BY DEF CustodyOf
  <1>6. CustodyBarNext = [CustodyBar EXCEPT ![t] = "returned"] /\ DealBarNext = DealBar
    BY <1>2, <1>5, StatusChange DEF TradeStatuses
  <1>7. /\ CustodyBar[t] = "locked"
        /\ DealBar[t].seller = Seller(t) /\ DealBar[t].quantity = trades[t].quantity
    BY <1>2, <1>5 DEF CustodyBar, DealBar, Deal, Seller
  <1>8. balance' = [balance EXCEPT ![DealBar[t].seller] = @ + DealBar[t].quantity]
    BY <1>2, <1>4, <1>7
  <1>9. QED
    BY <1>6, <1>7, <1>8
    DEF Custody!Return, CustodyBar, DealBar, CustodyBarNext, DealBarNext, Deal, NoDeal, Buyer, Seller

\* The release of an escrow delivers its tokens; the steps before it move none.
LEMMA EscrowDelivers ==
    ASSUME MInv, TablesGrow, NEW t \in TradeIds, Escrow(t)
    PROVE  Custody!Deliver(t) \/ UNCHANGED Custody!vars
  <1>1. StatusesMatch(trades[t], escrows[t]) /\ trades[t] \in TradeRow
        /\ trades \in [TradeIds -> TradeRow]
    BY DEF MInv, TablesInv, DBTypeOK
  <1>2. /\ CustodyOf("pending") = "locked" /\ CustodyOf("escrowed") = "locked"
        /\ CustodyOf("settled") = "delivered"
    BY DEF CustodyOf
  <1>3. CASE Funded(t)
    <2>1. trades' = [trades EXCEPT ![t].status = "escrowed"] /\ balance' = balance
          /\ escrows[t].status = "created"
      BY <1>3 DEF Funded, MarkEscrowFunded
    <2>2. trades[t].status = "pending"
      BY <1>1, <2>1 DEF StatusesMatch
    <2>3. CustodyBarNext = [CustodyBar EXCEPT ![t] = "locked"] /\ DealBarNext = DealBar
      BY <1>2, <2>1, <2>2, StatusChange DEF TradeStatuses
    <2>4. CustodyBar[t] = "locked" /\ CustodyBar = [u \in TradeIds |-> CustodyBar[u]]
      BY <1>2, <2>2 DEF CustodyBar
    <2>5. CustodyBarNext = CustodyBar
      BY <2>3, <2>4
    <2>6. QED
      BY <2>1, <2>3, <2>5, Stutter
  <1>4. CASE SellerSigns(t)
    <2>1. trades' = trades /\ balance' = balance
      BY <1>4 DEF SellerSigns, RecordEscrowSignature
    <2>2. QED
      BY <2>1, BarsKept, Stutter
  <1>5. CASE Released(t)
    <2>1. /\ trades' = [trades EXCEPT ![t].status = "settled"]
          /\ balance' = [balance EXCEPT ![Buyer(t)] = @ + trades[t].quantity]
          /\ escrows[t].status = "inspection_pending"
      BY <1>5 DEF Released, ProcessEscrowSignature
    <2>2. trades[t].status = "escrowed"
      BY <1>1, <2>1 DEF StatusesMatch
    <2>3. CustodyBarNext = [CustodyBar EXCEPT ![t] = "delivered"] /\ DealBarNext = DealBar
      BY <1>2, <2>1, <2>2, StatusChange DEF TradeStatuses
    <2>4. /\ CustodyBar[t] = "locked"
          /\ DealBar[t].buyer = Buyer(t) /\ DealBar[t].quantity = trades[t].quantity
      BY <1>2, <2>2 DEF CustodyBar, DealBar, Deal, Buyer
    <2>5. balance' = [balance EXCEPT ![DealBar[t].buyer] = @ + DealBar[t].quantity]
      BY <2>1, <2>4
    <2>6. Custody!Deliver(t)
      BY <2>3, <2>4, <2>5
      DEF Custody!Deliver, CustodyBar, DealBar, CustodyBarNext, DealBarNext, Deal, NoDeal,
          Buyer, Seller
    <2>7. QED
      BY <2>6
  <1>6. QED
    BY <1>3, <1>4, <1>5 DEF Escrow

\* Before the first trade no tokens are in custody.
LEMMA InitIsCustodyInit == Init => Custody!Init
  <1> SUFFICES ASSUME Init PROVE Custody!Init
    OBVIOUS
  <1>1. NoInput \in Inputs /\ NoInput.user \in Users
    BY MatchingAssumption DEF MatchingAssumption, NoInput, Input
  <1>2. \A t \in TradeIds : trades[t].status = "none"
    BY DEF Init
  <1>3. NoDeal \in Custody!Deals
    BY <1>1, MarketAssumption DEF NoDeal, Custody!Deals
  <1>4. CustodyOf("none") = "none" /\ balance = InitBalance
    BY DEF CustodyOf, Init
  <1>5. QED
    BY <1>2, <1>3, <1>4 DEF Custody!Init, NoDeal

\* A step of the order book is a step of TokenCustody or a stutter.
LEMMA NextIsCustodyStep == MInv /\ [Next]_vars => [Custody!Next]_(Custody!vars)
  <1> SUFFICES ASSUME MInv, [Next]_vars PROVE [Custody!Next]_(Custody!vars)
    OBVIOUS
  <1>1. TablesGrow
    BY StepTables
  <1>2. CASE UNCHANGED <<trades, balance>>
    BY <1>1, <1>2, BarsKept, Stutter
  <1>3. ASSUME NEW t \in TradeIds, Matches(t) \/ Expires(t) \/ Escrow(t)
        PROVE  Custody!Next \/ UNCHANGED Custody!vars
    BY <1>1, <1>3, MatchLocks, ExpireReturns, EscrowDelivers DEF Custody!Next
  <1>4. QED
    BY <1>2, <1>3, StepTables

\* Each trade's tokens leave the seller when it is made, and go once to the buyer or
\* back, however stale the rows are that a request trades with or a watcher expires with.
THEOREM CustodyKept == Spec => ImplementsCustody
  BY NextIsCustodyStep, InitIsCustodyInit, Matching, PTL
  DEF Spec, ImplementsCustody, Custody!Spec

-----------------------------------------------------------------------------
(* One place request at a time, and no expiry: the rows a request trades   *)
(* with are up to date but for their status, which an owner may still turn *)
(* to cancelled.                                                           *)

Serial == (\A p, q \in Requests : p = q) /\ Watchers = {}

\* What is left of the orders a request trades with is what it read.
Fresh(os, r) ==
    /\ r.stage \in {"latest", "activate", "find", "trade", "cancel"} =>
         r.current.filled = os[r.current.id].filled
    /\ r.stage \in Matched => r.matched.filled = os[r.matched.id].filled

LiveStatus(status) == status \notin {"none", "cancelled"}
Units(ts) == [t \in TradeIds |-> ts[t].quantity]
LiveOf(ts, o) ==
    {t \in TradeIds : o \in {ts[t].buyOrder, ts[t].sellOrder} /\ LiveStatus(ts[t].status)}
Inserted == {o \in OrderIds : orders[o].status # "none"}
Made == {t \in TradeIds : trades[t].status # "none"}

TracksInv ==
    /\ IsFiniteSet(Inserted) /\ IsFiniteSet(Made)
    /\ \A p \in Requests : Fresh(orders, request[p])
    /\ \A o \in OrderIds : orders[o].filled = SumOf(Units(trades), LiveOf(trades, o))

\* A trade may reopen an order its owner cancelled after the request read it, so such
\* an order still commits its seller's tokens.
InHand(r) ==
    IF r.stage \in Matched THEN {r.current.id, r.matched.id}
    ELSE IF r.stage \in Looping THEN {r.current.id} ELSE {}

Committed(u) ==
    {o \in Inserted :
        /\ orders[o].user = u /\ orders[o].side = "sell"
        /\ Open(orders[o]) \/ \E p \in Requests : o \in InHand(request[p])}

Left == [o \in OrderIds |-> orders[o].quantity - orders[o].filled]

Commitments == [u \in Users |-> SumOf(Left, Committed(u))]

\* What a request before its insertion knows: its order is covered beside what the
\* others have committed.
Covered(r, committed, funds) ==
    LET u == r.input.user IN
    r.input.side = "sell" =>
        /\ r.stage = "reserved" => r.funds <= funds[u]
        /\ r.stage \in {"reference", "insert"} => committed[u] + r.input.quantity <= funds[u]

CoverInv ==
    /\ \A u \in Users : Commitments[u] <= balance[u]
    /\ \A p \in Requests : Covered(request[p], Commitments, balance)

\* No order that a request could have found is better than the one it found.
BestInv ==
    \A p \in Requests : request[p].stage = "trade" =>
        LET mine == request[p].current
            theirs == request[p].matched
        IN  \A o \in Matchable(mine.user, mine.side, mine.price) \ {theirs.id} :
                Better(theirs.id, o)

\* Two orders of two users that could be matched, one of them possibly cancelled by its
\* owner since the request read it.
Exposed(o) ==
    /\ o \in Inserted /\ orders[o].filled < orders[o].quantity
    /\ Open(orders[o]) \/ \E p \in Requests :
                            request[p].stage \in Matched /\ o = request[p].matched.id

Crossing(bid, ask) ==
    /\ Exposed(bid) /\ Exposed(ask)
    /\ orders[bid].side = "buy" /\ orders[ask].side = "sell"
    /\ orders[bid].user # orders[ask].user
    /\ orders[ask].price <= orders[bid].price

UncrossedInv ==
    /\ \A o \in Inserted : orders[o].type = "limit"
    /\ \A bid, ask \in OrderIds : Crossing(bid, ask) =>
         \E p \in Requests : /\ request[p].stage \in Looping
                             /\ request[p].current.id \in {bid, ask}

\* What the steps of a serial service do to the tables, apart from inserting an order
\* and making a trade: no filled quantity changes, no status but to cancelled, no trade
\* but its settlement, and no balance is reduced.
OrdersQuiet ==
    \A o \in OrderIds :
        /\ orders'[o].filled = orders[o].filled
        /\ orders'[o].status \in {orders[o].status, "cancelled"}
        /\ orders[o].status = "none" => orders'[o] = orders[o]

TradesQuiet ==
    /\ \A t \in TradeIds :
         /\ trades'[t].status = "none" <=> trades[t].status = "none"
         /\ LiveStatus(trades'[t].status) <=> LiveStatus(trades[t].status)
         /\ trades'[t].quantity = trades[t].quantity
         /\ trades'[t].buyOrder = trades[t].buyOrder
         /\ trades'[t].sellOrder = trades[t].sellOrder
    /\ \A u \in Users : balance'[u] >= balance[u]

Quiet == OrdersQuiet /\ TradesQuiet

\* A step that writes no trade and no balance is quiet about them.
LEMMA SameTradesQuiet ==
    ASSUME MInv, UNCHANGED <<trades, balance>>
    PROVE  TradesQuiet
  <1>1. balance \in [Users -> Nat]
    BY DEF MInv, TablesInv, DBTypeOK
  <1>2. QED
    BY <1>1 DEF TradesQuiet

\* A cancellation is quiet.
LEMMA CancelQuiet ==
    ASSUME MInv, NEW o \in OrderIds, orders' = CancelledOrder(o), UNCHANGED <<trades, balance>>
    PROVE  Quiet
  <1>1. ASSUME NEW q \in OrderIds, orders[q].status = "none"
        PROVE  orders'[q] = orders[q]
    <2>1. orders \in [OrderIds -> OrderRow]
      BY DEF MInv, TablesInv, DBTypeOK
    <2>2. ~Open(orders[q])
      BY <1>1 DEF Open, OpenOrderStatuses
    <2>3. CASE q = o
      BY <2>2, <2>3 DEF CancelledOrder
    <2>4. CASE q # o
      BY <2>1, <2>4 DEF CancelledOrder
    <2>5. QED
      BY <2>3, <2>4
  <1>2. QED
    BY <1>1, CancelledGrows, SameTradesQuiet DEF Quiet, OrdersQuiet

\* The steps of an escrow are quiet.
LEMMA EscrowQuiet ==
    ASSUME MInv, NEW t \in TradeIds, Escrow(t)
    PROVE  Quiet /\ orders' = orders
  <1>1. /\ trades \in [TradeIds -> TradeRow] /\ trades[t] \in TradeRow
        /\ StatusesMatch(trades[t], escrows[t]) /\ balance \in [Users -> Nat]
        /\ orders \in [OrderIds -> OrderRow] /\ trades[t].quantity \in Nat
    BY MarketAssumption DEF MInv, TablesInv, DBTypeOK, TradeRow
  <1>2. orders' = orders
    BY DEF Escrow, Funded, SellerSigns, Released, MarkEscrowFunded, RecordEscrowSignature,
           ProcessEscrowSignature
  <1>3. ASSUME NEW status, LiveStatus(status), LiveStatus(trades[t].status),
               trades' = [trades EXCEPT ![t].status = status],
               \A u \in Users : balance'[u] >= balance[u]
        PROVE  TradesQuiet
    <2>1. ASSUME NEW u \in TradeIds
          PROVE  /\ trades'[u].status = IF u = t THEN status ELSE trades[u].status
                 /\ trades'[u].quantity = trades[u].quantity
                 /\ trades'[u].buyOrder = trades[u].buyOrder
                 /\ trades'[u].sellOrder = trades[u].sellOrder
      <3>1. CASE u = t
        BY <1>1, <1>3, <3>1 DEF TradeRow
      <3>2. CASE u # t
        BY <1>1, <1>3, <3>2
      <3>3. QED
        BY <3>1, <3>2
    <2>2. QED
      BY <1>3, <2>1 DEF TradesQuiet, LiveStatus
  <1>4. CASE Funded(t)
    <2>1. trades' = [trades EXCEPT ![t].status = "escrowed"] /\ balance' = balance
          /\ LiveStatus("escrowed") /\ LiveStatus(trades[t].status)
      BY <1>1, <1>4 DEF Funded, MarkEscrowFunded, StatusesMatch, LiveStatus
    <2>2. \A u \in Users : balance'[u] >= balance[u]
      BY <1>1, <2>1
    <2>3. QED
      BY <1>2, <1>3, <2>1, <2>2 DEF Quiet, OrdersQuiet
  <1>5. CASE SellerSigns(t)
    BY <1>2, <1>5, SameTradesQuiet DEF SellerSigns, RecordEscrowSignature, Quiet, OrdersQuiet
  <1>6. CASE Released(t)
    <2>1. /\ trades' = [trades EXCEPT ![t].status = "settled"]
          /\ balance' = [balance EXCEPT ![Buyer(t)] = @ + trades[t].quantity]
          /\ LiveStatus("settled") /\ LiveStatus(trades[t].status)
      BY <1>1, <1>6 DEF Released, ProcessEscrowSignature, StatusesMatch, LiveStatus
    <2>2. ASSUME NEW u \in Users PROVE balance'[u] >= balance[u]
      <3>1. CASE u = Buyer(t)
        BY <1>1, <2>1, <3>1
      <3>2. CASE u # Buyer(t)
        BY <1>1, <2>1, <3>2
      <3>3. QED
        BY <3>1, <3>2
    <2>3. QED
      BY <1>2, <1>3, <2>1, <2>2 DEF Quiet, OrdersQuiet
  <1>7. QED
    BY <1>2, <1>4, <1>5, <1>6 DEF Escrow

\* Each request step of the match loop but the insertion and the trade is quiet.
LEMMA PlaceQuiet ==
    ASSUME MInv, NEW p \in Requests, Place(p)
    PROVE  \/ Quiet \/ Insert(p)
           \/ \E t \in TradeIds :
                /\ request[p].stage = "trade" /\ latest' = t
                /\ CreateTradeEscrow(t, BuyRow(p), SellRow(p), FillQuantity(p),
                                     request[p].matched.price)
                /\ request' = [request EXCEPT ![p].stage = "activate_after",
                                              ![p].price = request[p].matched.price]
  <1>1. CASE UNCHANGED db
    BY <1>1, SameTradesQuiet DEF db, Quiet, OrdersQuiet
  <1>2. CASE Activate(p)
    <2>1. /\ orders' = Activated(request[p].price) /\ UNCHANGED <<trades, balance>>
      BY <1>2 DEF Activate
    <2>2. ASSUME NEW o \in OrderIds, orders[o].status = "none"
          PROVE  orders'[o] = orders[o]
      BY <2>1, <2>2 DEF Activated, Open, OpenOrderStatuses
    <2>3. QED
      BY <2>1, <2>2, ActivatedGrows, SameTradesQuiet DEF Quiet, OrdersQuiet
  <1>3. CASE CancelMatched(p)
    <2>1. request[p].matched.id \in OrderIds
      BY RequestNow DEF OrderRow
    <2>2. QED
      BY <1>3, <2>1, CancelQuiet DEF CancelMatched
  <1>4. QED
    BY <1>1, <1>2, <1>3
    DEF Place, ReadFunds, CheckReserved, ReadReference, ReadCurrent, ReadLatest,
        FindBestMatch, RequestFails, Trade

-----------------------------------------------------------------------------
(* Filled quantities, one request at a time.                               *)

\* A request that goes on with the rows it has, or with none.
LEMMA FreshKept ==
    ASSUME OrdersQuiet, NEW r \in RequestRow, Fresh(orders, r)
    PROVE  Fresh(orders', r)
  <1>1. r.current.id \in OrderIds /\ r.matched.id \in OrderIds
    BY DEF RequestRow, OrderRow
  <1>2. QED
    BY <1>1 DEF OrdersQuiet, Fresh

\* The stage a step sends a request to, and the rows it holds there.
LEMMA NextStage ==
    ASSUME MInv, NEW p \in Requests
    PROVE  /\ ReadFunds(p) => request'[p].stage = "reserved"
           /\ CheckReserved(p) => request'[p].stage \in {"idle", "reference", "insert"}
           /\ ReadReference(p) => request'[p].stage = "insert"
           /\ Insert(p) => request'[p].stage \in {"idle", "current"}
           /\ ReadCurrent(p) => \/ request'[p].stage = "idle"
                                \/ /\ request'[p].stage \in {"latest", "find"}
                                   /\ request'[p].current = orders[request[p].current.id]
           /\ ReadLatest(p) => /\ request'[p].stage = "activate" /\ request[p].stage = "latest"
                               /\ request'[p].current = request[p].current
           /\ Activate(p) => /\ \/ request'[p].stage = "current"
                                \/ request'[p].stage = "find" /\ request[p].stage = "activate"
                             /\ request'[p].current = request[p].current
           /\ CancelMatched(p) => /\ request'[p].stage = "current" /\ request[p].stage = "cancel"
                                  /\ request'[p].current = request[p].current
           /\ RequestFails(p) => request'[p].stage = "idle"
           /\ Done(p) => request'[p].stage = "idle"
  <1>1. request \in [Requests -> RequestRow] /\ request[p] \in RequestRow
    BY RequestNow
  <1>2. Done(p) => request'[p] = Idle
    BY <1>1 DEF Done
  <1>3. Idle.stage = "idle"
    BY DEF Idle
  <1>4. ASSUME NEW stage PROVE Goto(p, stage) =>
          request'[p].stage = stage /\ request'[p].current = request[p].current
    BY <1>1 DEF Goto, RequestRow
  <1>5. ReadFunds(p) => request'[p].stage = "reserved"
    BY <1>1 DEF ReadFunds, Idle
  <1>6. CheckReserved(p) => request'[p].stage \in {"idle", "reference", "insert"}
    <2>1. \A stage : request' = [request EXCEPT ![p].funds = 0, ![p].stage = stage]
                       => request'[p].stage = stage
      BY <1>1 DEF RequestRow
    <2>2. QED
      BY <1>2, <1>3, <2>1 DEF CheckReserved
  <1>7. ReadReference(p) => request'[p].stage = "insert"
    BY <1>1 DEF ReadReference, RequestRow
  <1>8. Insert(p) => request'[p].stage \in {"idle", "current"}
    <2> DEFINE r == [Idle EXCEPT !.stage = "current", !.input = request[p].input, !.current =
                       NewRow(FirstFree, request[p].input, request[p].triggered)]
    <2>1. r.stage = "current"
      BY DEF Idle
    <2>2. Insert(p) => request' = [request EXCEPT ![p] = r] \/ Done(p)
      BY DEF Insert, FirstFree
    <2> HIDE DEF r
    <2>3. QED
      BY <1>1, <1>2, <1>3, <2>1, <2>2
  <1>9. ReadCurrent(p) => \/ request'[p].stage = "idle"
                          \/ /\ request'[p].stage \in {"latest", "find"}
                             /\ request'[p].current = orders[request[p].current.id]
    <2> DEFINE row == orders[request[p].current.id]
               stage == IF row.type = "stop_limit" THEN "latest" ELSE "find"
               r == [Idle EXCEPT !.stage = stage, !.input = request[p].input, !.current = row]
    <2>1. stage \in {"latest", "find"}
      OBVIOUS
    <2>2. ReadCurrent(p) => request' = [request EXCEPT ![p] = r] \/ Done(p)
      BY DEF ReadCurrent
    <2> HIDE DEF stage, row
    <2>3. r.stage = stage /\ r.current = row
      BY DEF Idle
    <2> HIDE DEF r
    <2>4. QED
      BY <1>1, <1>2, <1>3, <2>1, <2>2, <2>3 DEF row
  <1>10. ReadLatest(p) => /\ request'[p].stage = "activate" /\ request[p].stage = "latest"
                          /\ request'[p].current = request[p].current
    BY <1>1 DEF ReadLatest, RequestRow
  <1>11. QED
    BY <1>2, <1>3, <1>4, <1>5, <1>6, <1>7, <1>8, <1>9, <1>10
    DEF Activate, CancelMatched, RequestFails

\* find_best_match hands a candidate's row to the request, or nothing.
LEMMA FindStage ==
    ASSUME MInv, NEW p \in Requests, FindBestMatch(p)
    PROVE  LET row == request[p].current
               best == BestMatches(row.user, row.side, row.price)
           IN  \/ best = {} /\ request'[p].stage = "idle"
               \/ \E o \in best : /\ request'[p].stage = "trade"
                                  /\ request'[p].current = request[p].current
                                  /\ request'[p].matched = orders[o]
  <1>1. request \in [Requests -> RequestRow] /\ request[p] \in RequestRow
    BY RequestNow
  <1>2. ASSUME NEW row,
               request' = [request EXCEPT ![p].stage = "trade", ![p].matched = row]
        PROVE  /\ request'[p].stage = "trade" /\ request'[p].matched = row
               /\ request'[p].current = request[p].current
    BY <1>1, <1>2 DEF RequestRow
  <1>3. QED
    BY <1>2, NextStage DEF FindBestMatch

\* Trade goes on to the next match, or to the cancellation of the resting order.
LEMMA TradeStage ==
    ASSUME MInv, NEW p \in Requests, Trade(p)
    PROVE  /\ request[p].stage = "trade"
           /\ \/ /\ request'[p].stage = "activate_after"
                 /\ request'[p].current = request[p].current
              \/ /\ request'[p].stage = "cancel" /\ UNCHANGED db
                 /\ request'[p].current = request[p].current
                 /\ request'[p].matched = request[p].matched
  <1>1. request \in [Requests -> RequestRow] /\ request[p] \in RequestRow
    BY RequestNow
  <1>2. ASSUME NEW price,
               request' = [request EXCEPT ![p].stage = "activate_after", ![p].price = price]
        PROVE  /\ request'[p].stage = "activate_after"
               /\ request'[p].current = request[p].current
    BY <1>1, <1>2 DEF RequestRow
  <1>3. Goto(p, "cancel") => /\ request'[p].stage = "cancel"
                             /\ request'[p].current = request[p].current
                             /\ request'[p].matched = request[p].matched
    BY <1>1 DEF Goto, RequestRow
  <1>4. QED
    BY <1>2, <1>3 DEF Trade

\* A request's step leaves it with rows whose filled quantities are the table's.
LEMMA FreshStep ==
    ASSUME MInv, NEW p \in Requests, Place(p), Fresh(orders, request[p])
    PROVE  Fresh(orders', request'[p])
  <1> DEFINE r == request[p]
             s == request'[p]
  <1>1. r \in RequestRow /\ r.current.id \in OrderIds /\ r.matched.id \in OrderIds
        /\ orders \in [OrderIds -> OrderRow] /\ \A o \in OrderIds : RowOK(o, orders[o])
    BY RequestNow DEF RequestRow, OrderRow, MInv, TablesInv, DBTypeOK
  <1>2. CASE ReadFunds(p) \/ CheckReserved(p) \/ ReadReference(p) \/ Insert(p) \/ RequestFails(p)
    <2>1. s.stage \in {"idle", "reserved", "reference", "insert", "current"}
      BY <1>2, NextStage
    <2>2. QED
      BY <2>1 DEF Fresh, Matched
  <1>3. CASE ReadCurrent(p)
    <2>1. orders' = orders
      BY <1>3 DEF ReadCurrent, db
    <2>2. orders[orders[r.current.id].id] = orders[r.current.id]
      BY <1>1 DEF RowOK
    <2>3. \/ s.stage = "idle"
          \/ s.stage \in {"latest", "find"} /\ s.current = orders[r.current.id]
      BY <1>3, NextStage
    <2>4. QED
      BY <2>1, <2>2, <2>3 DEF Fresh, Matched
  <1>4. CASE ReadLatest(p)
    <2>1. orders' = orders
      BY <1>4 DEF ReadLatest, db
    <2>2. QED
      BY <1>4, <2>1, NextStage DEF Fresh, Matched
  <1>5. CASE Activate(p)
    <2>1. \A o \in OrderIds : orders'[o].filled = orders[o].filled
      BY <1>5, ActivatedGrows DEF Activate
    <2>2. QED
      BY <1>1, <1>5, <2>1, NextStage DEF Fresh, Matched
  <1>6. CASE FindBestMatch(p)
    <2>1. orders' = orders /\ r.stage = "find"
      BY <1>6 DEF FindBestMatch, db
    <2>2. \/ s.stage = "idle"
          \/ \E o \in OrderIds :
               /\ s.stage = "trade" /\ s.current = r.current /\ s.matched = orders[o]
      BY <1>6, FindStage DEF BestMatches, Matchable
    <2>3. \A o \in OrderIds : orders[orders[o].id] = orders[o]
      BY <1>1 DEF RowOK
    <2>4. QED
      BY <2>1, <2>2, <2>3 DEF Fresh, Matched
  <1>7. CASE Trade(p)
    <2>1. \/ s.stage = "activate_after"
          \/ /\ s.stage = "cancel" /\ orders' = orders /\ r.stage = "trade"
             /\ s.current = r.current /\ s.matched = r.matched
      BY <1>7, TradeStage DEF db
    <2>2. QED
      BY <2>1 DEF Fresh, Matched
  <1>8. CASE CancelMatched(p)
    <2>1. s.stage = "current"
      BY <1>8, NextStage
    <2>2. QED
      BY <2>1 DEF Fresh, Matched
  <1>9. QED
    BY <1>2, <1>3, <1>4, <1>5, <1>6, <1>7, <1>8 DEF Place

\* A trade fills both orders by its quantity, when the rows it is made with are fresh.
LEMMA MatchFills ==
    ASSUME MInv, NEW p \in Requests, request[p].stage = "trade", Fresh(orders, request[p]),
           NEW t \in TradeIds,
           CreateTradeEscrow(t, BuyRow(p), SellRow(p), FillQuantity(p), request[p].matched.price)
    PROVE  LET b == BuyRow(p)
               s == SellRow(p)
               q == FillQuantity(p)
           IN  /\ b.id \in OrderIds /\ s.id \in OrderIds /\ b.id # s.id
               /\ {b.id, s.id} = {request[p].current.id, request[p].matched.id}
               /\ orders[b.id].side = "buy" /\ orders[s.id].side = "sell"
               /\ orders[b.id].status # "none" /\ orders[s.id].status # "none"
               /\ orders[s.id].user = s.user /\ s.user \in Users
               /\ q \in Nat /\ q >= 1 /\ trades[t].status = "none"
               /\ orders'[b.id].filled = orders[b.id].filled + q
               /\ orders'[s.id].filled = orders[s.id].filled + q
               /\ \A o \in OrderIds \ {b.id, s.id} : orders'[o] = orders[o]
               /\ trades'[t].status = "pending" /\ trades'[t].quantity = q
               /\ trades'[t].buyOrder = b.id /\ trades'[t].sellOrder = s.id
               /\ \A u \in TradeIds \ {t} : trades'[u] = trades[u]
               /\ balance' = [balance EXCEPT ![s.user] = @ - q]
  <1> DEFINE b == BuyRow(p)
             s == SellRow(p)
             q == FillQuantity(p)
  <1>1. /\ b \in OrderRow /\ Held(orders, b) /\ s \in OrderRow /\ Held(orders, s)
        /\ Terms(b, s, request[p].matched.price)
    BY TradeRows DEF Matched
  <1>2. /\ b.filled = orders[b.id].filled /\ s.filled = orders[s.id].filled
        /\ {b.id, s.id} = {request[p].current.id, request[p].matched.id}
    BY DEF Fresh, Matched, BuyRow, SellRow
  <1>3. /\ trades[t].status = "none" /\ q \in 1..Remaining(b) /\ q \in 1..Remaining(s)
        /\ balance' = [balance EXCEPT ![s.user] = @ - q]
        /\ orders' = [orders EXCEPT ![b.id] = ApplyOrderFill(orders[b.id], b, q),
                                    ![s.id] = ApplyOrderFill(orders[s.id], s, q)]
        /\ trades' = [trades EXCEPT ![t] =
              [buyOrder |-> b.id, sellOrder |-> s.id, quantity |-> q,
               price |-> request[p].matched.price, status |-> "pending"]]
    BY DEF CreateTradeEscrow, ValidTradeInputs
  <1> HIDE DEF b, s, q
  <1>4. /\ b.id \in OrderIds /\ s.id \in OrderIds /\ b.id # s.id
        /\ GoodRow(b.id, orders[b.id]) /\ GoodRow(s.id, orders[s.id])
        /\ b.quantity = orders[b.id].quantity /\ b.filled <= b.quantity
        /\ s.quantity = orders[s.id].quantity /\ s.filled <= s.quantity
    BY <1>1, TwoSides DEF Terms
  <1>5. Remaining(b) \in Nat /\ Remaining(s) \in Nat
    BY <1>1, <1>4, RemainingOf
  <1>6. q \in Nat /\ q >= 1 /\ q <= Remaining(b) /\ q <= Remaining(s)
    BY <1>3, <1>5
  <1>7. /\ ApplyOrderFill(orders[b.id], b, q).filled = b.filled + q
        /\ ApplyOrderFill(orders[s.id], s, q).filled = s.filled + q
    BY <1>1, <1>4, <1>6, FillsFit
  <1>8. orders \in [OrderIds -> OrderRow] /\ trades \in [TradeIds -> TradeRow]
    BY DEF MInv, TablesInv, DBTypeOK
  <1>9. /\ orders'[b.id].filled = orders[b.id].filled + q
        /\ orders'[s.id].filled = orders[s.id].filled + q
        /\ \A o \in OrderIds \ {b.id, s.id} : orders'[o] = orders[o]
    BY <1>2, <1>3, <1>4, <1>7, <1>8
  <1>10. /\ trades'[t].status = "pending" /\ trades'[t].quantity = q
         /\ trades'[t].buyOrder = b.id /\ trades'[t].sellOrder = s.id
         /\ \A u \in TradeIds \ {t} : trades'[u] = trades[u]
    BY <1>3, <1>8
  <1>11. /\ orders[b.id].side = "buy" /\ orders[s.id].side = "sell"
         /\ orders[b.id].status # "none" /\ orders[s.id].status # "none"
         /\ orders[s.id].user = s.user /\ s.user \in Users
    BY <1>1 DEF Terms, Held, Successor, OrderRow
  <1>12. QED
    BY <1>2, <1>3, <1>4, <1>6, <1>9, <1>10, <1>11 DEF b, s, q

\* Only finitely many orders have been inserted, and finitely many trades made.
LEMMA FiniteGrow ==
    ASSUME IsFiniteSet(Inserted), IsFiniteSet(Made), NEW o, NEW t,
           \A q \in OrderIds \ {o} : orders'[q].status # "none" => orders[q].status # "none",
           \A u \in TradeIds \ {t} : trades'[u].status # "none" => trades[u].status # "none"
    PROVE  IsFiniteSet(Inserted') /\ IsFiniteSet(Made')
  <1>1. IsFiniteSet(Inserted \cup {o}) /\ IsFiniteSet(Made \cup {t})
    BY FS_AddElement
  <1>2. Inserted' \subseteq Inserted \cup {o} /\ Made' \subseteq Made \cup {t}
    BY DEF Inserted, Made
  <1>3. QED
    BY <1>1, <1>2, FS_Subset

\* The trades of an order are finitely many, and of natural quantities.
LEMMA LiveFinite ==
    ASSUME MInv, IsFiniteSet(Made), NEW o
    PROVE  /\ LiveOf(trades, o) \in SUBSET TradeIds /\ IsFiniteSet(LiveOf(trades, o))
           /\ \A t \in TradeIds : Units(trades)[t] \in Nat
           /\ SumOf(Units(trades), LiveOf(trades, o)) \in Int
  <1>1. LiveOf(trades, o) \subseteq Made /\ LiveOf(trades, o) \subseteq TradeIds
    BY DEF LiveOf, Made, LiveStatus
  <1>2. IsFiniteSet(LiveOf(trades, o))
    BY <1>1, FS_Subset
  <1>3. \A t \in TradeIds : trades[t].quantity \in Nat
    BY MarketAssumption DEF MInv, TablesInv, DBTypeOK, TradeRow
  <1>4. \A t \in TradeIds : Units(trades)[t] \in Nat
    BY <1>3 DEF Units
  <1>5. SumOf(Units(trades), LiveOf(trades, o)) \in Int
    BY <1>1, <1>2, <1>4, SumType
  <1>6. QED
    BY <1>1, <1>2, <1>4, <1>5

\* Quiet steps keep what each order's trades add up to.
LEMMA QuietTracks ==
    ASSUME MInv, TracksInv, Quiet, NEW o \in OrderIds
    PROVE  orders'[o].filled = SumOf(Units(trades'), LiveOf(trades', o))
  <1>1. orders'[o].filled = orders[o].filled
    BY DEF Quiet, OrdersQuiet
  <1>2. LiveOf(trades', o) = LiveOf(trades, o) /\ Units(trades') = Units(trades)
    BY DEF LiveOf, Units, Quiet, TradesQuiet
  <1>3. QED
    BY <1>1, <1>2 DEF TracksInv

\* An order just inserted has no trades.
LEMMA InsertTracks ==
    ASSUME MInv, TracksInv, NEW p \in Requests, Insert(p), NEW o \in OrderIds
    PROVE  orders'[o].filled = SumOf(Units(trades'), LiveOf(trades', o))
  <1> DEFINE new == NewRow(FirstFree, request[p].input, request[p].triggered)
  <1>1. trades' = trades /\ orders' = [orders EXCEPT ![FirstFree] = new]
    BY DEF Insert, FirstFree
  <1>2. FirstFree \in OrderIds /\ orders[FirstFree].status = "none"
    BY FirstFreeIs DEF Insert
  <1>3. new.filled = 0 /\ orders \in [OrderIds -> OrderRow]
    BY DEF NewRow, MInv, TablesInv, DBTypeOK
  <1>4. LiveOf(trades, FirstFree) = {}
    BY <1>2 DEF LiveOf, LiveStatus, MInv, TablesInv, Joins
  <1>5. SumOf(Units(trades), LiveOf(trades, FirstFree)) = 0
    BY <1>4, FS_EmptySet, SumEquation
  <1> HIDE DEF new
  <1>6. QED
    BY <1>1, <1>2, <1>3, <1>5 DEF TracksInv

\* A trade adds its quantity to the trades of its two orders.
LEMMA MatchTracks ==
    ASSUME MInv, MInv', TracksInv, IsFiniteSet(Made'), NEW p \in Requests, request[p].stage = "trade",
           NEW t \in TradeIds,
           CreateTradeEscrow(t, BuyRow(p), SellRow(p), FillQuantity(p), request[p].matched.price),
           NEW o \in OrderIds
    PROVE  orders'[o].filled = SumOf(Units(trades'), LiveOf(trades', o))
  <1> DEFINE b == BuyRow(p).id
             s == SellRow(p).id
             q == FillQuantity(p)
             W == LiveOf(trades, o)
             f == Units(trades)
             g == Units(trades')
  <1>1. /\ b \in OrderIds /\ s \in OrderIds /\ b # s /\ q \in Nat /\ trades[t].status = "none"
        /\ orders'[b].filled = orders[b].filled + q /\ orders'[s].filled = orders[s].filled + q
        /\ \A u \in OrderIds \ {b, s} : orders'[u] = orders[u]
        /\ trades'[t].status = "pending" /\ trades'[t].quantity = q
        /\ trades'[t].buyOrder = b /\ trades'[t].sellOrder = s
        /\ \A u \in TradeIds \ {t} : trades'[u] = trades[u]
    BY MatchFills DEF TracksInv
  <1> HIDE DEF b, s, q
  <1>2. /\ W \in SUBSET TradeIds /\ IsFiniteSet(W) /\ \A u \in TradeIds : f[u] \in Nat
        /\ t \notin W /\ orders[o].filled = SumOf(f, W) /\ SumOf(f, W) \in Int
    BY <1>1, LiveFinite DEF TracksInv, LiveOf, LiveStatus
  <1>3. g[t] = q /\ \A u \in TradeIds \ {t} : g[u] = f[u]
    BY <1>1 DEF Units
  <1>4. LiveOf(trades', o) = IF o \in {b, s} THEN W \cup {t} ELSE W
    <2>1. ASSUME NEW u \in TradeIds, u # t
          PROVE  u \in LiveOf(trades', o) <=> u \in W
      BY <1>1, <2>1 DEF LiveOf
    <2>2. t \in LiveOf(trades', o) <=> o \in {b, s}
      BY <1>1 DEF LiveOf, LiveStatus
    <2>3. LiveOf(trades', o) \subseteq TradeIds
      BY DEF LiveOf
    <2>4. QED
      BY <1>2, <2>1, <2>2, <2>3
  <1> HIDE DEF W, f, g
  <1>5. SumOf(g, W) = SumOf(f, W)
    BY <1>2, <1>3, SumEqual
  <1>6. CASE o \in {b, s}
    <2>1. SumOf(g, W \cup {t}) = g[t] + SumOf(g, W)
      BY <1>1, <1>2, <1>3, SumAdd
    <2>2. orders'[o].filled = orders[o].filled + q
      BY <1>1, <1>6
    <2>3. QED
      BY <1>1, <1>2, <1>3, <1>4, <1>5, <1>6, <2>1, <2>2 DEF g
  <1>7. CASE o \notin {b, s}
    BY <1>1, <1>2, <1>4, <1>5, <1>7 DEF g
  <1>8. QED
    BY <1>6, <1>7

Creates(p, t) ==
    /\ request[p].stage = "trade" /\ latest' = t
    /\ CreateTradeEscrow(t, BuyRow(p), SellRow(p), FillQuantity(p), request[p].matched.price)
    /\ request' = [request EXCEPT ![p].stage = "activate_after",
                                  ![p].price = request[p].matched.price]

\* A step of a serial service is a step of its one request, or quiet.
LEMMA SerialStep ==
    ASSUME Serial, MInv, [Next]_vars
    PROVE  \/ /\ Quiet /\ request' = request
              /\ orders' = orders \/ \E o \in OrderIds : DeleteOrder(o)
           \/ \E p \in Requests :
                /\ Place(p)
                /\ Quiet \/ Insert(p) \/ \E t \in TradeIds : Creates(p, t)
  <1>1. CASE UNCHANGED vars
    BY <1>1, SameTradesQuiet DEF vars, db, Quiet, OrdersQuiet
  <1>2. ASSUME NEW p \in Requests, Place(p)
        PROVE  Quiet \/ Insert(p) \/ \E t \in TradeIds : Creates(p, t)
    BY <1>2, PlaceQuiet DEF Creates
  <1>3. ASSUME NEW o \in OrderIds, DeleteOrder(o)
        PROVE  Quiet /\ request' = request
    BY <1>3, CancelQuiet DEF DeleteOrder, CancelledOrder
  <1>4. ASSUME NEW t \in TradeIds, Escrow(t)
        PROVE  Quiet /\ request' = request /\ orders' = orders
    BY <1>4, EscrowQuiet DEF Escrow, Funded, SellerSigns, Released
  <1>5. QED
    BY <1>1, <1>2, <1>3, <1>4 DEF Next, Serial

\* The filled quantities stay those of the trades.
LEMMA TracksStep ==
    ASSUME Serial, MInv, MInv', TracksInv, [Next]_vars
    PROVE  TracksInv'
  <1>1. CASE Quiet /\ request' = request
    <2>1. IsFiniteSet(Inserted') /\ IsFiniteSet(Made')
      BY <1>1, FiniteGrow DEF TracksInv, Quiet, OrdersQuiet, TradesQuiet
    <2>2. ASSUME NEW p \in Requests PROVE Fresh(orders', request'[p])
      BY <1>1, RequestNow, FreshKept DEF TracksInv, Quiet
    <2>3. \A o \in OrderIds : orders'[o].filled = SumOf(Units(trades'), LiveOf(trades', o))
      BY <1>1, QuietTracks
    <2>4. QED
      BY <2>1, <2>2, <2>3 DEF TracksInv
  <1>2. ASSUME NEW p \in Requests, Place(p),
               Quiet \/ Insert(p) \/ \E t \in TradeIds : Creates(p, t)
        PROVE  TracksInv'
    <2>1. ASSUME NEW q \in Requests PROVE Fresh(orders', request'[q])
      <3>1. q = p
        BY DEF Serial
      <3>2. QED
        BY <1>2, <3>1, FreshStep DEF TracksInv
    <2>2. CASE Quiet
      <3>1. IsFiniteSet(Inserted') /\ IsFiniteSet(Made')
        BY <2>2, FiniteGrow DEF TracksInv, Quiet, OrdersQuiet, TradesQuiet
      <3>2. QED
        BY <2>1, <2>2, <3>1, QuietTracks DEF TracksInv
    <2>3. CASE Insert(p)
      <3>1. trades' = trades /\ \A o \in OrderIds \ {FirstFree} : orders'[o] = orders[o]
        BY <2>3 DEF Insert, FirstFree, MInv, TablesInv, DBTypeOK
      <3>2. IsFiniteSet(Inserted') /\ IsFiniteSet(Made')
        BY <3>1, FiniteGrow DEF TracksInv
      <3>3. QED
        BY <2>1, <2>3, <3>2, InsertTracks DEF TracksInv
    <2>4. ASSUME NEW t \in TradeIds, Creates(p, t)
          PROVE  TracksInv'
      <3>1. /\ \A o \in OrderIds : orders'[o].status # "none" => orders[o].status # "none"
            /\ \A u \in TradeIds \ {t} : trades'[u] = trades[u]
        BY <2>4, MatchFills DEF Creates, TracksInv
      <3>2. IsFiniteSet(Inserted') /\ IsFiniteSet(Made')
        BY <3>1, FiniteGrow DEF TracksInv
      <3>3. \A o \in OrderIds : orders'[o].filled = SumOf(Units(trades'), LiveOf(trades', o))
        BY <2>4, <3>2, MatchTracks DEF Creates
      <3>4. QED
        BY <2>1, <3>2, <3>3 DEF TracksInv
    <2>5. QED
      BY <1>2, <2>2, <2>3, <2>4
  <1>3. QED
    BY <1>1, <1>2, SerialStep

\* There are no trades and no orders at first.
LEMMA InitTracks == Init => TracksInv
  <1> SUFFICES ASSUME Init PROVE TracksInv
    OBVIOUS
  <1>1. Inserted = {} /\ Made = {}
    BY DEF Init, Inserted, Made, NoRow, NewRow
  <1>2. \A p \in Requests : Fresh(orders, request[p])
    BY DEF Init, Idle, Fresh, Matched
  <1>3. ASSUME NEW o \in OrderIds
        PROVE  orders[o].filled = SumOf(Units(trades), LiveOf(trades, o))
    <2>1. LiveOf(trades, o) = {} /\ orders[o].filled = 0
      BY DEF Init, LiveOf, LiveStatus, NoRow, NewRow
    <2>2. QED
      BY <2>1, FS_EmptySet, SumEquation
  <1>4. QED
    BY <1>1, <1>2, <1>3, FS_EmptySet DEF TracksInv

\* What trades add up to, as a sum of the function of quantities.
LEMMA UnitsSum ==
    ASSUME NEW S \in SUBSET TradeIds, IsFiniteSet(S)
    PROVE  MapThenSumSet(LAMBDA t : trades[t].quantity, S) = SumOf(Units(trades), S)
  <1> DEFINE f == Units(trades)
             G == CHOOSE g : g = [s \in SUBSET S |-> IF s = {} THEN 0
                      ELSE LET x == CHOOSE x \in s : TRUE
                           IN trades[x].quantity + g[s \ {x}]]
  <1>1. MapThenSumSet(LAMBDA t : trades[t].quantity, S) = G[S]
    BY DEF MapThenSumSet, MapThenFoldSet
  <1>2. PICK g : Sums(g, f, S)
    BY SumsExist
  <1>3. \A s \in SUBSET S : s # {} => f[Pick(s)] = trades[Pick(s)].quantity
    BY DEF Pick, Units
  <1>4. g = [s \in SUBSET S |-> IF s = {} THEN 0
                ELSE LET x == CHOOSE x \in s : TRUE IN trades[x].quantity + g[s \ {x}]]
    <2> HIDE DEF f
    <2>1. \A s \in SUBSET S : s # {} => g[s] = trades[Pick(s)].quantity + g[s \ {Pick(s)}]
      BY <1>2, <1>3 DEF Sums
    <2>2. g = [s \in SUBSET S |-> g[s]] /\ g[{}] = 0
      BY <1>2 DEF Sums
    <2>3. QED
      BY <2>1, <2>2 DEF Pick
  <1>5. G = [s \in SUBSET S |-> IF s = {} THEN 0
                ELSE LET x == CHOOSE x \in s : TRUE IN trades[x].quantity + G[s \ {x}]]
    BY <1>4
  <1>6. Sums(G, f, S)
    <2> HIDE DEF f, G
    <2>1. \A s \in SUBSET S : s # {} => G[s] = trades[Pick(s)].quantity + G[s \ {Pick(s)}]
      BY <1>5 DEF Pick
    <2>2. G = [s \in SUBSET S |-> G[s]] /\ G[{}] = 0
      BY <1>5
    <2>3. QED
      BY <1>3, <2>1, <2>2 DEF Sums
  <1>7. QED
    BY <1>1, <1>6, SumsGiveSum

\* With one place request at a time and no expiry, the filled quantity of every order is
\* what its trades add up to (orders_lost_fill shows it is not with two).
THEOREM FilledIsTracked ==
    ASSUME Serial
    PROVE  Spec => []FilledTracksTrades
  <1>1. MInv /\ MInv' /\ TracksInv /\ [Next]_vars => TracksInv'
    BY TracksStep
  <1>2. MInv /\ TracksInv => FilledTracksTrades
    <2> SUFFICES ASSUME MInv, TracksInv, NEW o \in OrderIds
                 PROVE  orders[o].filled
                          = MapThenSumSet(LAMBDA t : trades[t].quantity, LiveTrades(o))
      BY DEF FilledTracksTrades
    <2>1. LiveTrades(o) = LiveOf(trades, o)
      BY DEF LiveTrades, LiveOf, LiveStatus
    <2>2. LiveOf(trades, o) \in SUBSET TradeIds /\ IsFiniteSet(LiveOf(trades, o))
      BY LiveFinite DEF TracksInv
    <2>3. orders[o].filled = SumOf(Units(trades), LiveOf(trades, o))
      BY DEF TracksInv
    <2>4. QED
      BY <2>1, <2>2, <2>3, UnitsSum
  <1>3. QED
    BY <1>1, <1>2, InitTracks, Matching, PTL DEF Spec

-----------------------------------------------------------------------------
(* Reservations, one request at a time.                                    *)

\* A sum of naturals over a part is at most the sum over the whole.
LEMMA SumOfPart ==
    ASSUME NEW f, NEW S, IsFiniteSet(S), \A x \in S : f[x] \in Nat, NEW T \in SUBSET S
    PROVE  SumOf(f, T) <= SumOf(f, S)
  <1> DEFINE Bad == {w \in SUBSET S : T \subseteq w /\ ~(SumOf(f, T) <= SumOf(f, w))}
  <1>1. SUFFICES ASSUME Bad # {} PROVE FALSE
    OBVIOUS
  <1>2. PICK m \in Bad : \A w \in Bad : ~(w \subseteq m /\ w # m)
    <2>1. Bad \in SUBSET (SUBSET S)
      OBVIOUS
    <2> HIDE DEF Bad
    <2>2. QED
      BY <1>1, <2>1, SubsetMinimum
  <1>3. IsFiniteSet(m) /\ IsFiniteSet(T) /\ m \subseteq S /\ T \subseteq m
    BY <1>2, FS_Subset
  <1>4. SumOf(f, T) \in Int /\ SumOf(f, m) \in Int
    BY <1>3, SumType
  <1>5. m # T
    BY <1>2, <1>4
  <1>6. PICK x \in m : x \notin T
    BY <1>3, <1>5
  <1>7. SumOf(f, m) = f[x] + SumOf(f, m \ {x})
    BY <1>3, <1>6, SumRemove
  <1>8. SumOf(f, T) <= SumOf(f, m \ {x})
    <2>1. m \ {x} \subseteq m /\ m \ {x} # m /\ T \subseteq m \ {x} /\ m \ {x} \in SUBSET S
      BY <1>3, <1>6
    <2>2. m \ {x} \notin Bad
      BY <1>2, <2>1
    <2>3. QED
      BY <2>1, <2>2
  <1>9. SumOf(f, m \ {x}) \in Int /\ f[x] \in Nat
    <2>1. IsFiniteSet(m \ {x}) /\ m \ {x} \subseteq S
      BY <1>3, FS_Subset
    <2>2. QED
      BY <1>3, <1>6, <2>1, SumType
  <1>10. SumOf(f, T) <= SumOf(f, m)
    BY <1>4, <1>7, <1>8, <1>9
  <1>11. QED
    BY <1>2, <1>10

\* Only inserted orders commit tokens, and each a natural number of them.
LEMMA CommittedFinite ==
    ASSUME MInv, TracksInv, NEW u
    PROVE  /\ Committed(u) \in SUBSET OrderIds /\ IsFiniteSet(Committed(u))
           /\ \A o \in OrderIds : Left[o] \in Nat
           /\ SumOf(Left, Committed(u)) \in Int
  <1>1. Committed(u) \subseteq Inserted /\ Committed(u) \subseteq OrderIds
    BY DEF Committed, Inserted
  <1>2. IsFiniteSet(Committed(u))
    BY <1>1, FS_Subset DEF TracksInv
  <1>3. ASSUME NEW o \in OrderIds PROVE orders[o].quantity - orders[o].filled \in Nat
    <2>1. orders[o] \in OrderRow /\ orders[o].filled <= orders[o].quantity
      BY DEF MInv, TablesInv, DBTypeOK
    <2>2. QED
      BY <2>1, MarketAssumption DEF OrderRow
  <1>4. \A o \in OrderIds : Left[o] \in Nat
    BY <1>3 DEF Left
  <1>5. SumOf(Left, Committed(u)) \in Int
    BY <1>1, <1>2, <1>4, SumType
  <1>6. QED
    BY <1>1, <1>2, <1>4, <1>5

\* Fewer orders, with as much left of each, commit no more tokens.
LEMMA CommitLess ==
    ASSUME MInv, TracksInv, NEW u, NEW f, NEW S \in SUBSET Committed(u),
           \A o \in Committed(u) : f[o] = Left[o]
    PROVE  SumOf(f, S) <= SumOf(Left, Committed(u)) /\ SumOf(f, S) \in Int
  <1>1. /\ Committed(u) \in SUBSET OrderIds /\ IsFiniteSet(Committed(u))
        /\ \A o \in OrderIds : Left[o] \in Nat
    BY CommittedFinite
  <1>2. SumOf(f, Committed(u)) = SumOf(Left, Committed(u))
    BY <1>1, SumEqual
  <1>3. SumOf(f, S) <= SumOf(f, Committed(u))
    BY <1>1, SumOfPart
  <1>4. IsFiniteSet(S)
    BY <1>1, FS_Subset
  <1>5. SumOf(f, S) \in Int
    BY <1>1, <1>4, SumType
  <1>6. QED
    BY <1>2, <1>3, <1>5

\* A request that has just inserted its order holds that order alone.
LEMMA InsertStage ==
    ASSUME MInv, NEW p \in Requests, Insert(p)
    PROVE  /\ request[p].stage = "insert"
           /\ \/ request'[p].stage = "idle"
              \/ request'[p].stage = "current" /\ request'[p].current.id = FirstFree
  <1> DEFINE row == NewRow(FirstFree, request[p].input, request[p].triggered)
             r == [Idle EXCEPT !.stage = "current", !.input = request[p].input, !.current = row]
  <1>1. request' = [request EXCEPT ![p] = r] \/ Done(p)
    BY DEF Insert, FirstFree
  <1>2. row.id = FirstFree
    BY DEF NewRow
  <1> HIDE DEF row
  <1>3. r.stage = "current" /\ r.current = row
    BY DEF Idle
  <1> HIDE DEF r
  <1>4. request \in [Requests -> RequestRow]
    BY RequestNow
  <1>5. QED
    BY <1>1, <1>2, <1>3, <1>4, NextStage DEF Insert

\* Apart from its insertion, an order gets into a request's hands only while it is open.
LEMMA HandStep ==
    ASSUME MInv, NEW p \in Requests, Place(p), ~Insert(p), NEW o \in InHand(request'[p])
    PROVE  o \in InHand(request[p]) \/ (o \in OrderIds /\ Open(orders[o]))
  <1> DEFINE r == request[p]
             s == request'[p]
  <1>1. r.current.id \in OrderIds /\ \A q \in OrderIds : orders[q].id = q
    BY RequestNow DEF OrderRow, MInv, TablesInv, RowOK
  <1>2. s.stage \in Looping
    BY DEF InHand, Looping, Matched
  <1>3. CASE ReadFunds(p) \/ CheckReserved(p) \/ ReadReference(p) \/ RequestFails(p)
    BY <1>2, <1>3, NextStage DEF Looping
  <1>4. CASE ReadCurrent(p)
    <2>1. r.stage = "current"
      BY <1>4 DEF ReadCurrent
    <2>2. s.stage \in {"latest", "find"} /\ s.current.id = r.current.id
      BY <1>1, <1>2, <1>4, NextStage DEF Looping
    <2>3. QED
      BY <2>1, <2>2 DEF InHand, Matched, Looping
  <1>5. CASE ReadLatest(p) \/ Activate(p) \/ CancelMatched(p)
    <2>1. r.stage \in {"latest", "activate", "activate_after", "cancel"}
      BY <1>5 DEF ReadLatest, Activate, CancelMatched
    <2>2. s.stage \in {"activate", "find", "current"} /\ s.current = r.current
      BY <1>5, NextStage
    <2>3. QED
      BY <2>1, <2>2 DEF InHand, Matched, Looping
  <1>6. CASE FindBestMatch(p)
    <2>1. r.stage = "find"
      BY <1>6 DEF FindBestMatch
    <2>2. PICK q \in OrderIds :
            /\ Open(orders[q])
            /\ s.stage = "trade" /\ s.current = r.current /\ s.matched = orders[q]
      BY <1>2, <1>6, FindStage DEF BestMatches, Matchable, Looping
    <2>3. o \in {r.current.id, q}
      BY <1>1, <2>2 DEF InHand, Matched
    <2>4. QED
      BY <2>1, <2>2, <2>3 DEF InHand, Matched, Looping
  <1>7. CASE Trade(p)
    <2>1. r.stage = "trade"
      BY <1>7, TradeStage
    <2>2. \/ s.stage = "activate_after" /\ s.current = r.current
          \/ s.stage = "cancel" /\ s.current = r.current /\ s.matched = r.matched
      BY <1>7, TradeStage
    <2>3. QED
      BY <2>1, <2>2 DEF InHand, Matched, Looping
  <1>8. QED
    BY <1>3, <1>4, <1>5, <1>6, <1>7 DEF Place

\* The user and the side of an order never change.
LEMMA TermsKept ==
    ASSUME MInv, [Next]_vars, NEW o \in Inserted
    PROVE  /\ o \in OrderIds /\ Successor(orders[o], orders'[o])
           /\ orders'[o].user = orders[o].user /\ orders'[o].side = orders[o].side
           /\ orders'[o].quantity = orders[o].quantity
           /\ orders'[o].price = orders[o].price /\ orders'[o].type = orders[o].type
  <1>1. o \in OrderIds /\ orders[o].status # "none"
    BY DEF Inserted
  <1>2. Successor(orders[o], orders'[o])
    BY <1>1, StepTables DEF TablesGrow, OrdersGrow
  <1>3. QED
    BY <1>1, <1>2 DEF Successor

\* A quiet step commits no more tokens than before.
LEMMA QuietCommits ==
    ASSUME MInv, TracksInv, [Next]_vars, Quiet,
           request' = request \/ \E p \in Requests : Place(p) /\ ~Insert(p),
           Serial, NEW u
    PROVE  /\ SumOf(Left', Committed(u)') <= SumOf(Left, Committed(u))
           /\ SumOf(Left', Committed(u)') \in Int
  <1>1. ASSUME NEW o \in Committed(u)'
        PROVE  o \in Committed(u)
    <2>1. o \in Inserted
      BY DEF Committed, Inserted, Quiet, OrdersQuiet
    <2>2. orders[o].user = u /\ orders[o].side = "sell"
      BY <2>1, TermsKept DEF Committed
    <2>3. Open(orders'[o]) => Open(orders[o])
      BY <2>1, TermsKept DEF Quiet, OrdersQuiet, Open, OpenOrderStatuses
    <2>4. ASSUME NEW q \in Requests, o \in InHand(request'[q])
          PROVE  Open(orders[o]) \/ \E p \in Requests : o \in InHand(request[p])
      <3>1. CASE request' = request
        BY <2>4, <3>1
      <3>2. ASSUME NEW p \in Requests, Place(p), ~Insert(p)
            PROVE  Open(orders[o]) \/ o \in InHand(request[p])
        <4>1. p = q
          BY DEF Serial
        <4>2. QED
          BY <2>4, <3>2, <4>1, HandStep
      <3>3. QED
        BY <3>1, <3>2
    <2>5. QED
      BY <2>1, <2>2, <2>3, <2>4 DEF Committed
  <1>2. ASSUME NEW o \in Committed(u) PROVE Left'[o] = Left[o]
    <2>1. o \in Inserted
      BY DEF Committed
    <2>2. QED
      BY <2>1, TermsKept DEF Quiet, OrdersQuiet, Left
  <1>3. QED
    BY <1>1, <1>2, CommitLess

\* An inserted sell order commits what it asks for, of its user's tokens alone.
LEMMA InsertCommits ==
    ASSUME Serial, MInv, MInv', TracksInv, [Next]_vars, NEW p \in Requests, Insert(p), NEW u
    PROVE  LET input == request[p].input
               more == IF input.side = "sell" /\ input.user = u THEN input.quantity ELSE 0
           IN  /\ SumOf(Left', Committed(u)') <= SumOf(Left, Committed(u)) + more
               /\ SumOf(Left', Committed(u)') \in Int
  <1> DEFINE input == request[p].input
             o == FirstFree
             row == NewRow(o, input, request[p].triggered)
             C == Committed(u)
  <1>1. orders' = [orders EXCEPT ![o] = row] /\ o \in OrderIds /\ orders[o].status = "none"
    BY FirstFreeIs DEF Insert, FirstFree
  <1>2. /\ row.side = input.side /\ row.user = input.user /\ row.filled = 0
        /\ row.quantity = input.quantity
    BY DEF NewRow
  <1>3. input.quantity \in Nat /\ orders \in [OrderIds -> OrderRow]
    BY RequestNow, MarketAssumption DEF Input, MInv, TablesInv, DBTypeOK
  <1> HIDE DEF o, row, input
  <1>4. /\ C \in SUBSET OrderIds /\ IsFiniteSet(C)
        /\ \A q \in OrderIds : Left[q] \in Nat
        /\ SumOf(Left, C) \in Int
    BY CommittedFinite
  <1>5. o \notin C /\ \A q \in OrderIds \ {o} : orders'[q] = orders[q]
    BY <1>1, <1>3 DEF Committed, Inserted
  <1>6. Left'[o] = input.quantity /\ \A q \in OrderIds \ {o} : Left'[q] = Left[q]
    <2>1. orders'[o] = row
      BY <1>1, <1>3
    <2>2. Left'[o] = row.quantity - row.filled
      BY <1>1, <2>1 DEF Left
    <2>3. QED
      BY <1>2, <1>3, <1>5, <2>2 DEF Left
  <1>7. ASSUME NEW q \in Committed(u)', q # o PROVE q \in C
    <2>1. q \in OrderIds /\ orders'[q] = orders[q]
      BY <1>5, <1>7 DEF Committed, Inserted
    <2>2. ASSUME NEW r \in Requests PROVE q \notin InHand(request'[r])
      <3>1. r = p
        BY DEF Serial
      <3>2. QED
        BY <1>7, <3>1, InsertStage DEF InHand, Matched, Looping, o
    <2>3. QED
      BY <2>1, <2>2 DEF Committed, Inserted
  <1>8. o \in Committed(u)' => input.side = "sell" /\ input.user = u
    BY <1>1, <1>2, <1>3 DEF Committed
  <1> HIDE DEF C
  <1>9. CASE o \in Committed(u)'
    <2>1. Committed(u)' \subseteq C \cup {o}
      BY <1>7
    <2>2. IsFiniteSet(C \cup {o}) /\ \A q \in C \cup {o} : Left'[q] \in Nat
      BY <1>1, <1>3, <1>4, <1>5, <1>6, FS_AddElement
    <2>3. SumOf(Left', Committed(u)') <= SumOf(Left', C \cup {o})
      BY <2>1, <2>2, SumOfPart
    <2>4. SumOf(Left', C \cup {o}) = Left'[o] + SumOf(Left', C)
      BY <1>4, <1>5, <2>2, SumAdd
    <2>5. SumOf(Left', C) = SumOf(Left, C)
      BY <1>4, <1>5, <1>6, SumEqual
    <2>6. IsFiniteSet(Committed(u)')
      BY <2>1, <2>2, FS_Subset
    <2>7. SumOf(Left', Committed(u)') \in Int
      BY <2>1, <2>2, <2>6, SumType
    <2>8. QED
      BY <1>3, <1>4, <1>6, <1>8, <1>9, <2>3, <2>4, <2>5, <2>7 DEF input, C
  <1>10. CASE o \notin Committed(u)'
    <2>1. Committed(u)' \subseteq C
      BY <1>7, <1>10
    <2>2. \A q \in C : Left'[q] = Left[q]
      BY <1>4, <1>5, <1>6
    <2>3. SumOf(Left', Committed(u)') <= SumOf(Left, C) /\ SumOf(Left', Committed(u)') \in Int
      BY <2>1, <2>2, CommitLess DEF C
    <2>4. QED
      BY <1>3, <1>4, <2>3 DEF input, C
  <1>11. QED
    BY <1>9, <1>10

\* A trade takes as many tokens from its seller as it fills the seller's order by.
LEMMA CreateCommits ==
    ASSUME Serial, MInv, MInv', TracksInv, [Next]_vars, NEW p \in Requests,
           NEW t \in TradeIds, Creates(p, t), request'[p].stage = "activate_after",
           request'[p].current = request[p].current, NEW u
    PROVE  /\ u = SellRow(p).user =>
                SumOf(Left', Committed(u)') <= SumOf(Left, Committed(u)) - FillQuantity(p)
           /\ u # SellRow(p).user =>
                SumOf(Left', Committed(u)') <= SumOf(Left, Committed(u))
           /\ SumOf(Left', Committed(u)') \in Int
  <1> DEFINE b == BuyRow(p).id
             s == SellRow(p).id
             q == FillQuantity(p)
             C == Committed(u)
  <1>1. /\ b \in OrderIds /\ s \in OrderIds /\ b # s /\ q \in Nat
        /\ {b, s} = {request[p].current.id, request[p].matched.id}
        /\ orders[b].side = "buy" /\ orders[s].side = "sell"
        /\ orders[b].status # "none" /\ orders[s].status # "none"
        /\ orders[s].user = SellRow(p).user
        /\ orders'[s].filled = orders[s].filled + q
        /\ \A o \in OrderIds \ {b, s} : orders'[o] = orders[o]
    BY MatchFills DEF Creates, TracksInv
  <1>2. InHand(request[p]) = {b, s}
    BY <1>1 DEF InHand, Matched, Creates
  <1>3. InHand(request'[p]) \subseteq {b, s}
    BY <1>1 DEF InHand, Matched, Looping
  <1> HIDE DEF b, s, q
  <1>4. /\ C \in SUBSET OrderIds /\ IsFiniteSet(C)
        /\ \A o \in OrderIds : Left[o] \in Nat
        /\ SumOf(Left, C) \in Int
    BY CommittedFinite
  <1>5. ASSUME NEW o \in Committed(u)' PROVE o \in C
    <2>1. o \in Inserted
      BY <1>1 DEF Committed, Inserted
    <2>2. orders[o].user = u /\ orders[o].side = "sell"
      BY <2>1, TermsKept DEF Committed
    <2>3. CASE o \in {b, s}
      BY <1>2, <2>1, <2>2, <2>3 DEF Committed
    <2>4. CASE o \notin {b, s}
      <3>1. orders'[o] = orders[o]
        BY <1>1, <2>1, <2>4 DEF Inserted
      <3>2. \A r \in Requests : o \notin InHand(request'[r])
        BY <1>3, <2>4 DEF Serial
      <3>3. QED
        BY <2>1, <2>2, <3>1, <3>2 DEF Committed
    <2>5. QED
      BY <2>3, <2>4
  <1>6. ASSUME NEW o \in C, o # s PROVE Left'[o] = Left[o]
    <2>1. o # b /\ o \in OrderIds
      BY <1>1, <1>4 DEF Committed
    <2>2. QED
      BY <1>1, <1>6, <2>1 DEF Left
  <1>7. CASE u = SellRow(p).user
    <2>1. s \in C
      BY <1>1, <1>2, <1>7 DEF Committed, Inserted
    <2>2. orders'[s].quantity = orders[s].quantity
      BY <2>1, TermsKept DEF Committed
    <2>3. orders[s].quantity \in Nat /\ orders[s].filled \in Nat
      BY <1>1, MarketAssumption DEF MInv, TablesInv, DBTypeOK, OrderRow
    <2>4. Left'[s] = Left[s] - q
      BY <1>1, <2>2, <2>3 DEF Left
    <2>5. \A o \in OrderIds : Left'[o] \in Nat
      <3>1. ASSUME NEW o \in OrderIds PROVE orders'[o].quantity - orders'[o].filled \in Nat
        <4>1. orders'[o] \in OrderRow /\ orders'[o].filled <= orders'[o].quantity
          BY DEF MInv, TablesInv, DBTypeOK
        <4>2. QED
          BY <4>1, MarketAssumption DEF OrderRow
      <3>2. QED
        BY <3>1 DEF Left
    <2> HIDE DEF C
    <2>6. /\ \A o \in C : Left[o] \in Int /\ Left'[o] \in Int
          /\ \A o \in C \ {s} : Left'[o] = Left[o]
      BY <1>4, <1>6, <2>5
    <2>7. SumOf(Left', C) = SumOf(Left, C) + (Left'[s] - Left[s])
      BY <1>4, <2>1, <2>6, SumUpdate
    <2>8. Committed(u)' \subseteq C /\ IsFiniteSet(Committed(u)')
      BY <1>4, <1>5, FS_Subset
    <2>9. SumOf(Left', Committed(u)') <= SumOf(Left', C)
          /\ SumOf(Left', Committed(u)') \in Int
      BY <1>4, <2>5, <2>8, SumOfPart, SumType
    <2>10. Left[s] \in Nat
      BY <1>1, <1>4
    <2>11. QED
      BY <1>1, <1>4, <1>7, <2>4, <2>7, <2>9, <2>10 DEF q, C
  <1>8. CASE u # SellRow(p).user
    <2>1. s \notin C
      BY <1>1, <1>8 DEF Committed
    <2>2. \A o \in C : Left'[o] = Left[o]
      BY <1>6, <2>1
    <2>3. QED
      BY <1>5, <1>8, <2>2, CommitLess
  <1>9. QED
    BY <1>7, <1>8

\* What the reservations add up to, as a sum of the function of what is left.
LEMMA LeftSum ==
    ASSUME NEW S \in SUBSET OrderIds, IsFiniteSet(S)
    PROVE  MapThenSumSet(LAMBDA o : orders[o].quantity - orders[o].filled, S) = SumOf(Left, S)
  <1> DEFINE f == Left
             G == CHOOSE g : g = [s \in SUBSET S |-> IF s = {} THEN 0
                      ELSE LET x == CHOOSE x \in s : TRUE
                           IN (orders[x].quantity - orders[x].filled) + g[s \ {x}]]
  <1>1. MapThenSumSet(LAMBDA o : orders[o].quantity - orders[o].filled, S) = G[S]
    BY DEF MapThenSumSet, MapThenFoldSet
  <1>2. PICK g : Sums(g, f, S)
    BY SumsExist
  <1>3. \A s \in SUBSET S : s # {} =>
          f[Pick(s)] = orders[Pick(s)].quantity - orders[Pick(s)].filled
    BY DEF Pick, Left
  <1>4. g = [s \in SUBSET S |-> IF s = {} THEN 0
                ELSE LET x == CHOOSE x \in s : TRUE
                     IN (orders[x].quantity - orders[x].filled) + g[s \ {x}]]
    <2> HIDE DEF f
    <2>1. \A s \in SUBSET S : s # {} =>
            g[s] = (orders[Pick(s)].quantity - orders[Pick(s)].filled) + g[s \ {Pick(s)}]
      BY <1>2, <1>3 DEF Sums
    <2>2. g = [s \in SUBSET S |-> g[s]] /\ g[{}] = 0
      BY <1>2 DEF Sums
    <2>3. QED
      BY <2>1, <2>2 DEF Pick
  <1>5. G = [s \in SUBSET S |-> IF s = {} THEN 0
                ELSE LET x == CHOOSE x \in s : TRUE
                     IN (orders[x].quantity - orders[x].filled) + G[s \ {x}]]
    BY <1>4
  <1>6. Sums(G, f, S)
    <2> HIDE DEF f, G
    <2>1. \A s \in SUBSET S : s # {} =>
            G[s] = (orders[Pick(s)].quantity - orders[Pick(s)].filled) + G[s \ {Pick(s)}]
      BY <1>5 DEF Pick
    <2>2. G = [s \in SUBSET S |-> G[s]] /\ G[{}] = 0
      BY <1>5
    <2>3. QED
      BY <1>3, <2>1, <2>2 DEF Sums
  <1>7. QED
    BY <1>1, <1>6, SumsGiveSum

\* What open sell orders reserve is part of what is committed, and all of it while no
\* request holds an order.
LEMMA ReservedIsCommitted ==
    ASSUME MInv, TracksInv, NEW u
    PROVE  /\ ReservedSell(u) \in Int /\ ReservedSell(u) <= SumOf(Left, Committed(u))
           /\ (\A p \in Requests : InHand(request[p]) = {}) =>
                ReservedSell(u) = SumOf(Left, Committed(u))
  <1> DEFINE S == OpenOrdersOf(u, "sell")
  <1>1. S \subseteq Committed(u)
    BY DEF OpenOrdersOf, Committed, Inserted, Open, OpenOrderStatuses
  <1>2. (\A p \in Requests : InHand(request[p]) = {}) => S = Committed(u)
    BY DEF OpenOrdersOf, Committed, Inserted, Open, OpenOrderStatuses
  <1>3. /\ Committed(u) \in SUBSET OrderIds /\ IsFiniteSet(Committed(u))
        /\ SumOf(Left, Committed(u)) \in Int
    BY CommittedFinite
  <1>4. IsFiniteSet(S) /\ S \in SUBSET OrderIds
    BY <1>1, <1>3, FS_Subset
  <1>5. ReservedSell(u) = SumOf(Left, S)
    <2> HIDE DEF S
    <2>1. MapThenSumSet(LAMBDA o : orders[o].quantity - orders[o].filled, S) = SumOf(Left, S)
      BY <1>4, LeftSum
    <2>2. QED
      BY <2>1 DEF ReservedSell, S
  <1> HIDE DEF S
  <1>6. SumOf(Left, S) <= SumOf(Left, Committed(u)) /\ SumOf(Left, S) \in Int
    BY <1>1, CommitLess
  <1>7. QED
    BY <1>2, <1>5, <1>6

\* Before its insertion, an order's request holds the funds read and what was asked for.
LEMMA FundsStage ==
    ASSUME MInv, NEW p \in Requests, Place(p)
    PROVE  LET r == request[p]
               s == request'[p]
           IN  \/ s.stage \notin {"reserved", "reference", "insert"}
               \/ /\ ReadFunds(p) /\ s.stage = "reserved"
                  /\ s.input.side = "sell" => s.funds = balance[s.input.user]
               \/ /\ CheckReserved(p) /\ r.stage = "reserved"
                  /\ s.stage \in {"reference", "insert"} /\ s.input = r.input
                  /\ r.input.side = "sell" =>
                       r.funds - ReservedSell(r.input.user) >= r.input.quantity
               \/ /\ ReadReference(p) /\ r.stage = "reference"
                  /\ s.stage = "insert" /\ s.input = r.input
  <1> DEFINE r == request[p]
             s == request'[p]
  <1>1. request \in [Requests -> RequestRow] /\ r \in RequestRow
    BY RequestNow
  <1>2. CASE ReadFunds(p)
    <2>1. PICK input \in Inputs : request' = [request EXCEPT ![p] = [Idle EXCEPT
              !.stage = "reserved", !.input = input,
              !.funds = IF input.side = "buy" THEN Sats[input.user] ELSE balance[input.user]]]
      BY <1>2 DEF ReadFunds
    <2> DEFINE funds == IF input.side = "buy" THEN Sats[input.user] ELSE balance[input.user]
               n == [Idle EXCEPT !.stage = "reserved", !.input = input, !.funds = funds]
    <2>2. input.side = "sell" => funds = balance[input.user]
      OBVIOUS
    <2> HIDE DEF funds
    <2>3. n.stage = "reserved" /\ n.input = input /\ n.funds = funds
      BY DEF Idle
    <2>4. request' = [request EXCEPT ![p] = n]
      BY <2>1 DEF funds
    <2> HIDE DEF n
    <2>5. s = n
      BY <1>1, <2>4
    <2>6. QED
      BY <1>2, <2>2, <2>3, <2>5
  <1>3. CASE CheckReserved(p)
    <2>1. CASE Done(p)
      BY <2>1, NextStage
    <2>2. CASE ~Done(p)
      <3> DEFINE stage == IF r.input.type = "stop_limit" THEN "reference" ELSE "insert"
                 n == [r EXCEPT !.funds = 0, !.stage = stage]
      <3>1. /\ request' = [request EXCEPT ![p].funds = 0, ![p].stage = stage]
            /\ r.stage = "reserved"
            /\ r.input.side = "sell" =>
                 r.funds - ReservedSell(r.input.user) >= r.input.quantity
        BY <1>3, <2>2 DEF CheckReserved
      <3>2. stage \in {"reference", "insert"}
        OBVIOUS
      <3> HIDE DEF stage
      <3>3. n.stage = stage /\ n.input = r.input
        BY <1>1 DEF RequestRow
      <3>4. s = n
        BY <1>1, <3>1
      <3>5. QED
        BY <1>3, <3>1, <3>2, <3>3, <3>4
    <2>3. QED
      BY <2>1, <2>2
  <1>4. CASE ReadReference(p)
    BY <1>1, <1>4 DEF ReadReference, RequestRow
  <1>5. CASE ReadCurrent(p) \/ ReadLatest(p) \/ Insert(p) \/ Activate(p) \/ CancelMatched(p)
             \/ RequestFails(p)
    BY <1>5, NextStage
  <1>6. CASE FindBestMatch(p)
    BY <1>6, FindStage
  <1>7. CASE Trade(p)
    BY <1>7, TradeStage
  <1>8. QED
    BY <1>2, <1>3, <1>4, <1>5, <1>6, <1>7 DEF Place

\* A step that commits no more and takes nothing keeps the reservations covered.
LEMMA QuietCovers ==
    ASSUME Serial, MInv, MInv', TracksInv, CoverInv, [Next]_vars, Quiet,
           request' = request \/ \E p \in Requests : Place(p) /\ ~Insert(p)
    PROVE  CoverInv'
  <1> DEFINE C == Commitments
             D == Commitments'
  <1>1. ASSUME NEW u \in Users
        PROVE  /\ C[u] \in Int /\ D[u] \in Int /\ D[u] <= C[u] /\ C[u] <= balance[u]
               /\ balance[u] \in Nat /\ balance'[u] \in Nat /\ balance'[u] >= balance[u]
    <2>1. D[u] \in Int /\ D[u] <= C[u]
      BY QuietCommits DEF Commitments
    <2>2. C[u] \in Int
      BY CommittedFinite DEF Commitments
    <2>3. C[u] <= balance[u]
      BY DEF CoverInv
    <2>4. /\ balance[u] \in Nat /\ balance'[u] \in Nat /\ balance'[u] >= balance[u]
      BY DEF MInv, TablesInv, DBTypeOK, Quiet, TradesQuiet
    <2>5. QED
      BY <2>1, <2>2, <2>3, <2>4
  <1>2. \A u \in Users : D[u] <= balance'[u]
    <2> HIDE DEF C, D
    <2>1. QED
      BY <1>1
  <1>3. ASSUME NEW p \in Requests
        PROVE  Covered(request'[p], D, balance')
    <2> DEFINE r == request[p]
               s == request'[p]
               u == s.input.user
    <2> SUFFICES Covered(s, D, balance')
      OBVIOUS
    <2>1. /\ r.input.user \in Users /\ r.funds \in Nat /\ r.input.quantity \in Nat
          /\ r.input \in Input
      BY RequestNow, MarketAssumption DEF Input, RequestRow
    <2>2. u \in Users /\ s.funds \in Nat /\ s.input.quantity \in Nat
      <3>1. request' \in [Requests -> RequestRow]
        BY DEF MInv, TypeOK, RequestRow
      <3>2. s \in RequestRow /\ s.input \in Input
        BY <3>1, MatchingAssumption DEF RequestRow, MatchingAssumption
      <3>3. QED
        BY <3>2, MarketAssumption DEF Input, RequestRow
    <2>3. Covered(r, C, balance)
      BY DEF CoverInv
    <2>4. CASE request' = request
      <3>1. s = r
        BY <2>4
      <3> HIDE DEF C, D, r, s
      <3>2. QED
        BY <1>1, <2>1, <2>2, <2>3, <3>1 DEF Covered, u
    <2>5. CASE Place(p) /\ ~Insert(p)
      <3>1. CASE s.stage \notin {"reserved", "reference", "insert"}
        BY <3>1 DEF Covered
      <3>2. CASE /\ ReadFunds(p) /\ s.stage = "reserved"
                 /\ s.input.side = "sell" => s.funds = balance[s.input.user]
        <4> HIDE DEF C, D, r, s
        <4>1. QED
          BY <1>1, <2>2, <3>2 DEF Covered, u
      <3>3. CASE /\ CheckReserved(p) /\ r.stage = "reserved"
                 /\ s.stage \in {"reference", "insert"} /\ s.input = r.input
                 /\ r.input.side = "sell" =>
                      r.funds - ReservedSell(r.input.user) >= r.input.quantity
        <4>1. \A q \in Requests : InHand(request[q]) = {}
          BY <3>3 DEF Serial, InHand, Matched, Looping
        <4>2. ReservedSell(u) = C[u]
          BY <2>2, <3>3, <4>1, ReservedIsCommitted DEF Commitments
        <4> HIDE DEF C, D, r, s
        <4>3. QED
          BY <1>1, <2>1, <2>2, <2>3, <3>3, <4>2 DEF Covered, u
      <3>4. CASE /\ ReadReference(p) /\ r.stage = "reference"
                 /\ s.stage = "insert" /\ s.input = r.input
        <4> HIDE DEF C, D, r, s
        <4>1. QED
          BY <1>1, <2>1, <2>2, <2>3, <3>4 DEF Covered, u
      <3>5. QED
        BY <2>5, <3>1, <3>2, <3>3, <3>4, FundsStage
    <2>6. QED
      BY <2>4, <2>5 DEF Serial
  <1> HIDE DEF C
  <1>4. QED
    BY <1>2, <1>3 DEF CoverInv

\* An order is inserted only with its tokens covered.
LEMMA InsertCovers ==
    ASSUME Serial, MInv, MInv', TracksInv, CoverInv, [Next]_vars, NEW p \in Requests, Insert(p)
    PROVE  CoverInv'
  <1> DEFINE input == request[p].input
             C == Commitments
             D == Commitments'
  <1>1. /\ request[p].stage = "insert" /\ request'[p].stage \in {"idle", "current"}
        /\ balance' = balance
    BY InsertStage DEF Insert
  <1>2. ASSUME NEW q \in Requests
        PROVE  Covered(request'[q], D, balance')
    BY <1>1 DEF Serial, Covered
  <1>3. ASSUME NEW u \in Users PROVE D[u] <= balance'[u]
    <2> DEFINE more == IF input.side = "sell" /\ input.user = u THEN input.quantity ELSE 0
    <2>1. D[u] <= C[u] + more /\ D[u] \in Int
      BY InsertCommits DEF Commitments
    <2>2. C[u] \in Int /\ C[u] <= balance[u] /\ balance[u] \in Nat
      BY CommittedFinite DEF Commitments, CoverInv, MInv, TablesInv, DBTypeOK
    <2>3. input.quantity \in Nat
      BY RequestNow, MarketAssumption DEF Input
    <2>4. Covered(request[p], C, balance)
      BY DEF CoverInv
    <2> HIDE DEF C, D
    <2>5. CASE input.side = "sell" /\ input.user = u
      BY <1>1, <2>1, <2>2, <2>3, <2>4, <2>5 DEF Covered
    <2>6. CASE ~(input.side = "sell" /\ input.user = u)
      BY <1>1, <2>1, <2>2, <2>6
    <2>7. QED
      BY <2>5, <2>6
  <1> HIDE DEF C
  <1>4. QED
    BY <1>2, <1>3 DEF CoverInv

\* A trade takes no token from its seller that is committed to another order.
LEMMA CreateCovers ==
    ASSUME Serial, MInv, MInv', TracksInv, CoverInv, [Next]_vars, NEW p \in Requests,
           NEW t \in TradeIds, Creates(p, t), Place(p)
    PROVE  CoverInv'
  <1> DEFINE q == FillQuantity(p)
             seller == SellRow(p).user
             C == Commitments
             D == Commitments'
  <1>1. /\ request'[p].stage = "activate_after"
        /\ request'[p].current = request[p].current
    BY RequestNow DEF Creates, RequestRow
  <1>2. ASSUME NEW r \in Requests
        PROVE  Covered(request'[r], D, balance')
    BY <1>1 DEF Serial, Covered
  <1>3. /\ seller \in Users /\ q \in Nat
        /\ balance' = [balance EXCEPT ![seller] = @ - q]
    BY MatchFills DEF Creates, TracksInv
  <1>4. ASSUME NEW u \in Users PROVE D[u] <= balance'[u]
    <2>1. /\ u = seller => D[u] <= C[u] - q
          /\ u # seller => D[u] <= C[u]
          /\ D[u] \in Int
      BY <1>1, CreateCommits DEF Commitments
    <2>2. C[u] \in Int /\ C[u] <= balance[u] /\ balance \in [Users -> Nat]
      BY CommittedFinite DEF Commitments, CoverInv, MInv, TablesInv, DBTypeOK
    <2> HIDE DEF C, D, q, seller
    <2>3. CASE u = seller
      BY <1>3, <2>1, <2>2, <2>3
    <2>4. CASE u # seller
      BY <1>3, <2>1, <2>2, <2>4
    <2>5. QED
      BY <2>3, <2>4
  <1> HIDE DEF C
  <1>5. QED
    BY <1>2, <1>4 DEF CoverInv

\* The commitments stay covered.
LEMMA CoverStep ==
    ASSUME Serial, MInv, MInv', TracksInv, CoverInv, [Next]_vars
    PROVE  CoverInv'
  <1>1. ASSUME NEW p \in Requests, Place(p),
               Quiet \/ Insert(p) \/ \E t \in TradeIds : Creates(p, t)
        PROVE  CoverInv'
    BY <1>1, QuietCovers, InsertCovers, CreateCovers
  <1>2. QED
    BY <1>1, QuietCovers, SerialStep

\* No order is open at first.
LEMMA InitCover == Init => CoverInv
  <1> SUFFICES ASSUME Init PROVE CoverInv
    OBVIOUS
  <1>1. balance \in [Users -> Nat]
    BY MatchingAssumption DEF Init, MatchingAssumption
  <1>2. ASSUME NEW u \in Users PROVE SumOf(Left, Committed(u)) <= balance[u]
    <2>1. Committed(u) = {}
      BY DEF Init, Committed, Inserted, NoRow, NewRow
    <2>2. SumOf(Left, Committed(u)) = 0
      BY <2>1, FS_EmptySet, SumEquation
    <2>3. QED
      BY <1>1, <2>2
  <1>3. \A p \in Requests : request[p].stage = "idle"
    BY DEF Init, Idle
  <1>4. QED
    BY <1>2, <1>3 DEF CoverInv, Covered, Commitments

\* With one place request at a time and no expiry, the check place_order makes when an
\* order is placed keeps every user's open sell orders covered by the balance for good,
\* whatever is matched, cancelled or released later.
THEOREM SellsCovered ==
    ASSUME Serial
    PROVE  Spec => []SellsAreCovered
  <1>1. MInv /\ MInv' /\ TracksInv /\ TracksInv' /\ CoverInv /\ [Next]_vars => CoverInv'
    BY CoverStep
  <1>2. MInv /\ MInv' /\ TracksInv /\ [Next]_vars => TracksInv'
    BY TracksStep
  <1>3. MInv /\ TracksInv /\ CoverInv => SellsAreCovered
    <2> SUFFICES ASSUME MInv, TracksInv, CoverInv, NEW u \in Users
                 PROVE  ReservedSell(u) <= balance[u]
      BY DEF SellsAreCovered
    <2>1. ReservedSell(u) \in Int /\ ReservedSell(u) <= SumOf(Left, Committed(u))
      BY ReservedIsCommitted
    <2>2. SumOf(Left, Committed(u)) \in Int /\ SumOf(Left, Committed(u)) <= balance[u]
      BY CommittedFinite DEF Commitments, CoverInv
    <2>3. balance[u] \in Nat
      BY DEF MInv, TablesInv, DBTypeOK
    <2> HIDE DEF ReservedSell
    <2>4. QED
      BY <2>1, <2>2, <2>3
  <1>4. QED
    BY <1>1, <1>2, <1>3, InitCover, InitTracks, Matching, PTL DEF Spec

-----------------------------------------------------------------------------
(* Price-time priority, one request at a time.                             *)

\* Of two orders the better is decided by their sides, prices and ages.
LEMMA BetterKept ==
    ASSUME MInv, [Next]_vars, NEW a \in Inserted, NEW b \in Inserted
    PROVE  Better(a, b)' <=> Better(a, b)
  <1>1. /\ orders'[a].side = orders[a].side /\ orders'[a].price = orders[a].price
        /\ orders'[b].price = orders[b].price
    BY TermsKept
  <1>2. QED
    BY <1>1 DEF Better

\* A step that cancels an order at most makes none matchable.
LEMMA MatchableShrinks ==
    ASSUME MInv, [Next]_vars, Quiet, orders' = orders \/ \E o \in OrderIds : DeleteOrder(o),
           NEW user, NEW side, NEW price, NEW c \in Matchable(user, side, price)'
    PROVE  c \in Matchable(user, side, price)
  <1>1. /\ c \in OrderIds /\ Open(orders'[c])
        /\ orders'[c].status \in {orders[c].status, "cancelled"}
    BY DEF Matchable, Quiet, OrdersQuiet
  <1>2. Open(orders[c]) /\ c \in Inserted
    BY <1>1 DEF Open, OpenOrderStatuses, Inserted
  <1>3. /\ orders'[c].user = orders[c].user /\ orders'[c].side = orders[c].side
        /\ orders'[c].quantity = orders[c].quantity
        /\ orders'[c].price = orders[c].price /\ orders'[c].type = orders[c].type
        /\ orders'[c].filled = orders[c].filled
    BY <1>1, <1>2, TermsKept DEF Quiet, OrdersQuiet
  <1>4. orders'[c].triggered = orders[c].triggered
    BY <1>1 DEF DeleteOrder, MInv, TablesInv, DBTypeOK, OrderRow
  <1>5. QED
    BY <1>1, <1>2, <1>3, <1>4 DEF Matchable

\* The order a request is about to trade with stays the best there is: others may only
\* be cancelled meanwhile.
LEMMA BestStep ==
    ASSUME Serial, MInv, BestInv, [Next]_vars
    PROVE  BestInv'
  <1>1. ASSUME request' = request, Quiet,
               orders' = orders \/ \E o \in OrderIds : DeleteOrder(o),
               NEW p \in Requests, request[p].stage = "trade",
               NEW c \in Matchable(request[p].current.user, request[p].current.side,
                                   request[p].current.price)'
                           \ {request[p].matched.id}
        PROVE  Better(request[p].matched.id, c)'
    <2> DEFINE mine == request[p].current
               theirs == request[p].matched
    <2>1. c \in Matchable(mine.user, mine.side, mine.price) /\ c # theirs.id
      <3>1. request'[p] = request[p]
        BY <1>1
      <3>2. c \in Matchable(mine.user, mine.side, mine.price)' /\ c # theirs.id
        BY <3>1
      <3>3. QED
        BY <1>1, <3>1, <3>2, MatchableShrinks
    <2>2. Better(theirs.id, c)
      BY <1>1, <2>1 DEF BestInv
    <2>3. theirs.id \in Inserted /\ c \in Inserted
      <3>1. Held(orders, theirs) /\ theirs.id \in OrderIds
        BY <1>1, RequestNow DEF RequestOK, Matched, OrderRow
      <3>2. QED
        BY <2>1, <3>1 DEF Held, Successor, Inserted, Matchable, Open, OpenOrderStatuses
    <2>4. QED
      BY <1>1, <2>2, <2>3, BetterKept
  <1>2. ASSUME NEW p \in Requests, Place(p), request'[p].stage = "trade"
        PROVE  FindBestMatch(p)
    <2>1. ~Trade(p)
      BY <1>2, TradeStage
    <2>2. QED
      BY <1>2, <2>1, NextStage DEF Place
  <1>3. ASSUME NEW p \in Requests, FindBestMatch(p), request'[p].stage = "trade",
               NEW c \in Matchable(request[p].current.user, request[p].current.side,
                                   request[p].current.price)'
                           \ {request'[p].matched.id}
        PROVE  Better(request[p].matched.id, c)'
    <2> DEFINE mine == request[p].current
    <2>1. orders' = orders /\ \A o \in OrderIds : orders[o].id = o
      BY <1>3 DEF FindBestMatch, db, MInv, TablesInv, RowOK
    <2>2. PICK o \in BestMatches(mine.user, mine.side, mine.price) :
            request'[p].current = mine /\ request'[p].matched = orders[o]
      BY <1>3, FindStage
    <2>3. c \in Matchable(mine.user, mine.side, mine.price)
      BY <1>3, <2>1, <2>2 DEF Matchable, Open
    <2>4. o \in OrderIds /\ request'[p].matched.id = o
      BY <2>1, <2>2 DEF BestMatches, Matchable
    <2>5. Better(o, c)
      BY <1>3, <2>2, <2>3, <2>4 DEF BestMatches
    <2>6. QED
      BY <2>1, <2>4, <2>5 DEF Better
  <1>4. ASSUME request' = request, Quiet, orders' = orders \/ \E o \in OrderIds : DeleteOrder(o)
        PROVE  BestInv'
    BY <1>1, <1>4 DEF BestInv
  <1>5. ASSUME NEW p \in Requests, Place(p) PROVE BestInv'
    BY <1>2, <1>3, <1>5 DEF BestInv, Serial
  <1>6. QED
    BY <1>4, <1>5, SerialStep

\* With one place request at a time and no expiry, every trade is made with the best
\* order there is: the cheapest ask or the highest bid, and the older of two at one price.
THEOREM BestPrice ==
    ASSUME Serial
    PROVE  Spec => TradesAtBestPrice
  <1> DEFINE Best(t) ==
        \E p \in Requests :
            LET mine == request[p].current
                theirs == request[p].matched
            IN  /\ {mine.id, theirs.id} = {trades'[t].buyOrder, trades'[t].sellOrder}
                /\ \A o \in Matchable(mine.user, mine.side, mine.price) \ {theirs.id} :
                     Better(theirs.id, o)
  <1>1. Init => BestInv
    BY DEF Init, Idle, BestInv
  <1>2. MInv /\ BestInv /\ [Next]_vars => BestInv'
    BY BestStep
  <1>3. MInv /\ MInv' /\ TracksInv /\ [Next]_vars => TracksInv'
    BY TracksStep
  <1>4. ASSUME MInv, TracksInv, BestInv, [Next]_vars, NEW t \in TradeIds,
               trades[t].status = "none", trades'[t].status = "pending"
        PROVE  Best(t)
    <2>1. ~Quiet
      BY <1>4 DEF Quiet, TradesQuiet
    <2>2. PICK p \in Requests : Insert(p) \/ \E u \in TradeIds : Creates(p, u)
      BY <1>4, <2>1, SerialStep
    <2>3. ~Insert(p)
      BY <1>4 DEF Insert
    <2>4. PICK u \in TradeIds : Creates(p, u)
      BY <2>2, <2>3
    <2>5. /\ \A v \in TradeIds \ {u} : trades'[v] = trades[v]
          /\ {request[p].current.id, request[p].matched.id}
               = {trades'[u].buyOrder, trades'[u].sellOrder}
      BY <1>4, <2>4, MatchFills DEF Creates, TracksInv
    <2>6. t = u
      BY <1>4, <2>5
    <2>7. QED
      BY <1>4, <2>4, <2>5, <2>6 DEF BestInv, Creates
  <1>5. MInv /\ TracksInv /\ BestInv /\ [Next]_vars =>
          \A t \in TradeIds :
             trades[t].status = "none" /\ trades'[t].status = "pending" => Best(t)
    BY <1>4
  <1>6. QED
    BY <1>1, <1>2, <1>3, <1>5, InitTracks, Matching, PTL DEF Spec, TradesAtBestPrice

-----------------------------------------------------------------------------
(* An uncrossed book, one request at a time.                               *)

\* Every request runs to its end, and asks for a limit order.
Steady == Fragile = {} /\ \A input \in Inputs : input.type = "limit"

\* Finitely many orders of one side have a best.
LEMMA BestOf ==
    ASSUME MInv, NEW S \in SUBSET OrderIds, IsFiniteSet(S), S # {},
           \A a, b \in S : orders[a].side = orders[b].side
    PROVE  \E o \in S : \A c \in S \ {o} : Better(o, c)
  <1> DEFINE HasBest(w) == \E o \in w : \A c \in w \ {o} : Better(o, c)
             Bad == {w \in SUBSET S : w # {} /\ ~HasBest(w)}
  <1>1. SUFFICES ASSUME Bad # {} PROVE FALSE
    OBVIOUS
  <1>2. PICK m \in Bad : \A w \in Bad : ~(w \subseteq m /\ w # m)
    <2>1. Bad \in SUBSET (SUBSET S)
      OBVIOUS
    <2> HIDE DEF Bad
    <2>2. QED
      BY <1>1, <2>1, SubsetMinimum
  <1>3. m \in SUBSET S /\ m # {} /\ ~HasBest(m)
    BY <1>2
  <1>4. PICK x \in m : TRUE
    BY <1>3
  <1>5. m \ {x} # {}
    BY <1>3, <1>4
  <1>6. HasBest(m \ {x})
    <2>1. m \ {x} \subseteq m /\ m \ {x} # m /\ m \ {x} \in SUBSET S
      BY <1>3, <1>4
    <2>2. m \ {x} \notin Bad
      BY <1>2, <2>1
    <2>3. QED
      BY <1>5, <2>1, <2>2
  <1>7. PICK o \in m \ {x} : \A c \in (m \ {x}) \ {o} : Better(o, c)
    BY <1>6
  <1>8. \A a \in S : a \in Nat /\ orders[a].price \in Nat /\ orders[a].side = orders[x].side
    BY <1>3, <1>4, MarketAssumption, MatchingAssumption
    DEF MatchingAssumption, MInv, TablesInv, DBTypeOK, OrderRow
  <1>9. CASE Better(o, x)
    <2>1. \A c \in m \ {o} : Better(o, c)
      BY <1>7, <1>9
    <2>2. QED
      BY <1>3, <1>7, <2>1
  <1>10. CASE ~Better(o, x)
    <2>1. Better(x, o)
      BY <1>3, <1>4, <1>7, <1>8, <1>10 DEF Better
    <2>2. ASSUME NEW c \in m \ {x} PROVE Better(x, c)
      <3>1. CASE c = o
        BY <2>1, <3>1
      <3>2. CASE c # o
        <4>1. Better(o, c) /\ c \in S /\ o \in S /\ x \in S
          BY <1>3, <1>4, <1>7, <2>2, <3>2
        <4>2. QED
          BY <1>8, <2>1, <4>1 DEF Better
      <3>3. QED
        BY <3>1, <3>2
    <2>3. QED
      BY <1>3, <1>4, <2>2
  <1>11. QED
    BY <1>9, <1>10

\* find_best_match finds an order whenever there is a candidate.
LEMMA BestExists ==
    ASSUME MInv, TracksInv, NEW user, NEW side \in {"buy", "sell"}, NEW price,
           BestMatches(user, side, price) = {}
    PROVE  Matchable(user, side, price) = {}
  <1> DEFINE M == Matchable(user, side, price)
  <1>1. M \subseteq Inserted /\ M \subseteq OrderIds
    BY DEF Matchable, Inserted, Open, OpenOrderStatuses
  <1>2. IsFiniteSet(M) /\ M \in SUBSET OrderIds
    BY <1>1, FS_Subset DEF TracksInv
  <1>3. \A a, b \in M : orders[a].side = orders[b].side
    BY DEF Matchable, MInv, TablesInv, DBTypeOK, OrderRow
  <1>4. ~\E o \in M : \A c \in M \ {o} : Better(o, c)
    BY DEF BestMatches
  <1> HIDE DEF M
  <1>5. M = {}
    BY <1>2, <1>3, <1>4, BestOf
  <1>6. QED
    BY <1>5 DEF M

\* The order a request takes into its hands is open, or in its hands already.
LEMMA MatchedStep ==
    ASSUME MInv, NEW p \in Requests, Place(p), request'[p].stage \in Matched
    PROVE  \/ request[p].stage \in Matched /\ request'[p].matched = request[p].matched
           \/ \E o \in OrderIds : Open(orders[o]) /\ request'[p].matched.id = o
  <1>1. FindBestMatch(p) \/ Trade(p)
    BY NextStage DEF Place, Matched
  <1>2. CASE FindBestMatch(p)
    <2>1. \A o \in OrderIds : orders[o].id = o
      BY DEF MInv, TablesInv, RowOK
    <2>2. QED
      BY <1>2, <2>1, FindStage DEF Matched, BestMatches, Matchable
  <1>3. CASE Trade(p)
    BY <1>3, TradeStage DEF Matched
  <1>4. QED
    BY <1>1, <1>2, <1>3

\* In the match loop a request goes on with its order, until nothing is left of it or
\* nothing matches it.
LEMMA LoopStep ==
    ASSUME Steady, MInv, NEW p \in Requests, Place(p), request[p].stage \in Looping
    PROVE  \/ /\ request'[p].stage \in Looping
              /\ request'[p].current.id = request[p].current.id
           \/ orders' = orders /\ Remaining(orders[request[p].current.id]) = 0
           \/ /\ orders' = orders /\ request[p].stage = "find" /\ request'[p].stage = "idle"
              /\ BestMatches(request[p].current.user, request[p].current.side,
                             request[p].current.price) = {}
  <1>1. orders[request[p].current.id].id = request[p].current.id
    BY RequestNow DEF OrderRow, MInv, TablesInv, RowOK
  <1>2. CASE ReadCurrent(p)
    <2>1. orders' = orders
      BY <1>2 DEF ReadCurrent, db
    <2>2. CASE Remaining(orders[request[p].current.id]) = 0
      BY <2>1, <2>2
    <2>3. CASE Remaining(orders[request[p].current.id]) # 0
      <3> DEFINE row == orders[request[p].current.id]
                 stage == IF row.type = "stop_limit" THEN "latest" ELSE "find"
                 r == [Idle EXCEPT !.stage = stage, !.input = request[p].input, !.current = row]
      <3>1. request' = [request EXCEPT ![p] = r]
        BY <1>2, <2>3 DEF ReadCurrent
      <3>2. stage \in {"latest", "find"}
        OBVIOUS
      <3> HIDE DEF row, stage
      <3>3. r.stage = stage /\ r.current = row
        BY DEF Idle
      <3> HIDE DEF r
      <3>4. request'[p] = r
        BY <3>1, RequestNow
      <3>5. QED
        BY <1>1, <3>2, <3>3, <3>4 DEF Looping, row
    <2>4. QED
      BY <2>2, <2>3
  <1>3. CASE ReadLatest(p) \/ Activate(p) \/ CancelMatched(p)
    BY <1>3, NextStage DEF Looping
  <1>4. CASE FindBestMatch(p)
    BY <1>4, FindStage DEF FindBestMatch, db, Looping
  <1>5. CASE Trade(p)
    BY <1>5, TradeStage DEF Looping
  <1>6. ~ReadFunds(p) /\ ~CheckReserved(p) /\ ~ReadReference(p) /\ ~Insert(p) /\ ~RequestFails(p)
    BY DEF ReadFunds, CheckReserved, ReadReference, Insert, RequestFails, Looping, Steady
  <1>7. QED
    BY <1>2, <1>3, <1>4, <1>5, <1>6 DEF Place

\* A quiet step exposes no order that was not exposed.
LEMMA ExposedShrinks ==
    ASSUME MInv, [Next]_vars, Quiet,
           request' = request \/ (Serial /\ \E p \in Requests : Place(p)),
           NEW o \in OrderIds, Exposed(o)'
    PROVE  Exposed(o) /\ o \in Inserted
  <1>1. /\ o \in Inserted' /\ orders'[o].filled < orders'[o].quantity
        /\ Open(orders'[o]) \/ \E q \in Requests : request'[q].stage \in Matched
                                                  /\ o = request'[q].matched.id
    BY DEF Exposed
  <1>2. o \in Inserted
    BY <1>1 DEF Inserted, Quiet, OrdersQuiet
  <1>3. orders[o].filled < orders[o].quantity
    BY <1>1, <1>2, TermsKept DEF Quiet, OrdersQuiet
  <1>4. Open(orders'[o]) => Open(orders[o])
    BY <1>2, TermsKept DEF Quiet, OrdersQuiet, Open, OpenOrderStatuses
  <1>5. ASSUME NEW q \in Requests, request'[q].stage \in Matched, o = request'[q].matched.id
        PROVE  Exposed(o)
    <2>1. CASE request' = request
      BY <1>2, <1>3, <1>5, <2>1 DEF Exposed
    <2>2. ASSUME Serial, NEW p \in Requests, Place(p)
          PROVE  Exposed(o)
      <3>1. p = q
        BY <2>2 DEF Serial
      <3>2. QED
        BY <1>2, <1>3, <1>5, <2>2, <3>1, MatchedStep DEF Exposed
    <2>3. QED
      BY <2>1, <2>2
  <1>6. QED
    BY <1>1, <1>2, <1>3, <1>4, <1>5 DEF Exposed

\* Nor do two orders cross that did not.
LEMMA CrossingShrinks ==
    ASSUME MInv, [Next]_vars, NEW bid \in Inserted, NEW ask \in Inserted,
           Exposed(bid), Exposed(ask), Crossing(bid, ask)'
    PROVE  Crossing(bid, ask)
  <1>1. /\ orders'[bid].side = orders[bid].side /\ orders'[bid].price = orders[bid].price
        /\ orders'[bid].user = orders[bid].user
        /\ orders'[ask].side = orders[ask].side /\ orders'[ask].price = orders[ask].price
        /\ orders'[ask].user = orders[ask].user
    BY TermsKept
  <1>2. QED
    BY <1>1 DEF Crossing

\* A request that gives up its order leaves it crossing no other.
LEMMA NothingCrosses ==
    ASSUME Serial, Steady, MInv, TracksInv, UncrossedInv, NEW p \in Requests,
           LET row == request[p].current IN
           /\ request[p].stage \in Looping
           /\ \/ Remaining(orders[row.id]) = 0
              \/ /\ request[p].stage = "find"
                 /\ BestMatches(row.user, row.side, row.price) = {},
           NEW bid \in OrderIds, NEW ask \in OrderIds
    PROVE  ~Crossing(bid, ask)
  <1> DEFINE row == request[p].current
             o == row.id
  <1> SUFFICES ASSUME Crossing(bid, ask) PROVE FALSE
    OBVIOUS
  <1>1. o \in {bid, ask}
    BY DEF UncrossedInv, Serial
  <1>2. /\ Held(orders, row) /\ row \in OrderRow /\ o \in OrderIds
        /\ orders[o] \in OrderRow /\ orders[o].filled <= orders[o].quantity
    BY RequestNow DEF RequestOK, OrderRow, MInv, TablesInv, DBTypeOK
  <1>3. CASE Remaining(orders[o]) = 0
    <2>1. orders[o].filled < orders[o].quantity
      BY <1>1 DEF Crossing, Exposed
    <2>2. orders[o].quantity - orders[o].filled = 0
      BY <1>2, <1>3, RemainingOf
    <2>3. QED
      BY <1>2, <2>1, <2>2, MarketAssumption DEF OrderRow
  <1>4. CASE /\ request[p].stage = "find"
             /\ BestMatches(row.user, row.side, row.price) = {}
    <2>1. Matchable(row.user, row.side, row.price) = {}
      BY <1>2, <1>4, BestExists DEF OrderRow
    <2>2. /\ orders[o].user = row.user /\ orders[o].side = row.side
          /\ orders[o].price = row.price
      BY <1>2 DEF Held, Successor
    <2>3. /\ Open(orders[bid]) /\ Open(orders[ask])
          /\ orders[bid].quantity > orders[bid].filled
          /\ orders[ask].quantity > orders[ask].filled
      <3>1. \A q \in Requests : request[q].stage \notin Matched
        BY <1>4 DEF Serial, Matched
      <3>2. \A q \in OrderIds : orders[q].quantity \in Nat /\ orders[q].filled \in Nat
        BY MarketAssumption DEF MInv, TablesInv, DBTypeOK, OrderRow
      <3>3. QED
        BY <3>1, <3>2 DEF Crossing, Exposed
    <2>4. orders[bid].type = "limit" /\ orders[ask].type = "limit"
      BY DEF UncrossedInv, Crossing, Exposed
    <2>5. orders[bid].price \in Nat /\ orders[ask].price \in Nat
      BY MarketAssumption DEF MInv, TablesInv, DBTypeOK, OrderRow
    <2>6. CASE o = bid
      <3>1. ask \in Matchable(row.user, row.side, row.price)
        BY <2>2, <2>3, <2>4, <2>5, <2>6 DEF Crossing, Matchable
      <3>2. QED
        BY <2>1, <3>1
    <2>7. CASE o = ask
      <3>1. bid \in Matchable(row.user, row.side, row.price)
        BY <2>2, <2>3, <2>4, <2>5, <2>7 DEF Crossing, Matchable
      <3>2. QED
        BY <2>1, <3>1
    <2>8. QED
      BY <1>1, <2>6, <2>7
  <1>5. QED
    BY <1>3, <1>4

\* The orders' part of the invariant.
LEMMA LimitsOnly ==
    ASSUME Steady, MInv, UncrossedInv, [Next]_vars,
           Quiet \/ \E p \in Requests : Insert(p) \/ \E t \in TradeIds : Creates(p, t),
           TracksInv
    PROVE  \A o \in Inserted' : orders'[o].type = "limit"
  <1>1. ASSUME NEW o \in Inserted PROVE orders'[o].type = "limit"
    BY TermsKept DEF UncrossedInv
  <1>2. CASE Quiet
    BY <1>1, <1>2 DEF Quiet, OrdersQuiet, Inserted
  <1>3. ASSUME NEW p \in Requests, Insert(p), NEW o \in Inserted'
        PROVE  orders'[o].type = "limit"
    <2> DEFINE row == NewRow(FirstFree, request[p].input, request[p].triggered)
    <2>1. orders' = [orders EXCEPT ![FirstFree] = row]
      BY <1>3 DEF Insert, FirstFree
    <2>2. row.type = "limit"
      BY RequestNow DEF NewRow, Steady
    <2> HIDE DEF row
    <2>3. QED
      BY <1>1, <1>3, <2>1, <2>2 DEF Inserted, MInv, TablesInv, DBTypeOK
  <1>4. ASSUME NEW p \in Requests, NEW t \in TradeIds, Creates(p, t), NEW o \in Inserted'
        PROVE  orders'[o].type = "limit"
    <2>1. o \in Inserted
      BY <1>4, MatchFills DEF Creates, TracksInv, Inserted
    <2>2. QED
      BY <1>1, <2>1
  <1>5. QED
    BY <1>2, <1>3, <1>4

\* A limit order goes on to the match loop when it is inserted.
LEMMA InsertGoesOn ==
    ASSUME Steady, MInv, NEW p \in Requests, Insert(p)
    PROVE  request'[p].stage = "current" /\ request'[p].current.id = FirstFree
  <1> DEFINE row == NewRow(FirstFree, request[p].input, request[p].triggered)
             r == [Idle EXCEPT !.stage = "current", !.input = request[p].input, !.current = row]
  <1>1. request[p].input.type = "limit"
    BY RequestNow DEF Steady
  <1>2. request' = [request EXCEPT ![p] = r]
    BY <1>1 DEF Insert, FirstFree
  <1>3. row.id = FirstFree
    BY DEF NewRow
  <1> HIDE DEF row
  <1>4. r.stage = "current" /\ r.current = row
    BY DEF Idle
  <1> HIDE DEF r
  <1>5. QED
    BY <1>2, <1>3, <1>4, RequestNow

\* Orders of two users that cross are in the hands of the request that inserted one of
\* them: whoever crosses an order that is there already goes on matching until nothing is
\* left of it or nothing crosses it any more.
LEMMA UncrossedStep ==
    ASSUME Serial, Steady, MInv, TracksInv, UncrossedInv, [Next]_vars
    PROVE  UncrossedInv'
  <1>1. \A o \in Inserted' : orders'[o].type = "limit"
    BY LimitsOnly, SerialStep
  <1> SUFFICES ASSUME NEW bid \in OrderIds, NEW ask \in OrderIds, Crossing(bid, ask)'
               PROVE  \E p \in Requests : /\ request'[p].stage \in Looping
                                          /\ request'[p].current.id \in {bid, ask}
    BY <1>1 DEF UncrossedInv
  <1> DEFINE Goal == \E p \in Requests : /\ request'[p].stage \in Looping
                                         /\ request'[p].current.id \in {bid, ask}
  <1>2. Exposed(bid)' /\ Exposed(ask)'
    BY DEF Crossing
  <1>3. Crossing(bid, ask) => \E p \in Requests : /\ request[p].stage \in Looping
                                                  /\ request[p].current.id \in {bid, ask}
    BY DEF UncrossedInv
  <1>4. ASSUME Quiet, request' = request PROVE Goal
    <2>1. Exposed(bid) /\ Exposed(ask) /\ bid \in Inserted /\ ask \in Inserted
      BY <1>2, <1>4, ExposedShrinks
    <2>2. QED
      BY <1>3, <1>4, <2>1, CrossingShrinks
  <1>5. ASSUME Quiet, NEW p \in Requests, Place(p) PROVE Goal
    <2>1. Exposed(bid) /\ Exposed(ask) /\ bid \in Inserted /\ ask \in Inserted
      BY <1>2, <1>5, ExposedShrinks
    <2>2. Crossing(bid, ask)
      BY <2>1, CrossingShrinks
    <2>3. request[p].stage \in Looping /\ request[p].current.id \in {bid, ask}
      BY <1>3, <2>2 DEF Serial
    <2>4. QED
      BY <1>5, <2>2, <2>3, LoopStep, NothingCrosses
  <1>6. ASSUME NEW p \in Requests, Insert(p) PROVE Goal
    <2>1. request'[p].stage = "current" /\ request'[p].current.id = FirstFree
      BY <1>6, InsertGoesOn
    <2>2. CASE FirstFree \in {bid, ask}
      BY <2>1, <2>2 DEF Looping
    <2>3. CASE FirstFree \notin {bid, ask}
      <3>1. orders'[bid] = orders[bid] /\ orders'[ask] = orders[ask]
        BY <1>6, <2>3 DEF Insert, FirstFree, MInv, TablesInv, DBTypeOK
      <3>2. \A q \in Requests : request'[q].stage \notin Matched /\ request[q].stage = "insert"
        BY <1>6, <2>1 DEF Serial, Insert, Matched
      <3>3. Crossing(bid, ask)
        BY <3>1, <3>2 DEF Crossing, Exposed, Inserted, Open
      <3>4. QED
        BY <1>3, <3>2, <3>3 DEF Looping
    <2>4. QED
      BY <2>2, <2>3
  <1>7. ASSUME NEW p \in Requests, NEW t \in TradeIds, Creates(p, t), Place(p) PROVE Goal
    <2> DEFINE c == request[p].current.id
               m == request[p].matched.id
    <2>1. request'[p].stage = "activate_after" /\ request'[p].current = request[p].current
      BY RequestNow, <1>7 DEF Creates, RequestRow
    <2>2. CASE c \in {bid, ask}
      BY <2>1, <2>2 DEF Looping
    <2>3. CASE c \notin {bid, ask}
      <3>1. /\ m \in OrderIds /\ orders[m].status # "none" /\ request[p].stage = "trade"
            /\ orders'[m].filled >= orders[m].filled
            /\ \A o \in OrderIds \ {c, m} : orders'[o] = orders[o]
        <4>1. \A o \in OrderIds : orders[o].filled \in Nat
          BY DEF MInv, TablesInv, DBTypeOK, OrderRow
        <4> DEFINE b == BuyRow(p).id
                   s == SellRow(p).id
                   q == FillQuantity(p)
        <4>2. /\ b \in OrderIds /\ s \in OrderIds /\ {b, s} = {c, m} /\ q \in Nat
              /\ orders[b].status # "none" /\ orders[s].status # "none"
              /\ orders'[b].filled = orders[b].filled + q
              /\ orders'[s].filled = orders[s].filled + q
              /\ \A o \in OrderIds \ {b, s} : orders'[o] = orders[o]
              /\ request[p].stage = "trade"
          BY <1>7, MatchFills DEF Creates, TracksInv
        <4> HIDE DEF b, s, q
        <4>3. m \in {b, s} /\ \A o \in OrderIds \ {c, m} : o \notin {b, s}
          BY <4>2
        <4>4. QED
          BY <4>1, <4>2, <4>3
      <3>2. ASSUME NEW o \in {bid, ask} PROVE Exposed(o) /\ o \in Inserted
        <4>1. CASE o = m
          <5>1. /\ orders'[m].filled < orders'[m].quantity /\ m \in Inserted
                /\ orders'[m].quantity = orders[m].quantity
            BY <1>2, <3>1, <4>1, TermsKept DEF Exposed, Inserted
          <5>2. orders[m].filled < orders[m].quantity
            <6>1. orders[m].filled \in Nat /\ orders[m].quantity \in Nat
              BY <3>1, MarketAssumption DEF MInv, TablesInv, DBTypeOK, OrderRow
            <6>2. orders'[m].filled \in Nat
              BY <1>7, <3>1, <6>1, MatchFills DEF Creates, TracksInv
            <6>3. QED
              BY <3>1, <5>1, <6>1, <6>2
          <5>3. QED
            BY <3>1, <4>1, <5>1, <5>2 DEF Exposed, Matched
        <4>2. CASE o # m
          <5>1. orders'[o] = orders[o]
            BY <2>3, <3>1, <4>2
          <5>2. \A q \in Requests : request'[q].stage \notin Matched
            BY <2>1 DEF Serial, Matched
          <5>3. QED
            BY <1>2, <5>1, <5>2 DEF Exposed, Inserted, Open
        <4>3. QED
          BY <4>1, <4>2
      <3>3. Crossing(bid, ask)
        BY <3>2, CrossingShrinks
      <3>4. QED
        BY <1>3, <2>3, <3>3 DEF Serial
    <2>4. QED
      BY <2>2, <2>3
  <1>8. QED
    BY <1>4, <1>5, <1>6, <1>7, SerialStep

\* With one place request at a time that runs to its end, no expiry and limit orders only,
\* the order book a user is shown between two requests has no bid at or above an ask,
\* except of one user's own orders.
THEOREM Uncrossed ==
    ASSUME Serial, Steady
    PROVE  Spec => []BookIsUncrossed
  <1>1. Init => UncrossedInv
    BY DEF Init, UncrossedInv, Crossing, Exposed, Inserted, NoRow, NewRow
  <1>2. MInv /\ TracksInv /\ UncrossedInv /\ [Next]_vars => UncrossedInv'
    BY UncrossedStep
  <1>3. MInv /\ MInv' /\ TracksInv /\ [Next]_vars => TracksInv'
    BY TracksStep
  <1>4. MInv /\ UncrossedInv => BookIsUncrossed
    <2> SUFFICES ASSUME MInv, UncrossedInv, \A p \in Requests : request[p].stage = "idle",
                        NEW bid \in DOMAIN OrderBook("buy"),
                        NEW ask \in DOMAIN OrderBook("sell"), bid >= ask
                 PROVE  \E u \in Users : \A o \in Listed("buy", bid) \cup Listed("sell", ask) :
                                           orders[o].user = u
      BY DEF BookIsUncrossed
    <2>1. Listed("buy", bid) # {} /\ Listed("sell", ask) # {}
      BY DEF OrderBook
    <2>2. ASSUME NEW b \in Listed("buy", bid), NEW s \in Listed("sell", ask)
          PROVE  orders[b].user = orders[s].user
      <3>1. /\ b \in OrderIds /\ s \in OrderIds /\ Open(orders[b]) /\ Open(orders[s])
            /\ Remaining(orders[b]) > 0 /\ Remaining(orders[s]) > 0
            /\ orders[b].side = "buy" /\ orders[s].side = "sell"
            /\ orders[b].price = bid /\ orders[s].price = ask
        BY DEF Listed
      <3>2. ASSUME NEW o \in OrderIds, Open(orders[o]), Remaining(orders[o]) > 0
            PROVE  Exposed(o)
        <4>1. /\ orders[o] \in OrderRow /\ orders[o].filled <= orders[o].quantity
              /\ orders[o].filled \in Nat /\ orders[o].quantity \in Nat
          BY MarketAssumption DEF MInv, TablesInv, DBTypeOK, OrderRow
        <4>2. Remaining(orders[o]) = orders[o].quantity - orders[o].filled
          BY <4>1, RemainingOf
        <4>3. orders[o].filled < orders[o].quantity
          BY <3>2, <4>1, <4>2
        <4>4. QED
          BY <3>2, <4>3 DEF Exposed, Inserted, Open, OpenOrderStatuses
      <3>3. Exposed(b) /\ Exposed(s)
        BY <3>1, <3>2
      <3>4. orders[s].price <= orders[b].price
        BY <3>1, MarketAssumption DEF MInv, TablesInv, DBTypeOK, OrderRow
      <3>5. ~Crossing(b, s)
        BY <3>1 DEF UncrossedInv, Looping
      <3>6. QED
        BY <3>1, <3>3, <3>4, <3>5 DEF Crossing
    <2>3. PICK b \in Listed("buy", bid) : TRUE
      BY <2>1
    <2>4. orders[b].user \in Users
      BY <2>3 DEF Listed, MInv, TablesInv, DBTypeOK, OrderRow
    <2>5. \A o \in Listed("buy", bid) \cup Listed("sell", ask) : orders[o].user = orders[b].user
      BY <2>1, <2>2
    <2>6. QED
      BY <2>4, <2>5
  <1>5. QED
    BY <1>1, <1>2, <1>3, <1>4, InitTracks, Matching, PTL DEF Spec
=============================================================================
