---------------------------- MODULE OrderMatching ----------------------------
(***************************************************************************)
(* The order book of the marketplace service: POST /orders with its match  *)
(* loop, DELETE /orders/{order_id}, and the escrow watcher's expiry, which *)
(* puts quantities back on the book.                                       *)
(*                                                                         *)
(* Every statement of a place request runs on its own: the handler reads   *)
(* funds, reservations, its order and the best resting order one after the *)
(* other, and passes ROWS read earlier to create_trade_escrow.  Between any *)
(* two of its steps another request, an owner's cancellation or a watcher  *)
(* may run.                                                                *)
(*                                                                         *)
(* The settlement of a funded escrow is EscrowSettlement's subject; here   *)
(* its transactions run on rows that are up to date.                       *)
(***************************************************************************)
EXTENDS MarketplaceDB, FiniteSetsExt

CONSTANTS
    Requests,     \* POST /orders requests in progress at once
    Fragile,      \* requests that may fail or crash half-way
    Watchers,     \* runs of _watch_escrows_once
    Inputs,       \* what requests may ask for
    Sats,         \* wallet balance of each user, on-chain and Lightning
    KycVerified,  \* users with a verified identity
    KycThreshold, \* kyc_trade_threshold_sat; 0 disables the check
    UnitPrice,    \* tokens.unit_price_sat, the price before the first trade
    InitBalance   \* token balances to start from

Input ==
    [user: Users, side: {"buy", "sell"}, type: {"limit", "stop_limit"},
     quantity: 1..MaxQuantity, price: Prices, trigger: Prices]

ASSUME MatchingAssumption ==
    /\ OrderIds \subseteq Nat \ {0} /\ TradeIds \subseteq Nat \ {0}  \* numbered as created
    /\ OrderIds # {} /\ TradeIds # {}
    /\ Inputs \subseteq Input /\ Inputs # {}
    /\ Fragile \subseteq Requests
    /\ Sats \in [Users -> Nat] /\ InitBalance \in [Users -> Nat]
    /\ KycVerified \subseteq Users /\ KycThreshold \in Nat /\ UnitPrice \in Nat

VARIABLES
    latest,   \* the trade created or settled last, 0 before the first
    request,  \* what each place request is doing, with the rows it holds
    watch     \* what each watcher is doing, with the rows it holds

vars == <<db, latest, request, watch>>

Stages == {"idle", "reserved", "reference", "insert", "current", "latest",
           "activate", "find", "trade", "activate_after", "cancel"}

NewRow(o, input, triggered) ==
    [id |-> o, user |-> input.user, side |-> input.side, type |-> input.type,
     quantity |-> input.quantity, price |-> input.price, trigger |-> input.trigger,
     triggered |-> triggered, filled |-> 0, status |-> "open"]

NoInput == CHOOSE input \in Inputs : TRUE
NoRow(o) == [NewRow(o, NoInput, FALSE) EXCEPT !.status = "none"]
AnyOrder == CHOOSE o \in OrderIds : TRUE
AnyTrade == CHOOSE t \in TradeIds : TRUE

Idle == [stage |-> "idle", input |-> NoInput, funds |-> 0, price |-> 0,
         triggered |-> FALSE, current |-> NoRow(AnyOrder), matched |-> NoRow(AnyOrder)]
NoWatch == [trade |-> 0, buyRow |-> NoRow(AnyOrder), sellRow |-> NoRow(AnyOrder)]

NoEscrow == [status |-> "none", signatures |-> {}, metadata |-> NoMetadata]
CreatedRow == [NoEscrow EXCEPT !.status = "created"]

TypeOK ==
    /\ DBTypeOK
    /\ latest \in TradeIds \cup {0}
    /\ request \in [Requests ->
         [stage: Stages, input: Inputs, funds: Nat, price: Nat, triggered: BOOLEAN,
          current: OrderRow, matched: OrderRow]]
    /\ watch \in [Watchers ->
         [trade: TradeIds \cup {0}, buyRow: OrderRow, sellRow: OrderRow]]

Init ==
    /\ orders = [o \in OrderIds |-> NoRow(o)]
    /\ trades = [t \in TradeIds |->
                   [buyOrder |-> AnyOrder, sellOrder |-> AnyOrder,
                    quantity |-> 0, price |-> 0, status |-> "none"]]
    /\ escrows = [t \in TradeIds |-> NoEscrow]
    /\ disputes = [t \in TradeIds |-> "none"]
    /\ balance = InitBalance
    /\ latest = 0
    /\ request = [p \in Requests |-> Idle]
    /\ watch = [w \in Watchers |-> NoWatch]

-----------------------------------------------------------------------------
(* Queries.                                                                *)

Open(row) == row.status \in OpenOrderStatuses

OpenOrdersOf(u, side) ==
    {o \in OrderIds : Open(orders[o]) /\ orders[o].user = u /\ orders[o].side = side}

ReservedSell(u) ==
    MapThenSumSet(LAMBDA o : orders[o].quantity - orders[o].filled, OpenOrdersOf(u, "sell"))

ReservedBuy(u) ==
    MapThenSumSet(LAMBDA o : (orders[o].quantity - orders[o].filled) * orders[o].price,
                  OpenOrdersOf(u, "buy"))

\* get_reference_price_for_token
ReferencePrice == IF latest = 0 THEN UnitPrice ELSE trades[latest].price

Crosses(trigger, side, price) ==
    IF side = "buy" THEN trigger <= price ELSE trigger >= price

\* Mutant: dormant stop orders match too.
MatchableDormant(user, side, price) ==
    {o \in OrderIds :
        /\ Open(orders[o])
        /\ orders[o].user # user
        /\ orders[o].quantity > orders[o].filled
        /\ orders[o].side # side
        /\ IF side = "buy" THEN orders[o].price <= price ELSE orders[o].price >= price}

\* The candidates of find_best_match, and its order: price, then age.
Matchable(user, side, price) ==
    {o \in OrderIds :
        /\ Open(orders[o])
        /\ orders[o].user # user
        /\ orders[o].quantity > orders[o].filled
        /\ orders[o].type = "limit" \/ orders[o].triggered
        /\ orders[o].side # side
        /\ IF side = "buy" THEN orders[o].price <= price ELSE orders[o].price >= price}

Better(a, b) ==
    \/ IF orders[a].side = "sell" THEN orders[a].price < orders[b].price
                                  ELSE orders[a].price > orders[b].price
    \/ orders[a].price = orders[b].price /\ a < b

\* Mutant: the query without its ORDER BY.
AnyMatch(user, side, price) == Matchable(user, side, price)

BestMatches(user, side, price) ==
    LET candidates == Matchable(user, side, price)
    IN  {o \in candidates : \A c \in candidates \ {o} : Better(o, c)}

\* GET /orderbook/{token_id}: the open quantity at each price; dormant stop orders are left out.
Listed(side, price) ==
    {o \in OrderIds :
        /\ Open(orders[o]) /\ orders[o].side = side /\ orders[o].price = price
        /\ Remaining(orders[o]) > 0
        /\ orders[o].type = "limit" \/ orders[o].triggered}

OrderBook(side) ==
    [price \in {p \in Prices : Listed(side, p) # {}} |->
        MapThenSumSet(LAMBDA o : Remaining(orders[o]), Listed(side, price))]

\* activate_triggered_orders
Activated(price) ==
    [o \in OrderIds |->
        IF /\ Open(orders[o]) /\ orders[o].type = "stop_limit" /\ ~orders[o].triggered
           /\ Crosses(orders[o].trigger, orders[o].side, price)
        THEN [orders[o] EXCEPT !.triggered = TRUE] ELSE orders[o]]

CancelledOrder(o) ==
    IF Open(orders[o]) THEN [orders EXCEPT ![o].status = "cancelled"] ELSE orders

Goto(p, stage) == request' = [request EXCEPT ![p].stage = stage]
Done(p) == request' = [request EXCEPT ![p] = Idle]

-----------------------------------------------------------------------------
(* place_order, up to the insertion of the order.                          *)

\* The first query: the wallet of a buyer, the token balance of a seller.
ReadFunds(p) ==
    /\ request[p].stage = "idle"
    /\ \E input \in Inputs :
         request' = [request EXCEPT ![p] = [Idle EXCEPT
             !.stage = "reserved", !.input = input,
             !.funds = IF input.side = "buy" THEN Sats[input.user] ELSE balance[input.user]]]
    /\ UNCHANGED <<db, latest, watch>>

\* Mutant: open orders reserve nothing.
CheckFundsOnly(p) ==
    LET input == request[p].input
        need == IF input.side = "buy" THEN input.quantity * input.price ELSE input.quantity
    IN  /\ request[p].stage = "reserved"
        /\ IF request[p].funds >= need
           THEN request' = [request EXCEPT ![p].funds = 0, ![p].stage =
                              IF input.type = "stop_limit" THEN "reference" ELSE "insert"]
           ELSE Done(p)
        /\ UNCHANGED <<db, latest, watch>>

\* _enforce_kyc_threshold: whatever the status of an unverified user, the order is refused.
Identified(user, total) ==
    KycThreshold = 0 \/ total < KycThreshold \/ user \in KycVerified

\* The second query, the comparison of the two, and the identity check.
CheckReserved(p) ==
    LET input == request[p].input
        total == input.quantity * input.price
        covered == IF input.side = "buy"
                   THEN request[p].funds - ReservedBuy(input.user) >= total
                   ELSE request[p].funds - ReservedSell(input.user) >= input.quantity
    IN  /\ request[p].stage = "reserved"
        /\ IF covered /\ Identified(input.user, total)
           THEN request' = [request EXCEPT ![p].funds = 0, ![p].stage =
                              IF input.type = "stop_limit" THEN "reference" ELSE "insert"]
           ELSE Done(p)
        /\ UNCHANGED <<db, latest, watch>>

ReadReference(p) ==
    LET input == request[p].input IN
    /\ request[p].stage = "reference"
    /\ request' = [request EXCEPT ![p].stage = "insert",
                       ![p].triggered = Crosses(input.trigger, input.side, ReferencePrice)]
    /\ UNCHANGED <<db, latest, watch>>

\* create_order.  A dormant stop order is not matched: the request is over.
Insert(p) ==
    LET input == request[p].input
        o == CHOOSE o \in OrderIds :
               orders[o].status = "none" /\ \A q \in OrderIds : orders[q].status = "none" => o <= q
        row == NewRow(o, input, request[p].triggered)
    IN  /\ request[p].stage = "insert"
        /\ \E free \in OrderIds : orders[free].status = "none"
        /\ orders' = [orders EXCEPT ![o] = row]
        /\ IF input.type = "limit" \/ request[p].triggered
           THEN request' = [request EXCEPT ![p] =
                              [Idle EXCEPT !.stage = "current", !.input = input, !.current = row]]
           ELSE Done(p)
        /\ UNCHANGED <<trades, escrows, disputes, balance, latest, watch>>

-----------------------------------------------------------------------------
(* The match loop of place_order.  It tests what is left of its own order,  *)
(* not whether the order is still open.                                     *)

ReadCurrent(p) ==
    LET row == orders[request[p].current.id] IN
    /\ request[p].stage = "current"
    /\ IF Remaining(row) = 0
       THEN Done(p)
       ELSE request' = [request EXCEPT ![p] =
              [Idle EXCEPT !.stage = IF row.type = "stop_limit" THEN "latest" ELSE "find",
                           !.input = request[p].input, !.current = row]]
    /\ UNCHANGED <<db, latest, watch>>

ReadLatest(p) ==
    /\ request[p].stage = "latest"
    /\ request' = [request EXCEPT ![p].stage = "activate", ![p].price = ReferencePrice]
    /\ UNCHANGED <<db, latest, watch>>

\* Mutant: the loop ends after a trade.
ActivateAndStop(p) ==
    /\ request[p].stage \in {"activate", "activate_after"}
    /\ orders' = Activated(request[p].price)
    /\ IF request[p].stage = "activate" THEN Goto(p, "find") ELSE Done(p)
    /\ UNCHANGED <<trades, escrows, disputes, balance, latest, watch>>

Activate(p) ==
    /\ request[p].stage \in {"activate", "activate_after"}
    /\ orders' = Activated(request[p].price)
    /\ Goto(p, IF request[p].stage = "activate" THEN "find" ELSE "current")
    /\ UNCHANGED <<trades, escrows, disputes, balance, latest, watch>>

FindBestMatch(p) ==
    LET row == request[p].current
        best == BestMatches(row.user, row.side, row.price)
    IN  /\ request[p].stage = "find"
        /\ IF best = {}
           THEN Done(p)
           ELSE \E o \in best :
                  request' = [request EXCEPT ![p].stage = "trade", ![p].matched = orders[o]]
        /\ UNCHANGED <<db, latest, watch>>

BuyRow(p) == IF request[p].current.side = "buy" THEN request[p].current ELSE request[p].matched
SellRow(p) == IF request[p].current.side = "buy" THEN request[p].matched ELSE request[p].current

FillQuantity(p) ==
    LET mine == Remaining(request[p].current)
        theirs == Remaining(request[p].matched)
    IN  IF mine < theirs THEN mine ELSE theirs

\* create_trade_escrow, at the resting order's price.  A seller short of tokens
\* makes the loop cancel the RESTING order, whichever side that is.
Trade(p) ==
    /\ request[p].stage = "trade"
    /\ \/ \E t \in TradeIds :
            /\ \A u \in TradeIds : trades[u].status = "none" => t <= u
            /\ CreateTradeEscrow(t, BuyRow(p), SellRow(p), FillQuantity(p),
                                 request[p].matched.price)
            /\ latest' = t
            /\ request' = [request EXCEPT ![p].stage = "activate_after",
                                          ![p].price = request[p].matched.price]
       \/ /\ balance[SellRow(p).user] < FillQuantity(p)
          /\ Goto(p, "cancel")
          /\ UNCHANGED <<db, latest>>
    /\ UNCHANGED watch

CancelMatched(p) ==
    /\ request[p].stage = "cancel"
    /\ orders' = CancelledOrder(request[p].matched.id)
    /\ Goto(p, "current")
    /\ UNCHANGED <<trades, escrows, disputes, balance, latest, watch>>

\* A database error, a cancelled request or a crash: what was committed stays.
RequestFails(p) ==
    /\ p \in Fragile
    /\ request[p].stage # "idle"
    /\ Done(p)
    /\ UNCHANGED <<db, latest, watch>>

-----------------------------------------------------------------------------
(* The rest of the service.                                                *)

\* Mutant: the UPDATE without its status filter.
DeleteAnyOrder(o) ==
    /\ orders[o].status # "none"
    /\ orders' = [orders EXCEPT ![o].status = "cancelled"]
    /\ UNCHANGED <<trades, escrows, disputes, balance, latest, request, watch>>

\* DELETE /orders/{order_id}: cancel_order checks again what the route checked.
DeleteOrder(o) ==
    /\ Open(orders[o])
    /\ orders' = [orders EXCEPT ![o].status = "cancelled"]
    /\ UNCHANGED <<trades, escrows, disputes, balance, latest, request, watch>>

\* A watcher takes the rows of an escrow whose expires_at has passed, and expires
\* it with them later; it may also fail in between.
WatchRead(w, t) ==
    /\ watch[w] = NoWatch
    /\ escrows[t].status = "created"
    /\ watch' = [watch EXCEPT ![w] =
           [trade |-> t, buyRow |-> orders[trades[t].buyOrder],
            sellRow |-> orders[trades[t].sellOrder]]]
    /\ UNCHANGED <<db, latest, request>>

WatchExpire(w) ==
    LET t == watch[w].trade IN
    /\ t # 0
    /\ \/ ExpireUnfundedEscrow(t, CreatedRow, watch[w].buyRow, watch[w].sellRow)
       \/ UNCHANGED db
    /\ watch' = [watch EXCEPT ![w] = NoWatch]
    /\ UNCHANGED <<latest, request>>

\* What happens to an escrow that is funded in time.
Funded(t) == MarkEscrowFunded(t) /\ UNCHANGED <<latest, request, watch>>

SellerSigns(t) ==
    /\ escrows[t].status = "funded"
    /\ RecordEscrowSignature(t, escrows[t], <<"release", "seller">>, escrows[t].metadata)
    /\ UNCHANGED <<latest, request, watch>>

Released(t) ==
    /\ escrows[t].status = "inspection_pending"
    /\ ProcessEscrowSignature(t, escrows[t].signatures \cup {<<"release", "buyer">>},
                              escrows[t].metadata)
    /\ latest' = t
    /\ UNCHANGED <<request, watch>>

-----------------------------------------------------------------------------
Place(p) ==
    \/ ReadFunds(p) \/ CheckReserved(p) \/ ReadReference(p) \/ Insert(p)
    \/ ReadCurrent(p) \/ ReadLatest(p) \/ Activate(p) \/ FindBestMatch(p) \/ Trade(p)
    \/ CancelMatched(p) \/ RequestFails(p)

Watch(w) == WatchExpire(w) \/ \E t \in TradeIds : WatchRead(w, t)

Escrow(t) == Funded(t) \/ SellerSigns(t) \/ Released(t)

Next ==
    \/ \E p \in Requests : Place(p)
    \/ \E w \in Watchers : Watch(w)
    \/ \E o \in OrderIds : DeleteOrder(o)
    \/ \E t \in TradeIds : Escrow(t)

Spec == Init /\ [][Next]_vars

-----------------------------------------------------------------------------
(* What holds however many requests run at once.                           *)

\* The status of an order is the one its filled quantity calls for, although the
\* two are computed from rows that may be out of date.
StatusMatchesFill ==
    \A o \in OrderIds :
        CASE orders[o].status = "open"             -> orders[o].filled = 0
          [] orders[o].status = "partially_filled" ->
               orders[o].filled \in 1..(orders[o].quantity - 1)
          [] orders[o].status = "filled"           -> orders[o].filled = orders[o].quantity
          [] OTHER                                 -> orders[o].filled < orders[o].quantity

\* A trade joins a buy and a sell order of two users at a price within both
\* limits, and no dormant stop order (specs/database-schema.md, trigger rule).
TradesHonourOrders ==
    \A t \in TradeIds : trades[t].status # "none" =>
        LET b == orders[trades[t].buyOrder]
            s == orders[trades[t].sellOrder]
        IN  /\ b.side = "buy" /\ s.side = "sell" /\ b.user # s.user
            /\ s.price <= trades[t].price /\ trades[t].price <= b.price
            /\ \A row \in {b, s} : row.type = "limit" \/ row.triggered

\* However stale the rows a trade or an expiry is made with, each trade's tokens
\* leave the seller once and go once to the buyer or back (abstract TokenCustody).
CustodyOf(status) ==
    CASE status = "none"      -> "none"
      [] status = "settled"   -> "delivered"
      [] status = "cancelled" -> "returned"
      [] OTHER                -> "locked"

Custody == INSTANCE TokenCustody WITH
    custody <- [t \in TradeIds |-> CustodyOf(trades[t].status)],
    deal <- [t \in TradeIds |->
               IF trades[t].status = "none"
               THEN [buyer |-> NoInput.user, seller |-> NoInput.user, quantity |-> 0]
               ELSE [buyer |-> Buyer(t), seller |-> Seller(t), quantity |-> trades[t].quantity]]

ImplementsCustody == Custody!Spec

-----------------------------------------------------------------------------
(* What holds when place requests do not overlap each other or an expiry,  *)
(* and fails when they do: orders_lost_fill.cfg and orders_uncovered_sells  *)
(* .cfg let two requests overlap, orders_crossed_book.cfg adds stop orders, *)
(* which a trade activates but nobody matches.                              *)

LiveTrades(o) ==
    {t \in TradeIds : /\ o \in {trades[t].buyOrder, trades[t].sellOrder}
                      /\ trades[t].status \notin {"none", "cancelled"}}

\* docs/marketplace-integration.md: filled_quantity tracks cumulative fills.
FilledTracksTrades ==
    \A o \in OrderIds :
        orders[o].filled = MapThenSumSet(LAMBDA t : trades[t].quantity, LiveTrades(o))

\* specs/abuse-controls.md: a sell order is placed only if the balance, less what
\* other open orders reserve, covers it; so it always covers all open orders.
SellsAreCovered == \A u \in Users : ReservedSell(u) <= balance[u]

\* docs/marketplace-integration.md: orders match by price-time priority.  A trade
\* is made with the best order there is.
TradesAtBestPrice ==
    [][\A t \in TradeIds : trades[t].status = "none" /\ trades'[t].status = "pending" =>
         \E p \in Requests :
            LET mine == request[p].current
                theirs == request[p].matched
            IN  /\ {mine.id, theirs.id} = {trades'[t].buyOrder, trades'[t].sellOrder}
                /\ \A o \in Matchable(mine.user, mine.side, mine.price) \ {theirs.id} :
                     Better(theirs.id, o)]_vars

\* docs/marketplace-integration.md: compatible orders are matched.  When no request is at
\* work, GET /orderbook shows no bid at or above an ask, except of one user's own orders,
\* which are not matched with each other.
BookIsUncrossed ==
    (\A p \in Requests : request[p].stage = "idle") =>
        \A bid \in DOMAIN OrderBook("buy"), ask \in DOMAIN OrderBook("sell") :
            bid >= ask =>
                \E u \in Users : \A o \in Listed("buy", bid) \cup Listed("sell", ask) :
                                  orders[o].user = u

-----------------------------------------------------------------------------
(* Claims of the documents that the code does not meet: each has a          *)
(* configuration of its own, in which TLC finds it violated.                *)

\* docs/marketplace-integration.md: "Only the order owner may cancel."  When two trades
\* meet at once, a seller short of tokens makes the match loop cancel the buy order that
\* the seller's order ran into.
BuyOrdersAreCancelledByOwners ==
    [][\A o \in OrderIds :
         /\ orders[o].side = "buy" /\ orders[o].status # "cancelled"
         /\ orders'[o].status = "cancelled"
         => DeleteOrder(o)]_vars

\* docs/marketplace-integration.md: DELETE cancels an open or partially filled order.  A
\* trade made from rows read before the cancellation brings the order back.
CancelledOrdersStayCancelled ==
    [][\A o \in OrderIds :
         orders[o].status = "cancelled" => orders'[o].status = "cancelled"]_vars
=============================================================================
