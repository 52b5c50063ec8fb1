--------------------------- MODULE EscrowSettlement ---------------------------
(***************************************************************************)
(* The life of an escrow in the marketplace service, from the match that   *)
(* creates it to its release, refund or expiry.                            *)
(*                                                                         *)
(* Three kinds of handler work on it, any number of each at once: the      *)
(* escrow watchers (one per replica of the service), the sign requests of  *)
(* the two participants, and the dispute resolutions of the admins.  Each  *)
(* reads rows, awaits the Liquid node, and writes back later; between two  *)
(* of its steps any other handler may run, and it may fail or crash, which *)
(* loses what it held in memory and nothing else.                          *)
(*                                                                         *)
(* External: the Liquid chain, which sees the buyer pay the escrow address *)
(* and lets the output be spent once, and the 24-hour clock.               *)
(***************************************************************************)
EXTENDS MarketplaceDB, FiniteSets

CONSTANTS
    Watchers,      \* runs of _watch_escrows_once
    SignRequests,  \* POST /escrows/{trade_id}/sign requests
    Resolutions,   \* POST /trades/{trade_id}/dispute/resolve requests
    InitOrders,    \* the orders resting in the book
    InitBalance    \* the token balances to start from

Handlers == Watchers \cup SignRequests \cup Resolutions

VARIABLES
    chain,    \* the escrow output: unfunded, paid, or spent by a path
    overdue,  \* trades whose escrow's expires_at has passed
    task      \* what each handler is doing, with the rows it holds

vars == <<db, chain, overdue, task>>

ChainStatuses == {"unfunded", "paid"} \cup Paths
Roles == {"buyer", "seller"}

Stages == {"idle",
           "listed", "expire", "scan", "mark", "prepare",     \* watcher
           "sign", "record", "broadcast", "persist"}          \* sign and resolve

Task ==
    [stage: Stages, trade: TradeIds, role: Roles, path: Paths,
     row: EscrowRow, buyRow: OrderRow, sellRow: OrderRow]

NoEscrow == [status |-> "none", signatures |-> {}, metadata |-> NoMetadata]

EscrowAssumption ==
    /\ TradeIds # {} /\ OrderIds # {}
    /\ InitOrders \in [OrderIds -> OrderRow]
    /\ \A o \in OrderIds :
         InitOrders[o].id = o /\ InitOrders[o].filled = 0 /\ InitOrders[o].status = "open"
    /\ InitBalance \in [Users -> Nat]
    /\ Watchers \cap SignRequests = {} /\ Watchers \cap Resolutions = {}
    /\ SignRequests \cap Resolutions = {}

ASSUME EscrowAssumption

\* TokensConserved adds up the rows of token_balances.
ASSUME UsersAssumption == IsFiniteSet(Users)

\* A handler that is idle holds nothing; the fields are those of a fixed value.
IdleTask ==
    LET o == CHOOSE o \in OrderIds : TRUE
    IN  [stage |-> "idle", trade |-> CHOOSE t \in TradeIds : TRUE,
         role |-> "buyer", path |-> "release", row |-> NoEscrow,
         buyRow |-> InitOrders[o], sellRow |-> InitOrders[o]]

TypeOK ==
    /\ DBTypeOK
    /\ chain \in [TradeIds -> ChainStatuses]
    /\ overdue \subseteq TradeIds
    /\ task \in [Handlers -> Task]

Init ==
    /\ orders = InitOrders
    /\ trades = [t \in TradeIds |->
                   [buyOrder |-> CHOOSE o \in OrderIds : TRUE,
                    sellOrder |-> CHOOSE o \in OrderIds : TRUE,
                    quantity |-> 0, price |-> 0, status |-> "none"]]
    /\ escrows = [t \in TradeIds |-> NoEscrow]
    /\ disputes = [t \in TradeIds |-> "none"]
    /\ balance = InitBalance
    /\ chain = [t \in TradeIds |-> "unfunded"]
    /\ overdue = {}
    /\ task = [h \in Handlers |-> IdleTask]

Done(h) == task' = [task EXCEPT ![h] = IdleTask]
Goto(h, stage) == task' = [task EXCEPT ![h].stage = stage]

-----------------------------------------------------------------------------
(* The world around the handlers.                                          *)

\* One turn of place_order's match loop, on rows nobody else is changing.
\* OrderMatching models the loop itself.
MatchOrders(t) ==
    \E b, s \in OrderIds :
        /\ {orders[b].status, orders[s].status} \subseteq OpenOrderStatuses
        /\ orders[b].user # orders[s].user /\ orders[b].price >= orders[s].price
        /\ \E quantity \in 1..MaxQuantity :
             /\ quantity = IF Remaining(orders[b]) < Remaining(orders[s])
                           THEN Remaining(orders[b]) ELSE Remaining(orders[s])
             /\ \E price \in {orders[b].price, orders[s].price} :
                  CreateTradeEscrow(t, orders[b], orders[s], quantity, price)
        /\ UNCHANGED <<chain, overdue, task>>

\* The buyer sends locked_amount_sat to the escrow address, at any time.
BuyerPays(t) ==
    /\ escrows[t].status # "none"
    /\ chain[t] = "unfunded"
    /\ chain' = [chain EXCEPT ![t] = "paid"]
    /\ UNCHANGED <<db, overdue, task>>

ExpiryPasses(t) ==
    /\ escrows[t].status # "none"
    /\ t \notin overdue
    /\ overdue' = overdue \cup {t}
    /\ UNCHANGED <<db, chain, task>>

\* POST /trades/{trade_id}/dispute: what the route checks before it calls
\* open_dispute the transaction checks again.
CreateDispute(t) ==
    /\ OpenDispute(t)
    /\ UNCHANGED <<chain, overdue, task>>

\* An error response, an exception, a node error, a cancelled request or a crash
\* of the replica: from any stage, for it may come before any check or commit.
HandlerFails(h) ==
    /\ task[h].stage # "idle"
    /\ Done(h)
    /\ UNCHANGED <<db, chain, overdue>>

-----------------------------------------------------------------------------
(* _prepare_escrow_transaction_pset: unless the row it is given has the     *)
(* PSET already, build one and store the metadata of THAT row with the PSET *)
(* added.  The handler goes on with the row the UPDATE returns.             *)

NeedsPset(row, path) ==
    /\ path \notin row.metadata.unsigned
    /\ row.metadata.funding
    /\ row.status \in (IF path = "release"
                       THEN {"funded", "inspection_pending", "disputed"} ELSE {"disputed"})

PrepareEscrowTransactionPset(t, row, path) ==
    IF NeedsPset(row, path)
    THEN UpdateEscrowSettlementMetadata(t, [row.metadata EXCEPT !.unsigned = @ \cup {path}])
    ELSE UNCHANGED db

PreparedRow(t, row, path) == IF NeedsPset(row, path) THEN escrows'[t] ELSE row

\* The step of a sign or resolve request that prepares the PSET of its path.
PrepareForSigning(h) ==
    LET t == task[h].trade
        row == task[h].row
        path == task[h].path
    IN  /\ task[h].stage = "prepare"
        /\ PrepareEscrowTransactionPset(t, row, path)
        /\ task' = [task EXCEPT ![h].stage = "sign", ![h].row = PreparedRow(t, row, path)]
        /\ UNCHANGED <<chain, overdue>>

-----------------------------------------------------------------------------
(* The escrow watcher.                                                     *)

\* list_escrows_by_status("created"), once at the start of a pass; a pass
\* visits each of them in turn.
WatchList(w, t) ==
    /\ task[w].stage = "idle"
    /\ escrows[t].status = "created"
    /\ task' = [task EXCEPT ![w].stage = "listed", ![w].trade = t,
                            ![w].row = escrows[t]]
    /\ UNCHANGED <<db, chain, overdue>>

\* Mutant: never compares expires_at with the clock.
WatchIgnoreExpiry(w) ==
    LET t == task[w].trade IN
    /\ task[w].stage = "listed"
    /\ task' = [task EXCEPT ![w].stage = "scan",
                            ![w].buyRow = orders[trades[t].buyOrder],
                            ![w].sellRow = orders[trades[t].sellOrder]]
    /\ UNCHANGED <<db, chain, overdue>>

\* Read the trade and its orders, compare expires_at with the clock.
WatchCheckExpiry(w) ==
    LET t == task[w].trade IN
    /\ task[w].stage = "listed"
    /\ task' = [task EXCEPT ![w].stage = IF t \in overdue THEN "expire" ELSE "scan",
                            ![w].buyRow = orders[trades[t].buyOrder],
                            ![w].sellRow = orders[trades[t].sellOrder]]
    /\ UNCHANGED <<db, chain, overdue>>

\* Another replica may have funded or expired it since: then nothing is written.
WatchExpire(w) ==
    LET t == task[w].trade IN
    /\ task[w].stage = "expire"
    /\ \/ ExpireUnfundedEscrow(t, task[w].row, task[w].buyRow, task[w].sellRow)
       \/ escrows[t].status # "created" /\ UNCHANGED db
    /\ Done(w)
    /\ UNCHANGED <<chain, overdue>>

\* scantxoutset on the escrow address; nothing found ends the visit.
WatchScan(w) ==
    /\ task[w].stage = "scan"
    /\ IF chain[task[w].trade] = "paid" THEN Goto(w, "mark") ELSE Done(w)
    /\ UNCHANGED <<db, chain, overdue>>

WatchMarkFunded(w) ==
    LET t == task[w].trade IN
    /\ task[w].stage = "mark"
    /\ \/ /\ MarkEscrowFunded(t)
          /\ task' = [task EXCEPT ![w].stage = "prepare", ![w].row = escrows'[t]]
       \/ escrows[t].status # "created" /\ UNCHANGED db /\ Done(w)
    /\ UNCHANGED <<chain, overdue>>

WatchPrepare(w) ==
    /\ task[w].stage = "prepare"
    /\ PrepareEscrowTransactionPset(task[w].trade, task[w].row, "release")
    /\ Done(w)
    /\ UNCHANGED <<chain, overdue>>

-----------------------------------------------------------------------------
(* sign_escrow_release.                                                    *)

SignRead(r, t, role) ==
    /\ task[r].stage = "idle"
    /\ \/ escrows[t].status = "funded" /\ role = "seller"
       \/ escrows[t].status = "inspection_pending"
    /\ task' = [task EXCEPT ![r].stage = "prepare", ![r].trade = t, ![r].role = role,
                            ![r].path = "release", ![r].row = escrows[t]]
    /\ UNCHANGED <<db, chain, overdue>>

SignedRow(h, role) ==
    [task[h].row EXCEPT !.signatures = @ \cup {<<task[h].path, role>>},
                        !.metadata.signed = @ \cup {<<task[h].path, role>>}]

\* Sign the stored PSET, or the unsigned one; the second signature finalizes it.
\* Every check on the way is on the row in hand; one that fails ends the request
\* (HandlerFails), as does a PSET that lacks a signature when it is finalized.
SignPset(r) ==
    LET row == task[r].row
        role == task[r].role
        signed == SignedRow(r, role)
        complete == {"release"} \X Roles
    IN  /\ task[r].stage = "sign"
        /\ "release" \in row.metadata.unsigned
        /\ <<"release", role>> \notin row.signatures
        /\ role = "buyer" => <<"release", "seller">> \in row.signatures
        /\ IF complete \subseteq signed.signatures
           THEN /\ complete \subseteq signed.metadata.signed
                /\ task' = [task EXCEPT ![r].stage = "broadcast", ![r].row = signed]
           ELSE task' = [task EXCEPT ![r].stage = "record"]
        /\ UNCHANGED <<db, chain, overdue>>

SignRecord(r) ==
    /\ task[r].stage = "record"
    /\ RecordEscrowSignature(task[r].trade, task[r].row, <<"release", task[r].role>>,
                             SignedRow(r, task[r].role).metadata)
    /\ Done(r)
    /\ UNCHANGED <<chain, overdue>>

\* sendrawtransaction: the node takes the spend of an unspent output, and may
\* take again the one it has.  A refusal, or an answer that is lost, is an
\* ElementsRPCError (HandlerFails).
Broadcast(h) ==
    LET t == task[h].trade IN
    /\ task[h].stage = "broadcast"
    /\ chain[t] \in {"paid", task[h].path}
    /\ chain' = [chain EXCEPT ![t] = task[h].path]
    /\ Goto(h, "persist")
    /\ UNCHANGED <<db, overdue>>

SignPersist(r) ==
    /\ task[r].stage = "persist"
    /\ ProcessEscrowSignature(task[r].trade, task[r].row.signatures, task[r].row.metadata)
    /\ Done(r)
    /\ UNCHANGED <<chain, overdue>>

-----------------------------------------------------------------------------
(* resolve_trade_dispute.                                                  *)

\* Mutant: does not check that the trade is in dispute.
ResolveUnchecked(a, t, resolution) ==
    /\ task[a].stage = "idle"
    /\ escrows[t].status # "none"
    /\ task' = [task EXCEPT ![a].stage = "prepare", ![a].trade = t,
                            ![a].path = resolution, ![a].row = escrows[t]]
    /\ UNCHANGED <<db, chain, overdue>>

ResolveRead(a, t, resolution) ==
    /\ task[a].stage = "idle"
    /\ trades[t].status = "disputed"
    /\ disputes[t] = "open"
    /\ escrows[t].status = "disputed"
    /\ task' = [task EXCEPT ![a].stage = "prepare", ![a].trade = t,
                            ![a].path = resolution, ![a].row = escrows[t]]
    /\ UNCHANGED <<db, chain, overdue>>

\* The beneficiary of the path and the platform sign.  A participant's recorded
\* signature is not made again.
ResolveSign(a) ==
    LET row == task[a].row
        path == task[a].path
        role == IF path = "release" THEN "seller" ELSE "buyer"
        signers == {<<path, role>>, <<path, "platform">>}
        made == signers \ (row.signatures \ {<<path, "platform">>})
        signed == [row EXCEPT !.signatures = @ \cup signers,
                              !.metadata.signed = @ \cup made]
    IN  /\ task[a].stage = "sign"
        /\ path \in row.metadata.unsigned
        /\ signers \subseteq signed.metadata.signed
        /\ task' = [task EXCEPT ![a].stage = "broadcast", ![a].row = signed]
        /\ UNCHANGED <<db, chain, overdue>>

ResolvePersist(a) ==
    /\ task[a].stage = "persist"
    /\ ResolveDispute(task[a].trade, task[a].path, task[a].row.signatures,
                      task[a].row.metadata)
    /\ Done(a)
    /\ UNCHANGED <<chain, overdue>>

-----------------------------------------------------------------------------
WatcherStep(w) ==
    \/ \E t \in TradeIds : WatchList(w, t)
    \/ WatchCheckExpiry(w) \/ WatchExpire(w) \/ WatchScan(w)
    \/ WatchMarkFunded(w) \/ WatchPrepare(w)

SignStep(r) ==
    \/ \E t \in TradeIds, role \in Roles : SignRead(r, t, role)
    \/ PrepareForSigning(r) \/ SignPset(r) \/ SignRecord(r) \/ Broadcast(r) \/ SignPersist(r)

ResolveStep(a) ==
    \/ \E t \in TradeIds, resolution \in Paths : ResolveRead(a, t, resolution)
    \/ PrepareForSigning(a) \/ ResolveSign(a) \/ Broadcast(a) \/ ResolvePersist(a)

Environment ==
    \/ \E t \in TradeIds : MatchOrders(t) \/ BuyerPays(t) \/ ExpiryPasses(t) \/ CreateDispute(t)
    \/ \E h \in Handlers : HandlerFails(h)

Next ==
    \/ Environment
    \/ \E w \in Watchers : WatcherStep(w)
    \/ \E r \in SignRequests : SignStep(r)
    \/ \E a \in Resolutions : ResolveStep(a)

Spec == Init /\ [][Next]_vars

-----------------------------------------------------------------------------
(* Properties.                                                             *)

\* The rows of a trade agree: the trade, its escrow and its dispute are written
\* by seven transactions that each guard on some of the three only, and never
\* leave a combination but these.
StatusesAgree ==
    \A t \in TradeIds :
        <<trades[t].status, escrows[t].status, disputes[t]>> \in
            {<<"none", "none", "none">>,
             <<"pending", "created", "none">>,
             <<"cancelled", "expired", "none">>,
             <<"escrowed", "funded", "none">>,
             <<"escrowed", "inspection_pending", "none">>,
             <<"settled", "released", "none">>,
             <<"disputed", "disputed", "open">>,
             <<"settled", "released", "release">>,
             <<"cancelled", "refunded", "refund">>}

\* specs/database-schema.md: a release or refund is only persisted after the
\* matching transaction is broadcast, although other handlers broadcast for the
\* same output meanwhile and any of them may fail before it persists.
TerminalStateIsOnChain ==
    \A t \in TradeIds :
        /\ escrows[t].status = "released" => chain[t] = "release"
        /\ escrows[t].status = "refunded" => chain[t] = "refund"

\* A broadcast whose persist is still to come, or was lost, finds the escrow in a
\* state from which that same outcome can be recorded, never the opposite one.
BroadcastCanBeRecorded ==
    \A t \in TradeIds :
        /\ chain[t] = "release" =>
             escrows[t].status \in {"inspection_pending", "disputed", "released"}
        /\ chain[t] = "refund" => escrows[t].status \in {"disputed", "refunded"}

\* Two of the three keys stand behind every settlement: seller and buyer on the
\* happy path, the beneficiary and the platform after a dispute.
SettledBy(t, path, roles) == {path} \X roles \subseteq escrows[t].signatures

SettlementIsSigned ==
    \A t \in TradeIds :
        /\ escrows[t].status = "released" =>
             \/ SettledBy(t, "release", {"seller", "buyer"}) /\ disputes[t] = "none"
             \/ SettledBy(t, "release", {"seller", "platform"}) /\ disputes[t] = "release"
        /\ escrows[t].status = "refunded" => SettledBy(t, "refund", {"buyer", "platform"})

\* What is recorded of a settlement was broadcast and signed, and what was broadcast can be
\* recorded, although any handler may fail between the two and others work on the same escrow.
SettlementIsSafe == TerminalStateIsOnChain /\ BroadcastCanBeRecorded /\ SettlementIsSigned

\* specs/api-contracts.md: the ways an escrow may progress.  No step takes it
\* back, and none leaves a final state.
Progress(status) ==
    CASE status = "none"               -> {"created"}
      [] status = "created"            -> {"funded", "expired"}
      [] status = "funded"             -> {"inspection_pending", "disputed"}
      [] status = "inspection_pending" -> {"released"}
      [] status = "disputed"           -> {"released", "refunded"}
      [] OTHER                         -> {}

EscrowsOnlyProgress ==
    [][\A t \in TradeIds :
         escrows'[t].status \in {escrows[t].status} \cup Progress(escrows[t].status)]_vars

\* Tokens: the detailed system implements TokenCustody.
CustodyOf(status) ==
    CASE status = "none"      -> "none"
      [] status = "settled"   -> "delivered"
      [] status = "cancelled" -> "returned"
      [] OTHER                -> "locked"

Custody == INSTANCE TokenCustody WITH
    custody <- [t \in TradeIds |-> CustodyOf(trades[t].status)],
    deal <- [t \in TradeIds |->
               [buyer |-> Buyer(t), seller |-> Seller(t), quantity |-> trades[t].quantity]]

\* Each trade's tokens leave custody once, to its buyer or back to its seller.
ImplementsCustody == Custody!Spec

\* No token is made or lost by any interleaving of settlements and expiries.
TokensConserved == Custody!TokensConserved

-----------------------------------------------------------------------------
(* Liveness: every replica repeats its pass, and a pass visits every        *)
(* created escrow.  The clock moves on, and the database does not fail      *)
(* every time the watcher is about to expire an escrow.                     *)

FairSpec ==
    /\ Spec
    /\ \A t \in TradeIds : WF_vars(ExpiryPasses(t))
    /\ \A w \in Watchers :
         /\ \A t \in TradeIds : SF_vars(WatchList(w, t))
         /\ SF_vars(WatchCheckExpiry(w))
         /\ SF_vars(WatchExpire(w))
         /\ WF_vars(WatchScan(w))
         /\ WF_vars(WatchMarkFunded(w))
         /\ WF_vars(WatchPrepare(w))

\* A matched trade does not hold the seller's tokens for ever for want of
\* funding: its escrow is eventually seen funded, or expires.
CreatedEscrowIsDecided ==
    \A t \in TradeIds : escrows[t].status = "created" ~> escrows[t].status # "created"

-----------------------------------------------------------------------------
(* Claims of the documents that the code does not meet: each has a          *)
(* configuration of its own, in which TLC finds it violated.                *)

\* infra/README.md: the watcher "expires unfunded escrows".  It expires an overdue one
\* before it scans for the buyer's payment.
OnlyUnfundedEscrowsExpire ==
    [][\A t \in TradeIds :
         escrows[t].status = "created" /\ escrows'[t].status = "expired"
           => chain[t] = "unfunded"]_vars
=============================================================================
