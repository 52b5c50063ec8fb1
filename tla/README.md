# Verification of the tokenization platform

TLA+ specifications of the CUBO+ tokenization platform (`services/`), model-checked with TLC on
small instances and proved with TLAPS for all of them. The specifications are translated from the
Python sources. Section 6 lists where a document of the repository says something else: for nine such
differences a configuration lets TLC find a counterexample, the others are notes from reading the code.

## 1. The system

FastAPI services over one PostgreSQL database (SQLAlchemy async, READ COMMITTED, explicit
commits), Redis streams for events, an Elements/Liquid node and an LND node over RPC. Each
service may run as several replicas; each HTTP request is a coroutine that loses control at every
`await`, so what it has read may be out of date by its next statement. Background loops (escrow
watcher, deposit and withdrawal reconciliation, Lightning sync, Nostr pump) run in every replica.

| Component | State | Operations | What is hard | What makes it correct |
|---|---|---|---|---|
| Marketplace: settlement (`marketplace/main.py`, `db.py`) | trades, escrows (status, signatures, `settlement_metadata`), disputes, token balances; the escrow output on Liquid | match, watcher (fund, expire, prepare PSET), sign, open and resolve dispute | several replicas and requests on one escrow, each read-await-write; broadcast before persist; crash between them; expiry racing payment | rows of a trade agree; tokens delivered once or returned once; settlement on chain and signed by two of three before it is recorded; what is on chain can still be recorded; unfunded escrows end |
| Marketplace: order book | orders, latest trade price | `place_order` (checks, insert, match loop), `delete_order`, stop-order activation | every statement of the loop interleaves with other requests; fills stored as absolute quantities of old rows | fills match trades; price-time priority; no crossed book; orders covered by balances; cancelled means cancelled |
| Marketplace: market data, WebSocket streams | none of its own | order book, trade history, event subscriptions | stream positions, resumption | events neither lost nor repeated after a resume; the published book is not crossed |
| Listings (all services) | none; each page reads the whole listing | six page builders with a `cursor` | rows come, go and move between two pages | a traversal misses and repeats nothing |
| Treasury (`marketplace/db.py`, `admin/db.py`, `common/incentives.py`) | append-only entries with a running balance | fee income, disbursal, referral reward | three writers read the last balance and insert the next without a lock | running balance is the sum; never below zero |
| Wallet: withdrawals, peg-out | wallet balances, reservations, idempotency cache in process, transactions | withdraw, reconcile | retry after failure, crash after broadcast | one send per idempotency key; a reservation is released or spent once |
| Wallet: addresses, deposits | addresses, derivation index, deposits | derive, import, reconcile | every replica scans | a confirmed deposit credited once |
| Wallet: Lightning | invoices, payments, balance recomputed from history | create, pay, sync | payment before record | balance is what LND settled |
| Tokenization | assets, tokens, in-process evaluation tasks, Liquid issuance | submit, evaluate, tokenize | background task lost on restart; concurrent issuance | an asset is issued once; an evaluation ends |
| Auth | users, refresh sessions, 2FA, Nostr identities | register, login, Nostr login, refresh, logout, enable 2FA | concurrent rotation of one token; roles trusted from tokens | a login has one live session; a role that was taken runs out; one account per credential |
| Identity verification and referral rewards | KYC rows, rewards, treasury | submit, review, reward | review and reward in two transactions | a reward once per verified referral |
| Yield accrual | accruals, wallet balance | accrue on read | concurrent reads | a period accrues once |
| Admin | roles, courses, treasury | CRUD, disburse | treasury, above | as treasury |
| Education | courses, enrolments | enrol, progress | little | one enrolment per user and course |
| Events, Nostr relay pump | Redis stream positions | publish, pump | failures swallowed, positions in memory | every event relayed |
| HTTP security | hits per client and rule | rate limit | sliding window | never more than the limit per window |
| Common (config, logging, metrics, audit), frontend, gateway | - | - | - | not modelled |

Components meet in the database (wallet and token balances are read by the marketplace, KYC rows
gate `place_order`, the treasury has writers in three services) and in the Redis streams.

## 2. Plan

Ordered by what the platform loses if it goes wrong.

| Step | Modules | State |
|---|---|---|
| 1. The marketplace's tables and transactions | `MarketplaceDB` | modelled |
| 2. Settlement of trades, and the custody it implements | `TokenCustody`, `EscrowSettlement`, `EscrowSettlement_proofs` | modelled, checked, proved |
| 3. Order book and matching, implementing the same custody | `OrderMatching`, `OrderMatching_proofs` | modelled, checked, proved |
| 4. Wallet: withdrawals, peg-outs, deposits, Lightning; the ledger they implement | `FundsLedger`, `WalletDB`, `OnchainWallet`, `LightningWallet`, `Wallet`, `Wallet_proofs` | modelled, checked, proved |
| 5. Treasury, identity verification, referral rewards, yield | `Treasury`, `KycReferral`, `YieldAccrual`, `Rewards`, `Rewards_proofs` | modelled, checked, proved |
| 6. Assets, and the readers of events | `AssetScoring`, `EventStreams`, `AssetLifecycle`, `StreamFeed`, `AssetFeeds`, `AssetFeeds_proofs` | modelled, checked, proved |
| 7. Users, sessions, roles, second factors; rate limits | `Sessions`, `RateLimiter`, `Identity`, `Identity_proofs` | modelled, checked, proved |
| 8. Listings and courses | `Listings`, `Education`, `Catalogue`, `Catalogue_proofs` | modelled, checked, proved |
| 9. Sums over finite sets, for the properties that balance books | `FiniteSums` | proved |
| 10. `WS /prices/{token_id}` | `StreamFeed` | open |

"Proved" covers every invariant and action property the runs check; liveness stays with TLC (section 5).
No module of the project declares a RECURSIVE operator: sums are folds of the community modules, and what has to be
recursive is a recursive function (`Filtered` of `Listings`).

## 3. Modules

A component is one module or two; the module that composes components into what a run checks
states their properties and fairness, and an MC module gives it values:

```
MarketplaceDB <- EscrowSettlement (=> TokenCustody) <- EscrowSettlement_proofs, MCEscrow
MarketplaceDB <- OrderMatching    (=> TokenCustody) <- OrderMatching_proofs, MCOrders
WalletDB      <- OnchainWallet, LightningWallet  <- Wallet (=> FundsLedger) <- Wallet_proofs, MCWallet
Treasury      <- KycReferral;  YieldAccrual      <- Rewards    <- Rewards_proofs, MCRewards
EventStreams  <- AssetLifecycle (AssetScoring), StreamFeed <- AssetFeeds <- AssetFeeds_proofs, MCAssetFeeds
                 Sessions, RateLimiter           <- Identity   <- Identity_proofs, MCIdentity
                 Listings, Education             <- Catalogue  <- Catalogue_proofs, MCCatalogue
FiniteSums    <- the _proofs modules of EscrowSettlement, OrderMatching, Wallet and Rewards
```

Conventions. A request is a process with a stage; a step is what its handler does between two points at which
it gives up control (`await` of a statement, an RPC call, a commit). What it read before is in a variable of its own
(`task`, `seen`, `holding`, `row`), as the code holds it in a Python object. A request is used once, and a retry is another request.
Answers are lost where a commit, or the audit write behind it, may fail after the data is stored. To keep the composed instances small, a behaviour chooses in `Init`
which requests and loops take part (`active`, `present`, `visiting`, `learning`), out of the `Workloads` of the MC module; the sets put those together that touch
the same rows. A variable marked *history* in its comment is read by properties only.

### MarketplaceDB
The five tables as functions (`orders`, `trades`, `escrows`, `disputes`, `balance`) and one action
per transaction of `marketplace/db.py`. A transaction is atomic: its UPDATEs carry status guards,
an UPDATE that returns no row raises and rolls back, and concurrent writers of a row wait for its
lock. What a transaction is *given* (a row its caller read earlier) is a parameter: `apply_order_fill`,
`expire_unfunded_escrow`, `record_escrow_signature` compute from that row, not from the table, and
so do their actions.

Abstractions: one token (every statement filters by `token_id`); `settlement_metadata` is what its
readers ask of it - funding inputs known, PSETs prepared, signatures the stored signed PSETs carry;
rows carry no timestamps but `expires_at` (a set of overdue trades) and the creation order of orders;
`fee_sat` is 0, as `place_order` never passes one, so no treasury row is written at a release (`Treasury` has the writer).
`settle_trade` is called by no route; trades are settled by `process_escrow_signature` and `resolve_dispute`. `mark_escrow_funded` is taken to merge its metadata as its
SQL says (`jsonb || CAST(...)`).

### EscrowSettlement
Handlers are processes with a `stage` and the rows they hold (`task`).

| Actions | Code |
|---|---|
| `WatchList`, `WatchCheckExpiry`, `WatchExpire`, `WatchScan`, `WatchMarkFunded`, `WatchPrepare` | `_watch_escrows_once` |
| `SignRead`, `PrepareForSigning`, `SignPset`, `SignRecord`, `Broadcast`, `SignPersist` | `sign_escrow_release` |
| `ResolveRead`, `PrepareForSigning`, `ResolveSign`, `Broadcast`, `ResolvePersist` | `resolve_trade_dispute` |
| `CreateDispute` | `create_dispute` |
| `MatchOrders` | one turn of `place_order`'s loop on fresh rows |
| `BuyerPays`, `ExpiryPasses` | external: the Liquid chain, the clock |
| `HandlerFails` | any exception, refusal, cancelled request or crash: what was committed stays, the rest is forgotten |

The chain (`chain`) lets the escrow output be spent once; the node accepts the spend of an unspent
output and may accept again the transaction it has, and any call may instead fail. A request that
has finished becomes idle and may run again: retries are new requests.

### OrderMatching
`place_order` as a process per request, one step per database statement: funds, reservations and
identity check, stop trigger, insert, then the loop - current order, reference price, activation,
best match, `create_trade_escrow`, cancellation of the resting order when the seller is short.
`delete_order`, a watcher's expiry with stale order rows, and the funded path of an escrow run
beside it. `OrderBook` is what `GET /orderbook` publishes. Requests in `Fragile` may fail or crash between any two statements. Two branches of the
loop cannot be reached: `wallet_not_found` (both users had a wallet to place their orders, and wallets
are never deleted) and `order_insufficient_quantity` (both quantities come from the rows that are checked).

### TokenCustody
What both promise of the tokens of a trade: taken from the seller when the trade is made, and out of
custody once, to the buyer or back. `EscrowSettlement` and `OrderMatching` are each shown to implement it, with
`custody` the image of the trade's status.

### WalletDB, OnchainWallet, LightningWallet, Wallet
`WalletDB` is `wallet/db.py`: balances, ledger rows, deposits, addresses. `reserve_onchain_balance` and its kin compute from
the column; the Lightning balance is written as an absolute value.

| Actions | Code |
|---|---|
| `Begin`, `DeriveAddress`, `SaveAddress`, `Fund`, `Reserve`, `Send`, `SendFails`, `ReleaseFails`, `Record`, `RecordFails`, `Answer` | `withdraw_onchain`; without the first four, `pegout_to_mainchain` |
| `CacheExpires`, `Restart` | `_withdrawal_idempotency_cache`, `_withdrawal_idempotency_inflight`, memory of one replica |
| `CreateOnchainAddress`, `EnsureWalletSettlementAddress` | the two services that derive addresses: index read, key derived, row inserted |
| `ScanDeposits`, `ReadDeposit`, `RecordDeposit`, `Credit`, `ReconcileWithdrawals`, `LoopFails` | `reconciliation_loop`, output by output |
| `Pay`, `MineCoin`, `MineTransaction` | external: outsiders, the chain |
| `AddInvoice`, `InsertReceive`; `PayInvoice`, `RecordPayment`; `ListReceives`, `LookupInvoice`, `ReadLedger`, `WriteBalance`, `RefreshFails` | `create_invoice`; `pay_invoice`; `sync_wallet_lightning_state` |
| `Settle` | external: LND settles or cancels an invoice |

The node funds a withdrawal from any confirmed output it watches (`walletcreatefundedpsbt` over one node wallet), the service signs with the
user's keys only: `CanSend` asks for both. A request that fails at `Record`, whose release fails, or that crashes after `Reserve` keeps its reservation; `task.held` says so.

### FundsLedger
What the wallet promises of on-chain satoshis: an output is credited once, to one wallet, for what it is worth; the cost of a
withdrawal or a peg-out is taken once, from a balance that covers it, and then spent or given back, once. `Wallet` is shown to implement
it. The image of an output is its credit (`CreditOf`: deposit row and ledger row agree), that of a request where its satoshis are
(`ClaimOf`): `held` while the reservation stands, `spent` once the ledger row is written, `void` when the request failed without one.

### Treasury, KycReferral, YieldAccrual, Rewards
`Treasury`: entries with a running balance, and the writers of the marketplace and the admin service. A writer takes `created_at`, reads the latest entry and inserts the next: three
steps. `KycReferral` adds submissions, reviews (`ReviewRead`, `ReviewUpdate`) and the reward transaction (`RewardCheck`, `RewardInsert`, `RewardCommit`), the
third writer: the INSERT of a reward holds its unique index entry until the commit, so a second reward of the same user waits. `YieldAccrual`: `accrue_pending_yield_for_user` on every read of a
wallet, with holdings that change and a clock finer than days. `Rewards` composes them and has the four admin summaries.

### AssetScoring, EventStreams, AssetLifecycle, StreamFeed, AssetFeeds
`AssetScoring` is the formula of `evaluate_asset_submission` in whole numbers: 1/1800 of a point makes every term an integer, and rounding to hundredths is done at the end.
The text of a submission is reduced to what the formula reads: words, characters of the title, keyword counts.
`EventStreams` is a bounded list of events per topic. `AssetLifecycle`: `submit_asset`; `request_asset_evaluation` with its in-process task (`Evaluate`, `CompleteAssetEvaluation`,
`PublishEvaluationComplete`, `TaskFails`, `ResetAssetEvaluation`, `ResetFails`); `tokenize_asset` (`TokenizeRead`, `Issue`, `CreateAssetToken`, `PublishTokenMinted`); `Crash` of the process. `StreamFeed`: XREAD of several
topics with positions (`Call`, `Return`, `Timeout`), the notification WebSocket with its resume token, and the Nostr pump. `$` is resolved when a call starts, which is why a topic without an
event keeps `$` in a token.

### Sessions, RateLimiter, Identity
`Sessions`: registration, login and Nostr login (user row, identity row, then tokens and session), `rotate_refresh_session`, logout, `PATCH /users/{id}`, `enable_2fa`, and how each service reads a role
(`RequireAdmin`, `RequireSeller` from the token, `RequireRoles` from the row). `RateLimiter`: rules, buckets and the sliding window of `RateLimitMiddleware`, with restarts; its clock is finer than the seconds of `Retry-After`.

### Listings, Education, Catalogue
`Listings`: the six page builders, which differ in how they tell that there is more, with one reader following `next_cursor` while rows are inserted, leave or join the filter, or move (a trade that settles).
`Education`: courses, enrolment under a unique key, progress rounded to two decimals.

### MCEscrow, MCOrders, MCWallet, MCRewards, MCAssetFeeds, MCIdentity, MCCatalogue
Constants for TLC: who asks for what, and the workloads.

## 4. Runs

| Run | Shows | Distinct states |
|---|---|---|
| `escrow_one_trade` | one trade, two handlers of each kind: `TypeOK`, `StatusesAgree`, `SettlementIsSafe`, `TokensConserved`, `EscrowsOnlyProgress`, `ImplementsCustody` | 381,788 |
| `escrow_liveness` | two watchers: `CreatedEscrowIsDecided` | - |
| `orders_concurrent` | a place request that may fail, two watchers with stale rows, cancellations, interleaved by statement: `StatusMatchesFill`, `TradesHonourOrders`, `ImplementsCustody` | 1,567,934 |
| `orders_serial` | limit orders, one request at a time, cancellations: `FilledTracksTrades`, `SellsAreCovered`, `BookIsUncrossed`, `TradesAtBestPrice` | 630,481 |
| `wallet` | `TypeOK` (no overdraft, no address given twice), `CreditsAreAccounted`, `ConfirmedRowsHappened`, `ImplementsFunds`, `AnsweredKeySendsNoMore`, `ConfirmedOutputsAreCredited`, `LightningBalanceCatchesUp` | 215,325 |
| `rewards` | `RewardsAreEarned`, `UncontendedBalancesAddUp`, `YieldDaysArePaidOnce` | 517,462 |
| `assets` | `TypeOK`, `TokenizedOnce`, `OneEvaluationAtATime`, `BetterSubmissionsScoreHigher`, `NotificationsAreComplete`, `RelaysGetEventsOnce`, `EvaluationsEnd`, `EventsAreDelivered` | 153,483 |
| `identity` | `TypeOK`, `OneLiveSessionPerLogin`, `TakenRolesRunOut`, `SameCredentialSameUser`, `AnsweredSecretIsInForce`, `LimiterIsFair` | 914,865 |
| `catalogue` | `PagesAreComplete`, `EnrolmentsAreTrue` | 170,450 |
| `orders_lost_fill`, `wallet_change_credited`, `rewards_yield_start` | a counterexample each: section 6 | - |

Bounds. What breaks a settlement is two handlers of one kind or of two kinds on one trade: two of each covers every pair and most
triples. Two place requests at once, two watchers and two trades are too many states together: the properties of `orders_concurrent` are proved for any number of
requests (section 5), and `orders_lost_fill` has two. For the book, three or four orders of at most two units at two prices give partial fills, price and
time priority, reselling, two orders of one user that may not match each other, and stop orders that trigger at once or later; `KycThreshold = 4` lets the
largest order through or not, as the user is verified or not. A wallet of 4 sats is enough for a stale expiry to reopen more of a sell order than the seller has, so that `CancelMatched` happens. In the wallet a coin of 4 pays two withdrawals of 1 + 1, so a change output exists
and can be spent, and a balance can run out; `w1` and `w2` share a key, `w3` is of another user whose coins the node does not tell apart. In
the ledger, fees of 3 pay one disbursement of 2 or two of them, or a bonus. Yield has three days of two ticks, and a rate at which one unit earns
nothing in one day. Two events per topic let a batch, a reconnect and a token each fall between them. `AccessTTL < RefreshTTL < MaxNow` lets both tokens of a login run out; three refreshes present one token
twice or in a chain. The limiter's window of six ticks passes within `MaxTick = 10`. Four rows, one later row and pages of two give traversals of two and three pages.
`CHECK_DEADLOCK FALSE` everywhere: requests are finite in number, and the system stops when all are answered.

Fairness.

- `EscrowSettlement.FairSpec`. `_escrow_watcher_loop` repeats for ever and visits every created escrow of a pass, and an exception
  ends the visit of one escrow only: strong fairness of listing each trade, as the watcher is busy with another trade in between.
  Steps of a visit are weakly fair, being enabled until taken; the expiry branch is strongly fair because a failure before it
  (`HandlerFails`) may repeat but not for ever. The clock reaches `expires_at`. Nothing is assumed of buyers, sellers, admins or the chain.
- `Wallet.FairSpec`. `reconciliation_loop` and `lightning_sync_loop` are `while True` with every exception of a pass caught and logged: their steps are weakly fair. RPC calls and replicas fail any number
  of times but not for ever (`<>[][~Failures]_vars`): a node that is down for good credits nothing. Nothing is assumed of requests, outsiders and the chain.
- `AssetFeeds.FairSpec`. The steps of a request that has begun its evaluation, and of the task it started, are taken unless the process dies, which is an action of the model
  and recorded in `abandoned`; the loop of a connected reader goes round. A client is one that reconnects with its token, as
  `docs/marketplace-integration.md` asks of it, and in the end stays connected (the frontend's own hook reconnects without a token, and five times at most).

Every property has a mutant: a copy of a definition with a plausible bug (a dropped guard, a missing reset), marked `Mutant:` in
its comment, which makes TLC refute the property when it stands in for the real definition. Mutants precede the
definition they are a variant of; no specification uses them, and `PROJECT.json` (`mutants`) says which property each one breaks.

## 5. Proofs

Every invariant and every action property of the passing runs is a theorem for all values of the constants that satisfy the modules'
`ASSUME`s: any number of users, orders, trades, requests and replicas, any quantities, prices, limits and workloads. The
bounds of the models (`MaxNow`, `MaxTick`, `MaxEvents`, `MaxIndex`) are constants too. TLC evaluates the assumptions on every instance.

| Module | Theorem | Property | Beyond the modules' ASSUMEs |
|---|---|---|---|
| `EscrowSettlement_proofs` | `TypeCorrect`, `RowsAgree`, `SettlementSafe`, `EscrowsProgress` | `TypeOK`, `StatusesAgree`, `SettlementIsSafe`, `EscrowsOnlyProgress` | |
| | `CustodyImplemented` | `ImplementsCustody`: refines `TokenCustody` | |
| | `NoTokenIsLost` | `TokensConserved` | |
| `OrderMatching_proofs` | `MatchingTypes`, `StatusFitsFill`, `TradesAreHonoured` | `TypeOK`, `StatusMatchesFill`, `TradesHonourOrders` | |
| | `CustodyKept` | `ImplementsCustody`: refines `TokenCustody` | |
| | `FilledIsTracked`, `SellsCovered`, `BestPrice` | `FilledTracksTrades`, `SellsAreCovered`, `TradesAtBestPrice` | `Serial` |
| | `Uncrossed` | `BookIsUncrossed` | `Serial`, `Steady` |
| `Wallet_proofs` | `WalletTypes`, `ConfirmedHappened`, `AnsweredKeys`, `CreditsAccounted` | `TypeOK`, `ConfirmedRowsHappened`, `AnsweredKeySendsNoMore`, `CreditsAreAccounted` | |
| | `FundsImplemented` | `ImplementsFunds`: refines `FundsLedger` | |
| `Rewards_proofs` | `RewardsTypes`, `RewardsEarned`, `BalancesKept`, `DaysPaidOnce` | `TypeOK`, `RewardsAreEarned`, `UncontendedBalancesAddUp`, `YieldDaysArePaidOnce` | |
| `AssetFeeds_proofs` | `AssetFeedsTypes`, `OneToken`, `OneEvaluation`, `BetterScoreHigher` | `TypeOK`, `TokenizedOnce`, `OneEvaluationAtATime`, `BetterSubmissionsScoreHigher` | |
| | `CompleteNotifications`, `RelayedOnce` | `NotificationsAreComplete`, `RelaysGetEventsOnce` | |
| `Identity_proofs` | `IdentityTypes`, `OneSession`, `RolesRunOut`, `OneAccount`, `SecretInForce`, `LimiterFair` | `TypeOK`, `OneLiveSessionPerLogin`, `TakenRolesRunOut`, `SameCredentialSameUser`, `AnsweredSecretIsInForce`, `LimiterIsFair` | |
| `Catalogue_proofs` | `PagesComplete`, `EnrolmentsTrue` | `PagesAreComplete`, `EnrolmentsAreTrue` | |

`Serial` (one place request at a time, no watcher) and `Steady` (no request fails half-way, limit orders only) are the conditions under
which `orders_serial` checks these four; without them `FilledTracksTrades`, `SellsAreCovered` and `BookIsUncrossed` are false, as `orders_lost_fill`, `orders_uncovered_sells` and `orders_crossed_book` show. They are hypotheses of
the theorems and not assumptions of `OrderMatching`, whose other theorems hold of concurrent requests.

Assumptions worth a word. Users, token holders, coins, requests of the wallet and topics are finite sets (`UsersAssumption`,
`YieldAssumption`, `ReferralAssumption`, `OnchainAssumption`, `StreamAssumption`), because a sum or a list of them is taken. Quantities, limits, fees and
rates are positive numbers. Requests of different kinds are different requests (`EscrowAssumption`, `SessionAssumption`, `OnchainAssumption`, `TreasuryAssumption`).
There is one Nostr worker (`FeedAssumption`), as `infra/docker-compose.local.yml` deploys it: two would relay every event
twice. An e-mail is not a Nostr key and founders have different e-mails (`SessionAssumption`). The rows of a listing
have unique ids (`ListingAssumption`), which the tables' primary keys give.

### The arguments

No property but a few types is inductive. Each module states, in its first section or before the proofs that need it, an invariant that says what
a request still knows when it acts on rows it read earlier.

**EscrowSettlement.** Whether `SignPersist` records a release that is on the chain depends on what the request checked four steps before. `IInv` adds, for each handler
and stage, what its rows still say although other handlers ran since (`WatchInv`, `SignInv`, `ResolveInv`), e.g. that a buyer's sign request
only exists while the escrow is in inspection or released, which is why a dispute cannot take it away; and what the recorded
signatures imply (`SignaturesInv`: the buyer's never without the seller's). Each step is classified by the one transaction it runs, if any (`TransactionType`, `TransactionMovesRows`,
`TransactionKeepsSettlement`) and by its effect on the rows of a trade (`EffectKeepsTables`); then each handler's own invariant is
kept by its own step (`WatcherTask`, `SignerTask`, `ResolverTask`) and stable under the others' (`WatchInvStable`,
`SignInvStable`, `ResolveInvStable`). The refinement (`TransactionIsCustodyStep`) maps a match to `Lock`, a release or a
dispute released to `Deliver`, an expiry or refund to `Return`, and the rest to stutters. Tokens in the balances and in custody are one sum
over users and trades, of which a transaction moves one term to another. TLC checked `IInv` on the instance of `escrow_one_trade` before it was proved.

**OrderMatching.** `MInv`: an order row never forgets its terms and a triggered order is never dormant again, so a stale row that a request or a watcher holds (`Held`) is still right about everything
but fill and status; what is stored from it is a status that matches the fill stored with it. That gives the first three theorems and the refinement for any interleaving.
`TracksInv` (serial) adds that the held rows are fresh and that a fill is the sum over the live trades of the order. `CoverInv` says that what a seller's open orders commit,
counting the orders a request has in hand - a cancelled one may be reopened by its trade -, is covered by the balance, and that what a request has summed up is what the tables say. `BestInv` keeps what the
search found the best until the trade. `UncrossedInv`: two orders that could trade cross only while the request that placed one of them is in its loop.

**Wallet.** `OInv`: what the stage of a request says of its address, reservation, key and transaction; what a reconciliation loop has seen of an output is still so, as
the chain only moves on. `RowsInv`: what a ledger row stands for has happened, and no withdrawal has two rows. `Balanced` is `CreditsAreAccounted` written with the sums of `FiniteSums`: for each wallet, credited
deposits are its balance, its withdrawals and the reservations of its requests. An index is derived by one request because `SaveAddress` inserts it under a unique key.
The refinement does not need `Balanced`, but what the other two say of one request: a request has no row before its commit (`NotRecorded`) and holds its cost from `Reserve` to `Record` or `SendFails`, or for ever (`ClaimNow`), so a reservation maps
to `Hold`, a failed send to `GiveBack`, the row to `Spend`, an earlier failure to `Refuse`, a credit to `Deposit`; a credited output keeps its worth (`CreditsKept`), and everything else, Lightning, restarts and the chain included,
neither adds nor drops a row of these types (`SameRecords`) and is a stutter. That balances add up (`CreditsAreAccounted`) does not follow from it alone: a claim may stay `held` for ever.

**Rewards.** A reward's row is inserted under its primary key before the treasury is read, so two reviews cannot both get to the insert (`OneInsert`), and a verified user who is not rewarded has a review that is
on its way or failed (`OnItsWay`). `BalanceInv`: while nothing is `contended` there is one writer, it has read the latest entry and writes a later one. `YieldInv`: of each holder's
accruals one is the last, and the row about to be inserted starts where an earlier one ended or where the holding was updated; while nothing is `raced` it starts after all that was paid.

**AssetFeeds.** `AInv`: a token row is what makes an asset tokenized; `evaluating` keeps others out from `begin_asset_evaluation` to the last write of the task, unless a completion was `misjudged`; results are those of the
submission. Monotonicity of the score is arithmetic on each term, clamp and rounding (`ScoreIsMonotone`). `FInv`: what is left in the queue of a reader continues its position without a gap in every topic (`Answer`), a client's token covers what is
addressed to it up to there, and a relay has got nothing that the pump still holds. That an answer of XREAD for several topics, in any order of topics, is such a queue
is proved of `FlattenSeq` itself (`FlattenHolds`).

**Identity.** `SInv`: a user row that a request read tells the e-mail for good, and a role that was the user's then or was taken since (`HeldSince`); of the sessions of one login one is not
revoked; a token is of the user whose credential came with the request. `FactorInv`: a secret in force was stored by a finished request of its user, and who was answered one has one, even if two requests overlapped. `RInv` relates the hits a bucket keeps to the requests it has let through: the hits are the end of that list, and what was dropped has left the window.

**Catalogue.** Whatever happens to a listing keeps the order of the rows that stay (`SameOrder`); so a steady row that was not shown yet stays after the cursor (`Ahead`), and what was shown stays before it unless a trade was
`reshuffled` (`Behind`). A page takes a contiguous part after the cursor, up to the end if it says that there is no more (`PageBounds`, for both ways the services tell). `EducationInv`: what an enrolment has
read may be out of date, but courses stay published, rows stay, and the unique key decides who is first.

**FiniteSums** and the recursions. The folds of the community modules and `FlattenSeq` choose a function that satisfies their recursion. That there is one, that it is
unique and what it adds up to is proved without induction theorems: take a smallest subset, or a least length, for which the claim fails (`SubsetMinimum`, `LeastNumber`). Its lemmas on a member added, removed or changed (`SumAdd`, `SumRemove`, `SumUpdate`), on equal summands (`SumEqual`) and on sums regrouped (`SumImage`, `SumByKey`) are what the balance proofs cite.

### Only model-checked

Liveness (`CreatedEscrowIsDecided`, `ConfirmedOutputsAreCredited`, `LightningBalanceCatchesUp`, `EvaluationsEnd`, `EventsAreDelivered`): the prover reaches neither
fairness nor ENABLED. The nine counterexamples of section 6, of course. And that an instance can do what the theorems are about: every action of every module is
taken in some run, and every property has a mutant it refutes.

## 6. Where the code and its documents part

Each of the following has a configuration in which TLC finds a counterexample. The first three are runs (`PROJECT.json` quotes document and code in `findings`):

- `orders_lost_fill` - two requests fill one resting order from the same old row: a fill is lost, the order oversells.
- `wallet_change_credited` - the change of a withdrawal goes to a new address of the same wallet, where the reconciliation loop finds it and
  credits it as a deposit. `CreditsAreAccounted` holds nevertheless: what is credited is accounted for, but more is credited than was paid.
- `rewards_yield_start` - accrual starts at the end of the last accrual whenever there is one, so a holding that grew last minute is paid for all the days (`docs/wallet-integration.md:168`, `common/incentives.py:369`).

The other six are not listed as runs; `tlc -config <name>.cfg` with `MCOrders`, `MCEscrow` or `MCRewards` ends in the counterexample. They show what the properties that hold only
without a race or in part (`Serial`, `Steady`, `contended`) leave out:

- `orders_uncovered_sells` - two requests of one seller both pass the checks of balance and reservations before either inserts (`SellsAreCovered`; `specs/abuse-controls.md:77`, `marketplace/main.py:1311`).
- `orders_buy_cancelled` - two trades at once leave a seller short of tokens, and the match loop cancels the buyer's order (`docs/marketplace-integration.md:339`, `main.py:1395`).
- `orders_cancelled_traded` - an order is cancelled after the match loop has read it, and the trade brings it back (`docs/marketplace-integration.md:337`, `db.py:643`).
- `orders_crossed_book` - a stop order that a trade activates rests across compatible orders until a later request arrives (`BookIsUncrossed`; `docs/marketplace-integration.md:14`, `main.py:1416`).
- `escrow_paid_expired` - the watcher looks at the clock before it looks at the chain, and an escrow that was paid expires (`infra/README.md:82`, `main.py:945`).
- `rewards_treasury_race` - two of the three writers of the ledger (`marketplace/db.py:277`, `admin/db.py:168`, `common/incentives.py:128`) overlap, and the
  later entry leaves the earlier one out of its running balance (`BalancesAddUp`; `specs/database-schema.md:339`).

The rest is what reading for the models brought up, without a run:

- Settlement. A watcher stores its own copy of `settlement_metadata` over the PSET the seller signed meanwhile (`specs/api-contracts.md:916`, `marketplace/main.py:826`): the escrow awaits
  the buyer without the seller's signature, and neither can sign on. An escrowed trade cannot be disputed once the seller has signed (`docs/marketplace-integration.md:436`, `marketplace/db.py:1195`).

- Admin. `POST /escrows/{trade_id}/resolve` (`admin/main.py:649`) calls `resolve_dispute` without two of its required keyword arguments and answers 500 before any statement; its test replaces that function.
- Wallet. A failure while a withdrawal derives its change address, or while it releases its reservation, leaves its key in flight until the replica restarts. A failed Lightning payment of amount 0 violates `amount_positive` and answers 500 instead of
  the `FAILED` of `docs/wallet-integration.md:1102`. A lost answer of `sendrawtransaction` releases the reservation of a withdrawal that is out; a lost answer of LND leaves a payment without a row. When the row of a
  withdrawal cannot be written, its reservation stays and a retry with the same key sends again (the document calls the cache best effort, `:1103`). A confirmed output that a withdrawal spends before it was credited is never credited.
- Rewards. A verified user whose reward transaction failed is not rewarded by a second review (`RewardsAreEarned` exempts the user through `Failed`). Two reads of one wallet at once accrue the same days (`YieldDaysArePaidOnce` exempts them through `raced`). A referral bonus asks for no treasury balance. A rejected user cannot submit again.
- Assets. A commit that succeeds but is answered with an error lets a reset open the asset to a second evaluation while events of the first are on their way (`OneEvaluationAtATime` exempts it through `misjudged`). A crash, or a
  reset that fails, leaves an asset in `evaluating`, which `docs/tokenization-integration.md:1006` admits. A failure after the issuance on Liquid that is not a conflict alerts nobody. The Nostr pump ends with its first exception from Redis while `/ready` stays ready.
- Feeds. A resume token holds `$` for topics without an event so far: their events during a disconnect are lost (`docs/marketplace-integration.md:828`). The price stream's best prices count stop orders that have not triggered, `GET /orderbook` does not (`:332`).
- Sessions. Two concurrent 2FA enables answer two secrets, of which one is in force (`AnsweredSecretIsInForce` asks only that it is one of them). A lost answer of enabling locks the user out, as backup codes are accepted nowhere (`specs/api-contracts.md:135`). A lost answer of a refresh ends the session. Two first logins with one Nostr key leave a user without
  an identity and one answer of 500. An access token outlives a logout and a demotion by up to its 15 minutes; the "jti blacklist" of `specs/architecture.md:233` does not exist.
- Rate limits. `Retry-After` is rounded down: a client that obeys it may be refused once more. Requests that match the sensitive rule do not count towards the write limit.
- Listings. A trade that settles between two pages moves to the front and may be shown twice; a cursor row that leaves the filter ends the traversal with `invalid_cursor` (`docs/marketplace-integration.md:312` admits it). No code publishes a course.

## 7. Not modelled

Listed with reasons in `PROJECT.json` (`components`). In short:

- the cryptography of keys, scripts, PSETs, passwords and codes: the models say whether they match;
- `claim_pegin` (a proof handed to the node), fiat on-ramp URLs, custody reports: no protocol state;
- generated gRPC stubs and RPC transport: the nodes behind them are external actors;
- the price stream (a snapshot after each event, no state of its own);
- CORS, headers, configuration, logging, metrics, alerts; audit rows (written by `record_audit_event` in a commit of their own after the operation's, which raises nothing and is read by no handler, but delays answers);
- the frontend and the gateway.
