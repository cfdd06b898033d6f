# Verification of the market making bot and its Gateway

The repository holds two programs. A small Go bot (`main.go`, `clock`,
`command`, `config`, `exchange`, `strategy`) makes a market on Gate.io: at every
tick of its clock it cancels its orders and places a bid and an ask around the
last price. `gateway/` is Hummingbot's Gateway, a TypeScript HTTP server through
which trading bots use blockchains (EVM chains, Solana, Near) and the exchanges
on them. `gateway/dist` is its compiled output and is not modelled.

## 1. Inventory

| Component | State | Operations | Hard behaviour | Correct when |
|---|---|---|---|---|
| Strategy (`strategy/simplePmm.go`) | OrderTracker, CreateTimeStamp, the two proposals of a tick | Tick: CancelAllOrders, CreateProposals, AdjustOrderToBudget, two PlaceOrder | panics between API calls, lost answers, fills and price moves between calls, the tracker is lost with the process | tracks every order it has open, one per side, bid below ask, old quotes go away |
| Exchange adapter (`exchange/gateio.go`) | none; the account is at the exchange | PlaceOrder, CancelOrder, GetLastPrice, AdjustCandidate | which errors are survived, balances that change while they are used | orders fit the balance they are paid from |
| Clock (`clock/clock.go`) | TickSize, iterators | Run | unit of the sleep | one tick per tick size |
| Nonce manager (`services/evm.nonce.ts`) | leading nonce and pending nonces per address, `#initialized`; both in LevelDB | init, getNonce, getNextNonce, provideNonce, commitNonce, mergeNonceFromEVMNode, dropExpiredPendingNonces | requests interleave at every await; expiry; failed and dropped transactions; other wallets; restarts with writes under way | nonces go out n, n+1, n+2; no holes; no reuse of what was acknowledged; expired caches are given up |
| Chain and connector init (`services/connection-manager.ts`, `ethereum-base.ts`, connectors) | `_ready`, `_initializing`, token lists | getChain, getConnector, init, loadTokens | requests that arrive during init, failing init | loaded once, ready means loaded, connectors know the chain's tokens |
| Shared objects and storage (`refcounting-closeable.ts`, `local-storage.ts`, `evm.tx-storage.ts`) | retrieval map, reference counts, LevelDB status | getInstance, declareOwnership, close, save, get, del | close is not awaited, reopening, counts looked up by path after an await | an owner's database is not closed; one without owners is |
| EVM transactions (`ethereum.controllers.ts`, `ethereum-base.ts`, `ethereum.ts`) | receipt cache, gas price, stored transactions | poll, approve, cancel, updateGasPrice | cached null receipts, listeners, a timer that is not re-armed | a mined transaction is eventually reported |
| AMM and LP controllers (`amm.controllers.ts`, `connectors/uniswap/*`, `connectors/perp/*`, `connectors/ref/*`) | none of their own; they take nonces and store transactions | price, trade, addPosition, reducePosition, collectFees, position, estimateGas | a price that moves between quote, check and block; a reserved nonce that is never committed or given back; ticks at the bounds and tokens in either order | executed within the limit, nonces settled, the range asked for |
| AMM connectors (`uniswap`, `sushiswap`, `pancakeswap`, `pangolin`, `traderjoe`, `quickswap`, `cronos-base`, `defikingdoms`, `defira`, `openocean`, `ref`, `perp`) | token lists, `_ready` | init, estimateBuyTrade, estimateSellTrade, executeTrade | the copies differ: slippage ignored, quoted twice, nonce kept after a failure | the slippage and the contract the client asked for and approved |
| Serum and CLOB (`connectors/serum/*`, `clob/*`) | markets, open orders accounts | getMarkets, getOrderBooks, getTickers, getOrders, createOrders, cancelOrders, settleFunds | retries of calls that are not idempotent, a timeout that never fires, batches, transactions that execute late | an order reported OPEN exists, one reported CANCELED is gone, a candidate has a bounded number of copies |
| Configuration manager (`config-manager-v2.ts`) | namespaces and their YAML files | load, get, set | memory and file change in separate steps; old, edited and half-written files | an acknowledged setting is the one in force |
| Wallet store (`wallet.controllers.ts`) | key files; Solana's key cache | add, remove, list, use | file operations of several requests interleave | an added wallet is there and usable; the list is right |
| Solana, Near | SDK clients, token lists, Solana's transaction cache | balances, token accounts, poll | calls of the SDKs | reads |
| Routes, validators, logging | none | | | formats only |

How they interact: the bot's clock ticks the strategy, which calls the exchange
adapter, which calls Gate.io. In the Gateway a controller gets a chain and a
connector from the connection manager, which initialises them on first use; a
chain initialises its nonce manager and its token list; a trade or a cancel
passes a transaction function to the nonce manager, which calls it with a nonce
and writes its state through NonceLocalStorage to LevelDB. A restart of the
process (`POST /restart` in `app.ts`, or a crash) loses everything but LevelDB,
the key files and the configuration. A CLOB request builds transactions for
Solana, which the cluster executes now, later or never; every call it makes is
wrapped in `runWithRetryAndTimeout`, and work for many names in
`promiseAllInBatches`.

`PROJECT.json` lists the hazards at their lines, with the properties about them;
for four there is no property, and a note says why. A note beside properties says
what of the hazard they do not catch.

## 2. Modules

| Module | Models |
|---|---|
| `EVMNonceManager` | `evm.nonce.ts` for one address, with LevelDB, the node and restarts |
| `MCEVMNonceManager` | its instance for TLC: symmetry of the requests |
| `NonceHistory` | `EVMNonceManager` with what clients were told and when |
| `PendingNonces` | the array of pending nonces and its text in LevelDB, against the function `EVMNonceManager` uses |
| `Gateio` | the exchange adapter and the account at the exchange |
| `SimplePMM` | the strategy, one API call per step, over `Gateio` |
| `Clock` | the bot's clock |
| `MarketMaking` | the running bot: `SimplePMM`, `Gateio` and `Clock` with a market, crashes and new processes |
| `EVMTransactions` | trade, approve, cancel and poll, with the receipt cache and the stored transactions |
| `ChainInit` | getChain and getConnector with the singleton inits |
| `SerumMarket` | one Serum market: transactions, the cluster that executes them, the reads and instructions of `extensions/market.ts` |
| `SerumReads` | the CLOB requests that only read, over several markets, with the batches |
| `Serum` | create, cancel, settle and look up orders with retries; composed with `SerumReads` on a `SerumMarket` |
| `AMMConnectors` | per connector class: init, slippage of quotes and transactions, nonce, deployed chains, spender |
| `AMMRequests` | what every request to a market maker goes through, and approvals |
| `AMMTrade` | price and trade requests, with the quote, the limit and the price of the block |
| `AMMLiquidity` | Uniswap v3 positions with their ticks, positions of perp, the reads |
| `AMM` | the four composed, and what they promise |
| `SharedStorage` | reference counts on two levels over a LevelDB that opens and closes |
| `WalletFiles` | key files, their requests and Solana's key cache |
| `ConfigManager` | one namespace in memory, in its file, and as acknowledged |
| `GatewayState` | the parts of the Gateway's state on disk, for one run |
| `EVMNonceManager_proofs` | proofs about the nonce manager and `NonceHistory` |
| `PendingNonces_proofs` | proofs about the array of pending nonces |
| `MarketMaking_proofs` | proofs about the bot |
| `Serum_proofs` | proofs about CLOB requests |
| `AMM_proofs` | proofs about trades, liquidity and approvals |
| `GatewayState_proofs` | proofs about the shared storage, the key files and the configuration |
| `EVMTransactions_proofs` | proofs about what poll reports |
| `ChainInit_proofs` | proofs about the initialisation |

### The nonce manager

`leading` and `pending` are the two maps of the class for one address; other
addresses use separate entries and keys and share nothing. `req` keeps, for each
request, the await it is suspended at and its live locals, `db` the two LevelDB
entries, `mined` and `pool` what the EVM node says, `sent` and `issued` are
history. JavaScript runs a method up to its next await on I/O without
interruption, and the continuation of an await on something already settled runs
before any other request is looked at; so an action is the code between two such
awaits: `GetNextNonce` (arrival up to the first RPC or write), the answer of
`getTransactionCount` (`MergeNonceFromEVMNode`, `GetNonceFromNode`), the end of a
write (`MergeSaved`, `MergeDropped`, `DropSaved`, `Reserved`, `Returns`), the
outcome of the transaction function (`NodeAccepts`, then `CommitNonce` or
`SendFails`). `Select`, `MergeReturns` and `EnterMerge` are the code those
continuations share. A count is any value the node had between call and answer.
Writes to LevelDB complete in any order, and a crash keeps or loses each one
under way. The node accepts a transaction whose nonce is not yet mined and not in
its mem-pool; only a client's own nonce replaces one there. Transactions leave
the mem-pool by being mined or dropped, and another wallet may use the address
(`Mine` for a nonce not in `pool`). RPCs may fail, and LevelDB may reject any
write (`SaveFails`): memory has changed already, the request fails, and a rejected
write of commitNonce, alone among them, goes through the catch block that forgets
the nonce and the later ones. `unsaved` of `NonceHistory` is history: the entries
whose last rejected write still makes memory and LevelDB differ, which is all that
`DurableAtRest` allows to be different.

`NoEarlyReuse` holds because commitNonce refuses a nonce that is not beyond the
leading one. The comment of the class asks for the opposite (`evm.nonce.ts:157-161`):
a past nonce that is sent again is to become the cached nonce. `PastNonceResets`
states that, and `nonce_reset` shows that the code throws instead.

The array of pending nonces is a function from nonce to expiry. `PendingNonces`
justifies that: it has the array with the operations in any order and with any
leading nonce, shows that nonces strictly increase along it, and that each
operation is the one `EVMNonceManager` uses, through an INSTANCE of that module.
Both are theorems (section 4). The steps compared are dropping expired nonces,
giving out the next one and loading; forgetting from a nonce on and starting an
empty array anew are steps of `PendingNonces`, whose result is sorted
(`NoncesIncrease`), but `StepsMatch` does not compare them.

### The bot

`pc` of `SimplePMM` is the API call the strategy is about to make. A call is one
step with the exchange's state, and it either returns, or fails with the error
the adapter survives (BALANCE_NOT_ENOUGH, ORDER_NOT_FOUND), or panics, in which
case it may have taken effect all the same. A panic ends the process and with it
the tracker; `Start` is a new process. Orders carry the number of the process
that placed them (history). Amounts are lots, prices whole units, spreads
tenths; the last prices used are multiples of ten so that products are exact as
they are with the code's decimals. The exchange never hands out an id that is
open or still tracked. Wall time is counted modulo the tick size.

### Initialisation

`req` says what each request waits for. A request that finds the chain neither
ready nor initialising runs `init` (nonce manager, then token list); one that
finds it initialising goes on at once, as `init` does. Connectors of the kind
`Waiting` (Uniswap and its kin) await `chain.init` and copy the token list;
`Guarded` ones (UniswapLP and perp on Ethereum) throw unless the chain is ready;
`Remote` ones await their SDK after that. Any of these awaits may fail.

### Transactions

`request` is where the request behind a transaction is, `chain` what the nodes
know of the transaction, `cache` the entry of `EthereumBase.cache` for its hash,
`listeners` the `provider.once` callbacks, `stored` the entries of `EvmTxStorage`,
and `poll` the await each client's poll is suspended at, with what it has read. The
times of unmined transactions come from an iterator over a snapshot of LevelDB
(`IterateTxs`) and are used an await later (`GetTxs`), with any save between; so
`AnsweredIsGuessed` is about polls that begin after the answer to the trade. One
that is under way then may still answer 0.
The node's answer about the receipt is read in `FetchReceipt` and cached in
`StoreReceipt`, so a null may be cached over a receipt that another poll or the
listener has cached meanwhile. An expired entry is still in `cache.keys()`, and
the poll that finds it fails, as `undefined` has no `blockNumber`. Sells are sent
without an entry in `EvmTxStorage`, as in `trade`. Quotes, limit prices and gas prices
are left out: a quote beyond the limit is a request that fails, and the guesses 2
and 3 of poll are one. Failures of nodes and storage, replacement by a cancelling
transaction, and crashes are steps of their own.

### Serum

`tx` maps the signature of a transaction to what it does and to its fate: sent,
then, at any later moment or never, "ok". A refused or dropped transaction is one
that stays sent. `accounts`, `book`, `fills` and `free` are the market's accounts
on the chain; other traders fill orders and anyone consumes the event queue
(`Fill`, `Consume`). The program on the chain is not in the repository and is
modelled by what the code relies on.

A request is a record with the call it is about to make in `pc`. A call reads the
chain, or sends a transaction and then waits for its confirmation; it may throw,
in which case `runWithRetryAndTimeout` repeats it with its earlier transaction
perhaps still to be executed. "unknown" is the exception that the handlers map to
CREATION_PENDING and CANCELATION_PENDING, "error" is any other. The requests that
group orders by `Account` make one group per order or target, because every key
is wrapped anew. The timer of the retry helper builds an Error that nobody
throws, so no step is a timeout.

`SerumReads` counts, for each market name of a request, the calls its task has
still to make. A task that fails does not stop those of its batch that already
run, but no further batch starts.

An order of the book has the field `clientId`, a fill is an event whose field is
`clientOrderId`; the conversion reads the first, so the client id of every fill is
undefined (`FilledOrder`). A lookup by client id therefore never finds a fill, and
one by exchange id alone takes any fill, whose undefined client id equals the
target's (`Matches`), whoever's it is. `FilledIsFound` states what the API's
description says of lookups, and has a run that violates it. What
still holds is `MissingIsGone`: an order that was open when the lookup came and
is answered as not found is off the book, and, if it was named by its exchange
id, its fill is gone too.

Every task of a read may fail at any of its calls, also when the cached markets
have expired and `getMarket` loads them again (`CallFails`).

What holds only so far: `CopiesBounded` allows as many copies of one order as
there are tries, which is what the code does; `MissingIsGone` is about orders
that were open when the lookup came. Commitment is "recent" (`market.ts:89`), and
what is executed there is taken as final: a rollback of the cluster is not
modelled.

### AMM

A price is an integer of which ten units are the last digit that `toFixed(8)`
keeps; with the base amount fixed, an amount of the quote token is a price too.
`GetTradeInfo` reads it, `CheckLimit` compares what is left of it after `toFixed`, and the
block executes at any price within the slippage of the transaction. Positions
are pairs of ticks: an inverse price is a negated tick, so that the swap of
`token0` and `token1` is visible. `RangeAsRequested` allows the lower tick to end
one spacing and a half away from the price asked for, and, where the top of the
pool pushes it down, almost two. `nonce` says how the request got its nonce and
what became of it. Only one request is under way; nonces of concurrent requests
are the subject of `EVMNonceManager`.

Exceptions named in the properties are what the code does: openocean executes a
second quote that is never compared with the limit and sends it to the address in
the remote answer (`openocean.ts:393`; `Targets` has the configured router and one
that is not), sushiswap ignores the slippage of the request, pancakeswap and positions keep the nonce of a failed
transaction until it expires, and on harmony's test network the approval of
defira goes to the address of its main network. On polygon, too, UniswapLP is built
on `Ethereum.getInstance(network)` (`uniswap.lp.helper.ts:48`), which fails for
polygon's test network (`ConnectorFails`) and has tokens only if some request
loaded Ethereum.

### State on disk

`GatewayState` runs `SharedStorage`, `WalletFiles`, `ConfigManager` and
`PendingNonces` (the array that LevelDB stores, see above) one at a time: they
share no variable and call nothing of each other, so a behaviour has the steps of
one of them.

In `SharedStorage` an object is named by the owner whose request created it.
`stage` follows an owner through the awaits of `close`; `level` is the status of
the Level database, with its rule that a close during an open waits for it, and
its lock on the path. `OpenIsOwned` excepts behaviours in which the path is asked
for during a close or a late save reopens the database (`tangled`): in these the
code leaves a database open without an owner, or two objects for one path. No
caller outside the tests closes a chain, so this is a limit of the class and not
a fault of the program that is there.

`WalletFiles` splits each request at its awaits: the directory is made, the file
is opened for writing and then whole; a list reads the chains and then each
directory. `kept` and `gone` are history. Solana's decrypted keys stay in memory
after the file is removed.

`ConfigManager` has settings with a good value, one that the schema refuses and
one of another type. Files are written by the Gateway, by an older version, by
hand, or cut short, by an update as well as by the copy of the template or the
save of the merge at start-up (`LoadCutShort`); the load merges them value by value
over the template. The user may edit the file under a running Gateway. It does
not read it again, and its next update writes all of its memory over the edit, so
such an edit counts as acknowledged only where it agrees with the memory
(`InForce`).

## 3. Runs

| Run | Shows | Bounds |
|---|---|---|
| `nonce_concurrent` | `TypeOK`, `LeadingWasSent`, `NoSkippedNonce` with two interleaved requests, restarts, failures, another wallet | 2 requests, time to 2, one mined transaction, nonces to 2: both TTLs expire, merges overlap, a commit overtakes a merge |
| `nonce_sequential` | `NoEarlyReuse`, `ExpiredCacheForgotten`, `DurableAtRest` for requests one after another, with crashes and rejected writes at every step | 1 slot, time to 4 with TTLs 2 and 1, so that a cache expires, is renewed and expires again |
| `nonce_duplicate` | violation of `ConcurrentNoncesDiffer` | 2 requests, time to 1, a leading nonce that outlives one tick and pending ones that outlive both, so that none expires in the trace |
| `nonce_reset` | violation of `PastNonceResets` | 1 request, a client's nonce 0, no clock: nonces 0 and 1 are sent, then 0 again |
| `market_making` | `TypeOK`, `OwnOrdersTracked`, `OneQuotePerSide`, `QuotesDoNotCross`, `QuotesRefreshed` | two prices, two trades, two processes, four order ids: two processes' orders on both sides |
| `evm_transactions` | `TypeOK`, `SuccessIsMined`, `AnsweredIsGuessed`, `StaleNullEnds` | one transaction and three clients that poll it over and over: transactions share no state, and three polls can hold a null, a receipt and an expired entry at once |
| `chain_init` | `LoadedOnce`, `ReadyMeansLoaded`, `GuardedConnectorsComplete`, `RequestsAnswered` | 3 requests, one connector of each kind, 2 tokens |
| `chain_init_race` | violation of `ConnectorKnowsTokens` | as `chain_init` |
| `serum_orders` | `OpenWasPlaced`, `CanceledIsGone`, `CopiesBounded`, `AnswersComplete`, `NotFoundIsCaused`, `MissingIsGone`, `SettlesComplete` | any two requests of different kinds, two tries per call, eight signatures, as many as two requests use, a cancellation of up to two targets, three names of which one is unknown, batches of two: a late transaction of a first try meets the second one and the other request |
| `serum_filled` | violation of `FilledIsFound` | one create and one lookup |
| `amm_requests` | `ExecutedWithinLimit`, `ExpectedHonoured`, `SlippageAsAsked`, `NoncesSettled`, `ApprovalsSuffice`, `RangeAsRequested` | every connector on each of its chains and networks; four prices, on both sides of the limit and beyond the slippage; ticks up to the bound of the pool, 11, which is not a multiple of the spacing 6: both rounding directions and the push at the top and the bottom of the pool occur; two approvals |
| `gateway_state` | `OwnedStaysOpen`, `OpenIsOwned`, `AddedWalletKept`, `ListIsRight`, `AcknowledgedKept`, `NoncesIncrease`, `StepsMatch` | three owners: one that closes, one that joins, one that opens anew; three clients on two chains; two versions, two good values; nonces to 3 and time to 3: arrays of up to four entries |

The runs of the nonce manager switch deadlock checking off: with the clock, the
chain and the nonces bounded, the model stops. So do `serum_orders` (bounded
requests), `amm_requests` (an approval that is bounded, a request that ended) and
`gateway_state` (owners come once, a bounded clock). The others check it.

Violations are disagreements between the code and its own words; "findings" of
`PROJECT.json` quotes the words. `nonce_duplicate` is the one that matters most.
A request finds no pending nonce, finds the leading one expired and waits for the
node's count (`getNonce`, line 391). When the count has come and is being written,
a second request finds no pending nonce either and the leading one fresh, and
reserves leading + 1. The first goes on to replace the array by the same
leading + 1 (line 394), and both send with it. `serum_filled` is a wrong field
name; its other side, that a lookup by exchange id alone answers the first fill of
the market, is in `Matches` and has no run. `nonce_reset` is a comment that the code does
not follow, and `chain_init_race` a copy made too early.

Three more disagreements are visible in the modules and have no run of their own:
`Clock.Run` takes seconds for nanoseconds (`clock.go:34`; `Clock` sleeps as long as
the code does), the budget check reads the wrong currency's balance
(`gateio.go:102`, `AdjustBuy` and `AdjustSell` of `Gateio`), and poll reports a
transaction that was mined and reverted as a success
(`ethereum.controllers.ts:379`; `SuccessIsMined` claims no more than mined).

Each property has a mutant, a definition of the same module that changes the code
the way a likely bug would; under the run's own bounds TLC finds the property
violated by it.

### Fairness

`EVMNonceManager`: weak fairness of each request's next answer, since every RPC,
transaction call and LevelDB write settles (with a value or an error); only
`nonce_reset` uses it. That every request ends is not stated: its awaits follow one
another without a loop, a lock or a retry. `MarketMaking`: weak
fairness of the bot's own steps and of time: the loop of `Clock.Run` goes on,
and an API call returns or fails. Nothing is assumed of the market or of a
restart. `ChainInit`: weak fairness of each request's answers. Strong fairness is
used nowhere. `EVMTransactions`: weak fairness of each poll's answers and of the
listener, which the provider serves at each new block; nothing is assumed of
mining, of requests or of crashes. `Serum`, `AMM` and `GatewayState` state no
fairness: nothing in that code makes the cluster execute, a user retry, or an
owner close, and their properties are about safety.

## 4. Proofs

All theorems hold for every value of the constants under the named assumptions
of the modules (a slot for init apart from the requests, `None` not a nonce,
natural TTLs and bounds; connector kinds disjoint; prices of whole tens and a bid
spread below one hundred percent; `None` no owner, order, account or signature;
natural AMM prices, limits and slippages, and a tick spacing of at least one;
`Missing` not the contents of a configuration file; `Undefined` not the array of
pending nonces, nor its text, nor a leading nonce).

- `TypeCorrect`: `Spec => []TypeOK` of `EVMNonceManager`. `TypeOK` is inductive.
  The proof has a lemma for each segment that several actions share.
- `LeadingSent`: `Spec => []LeadingWasSent`. The inductive invariant adds that
  what LevelDB holds and what any request is about to write is of the same kind,
  that a count read earlier is at most the node's count, and that a request
  waiting to commit has its nonce in `sent`: without these, a crash, a late
  answer or a late write could bring back a nonce nobody used.
- `NoSkipped`: `Spec => []NoSkippedNonce`, from `OriginInv`: the nonces of the
  pending array, in memory, in LevelDB and in writes under way, have been
  issued, so that what is taken next to a pending or a leading nonce has a
  predecessor. `EVMNonceManager_proofs` has the facts about Min and Max of finite
  sets used there.
- `NotReusedEarly`, `ExpiredForgotten`, `DurableBetween`: the three promises of
  `NonceHistory`, for any number of clients, any TTLs, any clock and any crashes,
  as long as no two requests overlap (`[]OneAtATime`; the run has one slot, which
  is the same without the names). The hypothesis is needed: `nonce_duplicate`
  shows what two overlapping requests do. `HistoryInv` has five parts: requests
  and init take turns (`InTurn`); what is being written is what the manager has
  (`SlotsFit`) and what is not being written is in LevelDB already, or was rejected
  by it (`Stored`), so that without rejections a crash goes back by one write; both leading nonces, in memory and
  in LevelDB, lie above and outlive every transaction that was reported as sent
  (`Covered`), which must hold of LevelDB too because a crash may take either; and
  a request that found all expired carries nothing of the old cache from one
  await to the next (`Forgotten`).
- `ChainLoadedOnce`, `ChainReady`, `GuardedComplete`: from `LoadingInv` of
  `ChainInit_proofs`: a request that loads the chain is the only one, and
  `_initializing` is set and `_ready` is not meanwhile.

- `SuccessMined`, `AnsweredGuessed`: the action properties of `EVMTransactions`, from
  an inductive invariant that says that no receipt is older than its block
  wherever it waits (cache or poll), that a poll under way has a transaction, and
  that what was answered is stored. A poll that began after the answer has what it
  reads in its snapshot (`found`); one that began before proves nothing, and the
  property says so. `OnlyPollsAnswer` reduces a step that ends a
  poll to that poll's own actions.

- `TransactionsTyped`: the type invariant of `EVMTransactions`, inductive as it is.

- `TypeCorrect`, `OrdersTracked`, `OnePerSide`, `BidStaysBelowAsk` of
  `MarketMaking_proofs`: the bot's type invariant and its three safety
  properties, for any price path, amounts, funds, spreads and number of
  processes. `QuotesInv` strengthens them with what is true inside a tick: before
  the first placement the process has no open order and two proposals with bid
  below ask; before the second, at most a bid below the proposed ask. The products
  of prices and spreads are isolated in lemmas, so that the solver sees no
  non-linear term elsewhere. `Fewer` covers all the steps that place no order.

- `AnswersAreComplete`, `NotFoundCaused` of `Serum_proofs`: for any number of names
  and any batch size, from `ReadInv`: what a request asked for is what is left,
  running or loaded, and a rejected task lost nothing that an answer would need.

- `OpenPlaced`, `CanceledGone` of `Serum_proofs`, for any number of requests, of
  candidates and of retries. `MarketInv` says that an order is named by the
  transaction that places it and is on the book only if that was executed, and
  that an executed cancellation left none of its orders. `Grows` is what any
  step of anyone does to the market: transactions stay what they are, executed
  ones stay executed, and no executed order comes back. `CreateInv` and `CancelInv`
  are then stable under `Grows` (`CreateKept`, `CancelKept`), so each action of a
  request has to be looked at only for that request. `SettlesAreComplete`
  needs that every account a settle request found is still to be settled or has a
  settlement, among those that this request sent, that was executed, and that the
  settlement it waits for is of the account it is about to take off.

- `OwnedOpen` of `GatewayState_proofs`: `OwnedStaysOpen` for any set of owners, from
  `Registered`: an owner that is open is counted for the wrapper of the path, the
  wrapper for the database of the path, and a database that is registered is not
  on its way to be closed. `GetInstanceOK` and `ReleaseOK` say what the two
  operations of `refcounting-closeable.ts` do to an entry.

- `OpenOwned`: `OpenIsOwned`, from `OneWrapper`, which holds as long as nothing is
  `tangled`: the owners that are there share one wrapper, only they own the
  registered database, and nobody does when the last of them closes it.

- `MissingGone` of `Serum_proofs`: `MissingIsGone`, from `LookupInv`: the orders a
  lookup is about were executed, so that they cannot come back to the book; once
  off the book no fill is added for them; while one is on the book its
  account is among those that `getOpenOrder` reads, and a fill of an order named by
  its exchange id is found by it.

- `CopiesAreBounded` of `Serum_proofs`: `CopiesBounded`, a bound on a cardinality.
  `CopiesInv` says that every order can be attributed to a request, a candidate
  and a try, no two orders to the same three, and that finitely many requests
  have come. `PlacedBy` is what an attribution means; it is stable while a
  request goes on (`PlacedByStays`), so only the step that sends an order has to
  extend it, by a try that nothing was attributed to before.

- `AddedWalletStays`, `WalletListIsRight` of `GatewayState_proofs`, from `WalletInv`:
  a chain whose file is known to be there, or known to be gone, has no writer, a
  writer whose outcome is sure is the only one of its chain, and a list or a use
  that is half way has read what it could not have read wrong.

- `AcknowledgedStays`: `AcknowledgedKept` of the configuration, from `ConfigInv`:
  until a write is cut short, the file says what was acknowledged, whether or not
  the process is up, and so does the namespace in memory while it is up. Files of
  any subset of the settings are covered, with values of any kind.

- `ExecutedAtLimit`, `ExpectedIsHonoured`, `SlippageIsAsAsked`, `NoncesAreSettled`,
  `ApprovalsAreEnough`, `RangeIsAsRequested` of `AMM_proofs`: all properties of `AMM`,
  for any sets of prices, limits and slippages, any ticks, spacing and pool
  bounds (`PriceAssumption`, `TickAssumption`). `AMMInv` says for each place a
  request can be at what its transaction, quote and nonce are; `SetupKeeps` and
  `TradeKeeps` reduce a step to what it changes. The proof of `RangeIsAsRequested`
  corrected the property: one and a half spacings between the lower tick and its
  price is what an instance with a pool bound that is a multiple of the spacing
  shows, but at the top of any other pool it is almost two. The property and the
  run have that case now.

- `ArrayIncreases`, `StepsAreTheManagers` of `PendingNonces_proofs`: for arrays of
  any length, `NoncesIncrease` and `StepsMatch`, so that what is proved of
  `EVMNonceManager` with its function holds of the array. `Keep` is the filtering
  loop of the code as a recursive function. That it can be run (`LoopEnds`) and
  what it has pushed at each turn (`LoopKeeps`) is shown by a smallest turn that
  goes wrong, found by the well-founded order of the naturals, in place of the
  induction theorems that the provers cannot instantiate. `AsFunctionIs` needs
  the array sorted: with a repeated nonce the function would not say which entry
  counts.

Only model-checked: liveness (`RequestsAnswered`, `StaleNullEnds`,
`QuotesRefreshed`), which the prover cannot do. Every other property of a passing
run is stated by a theorem.

## 5. Not modelled, and the plan

What could come next, in this order:

1. An abstract allocator of nonces (issue, confirm, forget) that
   `EVMNonceManager` implements, for requests that do not overlap: `HistoryInv` is
   the invariant such a refinement needs.
2. AMM requests that overlap, over `EVMNonceManager`.
3. The gas price: its timer, which is armed again only after a success
   (`ethereum.ts:134`), and the guesses 2 and 3 of poll, which `EVMTransactions`
   takes for one.

Left out, and why:

- of the nonce manager: `isValidNonce`, which is `getNextNonce` and a comparison;
- of the AMM connectors: routing, pair data and gas estimates (results and
  arguments of library calls), the quotes of perp's positions;
- of Serum: the token accounts that are cached for good and the client methods
  that no request uses (`replaceOrders`, `matchOrders`,
  `cancelOrdersByClientIds`, the fee discount keys);
- of Solana and Near: balances, token accounts and poll, which read through the
  SDKs; of Near the storage deposits before a swap;
- of the configuration: `root.yml`, whose migrations do nothing, and the
  passphrase on the command line;
- the network status (it reads block numbers), the routes, validators and error
  texts (formats), swagger, telemetry and logging;
- `gateway/dist` (compiled), `strategy/uniswapV3LP.go` and `exchange/uniswap.go` (no
  behaviour).

Sequences, sets and functions come from the community modules (`SequencesExt`,
`FiniteSetsExt`, `Functions`) wherever they have the operator; modules with
theorems reach none that is declared RECURSIVE.
