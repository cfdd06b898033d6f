--------------------------- MODULE EVMTransactions ---------------------------
(***************************************************************************)
(* The life of an EVM transaction as clients of the Gateway see it: trade  *)
(* and approve send it, cancel replaces it, poll reports on it.            *)
(* Reports come from two memories: the receipt cache of EthereumBase,      *)
(* which also keeps "no receipt yet", and the times of transactions in     *)
(* LevelDB (EvmTxStorage).                                                 *)
(*                                                                         *)
(* A step is the code between two awaits; the answer of a node is read at  *)
(* one step and used at a later one, with any other request in between.    *)
(* The nonces are EVMNonceManager's: here the transaction function just    *)
(* succeeds, fails, or succeeds with commitNonce failing after it.  Prices *)
(* are left out: a quote beyond the limit price is a request that fails.   *)
(***************************************************************************)
CONSTANTS
  Buys, Sells,    \* requests to trade, each with its transaction
  Approvals,      \* requests to approve
  Polls,          \* clients that poll transactions, one after another
  None            \* no transaction, no answer yet

\* txStatus: -1, 0, 1, and 2 or 3 (a guess from the gas price and the time)
Statuses == {"absent", "unknown", "succeeded", "guessed"}

Txs == Buys \cup Sells \cup Approvals

ASSUME TransactionsAssumption ==
  /\ Sells \cap (Buys \cup Approvals) = {}
  /\ None \notin Txs /\ None \notin Statuses

VARIABLES
  request,    \* where the request behind each transaction is
  chain,      \* what the nodes know of it
  cancelled,  \* transactions another one with the same nonce was sent for
  stored,     \* transactions with an entry in EvmTxStorage
  cache,      \* EthereumBase.cache
  listeners,  \* transactions with provider.once(txHash, cacheTransactionReceipt)
  poll        \* where each client's poll is, or what the last one answered

requests == <<request, stored>>
ledger == <<chain, cancelled>>
receipts == <<cache, listeners>>
vars == <<requests, ledger, receipts, poll>>

Outcomes == {"ok", "reverted", "outOfGas"}
Mined(t) == chain[t] \in Outcomes

RequestStates == {"idle", "send", "sent", "saved", "answered", "failed"}
PollStates == {"idle", "data", "receipt", "fetch", "fetched", "storage", "txs"}

TypeOK ==
  /\ request \in [Txs -> RequestStates]
  /\ chain \in [Txs -> {"none", "pool", "gone"} \cup Outcomes]
  /\ cancelled \subseteq Txs /\ stored \subseteq Txs /\ listeners \subseteq Txs
  /\ cache \in [Txs -> {"absent", "null", "receipt", "expired"}]
  /\ poll \in [Polls -> [pc : PollStates, tx : Txs \cup {None},
                         receipt : {"null", "receipt"}, found : BOOLEAN,
                         after : BOOLEAN, status : Statuses \cup {None}]]

\* found: what the poll has read of EvmTxStorage; after (history): the client
\* of the transaction had its answer before the poll began
Idle == [pc |-> "idle", tx |-> None, receipt |-> "null", found |-> FALSE,
         after |-> FALSE, status |-> None]

Init ==
  /\ request = [t \in Txs |-> "idle"]
  /\ chain = [t \in Txs |-> "none"]
  /\ cancelled = {} /\ stored = {}
  /\ cache = [t \in Txs |-> "absent"] /\ listeners = {}
  /\ poll = [p \in Polls |-> Idle]

-----------------------------------------------------------------------------
(* Trade and approve                                                       *)

Proceed(t, pc) == request' = [request EXCEPT ![t] = pc]

\* the request arrives; wallet, route and price are awaited before the transaction is sent
RequestArrives(t) ==
  /\ request[t] = "idle"
  /\ Proceed(t, "send")
  /\ UNCHANGED <<stored, ledger, receipts, poll>>

\* The node takes the transaction; its answer is still under way.
NodeAccepts(t) ==
  /\ request[t] = "send"
  /\ Proceed(t, "sent")
  /\ chain' = [chain EXCEPT ![t] = "pool"]
  /\ UNCHANGED <<cancelled, stored, receipts, poll>>

\* The hash arrives and the nonce is committed.  Except after a sell, the time
\* and the gas price are saved; the answer waits for the write.
SaveTx(t) ==
  /\ request[t] = "sent" /\ t \notin Sells
  /\ Proceed(t, "saved")
  /\ stored' = stored \cup {t}
  /\ UNCHANGED <<ledger, receipts, poll>>

\* Mutant: the answer does not wait for the write.
ExecutedUnsaved(t) ==
  /\ request[t] \in {"sent", "saved"}
  /\ Proceed(t, "answered")
  /\ UNCHANGED <<stored, ledger, receipts, poll>>

\* the client gets its answer
Executed(t) ==
  /\ request[t] = IF t \in Sells THEN "sent" ELSE "saved"
  /\ Proceed(t, "answered")
  /\ UNCHANGED <<stored, ledger, receipts, poll>>

\* the wallet, the route, the limit price, the node, commitNonce or the storage fails
RequestFails(t) ==
  /\ request[t] \in {"send", "sent"}
  /\ Proceed(t, "failed")
  /\ UNCHANGED <<stored, ledger, receipts, poll>>

\* cancelTx sends a transaction of value 0 with the nonce of t
Cancel(t) ==
  /\ chain[t] = "pool" /\ t \notin cancelled
  /\ cancelled' = cancelled \cup {t}
  /\ UNCHANGED <<chain, requests, receipts, poll>>

-----------------------------------------------------------------------------
(* Poll                                                                    *)

Answer(p, status) == poll' = [poll EXCEPT ![p] = [Idle EXCEPT !.status = status]]

Fail(p) == poll' = [poll EXCEPT ![p] = Idle]

\* The answer for a transaction with a receipt.  typeof txReceipt.status is
\* 'number' for every receipt, a reverted transaction's too; one that failed
\* because of its gas limit is an error.
Processed(p, t) ==
  IF chain[t] = "outOfGas" THEN Fail(p)
                           ELSE Answer(p, "succeeded")

PollArrives(p) ==
  /\ poll[p].pc = "idle"
  /\ \E t \in Txs :
       poll' = [poll EXCEPT ![p] = [Idle EXCEPT !.pc = "data", !.tx = t,
                                                !.after = request[t] = "answered"]]
  /\ UNCHANGED <<requests, ledger, receipts>>

\* the node answers getTransaction
GetTransaction(p) ==
  /\ poll[p].pc = "data"
  /\ IF chain[poll[p].tx] \in {"none", "gone"}
       THEN Answer(p, "absent")
       ELSE poll' = [poll EXCEPT ![p].pc = "receipt"]
  /\ UNCHANGED <<requests, ledger, receipts>>

\* Mutant: a cached null passes for a receipt.
GetReceiptOrNull(p) ==
  LET t == poll[p].tx IN
  /\ poll[p].pc = "receipt"
  /\ IF cache[t] = "absent" THEN poll' = [poll EXCEPT ![p].pc = "fetch"] ELSE Processed(p, t)
  /\ UNCHANGED <<requests, ledger, receipts>>

\* getTransactionReceipt: the cache is asked first.  cache.keys() also has an
\* expired entry; cache.get then drops it and returns undefined, on which
\* poll stumbles (undefined is not null, and has no blockNumber).
GetReceipt(p) ==
  LET t == poll[p].tx IN
  /\ poll[p].pc = "receipt"
  /\ \/ cache[t] = "null" /\ poll' = [poll EXCEPT ![p].pc = "storage"] /\ UNCHANGED cache
     \/ cache[t] = "receipt" /\ Processed(p, t) /\ UNCHANGED cache
     \/ cache[t] = "absent" /\ poll' = [poll EXCEPT ![p].pc = "fetch"] /\ UNCHANGED cache
     \/ /\ cache[t] = "expired"
        /\ cache' = [cache EXCEPT ![t] = "absent"]
        /\ Fail(p)
  /\ UNCHANGED <<requests, ledger, listeners>>

\* the node answers getTransactionReceipt, ...
FetchReceipt(p) ==
  /\ poll[p].pc = "fetch"
  /\ poll' = [poll EXCEPT ![p].pc = "fetched", ![p].receipt = IF Mined(poll[p].tx) THEN "receipt" ELSE "null"]
  /\ UNCHANGED <<requests, ledger, receipts>>

\* Mutant: nobody listens for the receipt.
StoreReceiptSilently(p) ==
  LET t == poll[p].tx IN
  /\ poll[p].pc = "fetched"
  /\ IF poll[p].receipt = "receipt"
       THEN cache' = [cache EXCEPT ![t] = "receipt"] /\ Processed(p, t)
       ELSE /\ cache' = [cache EXCEPT ![t] = "null"]
            /\ poll' = [poll EXCEPT ![p].pc = "storage"]
  /\ UNCHANGED <<requests, ledger, listeners>>

\* ... and the answer is cached, whatever the cache has got in the meantime
StoreReceipt(p) ==
  LET t == poll[p].tx IN
  /\ poll[p].pc = "fetched"
  /\ IF poll[p].receipt = "receipt"
       THEN /\ cache' = [cache EXCEPT ![t] = "receipt"]
            /\ UNCHANGED listeners
            /\ Processed(p, t)
       ELSE /\ cache' = [cache EXCEPT ![t] = "null"]
            /\ listeners' = listeners \cup {t}
            /\ poll' = [poll EXCEPT ![p].pc = "storage"]
  /\ UNCHANGED <<requests, ledger>>

\* unmined: the iterator over LevelDB is opened, on a snapshot of this moment
IterateTxs(p) ==
  /\ poll[p].pc = "storage"
  /\ poll' = [poll EXCEPT ![p].pc = "txs", ![p].found = poll[p].tx \in stored]
  /\ UNCHANGED <<requests, ledger, receipts>>

\* Mutant: the status of an unmined transaction has no default.
GetTxsUndefined(p) ==
  /\ poll[p].pc = "txs"
  /\ Answer(p, IF poll[p].found THEN "guessed" ELSE "undefined")
  /\ UNCHANGED <<requests, ledger, receipts>>

\* its entries have arrived: guess from the time and gas price, if there are any
GetTxs(p) ==
  /\ poll[p].pc = "txs"
  /\ Answer(p, IF poll[p].found THEN "guessed" ELSE "unknown")
  /\ UNCHANGED <<requests, ledger, receipts>>

\* a node or the storage fails
PollFails(p) ==
  /\ poll[p].pc \in {"data", "fetch", "storage", "txs"}
  /\ Fail(p)
  /\ UNCHANGED <<requests, ledger, receipts>>

\* provider.once(txHash): the receipt has arrived
CacheTransactionReceipt(t) ==
  /\ t \in listeners /\ Mined(t)
  /\ cache' = [cache EXCEPT ![t] = "receipt"]
  /\ listeners' = listeners \ {t}
  /\ UNCHANGED <<requests, ledger, poll>>

\* node-cache: an entry outlives its hour, and its periodic check removes it
CacheExpires(t) ==
  /\ \/ cache[t] \in {"null", "receipt"} /\ cache' = [cache EXCEPT ![t] = "expired"]
     \/ cache[t] = "expired" /\ cache' = [cache EXCEPT ![t] = "absent"]
  /\ UNCHANGED <<requests, ledger, listeners, poll>>

-----------------------------------------------------------------------------
(* The world around                                                        *)

Mine(t) ==
  /\ chain[t] = "pool"
  /\ \E outcome \in Outcomes : chain' = [chain EXCEPT ![t] = outcome]
  /\ UNCHANGED <<cancelled, requests, receipts, poll>>

\* the cancelling transaction is mined in its place
Replaced(t) ==
  /\ chain[t] = "pool" /\ t \in cancelled
  /\ chain' = [chain EXCEPT ![t] = "gone"]
  /\ UNCHANGED <<cancelled, requests, receipts, poll>>

\* The process ends: requests, cache and listeners are lost, and an entry under
\* way to LevelDB is written or not.
Crash ==
  /\ request' = [t \in Txs |->
                   IF request[t] \in {"idle", "answered"} THEN request[t] ELSE "failed"]
  /\ \E saved \in SUBSET {t \in Txs \ Sells : request[t] = "sent"} : stored' = stored \cup saved
  /\ cache' = [t \in Txs |-> "absent"] /\ listeners' = {}
  /\ poll' = [p \in Polls |-> IF poll[p].pc = "idle" THEN poll[p] ELSE Idle]
  /\ UNCHANGED ledger

RequestStep(t) ==
  NodeAccepts(t) \/ SaveTx(t) \/ Executed(t) \/ RequestFails(t)

PollStep(p) ==
  \/ GetTransaction(p) \/ GetReceipt(p) \/ FetchReceipt(p) \/ StoreReceipt(p)
  \/ IterateTxs(p) \/ GetTxs(p) \/ PollFails(p)

Next ==
  \/ \E t \in Txs : RequestArrives(t) \/ RequestStep(t) \/ Cancel(t)
                    \/ CacheTransactionReceipt(t) \/ CacheExpires(t) \/ Mine(t) \/ Replaced(t)
  \/ \E p \in Polls : PollArrives(p) \/ PollStep(p)
  \/ Crash

Spec == Init /\ [][Next]_vars

\* Every await settles, and a provider with a listener looks for the receipt at every block.
FairSpec ==
  /\ Spec
  /\ \A p \in Polls : WF_vars(PollStep(p))
  /\ \A t \in Txs : WF_vars(CacheTransactionReceipt(t))

-----------------------------------------------------------------------------
(* Properties                                                              *)

\* this step ends a poll with this status
Answers(p, status) == poll[p].pc # "idle" /\ poll'[p].status = status

\* A poll reports success for mined transactions only, whichever of the cache,
\* the listener and the node its receipt comes from (ethereum.controllers.ts, poll).
SuccessIsMined ==
  [][\A p \in Polls : Answers(p, "succeeded") => chain[poll[p].tx] \in {"ok", "reverted"}]_vars

\* A poll that begins after the client of a buy or an approval has its answer
\* never says that nothing is known to guess the status from, restarts or not:
\* the entry is saved before the answer.  A poll that began before may have read
\* an older snapshot of EvmTxStorage and say so after the answer.
AnsweredIsGuessed ==
  [][\A p \in Polls : Answers(p, "unknown") => poll[p].tx \in Sells \/ ~poll[p].after]_vars

\* After a transaction is mined the cache stops saying that it is not, although
\* "no receipt" answers read before may be cached over a receipt
\* (ethereum-base.ts, getTransactionReceipt).
StaleNullEnds == \A t \in Txs : Mined(t) ~> [](cache[t] # "null")
=============================================================================
