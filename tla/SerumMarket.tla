----------------------------- MODULE SerumMarket -----------------------------
(***************************************************************************)
(* One market of the Serum DEX on Solana and the client the Gateway has    *)
(* for it (connectors/serum/extensions/market.ts).  A transaction is sent, *)
(* and at some later moment the cluster executes it, whether or not its    *)
(* sender still waits for the confirmation.  One that is refused or        *)
(* dropped is one that is never executed; its sender sees an exception.    *)
(*                                                                         *)
(* The program on the chain is not part of the repository: here it keeps   *)
(* the orders of the book, the events of fills that nobody has consumed,   *)
(* and which open orders accounts hold funds that can be settled.          *)
(***************************************************************************)
EXTENDS Naturals, FiniteSets, Sequences

CONSTANTS
  Owners,
  ClientIds,
  Signatures,     \* of transactions; an order, or an account, is named by the one that made it
  BaseLotSize,    \* in native units
  None

VARIABLES
  accounts,   \* open orders accounts that exist
  book,       \* bids and asks
  fills,      \* fill events in the event queue
  free,       \* accounts with free base or quote tokens
  tx          \* the transactions by signature

marketVars == <<accounts, book, fills, free, tx>>

Accounts == [address : Signatures, owner : Owners]
Orders == [id : Signatures, clientId : ClientIds, account : Accounts]

Unused == [kind |-> "none", fate |-> "none", order |-> None, orders |-> {}, account |-> None]

MarketInit ==
  /\ accounts = {} /\ book = {} /\ fills = {} /\ free = {}
  /\ tx = [s \in Signatures |-> Unused]

-----------------------------------------------------------------------------
(* Reads                                                                   *)

\* findOpenOrdersAccountsForOwner: its cache is never fresh, cacheDurationMs being 0
AccountsOf(o) == {a \in accounts : a.owner = o}

\* loadOrdersForOwner with loadBids, loadAsks and filterForOpenOrders
OrdersOf(o) == {b \in book : b.account \in AccountsOf(o)}

\* baseSizeNumberToLots: rounds down to the nearest lot
Lots(size) == size \div BaseLotSize

\* makePlaceOrderInstruction: "size too small", "invalid price"
SizeAccepted(size) == Lots(size) > 0

\* convertSerumOrderToOrder reads the field clientId.  An order of the book has
\* it; a fill is an event, whose field is called clientOrderId, so its id is undefined.
OpenOrder(b) == [id |-> b.clientId, exchangeId |-> b.id]
FilledOrder(b) == [id |-> None, exchangeId |-> b.id]

\* loadFills: whatever is in the event queue, without the owners
LoadFills == {FilledOrder(b) : b \in fills}

-----------------------------------------------------------------------------
(* Instructions                                                            *)

\* the open orders account of an order: one that was found or, if there was
\* none, a new one that the same transaction creates
AccountFor(o, found, s) ==
  IF found = {} THEN [address |-> s, owner |-> o] ELSE CHOOSE a \in found : TRUE

PlaceTransaction(o, clientId, found, s) ==
  [Unused EXCEPT !.kind = "place", !.fate = "sent",
                 !.order = [id |-> s, clientId |-> clientId, account |-> AccountFor(o, found, s)]]

CancelTransaction(orders) ==
  [Unused EXCEPT !.kind = "cancel", !.fate = "sent", !.orders = orders]

SettleTransaction(a) ==
  [Unused EXCEPT !.kind = "settle", !.fate = "sent", !.account = a]

\* settleSeveralFunds: when all the settlements are of one owner, their
\* instructions go into the transaction of the caller, and the one that is
\* sent is the owner's own, which stays empty
SettleSeveralTransaction == [Unused EXCEPT !.kind = "empty", !.fate = "sent"]

\* the first half of _sendTransaction; a signature is never used again
Fresh == CHOOSE s \in Signatures : tx[s].kind = "none"

Send(s, t) ==
  /\ s = Fresh /\ tx[s].kind = "none"
  /\ tx' = [tx EXCEPT ![s] = t]
  /\ UNCHANGED <<accounts, book, fills, free>>

-----------------------------------------------------------------------------
(* The cluster and the other traders                                       *)

ExecutePlace(s) ==
  /\ tx[s].kind = "place"
  /\ book' = book \cup {tx[s].order}
  /\ accounts' = accounts \cup {tx[s].order.account}
  /\ UNCHANGED <<fills, free>>

\* all the cancellations of a transaction succeed, or none
ExecuteCancel(s) ==
  /\ tx[s].kind = "cancel" /\ tx[s].orders \subseteq book
  /\ book' = book \ tx[s].orders
  /\ free' = free \cup {o.account : o \in tx[s].orders}
  /\ UNCHANGED <<accounts, fills>>

ExecuteSettle(s) ==
  /\ tx[s].kind = "settle"
  /\ free' = free \ {tx[s].account}
  /\ UNCHANGED <<accounts, book, fills>>

ExecuteEmpty(s) ==
  /\ tx[s].kind = "empty"
  /\ UNCHANGED <<accounts, book, fills, free>>

Execute(s) ==
  /\ tx[s].fate = "sent"
  /\ ExecutePlace(s) \/ ExecuteCancel(s) \/ ExecuteSettle(s) \/ ExecuteEmpty(s)
  /\ tx' = [tx EXCEPT ![s].fate = "ok"]

\* in part, or the rest of it
Fill(o) ==
  /\ o \in book
  /\ book' \in {book, book \ {o}} /\ fills' = fills \cup {o}
  /\ UNCHANGED <<accounts, free, tx>>

\* anyone may consume an event; its funds are then free
Consume(o) ==
  /\ o \in fills
  /\ fills' = fills \ {o} /\ free' = free \cup {o.account}
  /\ UNCHANGED <<accounts, book, tx>>

Cluster ==
  \/ \E s \in Signatures : Execute(s)
  \/ \E o \in book : Fill(o)
  \/ \E o \in fills : Consume(o)
=============================================================================
