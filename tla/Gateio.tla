------------------------------- MODULE Gateio -------------------------------
(***************************************************************************)
(* The Gate.io exchange of the Go bot (exchange/gateio.go): the account at *)
(* the exchange, and what each method of the adapter does with the answer  *)
(* of its API call.  A method that meets an error it does not expect       *)
(* panics, and the process ends; the call may have taken effect all the    *)
(* same, when only its answer was lost.                                    *)
(*                                                                         *)
(* Amounts are whole lots of the base currency, prices and quote balances  *)
(* whole units of the quote currency.                                      *)
(***************************************************************************)
EXTENDS Integers, FiniteSets, FiniteSetsExt, Functions

CONSTANTS
  OrderIds,     \* ids the exchange assigns
  NoId,         \* the empty id of a response without an order
  Prices,       \* last prices of the pair
  BaseFunds,    \* balance of the base currency at the start
  QuoteFunds,   \* balance of the quote currency at the start
  MaxFills      \* bound: trades the market makes with the account's orders

ASSUME IdsAssumption == NoId \notin OrderIds /\ IsFiniteSet(OrderIds)
ASSUME FundsAssumption == BaseFunds \in Nat /\ QuoteFunds \in Nat /\ MaxFills \in Nat
ASSUME PricesAssumption == Prices \subseteq Nat

VARIABLES
  orders,   \* open orders of the account: id -> order
  base,     \* Available of quote[0], the base currency
  quote,    \* Available of quote[1], the quote currency
  last,     \* last price
  fills     \* number of trades so far

exchangeVars == <<orders, base, quote, last, fills>>

ExchangeInit ==
  /\ orders = [id \in {} |-> NoId]
  /\ base = BaseFunds /\ quote = QuoteFunds
  /\ last \in Prices
  /\ fills = 0

Cost(o) == IF o.side = "buy" THEN o.amount * o.price ELSE o.amount

Available(o) == IF o.side = "buy" THEN quote ELSE base

\* moves the funds an order needs, from Available (+1: back to it)
Lock(o, sign) ==
  IF o.side = "buy" THEN quote' = quote + sign * Cost(o) /\ UNCHANGED base
                    ELSE base' = base + sign * Cost(o) /\ UNCHANGED quote

\* mutant: the exchange takes an order the account cannot pay
AcceptUnpaid(id, o) ==
  /\ o.amount > 0
  /\ orders' = [i \in DOMAIN orders \cup {id} |-> IF i = id THEN o ELSE orders[i]]
  /\ Lock(o, -1)
  /\ UNCHANGED <<last, fills>>

\* SpotApi.CreateOrder takes the order under a new id
Accept(id, o) ==
  /\ o.amount > 0 /\ Cost(o) <= Available(o)
  /\ orders' = [i \in DOMAIN orders \cup {id} |-> IF i = id THEN o ELSE orders[i]]
  /\ Lock(o, -1)
  /\ UNCHANGED <<last, fills>>

\* SpotApi.CreateOrder answers BALANCE_NOT_ENOUGH
NotEnough(o) == o.amount > 0 /\ Cost(o) > Available(o) /\ UNCHANGED exchangeVars

\* SpotApi.CancelOrder closes an open order
Close(id) ==
  /\ id \in DOMAIN orders
  /\ orders' = RestrictDomain(orders, LAMBDA i : i # id)
  /\ Lock(orders[id], 1)
  /\ UNCHANGED <<last, fills>>

\* SpotApi.CancelOrder answers ORDER_NOT_FOUND
NotFound(id) == id \notin DOMAIN orders /\ UNCHANGED exchangeVars

\* the market trades with an order, in part or in full
Fill(id) ==
  /\ fills < MaxFills /\ fills' = fills + 1
  /\ \E n \in 1 .. orders[id].amount :
       LET o == orders[id]
       IN  /\ orders' = IF n = o.amount THEN RestrictDomain(orders, LAMBDA i : i # id)
                        ELSE [orders EXCEPT ![id].amount = @ - n]
           /\ IF o.side = "buy" THEN base' = base + n /\ UNCHANGED quote
                                ELSE quote' = quote + n * o.price /\ UNCHANGED base
  /\ UNCHANGED last

PriceMoves ==
  /\ last' \in Prices \ {last}
  /\ UNCHANGED <<orders, base, quote, fills>>
=============================================================================
