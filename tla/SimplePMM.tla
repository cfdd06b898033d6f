------------------------------ MODULE SimplePMM ------------------------------
(***************************************************************************)
(* The market making strategy (strategy/simplePmm.go) as one process: at   *)
(* every tick it cancels the orders it tracks, reads the last price and    *)
(* two balances, and places a buy and a sell order.  Each API call is a    *)
(* step; between two of them the market goes on trading.                   *)
(***************************************************************************)
EXTENDS Gateio

CONSTANTS
  OrderAmount,   \* SimplePMM.OrderAmount
  BidSpread,     \* SimplePMM.BidSpread, in tenths
  AskSpread,     \* SimplePMM.AskSpread, in tenths
  MaxRuns        \* bound: processes started one after the other

ASSUME StrategyAssumption ==
  /\ OrderAmount \in Nat \ {0} /\ MaxRuns \in Nat
  /\ BidSpread \in 1 .. 9 /\ AskSpread \in Nat \ {0}
ASSUME WholePrices == \A p \in Prices : p % 10 = 0 /\ p > 0

VARIABLES
  pc,                \* where the process is: in Clock.Run, in Tick, or ended
  orderTracker,      \* OrderTracker: id -> order as placed
  buyOrder,          \* proposals of the tick under way
  sellOrder,
  createTimeStamp,   \* CreateTimeStamp
  run                \* number of this process; orders carry the one that placed them

strategyVars == <<pc, orderTracker, buyOrder, sellOrder, createTimeStamp, run>>

Sides == {"buy", "sell"}

\* mutant: the ask price is below the last price, as the bid price is
SellPriceBelow(ref) == (ref * (10 - AskSpread)) \div 10

BuyPrice(ref) == (ref * (10 - BidSpread)) \div 10
SellPrice(ref) == (ref * (10 + AskSpread)) \div 10

NoOrder(side) == [side |-> side, price |-> 0, amount |-> 0, run |-> 0]

IsOrder(o, s) ==
  /\ o = [side |-> s, price |-> o.price, amount |-> o.amount, run |-> o.run]
  /\ o.price \in Nat /\ o.amount \in Nat /\ o.run \in Nat

StrategyInit ==
  /\ pc = "clock" /\ run = 1
  /\ orderTracker = [id \in {} |-> NoOrder("buy")]
  /\ buyOrder = NoOrder("buy") /\ sellOrder = NoOrder("sell")
  /\ createTimeStamp = 0

\* go on at p with the tracker as it is
GoOn(p) ==
  /\ pc' = p
  /\ UNCHANGED <<orderTracker, buyOrder, sellOrder, createTimeStamp, run>>

\* panic, or the end of the process for another reason: the tracker is gone
Panic ==
  /\ pc' = "down"
  /\ orderTracker' = [id \in {} |-> NoOrder("buy")]
  /\ buyOrder' = NoOrder("buy") /\ sellOrder' = NoOrder("sell")
  /\ UNCHANGED <<createTimeStamp, run>>

\* Tick
BeginTick(timestamp) ==
  IF createTimeStamp <= timestamp THEN GoOn("cancel") ELSE GoOn("clock")

Untrack(id) ==
  /\ orderTracker' = RestrictDomain(orderTracker, LAMBDA i : i # id)
  /\ UNCHANGED <<pc, buyOrder, sellOrder, createTimeStamp, run>>

\* mutant: an order is given up when the answer of CancelOrder is lost
CancelOrderOrForget(id) ==
  /\ pc = "cancel"
  /\ id \in DOMAIN orderTracker
  /\ Close(id) \/ UNCHANGED exchangeVars
  /\ Untrack(id)

\* one round of the loop of CancelAllOrders
CancelOrder(id) ==
  /\ pc = "cancel"
  /\ id \in DOMAIN orderTracker
  /\ \/ Close(id) /\ (Untrack(id) \/ Panic)
     \/ NotFound(id) /\ Untrack(id)
     \/ UNCHANGED exchangeVars /\ Panic

\* mutant: proposals are made while tracked orders are still open
CreateProposalsEarly ==
  /\ pc = "cancel"
  /\ pc' = "buyBalance"
  /\ buyOrder' = [side |-> "buy", price |-> BuyPrice(last), amount |-> OrderAmount, run |-> run]
  /\ sellOrder' = [side |-> "sell", price |-> SellPrice(last), amount |-> OrderAmount, run |-> run]
  /\ UNCHANGED <<exchangeVars, orderTracker, createTimeStamp, run>>

\* the loop is done: GetLastPrice and the two proposals
CreateProposals ==
  /\ pc = "cancel" /\ DOMAIN orderTracker = {}
  /\ \/ /\ pc' = "buyBalance"
        /\ buyOrder' = [side |-> "buy", price |-> BuyPrice(last),
                        amount |-> OrderAmount, run |-> run]
        /\ sellOrder' = [side |-> "sell", price |-> SellPrice(last),
                         amount |-> OrderAmount, run |-> run]
        /\ UNCHANGED <<orderTracker, createTimeStamp, run>>
     \/ Panic
  /\ UNCHANGED exchangeVars

Smaller(a, b) == IF a < b THEN a ELSE b

\* AdjustCandidate: the buy order by the balance of quote[0] ...
AdjustBuy ==
  /\ pc = "buyBalance"
  /\ \/ /\ pc' = "sellBalance"
        /\ buyOrder' = [buyOrder EXCEPT !.amount = Smaller(base, @)]
        /\ UNCHANGED <<orderTracker, sellOrder, createTimeStamp, run>>
     \/ Panic
  /\ UNCHANGED exchangeVars

\* ... and the sell order by the balance of quote[1]
AdjustSell ==
  /\ pc = "sellBalance"
  /\ \/ /\ pc' = "placeBuy"
        /\ sellOrder' = [sellOrder EXCEPT !.amount = Smaller(quote, @)]
        /\ UNCHANGED <<orderTracker, buyOrder, createTimeStamp, run>>
     \/ Panic
  /\ UNCHANGED exchangeVars

Track(id, o) ==
  orderTracker' = [i \in DOMAIN orderTracker \cup {id} |->
                     IF i = id THEN o ELSE orderTracker[i]]

\* an id the exchange has not given to an open or a tracked order
NewId(id) == id \notin DOMAIN orders \cup DOMAIN orderTracker

\* PlaceOrder: a refusal for lack of balance is tracked under the empty id
PlaceOrder(o) ==
  \/ \E id \in OrderIds : NewId(id) /\ Accept(id, o) /\ Track(id, o)
  \/ NotEnough(o) /\ Track(NoId, o)

\* PlaceOrder panics, before or after the exchange took the order
PlaceFails(o) ==
  /\ \/ \E id \in OrderIds : NewId(id) /\ Accept(id, o)
     \/ UNCHANGED exchangeVars
  /\ Panic

PlaceBuy ==
  /\ pc = "placeBuy"
  /\ \/ /\ PlaceOrder(buyOrder)
        /\ pc' = "placeSell" /\ buyOrder' = NoOrder("buy")
        /\ UNCHANGED <<sellOrder, createTimeStamp, run>>
     \/ PlaceFails(buyOrder)

\* mutant: the id of the sell order is not put into the tracker
PlaceSellUntracked(timestamp) ==
  /\ pc = "placeSell"
  /\ \E id \in OrderIds : NewId(id) /\ Accept(id, sellOrder)
  /\ pc' = "clock" /\ sellOrder' = NoOrder("sell")
  /\ createTimeStamp' = timestamp
  /\ UNCHANGED <<orderTracker, buyOrder, run>>

\* the last order of the tick; CreateTimeStamp becomes the tick's timestamp
PlaceSell(timestamp) ==
  /\ pc = "placeSell"
  /\ \/ /\ PlaceOrder(sellOrder)
        /\ pc' = "clock" /\ sellOrder' = NoOrder("sell")
        /\ createTimeStamp' = timestamp
        /\ UNCHANGED <<buyOrder, run>>
     \/ PlaceFails(sellOrder)

\* a new process: newSimplePMM
Restart ==
  /\ pc = "down" /\ run < MaxRuns
  /\ pc' = "clock" /\ run' = run + 1 /\ createTimeStamp' = 0
  /\ UNCHANGED <<exchangeVars, orderTracker, buyOrder, sellOrder>>
=============================================================================
