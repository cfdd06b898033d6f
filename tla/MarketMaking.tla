---------------------------- MODULE MarketMaking ----------------------------
(***************************************************************************)
(* The running bot (command/start.go): the clock, the strategy and the     *)
(* exchange together, with a market that trades at any moment and a        *)
(* process that may end at any moment and be started again.                *)
(***************************************************************************)
EXTENDS SimplePMM, Clock

vars == <<clockVars, exchangeVars, strategyVars>>

PCs == {"clock", "sleep", "cancel", "buyBalance", "sellBalance",
        "placeBuy", "placeSell", "down"}

AreOrders(f, ids) ==
  /\ DOMAIN f \subseteq ids
  /\ f = [id \in DOMAIN f |-> f[id]]
  /\ \A id \in DOMAIN f : \E s \in Sides : IsOrder(f[id], s)

TypeOK ==
  /\ ClockOK
  /\ AreOrders(orders, OrderIds) /\ AreOrders(orderTracker, OrderIds \cup {NoId})
  /\ base \in Nat /\ quote \in Nat /\ last \in Prices /\ fills \in 0 .. MaxFills
  /\ pc \in PCs /\ run \in Nat /\ createTimeStamp = 0
  /\ IsOrder(buyOrder, "buy") /\ IsOrder(sellOrder, "sell")

Init == ClockInit /\ ExchangeInit /\ StrategyInit

-----------------------------------------------------------------------------
\* Clock.Run
Sleep ==
  /\ pc = "clock" /\ SleepUntilNextTick /\ GoOn("sleep")
  /\ UNCHANGED exchangeVars

\* the children in the order of AddIterator: Gateio.Tick does nothing
Tick ==
  /\ pc = "sleep" /\ Wake /\ BeginTick(CurrentTick)
  /\ UNCHANGED exchangeVars

Strategy ==
  /\ \/ \E id \in DOMAIN orderTracker : CancelOrder(id)
     \/ CreateProposals \/ AdjustBuy \/ AdjustSell
     \/ PlaceBuy \/ PlaceSell(CurrentTick)
  /\ UNCHANGED clockVars

\* Start builds a new clock, exchange and strategy
Start == Restart /\ left' = 0 /\ UNCHANGED instant

Crash == pc # "down" /\ Panic /\ UNCHANGED <<clockVars, exchangeVars>>

Market ==
  /\ (\E id \in DOMAIN orders : Fill(id)) \/ PriceMoves
  /\ UNCHANGED <<clockVars, strategyVars>>

Time == TimePasses /\ UNCHANGED <<exchangeVars, strategyVars>>

Next == Sleep \/ Tick \/ Strategy \/ Start \/ Crash \/ Market \/ Time

Spec == Init /\ [][Next]_vars

\* the process runs, its API calls are answered or fail, and time passes
Fairness == WF_vars(Sleep) /\ WF_vars(Tick) /\ WF_vars(Strategy) /\ WF_vars(Time)

FairSpec == Spec /\ Fairness

-----------------------------------------------------------------------------
Own == {id \in DOMAIN orders : orders[id].run = run}

(* The process never loses an order it placed: while it runs, every open   *)
(* order of its own is in OrderTracker, whatever the market trades and     *)
(* whichever answers it survives.                                          *)
OwnOrdersTracked == pc # "down" => Own \subseteq DOMAIN orderTracker

(* One quote per side: the orders of the last tick are gone before new     *)
(* ones are placed.                                                        *)
OneQuotePerSide ==
  \A i, j \in Own : orders[i].side = orders[j].side => i = j

(* The bot never trades with itself: its bid stays below its ask, though   *)
(* both were priced from an old last price.                                *)
QuotesDoNotCross ==
  \A i, j \in Own :
    orders[i].side = "buy" /\ orders[j].side = "sell" => orders[i].price < orders[j].price

(* Quotes are refreshed: an open order of a running process is cancelled   *)
(* or filled, or the process ends.                                         *)
QuotesRefreshed ==
  \A id \in OrderIds : id \in Own ~> id \notin Own \/ pc = "down"
=============================================================================
