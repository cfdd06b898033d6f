------------------------- MODULE MarketMaking_proofs -------------------------
(***************************************************************************)
(* The safety properties of the market making bot, for any prices, funds,  *)
(* spreads, amounts and numbers of processes.                              *)
(***************************************************************************)
EXTENDS MarketMaking, TLAPS

Assumptions ==
  /\ NoId \notin OrderIds
  /\ BaseFunds \in Nat /\ QuoteFunds \in Nat /\ MaxFills \in Nat
  /\ Prices \subseteq Nat /\ \A p \in Prices : p % 10 = 0 /\ p > 0
  /\ OrderAmount \in Nat /\ OrderAmount # 0 /\ MaxRuns \in Nat
  /\ BidSpread \in 1 .. 9 /\ AskSpread \in Nat /\ AskSpread # 0
  /\ TickSize \in Nat /\ TickSize # 0 /\ Second \in Nat /\ Second # 0

LEMMA AllAssumptions == Assumptions
  BY IdsAssumption, FundsAssumption, PricesAssumption, StrategyAssumption,
     WholePrices, ClockAssumption DEF Assumptions

-----------------------------------------------------------------------------
(* Arithmetic                                                              *)

\* products of natural numbers
LEMMA ProductNat == \A m, n \in Nat : m * n \in Nat
  BY SMT

LEMMA TenthOfTenfold == \A x \in Int : (10 * x) \div 10 = x
  BY SMT

\* a price of whole tens times a factor in tenths
LEMMA Tenths ==
  ASSUME NEW p \in Nat, p % 10 = 0, NEW f \in Nat
  PROVE  (p * f) \div 10 = (p \div 10) * f
<1> DEFINE k == p \div 10
<1>1. k \in Nat /\ p = 10 * k
  BY SMT
<1>2. p * f = 10 * (k * f) /\ k * f \in Int
  <2> HIDE DEF k
  <2> QED BY <1>1, SMT
<1> QED BY <1>2, TenthOfTenfold

\* SimplePMM prices the bid below the ask
LEMMA BidBelowAsk ==
  ASSUME NEW p \in Prices
  PROVE  BuyPrice(p) \in Nat /\ SellPrice(p) \in Nat /\ BuyPrice(p) < SellPrice(p)
<1> DEFINE k == p \div 10
<1>1. p \in Nat /\ p % 10 = 0 /\ p > 0
  BY AllAssumptions DEF Assumptions
<1>2. k \in Nat /\ k > 0
  BY <1>1, SMT
<1>3. /\ 10 - BidSpread \in Nat /\ 10 + AskSpread \in Nat
      /\ 10 - BidSpread < 10 + AskSpread
  BY AllAssumptions DEF Assumptions
<1>4. BuyPrice(p) = k * (10 - BidSpread) /\ SellPrice(p) = k * (10 + AskSpread)
  BY <1>1, <1>3, Tenths DEF BuyPrice, SellPrice
<1>5. \A a, b \in Nat : a < b => k * a \in Nat /\ k * b \in Nat /\ k * a < k * b
  <2> HIDE DEF k
  <2> QED BY <1>2, SMT
<1> QED BY <1>3, <1>4, <1>5

-----------------------------------------------------------------------------
(* Types                                                                   *)

ExchangeOK ==
  /\ AreOrders(orders, OrderIds)
  /\ base \in Nat /\ quote \in Nat /\ last \in Prices /\ fills \in 0 .. MaxFills

StrategyOK ==
  /\ AreOrders(orderTracker, OrderIds \cup {NoId})
  /\ pc \in PCs /\ run \in Nat /\ createTimeStamp = 0
  /\ IsOrder(buyOrder, "buy") /\ IsOrder(sellOrder, "sell")

LEMMA SplitTypeOK == TypeOK <=> ClockOK /\ ExchangeOK /\ StrategyOK
  BY DEF TypeOK, ExchangeOK, StrategyOK

LEMMA IsOrderFields ==
  ASSUME NEW o, NEW s \in Sides, IsOrder(o, s)
  PROVE  o.side = s /\ o.price \in Nat /\ o.amount \in Nat /\ o.run \in Nat
  BY DEF IsOrder

LEMMA CostNat ==
  ASSUME NEW o, NEW s \in Sides, IsOrder(o, s)
  PROVE  Cost(o) \in Nat
  BY IsOrderFields, ProductNat DEF Cost

LEMMA AddedOrder ==
  ASSUME NEW f, NEW ids, AreOrders(f, ids), NEW id \in ids,
         NEW o, NEW s \in Sides, IsOrder(o, s)
  PROVE  AreOrders([i \in DOMAIN f \cup {id} |-> IF i = id THEN o ELSE f[i]], ids)
  BY DEF AreOrders

LEMMA RemovedOrder ==
  ASSUME NEW f, NEW ids, AreOrders(f, ids), NEW id
  PROVE  AreOrders(RestrictDomain(f, LAMBDA i : i # id), ids)
  BY DEF AreOrders, RestrictDomain, Restrict

LEMMA NoOrders ==
  ASSUME NEW ids, NEW x
  PROVE  AreOrders([id \in {} |-> x], ids)
  BY DEF AreOrders

LEMMA NoOrderOK == IsOrder(NoOrder("buy"), "buy") /\ IsOrder(NoOrder("sell"), "sell")
  BY DEF IsOrder, NoOrder

LEMMA LockOK ==
  ASSUME ExchangeOK, NEW o, NEW s \in Sides, IsOrder(o, s), NEW sign \in {1, -1},
         sign = -1 => Cost(o) <= Available(o), Lock(o, sign)
  PROVE  base' \in Nat /\ quote' \in Nat
<1>1. Cost(o) \in Nat /\ base \in Nat /\ quote \in Nat
  BY CostNat DEF ExchangeOK
<1>2. CASE sign = 1
  BY <1>1, <1>2 DEF Lock, Available
<1>3. CASE sign = -1
  BY <1>1, <1>3 DEF Lock, Available
<1> QED BY <1>2, <1>3

LEMMA AcceptOK ==
  ASSUME ExchangeOK, NEW id \in OrderIds, NEW o, NEW s \in Sides, IsOrder(o, s), Accept(id, o)
  PROVE  ExchangeOK'
<1>1. AreOrders(orders', OrderIds)
  BY AddedOrder DEF ExchangeOK, Accept
<1>2. base' \in Nat /\ quote' \in Nat
  BY LockOK DEF Accept
<1> QED BY <1>1, <1>2 DEF ExchangeOK, AreOrders, Accept

LEMMA CloseOK ==
  ASSUME ExchangeOK, NEW id, Close(id)
  PROVE  ExchangeOK'
<1>1. AreOrders(orders', OrderIds)
  BY RemovedOrder DEF ExchangeOK, Close, RestrictDomain, Restrict
<1>2. PICK s \in Sides : IsOrder(orders[id], s)
  BY DEF ExchangeOK, AreOrders, Close
<1>3. base' \in Nat /\ quote' \in Nat
  BY <1>2, LockOK DEF Close
<1> QED BY <1>1, <1>3 DEF ExchangeOK, AreOrders, Close

LEMMA FillOK ==
  ASSUME ExchangeOK, NEW id \in DOMAIN orders, Fill(id)
  PROVE  ExchangeOK'
<1> DEFINE o == orders[id]
<1>1. PICK s \in Sides : IsOrder(o, s)
  BY DEF ExchangeOK, AreOrders
<1>2. o.side = s /\ o.price \in Nat /\ o.amount \in Nat /\ o.run \in Nat
  BY <1>1, IsOrderFields
<1>3. PICK n \in 1 .. o.amount :
        /\ orders' = IF n = o.amount THEN RestrictDomain(orders, LAMBDA i : i # id)
                     ELSE [orders EXCEPT ![id].amount = @ - n]
        /\ IF o.side = "buy" THEN base' = base + n /\ UNCHANGED quote
                             ELSE quote' = quote + n * o.price /\ UNCHANGED base
  BY DEF Fill
<1>4. n \in Nat /\ n * o.price \in Nat
  BY <1>2, <1>3, ProductNat
<1>5. base' \in Nat /\ quote' \in Nat
  <2> HIDE DEF o
  <2> QED BY <1>3, <1>4, SMT DEF ExchangeOK
<1>6. AreOrders(orders', OrderIds)
  <2>1. CASE n = o.amount
    BY <1>3, <2>1, RemovedOrder DEF ExchangeOK, RestrictDomain, Restrict
  <2>2. CASE n # o.amount
    <3> DEFINE q == [o EXCEPT !.amount = @ - n]
    <3>1. IsOrder(q, s)
      BY <1>1, <1>2, <1>3, <2>2 DEF IsOrder
    <3>2. orders' = [orders EXCEPT ![id] = q]
      BY <1>3, <2>2
    <3> HIDE DEF q, o
    <3> QED BY <3>1, <3>2 DEF AreOrders, ExchangeOK
  <2> QED BY <2>1, <2>2
<1>7. fills' \in 0 .. MaxFills /\ last' \in Prices
  BY AllAssumptions DEF ExchangeOK, Fill, Assumptions
<1> QED BY <1>5, <1>6, <1>7 DEF ExchangeOK, AreOrders

LEMMA PanicOK ==
  ASSUME StrategyOK, Panic
  PROVE  StrategyOK'
<1>1. AreOrders(orderTracker', OrderIds \cup {NoId})
  BY NoOrders DEF Panic
<1>2. IsOrder(buyOrder', "buy") /\ IsOrder(sellOrder', "sell")
  BY NoOrderOK DEF Panic
<1> QED BY <1>1, <1>2 DEF StrategyOK, AreOrders, IsOrder, Panic, PCs

LEMMA GoOnOK ==
  ASSUME StrategyOK, NEW p \in PCs, GoOn(p)
  PROVE  StrategyOK'
  BY DEF StrategyOK, AreOrders, IsOrder, GoOn

LEMMA UntrackOK ==
  ASSUME StrategyOK, NEW id, Untrack(id)
  PROVE  StrategyOK'
<1>1. AreOrders(orderTracker', OrderIds \cup {NoId})
  BY RemovedOrder DEF StrategyOK, Untrack, RestrictDomain, Restrict
<1> QED BY <1>1 DEF StrategyOK, AreOrders, IsOrder, Untrack

LEMMA TrackOK ==
  ASSUME StrategyOK, NEW id \in OrderIds \cup {NoId}, NEW o, NEW s \in Sides, IsOrder(o, s),
         Track(id, o)
  PROVE  AreOrders(orderTracker', OrderIds \cup {NoId})
  BY AddedOrder DEF StrategyOK, Track

LEMMA PlaceOrderOK ==
  ASSUME StrategyOK, ExchangeOK, NEW o, NEW s \in Sides, IsOrder(o, s), PlaceOrder(o)
  PROVE  ExchangeOK' /\ AreOrders(orderTracker', OrderIds \cup {NoId})
<1>1. CASE \E id \in OrderIds : NewId(id) /\ Accept(id, o) /\ Track(id, o)
  BY <1>1, AcceptOK, TrackOK
<1>2. CASE NotEnough(o) /\ Track(NoId, o)
  <2>1. ExchangeOK'
    BY <1>2 DEF NotEnough, ExchangeOK, AreOrders, exchangeVars
  <2> QED BY <2>1, <1>2, TrackOK
<1> QED BY <1>1, <1>2 DEF PlaceOrder

LEMMA PlaceFailsOK ==
  ASSUME StrategyOK, ExchangeOK, NEW o, NEW s \in Sides, IsOrder(o, s), PlaceFails(o)
  PROVE  ExchangeOK' /\ StrategyOK'
<1>1. CASE \E id \in OrderIds : NewId(id) /\ Accept(id, o)
  BY <1>1, AcceptOK, PanicOK DEF PlaceFails
<1>2. CASE UNCHANGED exchangeVars
  BY <1>2, PanicOK DEF PlaceFails, ExchangeOK, AreOrders, exchangeVars
<1> QED BY <1>1, <1>2 DEF PlaceFails

LEMMA AdjustedOK ==
  ASSUME NEW o, NEW s \in Sides, IsOrder(o, s), NEW b \in Nat
  PROVE  IsOrder([o EXCEPT !.amount = Smaller(b, @)], s)
<1> DEFINE q == [o EXCEPT !.amount = Smaller(b, @)]
<1>1. o = [side |-> s, price |-> o.price, amount |-> o.amount, run |-> o.run]
      /\ o.price \in Nat /\ o.amount \in Nat /\ o.run \in Nat
  BY DEF IsOrder
<1>2. Smaller(b, o.amount) \in Nat
  BY <1>1 DEF Smaller
<1>3. q = [side |-> s, price |-> o.price, amount |-> Smaller(b, o.amount), run |-> o.run]
  BY <1>1
<1>4. IsOrder(q, s)
  <2> HIDE DEF q
  <2>1. q.price \in Nat /\ q.amount \in Nat /\ q.run \in Nat
    BY <1>1, <1>2, <1>3
  <2> QED BY <1>3, <2>1 DEF IsOrder
<1> QED BY <1>4

LEMMA ClockSteps ==
  ASSUME ClockOK, SleepUntilNextTick \/ Wake \/ TimePasses \/ UNCHANGED clockVars \/ (left' = 0 /\ UNCHANGED instant)
  PROVE  ClockOK'
<1> DEFINE cycle == TickSize * Second
<1>1. TickSize \in Nat /\ TickSize # 0 /\ Second \in Nat /\ Second # 0
  BY AllAssumptions DEF Assumptions
<1>2. cycle \in Nat /\ cycle > 0
  BY <1>1, SMT
<1>3. CASE SleepUntilNextTick
  <2>1. \A m, n \in Nat : n # 0 /\ m <= TickSize * n - 1 => m \div n \in 0 .. TickSize - 1
    BY <1>1, SMT
  <2>2. instant \in Nat /\ instant <= TickSize * Second - 1
    <3> HIDE DEF cycle
    <3>1. instant \in 0 .. cycle - 1
      BY DEF ClockOK, cycle
    <3>2. instant \in Nat /\ instant <= cycle - 1
      BY <1>2, <3>1
    <3> QED BY <3>2 DEF cycle
  <2>3. instant \div Second \in 0 .. TickSize - 1
    BY <1>1, <2>1, <2>2
  <2> QED BY <1>1, <1>3, <2>3 DEF ClockOK, SleepUntilNextTick
<1>4. CASE TimePasses
  <2>1. instant' \in 0 .. cycle - 1
    <3> HIDE DEF cycle
    <3>1. \A m \in Nat : m % cycle \in 0 .. cycle - 1
      BY <1>2, SMT
    <3>2. instant \in Nat /\ instant' = (instant + 1) % cycle
      BY <1>4 DEF ClockOK, TimePasses, cycle
    <3> QED BY <3>1, <3>2
  <2>2. left' \in 0 .. TickSize
    BY <1>1, <1>4 DEF ClockOK, TimePasses
  <2> QED BY <2>1, <2>2 DEF ClockOK
<1>5. CASE Wake \/ UNCHANGED clockVars
  BY <1>5 DEF ClockOK, Wake, clockVars
<1>6. CASE left' = 0 /\ UNCHANGED instant
  BY <1>1, <1>6 DEF ClockOK
<1> QED BY <1>3, <1>4, <1>5, <1>6

-----------------------------------------------------------------------------
(* Steps and types                                                         *)

LEMMA StrategyTypes ==
  ASSUME TypeOK, Strategy
  PROVE  ExchangeOK' /\ StrategyOK'
<1> USE DEF Sides
<1>1. ExchangeOK /\ StrategyOK
  BY SplitTypeOK
<1>2. ASSUME UNCHANGED exchangeVars PROVE ExchangeOK'
  BY <1>1, <1>2 DEF ExchangeOK, AreOrders, exchangeVars
<1>3. ASSUME NEW id \in DOMAIN orderTracker, CancelOrder(id) PROVE ExchangeOK' /\ StrategyOK'
  BY <1>1, <1>2, <1>3, CloseOK, UntrackOK, PanicOK DEF CancelOrder, NotFound
<1>4. ASSUME CreateProposals PROVE ExchangeOK' /\ StrategyOK'
  <2>1. ExchangeOK'
    BY <1>2, <1>4 DEF CreateProposals
  <2>2. CASE Panic
    BY <1>1, <2>1, <2>2, PanicOK
  <2>3. CASE ~Panic
    <3> DEFINE bid == BuyPrice(last)
               ask == SellPrice(last)
    <3>1. bid \in Nat /\ ask \in Nat /\ OrderAmount \in Nat /\ run \in Nat
      BY <1>1, BidBelowAsk, AllAssumptions DEF ExchangeOK, StrategyOK, Assumptions
    <3>2. /\ buyOrder' = [side |-> "buy", price |-> bid, amount |-> OrderAmount, run |-> run]
          /\ sellOrder' = [side |-> "sell", price |-> ask, amount |-> OrderAmount, run |-> run]
          /\ pc' = "buyBalance" /\ UNCHANGED <<orderTracker, createTimeStamp, run>>
      BY <1>4, <2>3 DEF CreateProposals
    <3> HIDE DEF bid, ask
    <3>3. IsOrder(buyOrder', "buy") /\ IsOrder(sellOrder', "sell")
      BY <3>1, <3>2 DEF IsOrder
    <3> QED BY <1>1, <2>1, <3>2, <3>3 DEF StrategyOK, AreOrders, IsOrder, PCs
  <2> QED BY <2>2, <2>3
<1>5. ASSUME AdjustBuy PROVE ExchangeOK' /\ StrategyOK'
  <2>1. ExchangeOK'
    BY <1>2, <1>5 DEF AdjustBuy
  <2>2. CASE Panic
    BY <1>1, <2>1, <2>2, PanicOK
  <2>3. CASE ~Panic
    <3>1. IsOrder(buyOrder', "buy")
      BY <1>1, <1>5, <2>3, AdjustedOK DEF AdjustBuy, ExchangeOK, StrategyOK
    <3> QED BY <1>1, <1>5, <2>1, <2>3, <3>1 DEF AdjustBuy, StrategyOK, AreOrders, IsOrder, PCs
  <2> QED BY <2>2, <2>3
<1>6. ASSUME AdjustSell PROVE ExchangeOK' /\ StrategyOK'
  <2>1. ExchangeOK'
    BY <1>2, <1>6 DEF AdjustSell
  <2>2. CASE Panic
    BY <1>1, <2>1, <2>2, PanicOK
  <2>3. CASE ~Panic
    <3>1. IsOrder(sellOrder', "sell")
      BY <1>1, <1>6, <2>3, AdjustedOK DEF AdjustSell, ExchangeOK, StrategyOK
    <3> QED BY <1>1, <1>6, <2>1, <2>3, <3>1 DEF AdjustSell, StrategyOK, AreOrders, IsOrder, PCs
  <2> QED BY <2>2, <2>3
<1>7. ASSUME PlaceBuy PROVE ExchangeOK' /\ StrategyOK'
  <2>1. CASE PlaceFails(buyOrder)
    BY <1>1, <2>1, PlaceFailsOK DEF StrategyOK
  <2>2. CASE ~PlaceFails(buyOrder)
    <3>1. ExchangeOK' /\ AreOrders(orderTracker', OrderIds \cup {NoId})
      BY <1>1, <1>7, <2>2, PlaceOrderOK DEF PlaceBuy, StrategyOK
    <3>2. IsOrder(buyOrder', "buy")
      BY <1>7, <2>2, NoOrderOK DEF PlaceBuy
    <3> QED BY <1>1, <1>7, <2>2, <3>1, <3>2 DEF PlaceBuy, StrategyOK, AreOrders, IsOrder, PCs
  <2> QED BY <2>1, <2>2
<1>8. ASSUME PlaceSell(CurrentTick) PROVE ExchangeOK' /\ StrategyOK'
  <2>1. CASE PlaceFails(sellOrder)
    BY <1>1, <2>1, PlaceFailsOK DEF StrategyOK
  <2>2. CASE ~PlaceFails(sellOrder)
    <3>1. ExchangeOK' /\ AreOrders(orderTracker', OrderIds \cup {NoId})
      BY <1>1, <1>8, <2>2, PlaceOrderOK DEF PlaceSell, StrategyOK
    <3>2. IsOrder(sellOrder', "sell")
      BY <1>8, <2>2, NoOrderOK DEF PlaceSell
    <3> QED BY <1>1, <1>8, <2>2, <3>1, <3>2
        DEF PlaceSell, StrategyOK, AreOrders, IsOrder, PCs, CurrentTick
  <2> QED BY <2>1, <2>2
<1> QED BY <1>3, <1>4, <1>5, <1>6, <1>7, <1>8 DEF Strategy

LEMMA StepTypes ==
  ASSUME TypeOK, [Next]_vars
  PROVE  TypeOK'
<1>1. ClockOK /\ ExchangeOK /\ StrategyOK
  BY SplitTypeOK
<1>2. ClockOK'
  BY <1>1, ClockSteps
  DEF Next, vars, Sleep, Tick, Strategy, Start, Crash, Market, Time
<1> SUFFICES ExchangeOK' /\ StrategyOK'
  BY <1>2 DEF TypeOK, ExchangeOK, StrategyOK
<1>3. ASSUME UNCHANGED exchangeVars PROVE ExchangeOK'
  BY <1>1, <1>3 DEF ExchangeOK, AreOrders, exchangeVars
<1>4. ASSUME UNCHANGED strategyVars PROVE StrategyOK'
  BY <1>1, <1>4 DEF StrategyOK, AreOrders, IsOrder, strategyVars
<1>6. CASE Sleep
  BY <1>1, <1>3, <1>6, GoOnOK DEF Sleep, PCs
<1>7. CASE Tick
  BY <1>1, <1>3, <1>7, GoOnOK DEF Tick, BeginTick, PCs
<1>8. CASE Strategy
  BY <1>8, StrategyTypes
<1>9. CASE Start
  <2>1. StrategyOK'
    BY <1>1, <1>9 DEF Start, Restart, StrategyOK, AreOrders, IsOrder, PCs
  <2> QED BY <1>3, <1>9, <2>1 DEF Start, Restart
<1>10. CASE Crash
  BY <1>1, <1>3, <1>10, PanicOK DEF Crash
<1>11. CASE Market
  <2>1. ASSUME PriceMoves PROVE ExchangeOK'
    BY <1>1, <2>1 DEF PriceMoves, ExchangeOK, AreOrders
  <2> QED BY <1>1, <1>4, <1>11, <2>1, FillOK DEF Market
<1>12. CASE Time
  BY <1>3, <1>4, <1>12 DEF Time
<1>13. CASE UNCHANGED vars
  BY <1>3, <1>4, <1>13 DEF vars
<1> QED BY <1>6, <1>7, <1>8, <1>9, <1>10, <1>11, <1>12, <1>13 DEF Next

LEMMA InitTypes == Init => TypeOK
<1> SUFFICES ASSUME Init PROVE TypeOK
  OBVIOUS
<1>1. ClockOK
  <2>1. \A m, n \in Nat : m # 0 /\ n # 0 => m * n \in Nat /\ m * n > 0
    BY SMT
  <2>2. TickSize * Second \in Nat /\ TickSize * Second > 0
    BY <2>1, AllAssumptions DEF Assumptions
  <2>3. TickSize \in Nat
    BY AllAssumptions DEF Assumptions
  <2> QED BY <2>2, <2>3 DEF Init, ClockInit, ClockOK
<1>2. ExchangeOK
  BY NoOrders, AllAssumptions DEF Init, ExchangeInit, ExchangeOK, Assumptions
<1>3. StrategyOK
  BY NoOrders, NoOrderOK DEF Init, StrategyInit, StrategyOK, PCs
<1> QED BY <1>1, <1>2, <1>3, SplitTypeOK

(* The type invariant: no balance and no amount ever becomes negative, for *)
(* any funds, prices, amounts and spreads (Accept, Fill, AdjustBuy).       *)
THEOREM TypeCorrect == Spec => []TypeOK
<1>1. Init => TypeOK
  BY InitTypes
<1>2. TypeOK /\ [Next]_vars => TypeOK'
  BY StepTypes
<1> QED BY <1>1, <1>2, PTL DEF Spec

-----------------------------------------------------------------------------
(* Quotes                                                                  *)

\* what the three properties need to be inductive: orders of later processes do
\* not exist, and when the proposals are made nothing of the last tick is open
QuotesInv ==
  /\ \A id \in DOMAIN orders : orders[id].run <= run
  /\ OwnOrdersTracked /\ OneQuotePerSide /\ QuotesDoNotCross
  /\ pc \in {"buyBalance", "sellBalance", "placeBuy"} =>
       /\ Own = {} /\ buyOrder.run = run /\ sellOrder.run = run
       /\ buyOrder.price < sellOrder.price
  /\ pc = "placeSell" =>
       /\ sellOrder.run = run
       /\ \A id \in Own : orders[id].side = "buy" /\ orders[id].price < sellOrder.price

\* no new order, and those that stay keep what the properties speak of
Fewer ==
  /\ DOMAIN orders' \subseteq DOMAIN orders
  /\ \A id \in DOMAIN orders' : /\ orders'[id].side = orders[id].side
                                /\ orders'[id].price = orders[id].price
                                /\ orders'[id].run = orders[id].run

\* what a step that only takes orders away preserves
LEMMA FewerOrders ==
  ASSUME QuotesInv, Fewer, run' = run
  PROVE  /\ \A id \in DOMAIN orders' : orders'[id].run <= run'
         /\ Own' \subseteq Own
         /\ OneQuotePerSide' /\ QuotesDoNotCross'
         /\ \A id \in Own' : orders'[id].side = orders[id].side /\ orders'[id].price = orders[id].price
  BY DEF QuotesInv, Fewer, Own, OneQuotePerSide, QuotesDoNotCross

LEMMA SameOrders ==
  ASSUME UNCHANGED orders
  PROVE  Fewer
  BY DEF Fewer

LEMMA CloseTakes ==
  ASSUME TypeOK, NEW id, Close(id)
  PROVE  Fewer /\ DOMAIN orders' = DOMAIN orders \ {id}
  BY DEF Close, RestrictDomain, Restrict, Fewer

LEMMA FillTakes ==
  ASSUME TypeOK, NEW id \in DOMAIN orders, Fill(id)
  PROVE  Fewer
<1> DEFINE o == orders[id]
<1>1. PICK s \in Sides : IsOrder(o, s)
  BY DEF TypeOK, AreOrders
<1>2. PICK n \in 1 .. o.amount :
        orders' = IF n = o.amount THEN RestrictDomain(orders, LAMBDA i : i # id)
                  ELSE [orders EXCEPT ![id].amount = @ - n]
  BY DEF Fill
<1>3. CASE n = o.amount
  BY <1>2, <1>3 DEF RestrictDomain, Restrict, Fewer
<1>4. CASE n # o.amount
  <2> DEFINE q == [o EXCEPT !.amount = @ - n]
  <2>1. q.side = o.side /\ q.price = o.price /\ q.run = o.run
    BY <1>1 DEF IsOrder
  <2>2. orders' = [orders EXCEPT ![id] = q]
    BY <1>2, <1>4
  <2> HIDE DEF q
  <2> QED BY <2>1, <2>2 DEF Fewer, TypeOK, AreOrders
<1> QED BY <1>3, <1>4

\* nothing is known of the orders of a process that has ended, but that its
\* quotes are one per side and do not cross
LEMMA PanicQuotes ==
  ASSUME QuotesInv, Fewer, Panic
  PROVE  QuotesInv'
<1>1. run' = run /\ pc' = "down"
  BY DEF Panic
<1> QED BY <1>1, FewerOrders DEF QuotesInv, OwnOrdersTracked

\* the order that PlaceBuy or PlaceSell gets accepted: the first of its side,
\* and below or above what is open
LEMMA AcceptedOrder ==
  ASSUME TypeOK, QuotesInv, run' = run, NEW s \in Sides, NEW o, IsOrder(o, s), o.run = run,
         \A i \in Own : orders[i].side # s,
         \A i \in Own : s = "sell" => orders[i].price < o.price,
         \A i \in Own : s = "buy" => o.price < orders[i].price,
         NEW id \in OrderIds, NewId(id), Accept(id, o)
  PROVE  /\ \A i \in DOMAIN orders' : orders'[i].run <= run'
         /\ Own' = Own \cup {id} /\ orders'[id] = o
         /\ \A i \in Own : orders'[i] = orders[i]
         /\ OneQuotePerSide' /\ QuotesDoNotCross'
<1>1. /\ o.side = s /\ o.price \in Nat /\ run \in Nat
      /\ \A i \in Own : orders[i].price \in Nat /\ orders[i].side \in Sides
  <2>1. \A i \in DOMAIN orders : \E t \in Sides : IsOrder(orders[i], t)
    BY DEF TypeOK, AreOrders
  <2> QED BY <2>1, IsOrderFields DEF Own, TypeOK
<1>2. id \notin DOMAIN orders
  BY DEF NewId
<1>3. orders' = [i \in DOMAIN orders \cup {id} |-> IF i = id THEN o ELSE orders[i]]
  BY DEF Accept
<1>4. /\ DOMAIN orders' = DOMAIN orders \cup {id} /\ orders'[id] = o
      /\ \A i \in DOMAIN orders : orders'[i] = orders[i]
  BY <1>2, <1>3
<1>5. Own' = Own \cup {id}
  BY <1>4 DEF Own
<1>6. \A i \in DOMAIN orders' : orders'[i].run <= run'
  BY <1>1, <1>4 DEF QuotesInv
<1>7. \A i \in Own : orders'[i] = orders[i] /\ orders'[i].side # s
  BY <1>4 DEF Own
<1>8. OneQuotePerSide'
  BY <1>1, <1>4, <1>5, <1>7 DEF QuotesInv, OneQuotePerSide
<1>9. QuotesDoNotCross'
  <2> SUFFICES ASSUME NEW i \in Own', NEW j \in Own',
                      orders'[i].side = "buy", orders'[j].side = "sell"
               PROVE  orders'[i].price < orders'[j].price
    BY DEF QuotesDoNotCross
  <2>1. CASE i \in Own /\ j \in Own
    BY <1>7, <2>1 DEF QuotesInv, QuotesDoNotCross
  <2>2. CASE i = id
    BY <1>1, <1>4, <1>5, <1>7, <2>2
  <2>3. CASE j = id
    BY <1>1, <1>4, <1>5, <1>7, <2>3
  <2> QED BY <1>5, <2>1, <2>2, <2>3
<1> QED BY <1>4, <1>5, <1>6, <1>7, <1>8, <1>9

LEMMA BuyQuotes ==
  ASSUME TypeOK, QuotesInv, PlaceBuy
  PROVE  QuotesInv'
<1>1. /\ Own = {} /\ buyOrder.run = run /\ sellOrder.run = run
      /\ buyOrder.price < sellOrder.price /\ IsOrder(buyOrder, "buy") /\ run' = run
  BY DEF PlaceBuy, QuotesInv, TypeOK, PlaceFails, Panic
<1>2. ASSUME NEW id \in OrderIds, NewId(id), Accept(id, buyOrder)
      PROVE  /\ \A i \in DOMAIN orders' : orders'[i].run <= run'
             /\ Own' = {id} /\ orders'[id] = buyOrder
             /\ OneQuotePerSide' /\ QuotesDoNotCross'
  BY <1>1, <1>2, AcceptedOrder DEF Sides
<1>3. CASE PlaceFails(buyOrder)
  <2>1. CASE UNCHANGED exchangeVars
    BY <1>3, <2>1, SameOrders, PanicQuotes DEF PlaceFails, exchangeVars
  <2>2. CASE \E id \in OrderIds : NewId(id) /\ Accept(id, buyOrder)
    BY <1>2, <1>3, <2>2 DEF PlaceFails, Panic, QuotesInv, OwnOrdersTracked
  <2> QED BY <1>3, <2>1, <2>2 DEF PlaceFails
<1>4. CASE ~PlaceFails(buyOrder)
  <2>1. pc' = "placeSell" /\ UNCHANGED sellOrder /\ PlaceOrder(buyOrder)
    BY <1>4 DEF PlaceBuy
  <2>2. CASE \E id \in OrderIds : NewId(id) /\ Accept(id, buyOrder) /\ Track(id, buyOrder)
    <3>1. PICK id \in OrderIds : NewId(id) /\ Accept(id, buyOrder) /\ Track(id, buyOrder)
      BY <2>2
    <3>2. Own' = {id} /\ orders'[id] = buyOrder /\ buyOrder.side = "buy"
      BY <1>1, <1>2, <3>1, IsOrderFields DEF Sides
    <3>3. id \in DOMAIN orderTracker'
      BY <3>1 DEF Track
    <3> QED BY <1>1, <1>2, <2>1, <3>1, <3>2, <3>3 DEF QuotesInv, OwnOrdersTracked
  <2>3. CASE NotEnough(buyOrder) /\ Track(NoId, buyOrder)
    <3>1. Fewer
      BY <2>3, SameOrders DEF NotEnough, exchangeVars
    <3>2. Own' = {} /\ OneQuotePerSide' /\ QuotesDoNotCross'
          /\ \A i \in DOMAIN orders' : orders'[i].run <= run'
      BY <1>1, <3>1, FewerOrders
    <3> QED BY <1>1, <2>1, <3>2 DEF QuotesInv, OwnOrdersTracked
  <2> QED BY <2>1, <2>2, <2>3 DEF PlaceOrder
<1> QED BY <1>3, <1>4

LEMMA SellQuotes ==
  ASSUME TypeOK, QuotesInv, PlaceSell(CurrentTick)
  PROVE  QuotesInv'
<1>1. /\ sellOrder.run = run /\ IsOrder(sellOrder, "sell") /\ run' = run
      /\ \A i \in Own : orders[i].side = "buy" /\ orders[i].price < sellOrder.price
      /\ Own \subseteq DOMAIN orderTracker
  BY DEF PlaceSell, QuotesInv, OwnOrdersTracked, TypeOK, PlaceFails, Panic
<1>2. ASSUME NEW id \in OrderIds, NewId(id), Accept(id, sellOrder)
      PROVE  /\ \A i \in DOMAIN orders' : orders'[i].run <= run'
             /\ Own' = Own \cup {id}
             /\ OneQuotePerSide' /\ QuotesDoNotCross'
  BY <1>1, <1>2, AcceptedOrder DEF Sides
<1>3. CASE PlaceFails(sellOrder)
  <2>1. CASE UNCHANGED exchangeVars
    BY <1>3, <2>1, SameOrders, PanicQuotes DEF PlaceFails, exchangeVars
  <2>2. CASE \E id \in OrderIds : NewId(id) /\ Accept(id, sellOrder)
    BY <1>2, <1>3, <2>2 DEF PlaceFails, Panic, QuotesInv, OwnOrdersTracked
  <2> QED BY <1>3, <2>1, <2>2 DEF PlaceFails
<1>4. CASE ~PlaceFails(sellOrder)
  <2>1. pc' = "clock" /\ PlaceOrder(sellOrder)
    BY <1>4 DEF PlaceSell
  <2>2. CASE \E id \in OrderIds : NewId(id) /\ Accept(id, sellOrder) /\ Track(id, sellOrder)
    <3>1. PICK id \in OrderIds : NewId(id) /\ Accept(id, sellOrder) /\ Track(id, sellOrder)
      BY <2>2
    <3>2. DOMAIN orderTracker' = DOMAIN orderTracker \cup {id}
      BY <3>1 DEF Track
    <3> QED BY <1>1, <1>2, <2>1, <3>1, <3>2 DEF QuotesInv, OwnOrdersTracked
  <2>3. CASE NotEnough(sellOrder) /\ Track(NoId, sellOrder)
    <3>1. Fewer
      BY <2>3, SameOrders DEF NotEnough, exchangeVars
    <3>2. DOMAIN orderTracker \subseteq DOMAIN orderTracker'
      BY <2>3 DEF Track
    <3> QED BY <1>1, <2>1, <3>1, <3>2, FewerOrders DEF QuotesInv, OwnOrdersTracked
  <2> QED BY <2>1, <2>2, <2>3 DEF PlaceOrder
<1> QED BY <1>3, <1>4

LEMMA StrategyQuotes ==
  ASSUME TypeOK, QuotesInv, Strategy
  PROVE  QuotesInv'
<1>1. ASSUME UNCHANGED exchangeVars PROVE Fewer
  BY <1>1, SameOrders DEF exchangeVars
<1>2. ASSUME NEW id \in DOMAIN orderTracker, CancelOrder(id) PROVE QuotesInv'
  <2>1. CASE Panic
    BY <1>1, <1>2, <2>1, CloseTakes, PanicQuotes DEF CancelOrder, NotFound
  <2>2. CASE Untrack(id)
    <3>1. DOMAIN orderTracker' = DOMAIN orderTracker \ {id} /\ run' = run /\ pc' = "cancel"
      BY <1>2, <2>2 DEF Untrack, CancelOrder, RestrictDomain, Restrict
    <3>2. Fewer /\ id \notin DOMAIN orders'
      BY <1>2, <2>2, CloseTakes, SameOrders DEF CancelOrder, NotFound, exchangeVars, Untrack, Panic
    <3>3. Own' \subseteq DOMAIN orderTracker'
      BY <1>2, <3>1, <3>2, FewerOrders DEF QuotesInv, OwnOrdersTracked, CancelOrder, Own
    <3> QED BY <3>1, <3>2, <3>3, FewerOrders DEF QuotesInv, OwnOrdersTracked
  <2> QED BY <1>2, <2>1, <2>2 DEF CancelOrder
<1>3. ASSUME CreateProposals PROVE QuotesInv'
  <2>1. Fewer
    BY <1>1, <1>3 DEF CreateProposals
  <2>2. CASE Panic
    BY <2>1, <2>2, PanicQuotes
  <2>3. CASE ~Panic
    <3>1. Own = {}
      BY <1>3 DEF CreateProposals, QuotesInv, OwnOrdersTracked
    <3>2. BuyPrice(last) < SellPrice(last)
      BY BidBelowAsk DEF TypeOK
    <3>3. /\ pc' = "buyBalance" /\ run' = run /\ buyOrder'.run = run /\ sellOrder'.run = run
          /\ buyOrder'.price < sellOrder'.price
      BY <1>3, <2>3, <3>2 DEF CreateProposals
    <3> QED BY <2>1, <3>1, <3>3, FewerOrders DEF QuotesInv, OwnOrdersTracked
  <2> QED BY <2>2, <2>3
<1>4. ASSUME AdjustBuy \/ AdjustSell PROVE QuotesInv'
  <2>1. Fewer
    BY <1>1, <1>4 DEF AdjustBuy, AdjustSell
  <2>2. CASE Panic
    BY <2>1, <2>2, PanicQuotes
  <2>3. CASE ~Panic
    <3>1. pc \in {"buyBalance", "sellBalance"} /\ pc' \in {"sellBalance", "placeBuy"} /\ run' = run
      BY <1>4, <2>3 DEF AdjustBuy, AdjustSell
    <3>2. /\ buyOrder'.price = buyOrder.price /\ buyOrder'.run = buyOrder.run
          /\ sellOrder'.price = sellOrder.price /\ sellOrder'.run = sellOrder.run
      BY <1>4, <2>3 DEF AdjustBuy, AdjustSell, TypeOK, IsOrder
    <3> QED BY <2>1, <3>1, <3>2, FewerOrders DEF QuotesInv, OwnOrdersTracked
  <2> QED BY <2>2, <2>3
<1> QED BY <1>2, <1>3, <1>4, BuyQuotes, SellQuotes DEF Strategy

LEMMA StepQuotes ==
  ASSUME TypeOK, QuotesInv, [Next]_vars
  PROVE  QuotesInv'
<1>1. CASE Sleep \/ Tick \/ Time \/ UNCHANGED vars
  <2>1. Fewer /\ run' = run /\ UNCHANGED <<orderTracker, buyOrder, sellOrder>>
    BY <1>1, SameOrders
    DEF Sleep, Tick, Time, vars, GoOn, BeginTick, exchangeVars, strategyVars
  <2>2. pc' = pc \/ (pc # "down" /\ pc' \in {"clock", "sleep", "cancel"})
    BY <1>1 DEF Sleep, Tick, Time, vars, GoOn, BeginTick, strategyVars
  <2> QED BY <2>1, <2>2, FewerOrders DEF QuotesInv, OwnOrdersTracked
<1>2. CASE Strategy
  BY <1>2, StrategyQuotes
<1>3. CASE Start
  <2>1. /\ pc' = "clock" /\ run' = run + 1 /\ run \in Nat /\ orders' = orders
        /\ \A id \in DOMAIN orders : orders[id].run \in Nat
    <3>1. \A id \in DOMAIN orders : \E t \in Sides : IsOrder(orders[id], t)
      BY DEF TypeOK, AreOrders
    <3> QED BY <1>3, <3>1, IsOrderFields DEF Start, Restart, exchangeVars, TypeOK
  <2>2. \A id \in DOMAIN orders : orders[id].run <= run
    BY DEF QuotesInv
  <2>3. Own' = {} /\ \A id \in DOMAIN orders' : orders'[id].run <= run'
    BY <2>1, <2>2 DEF Own
  <2> QED BY <2>1, <2>3 DEF QuotesInv, OwnOrdersTracked, OneQuotePerSide, QuotesDoNotCross
<1>4. CASE Crash
  BY <1>4, SameOrders, PanicQuotes DEF Crash, exchangeVars
<1>5. CASE Market
  <2>1. Fewer
    BY <1>5, FillTakes, SameOrders DEF Market, PriceMoves
  <2> QED BY <1>5, <2>1, FewerOrders DEF Market, strategyVars, QuotesInv, OwnOrdersTracked
<1> QED BY <1>1, <1>2, <1>3, <1>4, <1>5 DEF Next

LEMMA QuotesInvariant == Spec => [](TypeOK /\ QuotesInv)
<1>1. Init => TypeOK /\ QuotesInv
  <2>1. Init => QuotesInv
    BY DEF Init, ExchangeInit, StrategyInit, QuotesInv, Own, OwnOrdersTracked,
           OneQuotePerSide, QuotesDoNotCross
  <2> QED BY <2>1, InitTypes
<1>2. TypeOK /\ QuotesInv /\ [Next]_vars => (TypeOK /\ QuotesInv)'
  BY StepTypes, StepQuotes
<1> QED BY <1>1, <1>2, PTL DEF Spec

(* The process never loses an order it placed (CancelAllOrders, PlaceOrder *)
(* and the OrderTracker of simplePmm.go).                                  *)
THEOREM OrdersTracked == Spec => []OwnOrdersTracked
  BY QuotesInvariant, PTL DEF QuotesInv

(* A process has at most one open order per side, whichever orders trade   *)
(* between its calls and whichever of its calls fail.                      *)
THEOREM OnePerSide == Spec => []OneQuotePerSide
  BY QuotesInvariant, PTL DEF QuotesInv

(* The bot's bid stays below its ask, for any positive spreads.            *)
THEOREM BidStaysBelowAsk == Spec => []QuotesDoNotCross
  BY QuotesInvariant, PTL DEF QuotesInv
=============================================================================
