------------------------------ MODULE AMMTrade ------------------------------
(***************************************************************************)
(* Price and trade requests (uniswap.controllers and ref.controllers): the *)
(* quote, the comparison with the limit, the transaction and the slippage  *)
(* it tolerates.  A price is what one base token costs, in units of which  *)
(* ten are the last digit that toFixed(8) keeps.  The base amount being    *)
(* fixed, amounts of the quote token are prices.                           *)
(***************************************************************************)
EXTENDS AMMRequests

CONSTANTS Prices, Limits

ASSUME PriceAssumption == Prices \subseteq Nat /\ Limits \subseteq Nat

VARIABLE quote   \* the executionPrice that getTradeInfo returned, or None

Swappers == DOMAIN Quotes \cap Names
Sides == {"BUY", "SELL"}

TradeAsks ==
  [kind : {"trade"}, connector : Swappers, side : Sides, limit : Limits \cup {None},
   slippage : Slippages \cup {None}, nonce : {"none", "given"}]

PriceAsks == [kind : {"price"}, connector : Swappers, side : Sides]

\* maximumAmountIn and minimumAmountOut of a trade at price q; s in percent
Within(side, p, q, s) ==
  IF side = "BUY" THEN p * 100 <= q * (100 + s) ELSE p * (100 + s) >= q * 100

\* toFixed(8)
Rounded(p) == ((p + 5) \div 10) * 10

Ask ==
  /\ pc = "idle" /\ \E a \in TradeAsks \cup PriceAsks : Arrive(a)
  /\ UNCHANGED quote

Connect ==
  /\ pc = "connector" /\ ask.kind \in {"price", "trade"}
  /\ GetConnector("quote") /\ UNCHANGED quote

\* getTradeInfo; the quote is whatever the pools say at that moment
GetTradeInfo ==
  /\ pc = "quote" /\ ask.connector # "ref" /\ ask.kind = "trade"
  /\ Goto("check") /\ quote' \in Prices /\ UNCHANGED setupVars

Price ==
  /\ pc = "quote" /\ ask.connector # "ref" /\ ask.kind = "price"
  /\ Answer("ok") /\ quote' \in Prices /\ UNCHANGED setupVars

RefGetTradeInfo ==
  /\ pc = "quote" /\ ask.connector = "ref" /\ ask.kind = "trade"
  /\ Goto("check") /\ quote' \in Prices /\ UNCHANGED setupVars

RefPrice ==
  /\ pc = "quote" /\ ask.connector = "ref" /\ ask.kind = "price"
  /\ Answer("ok") /\ quote' \in Prices /\ UNCHANGED setupVars

\* no pair, a token nobody knows, an unreachable node
QuoteFails ==
  /\ pc = "quote" /\ Answer("error") /\ UNCHANGED <<quote, setupVars>>

PriceHolds(p) == ask.limit # None => IF ask.side = "BUY" THEN p <= ask.limit ELSE p >= ask.limit

\* mutant: a buyer's limit is a lower bound, like a seller's
UniswapLimitHoldsSwapped == ask.limit # None => Rounded(quote) >= ask.limit

UniswapLimitHolds == PriceHolds(Rounded(quote))

RefLimitHolds == PriceHolds(quote)

LimitHolds == IF ask.connector = "ref" THEN RefLimitHolds ELSE UniswapLimitHolds

CheckLimit ==
  /\ pc = "check"
  /\ IF LimitHolds THEN Goto("execute") ELSE Answer("refused")
  /\ UNCHANGED <<quote, setupVars>>

\* mutant: a sale, too, executes with the slippage of the request
RequestedOnBothSides == ask.slippage

\* mutant: neither side passes on the slippage of the request
RequestedNever == None

\* the slippage that the controller hands to executeTrade: of uniswap's only
\* a purchase, of ref's both
Requested == IF ask.side = "BUY" \/ ask.connector = "ref" THEN ask.slippage ELSE None

\* the address that the transaction goes to: openocean's is swapData.to of the
\* API's answer, the configured router or any other one
Targets(how) ==
  {Contract(ask.connector, chain, net)} \cup
  (IF how.quote = "fresh" THEN {Contract("swapData.to", chain, net)} ELSE {})

\* executeTrade up to the nonce: openocean asks for a quote of its own
BuildSwap ==
  /\ pc = "execute"
  /\ LET how == Execution[ask.connector]
     IN  \E q \in (IF how.quote = "fresh" THEN Prices ELSE {quote}), to \in Targets(how) :
           /\ tx' = [NoTx EXCEPT !.to = to, !.quote = q, !.slippage = how.slippage[Requested]]
           /\ pc' = IF how.nonce = "key" THEN "send" ELSE "nonce"
           /\ nonce' = IF how.nonce = "key" THEN "key" ELSE nonce
  /\ UNCHANGED <<ask, answer, quote, setupVars>>

\* of openocean: no second quote
BuildFails ==
  /\ pc = "execute" /\ Execution[ask.connector].quote = "fresh" /\ Answer("error")
  /\ UNCHANGED <<quote, setupVars>>

SwapNonce == ask # None /\ ask.kind = "trade" /\ TakeNonce /\ UNCHANGED quote

\* only a purchase is stored
AfterSwap == IF ask.side = "SELL" THEN "answer" ELSE "save"

SendSwap ==
  /\ pc = "send" /\ ask.kind = "trade" /\ ask.connector # "ref"
  /\ SendTx(tx, "commit") \/ SendFails(Execution[ask.connector].nonce)
  /\ UNCHANGED quote

\* the answer waits for no outcome.  The storage deposits that may go first
\* are not modelled: one that fails is a failure to send.
RefSend ==
  /\ pc = "send" /\ ask.connector = "ref"
  /\ SendTx(tx, "answer") \/ SendFails("key")
  /\ UNCHANGED quote

CommitSwap ==
  /\ pc = "commit" /\ ask.kind = "trade"
  /\ CommitNonce(AfterSwap) \/ CommitFails(Execution[ask.connector].nonce)
  /\ UNCHANGED quote

AnswerSwap ==
  /\ pc = "answer" /\ ask.kind = "trade" /\ Answer("ok") /\ UNCHANGED <<quote, setupVars>>

SaveSwap == ask # None /\ ask.kind = "trade" /\ SaveTx /\ UNCHANGED quote

\* the router trades at the price of the moment or reverts; ref moves tokens
\* with the call itself and needs no allowance
ExecuteSwap ==
  /\ tx.fate = "pool" /\ ask.kind = "trade"
  /\ chain # "near" => tx.to \in allowances
  /\ \E p \in Prices : Within(ask.side, p, tx.quote, tx.slippage) /\ Conclude("ok", p)
  /\ UNCHANGED quote

Trade ==
  \/ Ask \/ Connect \/ GetTradeInfo \/ Price \/ RefGetTradeInfo \/ RefPrice \/ QuoteFails \/ CheckLimit \/ BuildSwap \/ BuildFails
  \/ SwapNonce \/ SendSwap \/ RefSend \/ CommitSwap \/ AnswerSwap \/ SaveSwap \/ ExecuteSwap
=============================================================================
