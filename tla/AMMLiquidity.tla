---------------------------- MODULE AMMLiquidity ----------------------------
(***************************************************************************)
(* Uniswap v3 positions (uniswap.lp and its helper) and positions on the   *)
(* perpetual protocol.  A price range is a pair of ticks, logarithms of    *)
(* prices, so that the inverse of a price is the negation of its tick.     *)
(***************************************************************************)
EXTENDS AMMTrade, Integers

CONSTANTS
  TickSizes, \* of the prices, and their inverses, that a client may ask for
  Spacing,   \* TICK_SPACINGS of the fee
  MaxTick    \* -MaxTick to MaxTick are the ticks of the pool

\* nearestUsableTick throws for a tick outside the pool
ASSUME TickAssumption ==
  MaxTick \in Nat /\ Spacing \in 1 .. MaxTick /\ TickSizes \subseteq 0 .. MaxTick

VARIABLE range   \* ticks of the position that the transaction adds, or None

Ticks == TickSizes \cup {-t : t \in TickSizes}

Orders == {"sorted", "flipped"}   \* whether token0 sorts before token1

\* a range is asked for with its lower price below its upper one
LiquidityAsks ==
  {a \in [kind : {"add"}, connector : {"uniswapLP"}, order : Orders, lower : Ticks,
          upper : Ticks, nonce : {"none", "given"}] : a.lower < a.upper}
    \cup [kind : {"reduce", "collect"}, connector : {"uniswapLP"}, nonce : {"none", "given"}]
    \cup [kind : {"position", "pool"}, connector : {"uniswapLP"}]

PerpAsks == [kind : {"open", "close", "read"}, connector : {"perp"}]

\* nearestUsableTick: to the nearest multiple, halves up, inside the pool
NearestUsableTick(t) ==
  LET r == ((2 * t + Spacing) \div (2 * Spacing)) * Spacing
  IN  IF r < -MaxTick THEN r + Spacing ELSE IF r > MaxTick THEN r - Spacing ELSE r

\* mutant: the prices are inverted and stay where they were
TickRangeUnswapped(order, lower, upper) ==
  LET l == NearestUsableTick(IF order = "flipped" THEN -lower ELSE lower)
      u == NearestUsableTick(IF order = "flipped" THEN -upper ELSE upper)
  IN  <<IF l = u THEN l - Spacing ELSE l, u>>

TickRange(order, lower, upper) ==
  LET l == NearestUsableTick(IF order = "flipped" THEN -upper ELSE lower)
      u == NearestUsableTick(IF order = "flipped" THEN -lower ELSE upper)
  IN  <<IF l = u THEN l - Spacing ELSE l, u>>

PositionManager == Contract("uniswapLP", chain, net)
SwapRouter == Contract("uniswap", chain, net)

AskLiquidity ==
  /\ pc = "idle" /\ "uniswapLP" \in Names
  /\ \E a \in LiquidityAsks : Arrive(a)
  /\ UNCHANGED <<quote, range>>

AskPerp ==
  /\ pc = "idle" /\ "perp" \in Names
  /\ \E a \in PerpAsks : Arrive(a)
  /\ UNCHANGED <<quote, range>>

ConnectLiquidity ==
  /\ pc = "connector" /\ ask.connector = "uniswapLP"
  /\ GetConnector("build") /\ UNCHANGED <<quote, range>>

\* addPositionHelper: the route to the ratio swaps first, or needs no swap
AddPosition ==
  /\ pc = "build" /\ ask.kind = "add" /\ pc' = "nonce"
  /\ range' = TickRange(ask.order, ask.lower, ask.upper)
  /\ range'[1] >= -MaxTick   \* Position.fromAmounts throws below it
  /\ \E to \in {SwapRouter, PositionManager} : tx' = [NoTx EXCEPT !.to = to]
  /\ UNCHANGED <<ask, nonce, answer, quote, setupVars>>

\* reducePositionHelper, collectFees
ChangePosition ==
  /\ pc = "build" /\ ask.kind \in {"reduce", "collect"} /\ pc' = "nonce"
  /\ tx' = [NoTx EXCEPT !.to = PositionManager]
  /\ UNCHANGED <<ask, nonce, answer, quote, range, setupVars>>

\* positionInfo with getPosition
ReadPosition ==
  /\ pc = "build" /\ ask.kind = "position" /\ Answer("ok")
  /\ UNCHANGED <<quote, range, setupVars>>

\* poolPrice answers with '0' when the pool cannot be observed
ReadPool ==
  /\ pc = "build" /\ ask.kind = "pool" /\ Answer("ok")
  /\ UNCHANGED <<quote, range, setupVars>>

\* no route, no pool state, no position
LiquidityFails ==
  /\ pc = "build" /\ ask.connector = "uniswapLP" /\ Answer("error")
  /\ UNCHANGED <<quote, range, setupVars>>

LiquidityNonce ==
  /\ ask # None /\ ask.connector = "uniswapLP" /\ TakeNonce /\ UNCHANGED <<quote, range>>

\* the nonce of getNextNonce is neither committed nor given back
SendLiquidity ==
  /\ pc = "send" /\ ask.connector = "uniswapLP"
  /\ SendTx(tx, "answer") \/ SendFails("next")
  /\ UNCHANGED <<quote, range>>

AnswerLiquidity ==
  /\ pc = "answer" /\ ask.connector = "uniswapLP" /\ Answer("ok")
  /\ UNCHANGED <<quote, range, setupVars>>

\* adding moves tokens, reducing and collecting do not
ExecuteLiquidity ==
  /\ ask # None /\ ask.connector = "uniswapLP"
  /\ ask.kind = "add" => tx.to \in allowances
  /\ Conclude("ok", None) /\ UNCHANGED <<quote, range>>

-----------------------------------------------------------------------------
(* createTakerOrder of perp.controllers: the SDK has the wallet send it    *)

ConnectPerp ==
  /\ pc = "connector" /\ ask.connector = "perp"
  /\ GetConnector("perp") /\ UNCHANGED <<quote, range>>

\* openPosition, closePosition; "No active position" is an error
SendPerp ==
  /\ pc = "perp" /\ ask.kind \in {"open", "close"}
  /\ \/ /\ pc' = "save" /\ nonce' = "own"
        /\ tx' = [NoTx EXCEPT !.fate = "pool", !.to = Contract("perp", chain, net)]
        /\ UNCHANGED <<ask, answer>>
     \/ Answer("error")
  /\ UNCHANGED <<quote, range, setupVars>>

\* prices, pairs, position, balance, market status, gas
ReadPerp ==
  /\ pc = "perp" /\ ask.kind = "read" /\ \E a \in {"ok", "error"} : Answer(a)
  /\ UNCHANGED <<quote, range, setupVars>>

SavePerp == ask # None /\ ask.connector = "perp" /\ SaveTx /\ UNCHANGED <<quote, range>>

\* the collateral is in the vault
ExecutePerp ==
  /\ ask # None /\ ask.connector = "perp" /\ Conclude("ok", None) /\ UNCHANGED <<quote, range>>

Liquidity ==
  \/ AskLiquidity \/ AskPerp \/ ReadPosition \/ ReadPool \/ ReadPerp
  \/ ConnectLiquidity \/ AddPosition \/ ChangePosition \/ LiquidityFails
  \/ LiquidityNonce \/ SendLiquidity \/ AnswerLiquidity \/ ExecuteLiquidity
  \/ ConnectPerp \/ SendPerp \/ SavePerp \/ ExecutePerp
=============================================================================
