-------------------------------- MODULE AMM --------------------------------
(***************************************************************************)
(* All the requests to market makers, with the approvals that happen       *)
(* between and during them, and what they promise to the client.           *)
(***************************************************************************)
EXTENDS AMMLiquidity

vars == <<setupVars, requestVars, quote, range>>

Init == RequestsInit /\ quote = None /\ range = None

Next ==
  \/ Trade /\ UNCHANGED range
  \/ Liquidity
  \/ (ChainReady \/ StartVault \/ VaultReady) /\ UNCHANGED <<quote, range>>
  \/ (\E n \in Names : Approve(n) \/ ExecuteApproval(n)) /\ UNCHANGED <<quote, range>>
  \/ (Drop \/ Revert) /\ UNCHANGED <<quote, range>>
  \/ Forget /\ quote' = None /\ range' = None

Spec == Init /\ [][Next]_vars

-----------------------------------------------------------------------------
IsTrade == ask # None /\ ask.kind = "trade"
Traded == IsTrade /\ tx.fate = "ok"

(* However the price moved between the quote and the block, a trade with a *)
(* limit executed at the limit, up to the last digit that toFixed(8) cuts  *)
(* off and to the slippage that the trade tolerates.  Of openocean nothing *)
(* is promised: what it executes is a quote that nobody compared with the  *)
(* limit.                                                                  *)
ExecutedWithinLimit ==
  Traded /\ ask.limit # None /\ ask.connector # "openocean" =>
    LET limit == IF ask.side = "BUY" THEN ask.limit + 5 ELSE ask.limit - 5
    IN  Within(ask.side, tx.price, limit, Execution[ask.connector].slippage[Requested])

(* expectedOut of the answer to a sale is the least that the sale brings,  *)
(* whatever slippage the request asked for.  (expectedIn of a purchase is  *)
(* no such bound: it executes with the slippage of the request.)           *)
ExpectedHonoured ==
  Traded /\ answer = "ok" /\ ask.side = "SELL" /\ ask.connector \notin {"openocean", "ref"} =>
    Within("SELL", tx.price, quote, Quotes[ask.connector][None])

(* A purchase that asked for a slippage got it, on every connector whose   *)
(* executeTrade takes one.                                                 *)
SlippageAsAsked ==
  Traded /\ ask.side = "BUY" /\ ask.slippage # None
    /\ ask.connector \notin {"openocean", "sushiswap"} =>
    Within("BUY", tx.price, quote, ask.slippage)

(* A request that ended left no nonce of the nonce manager in the air, but *)
(* for pancakeswap's failures and for positions, whose nonces stay pending *)
(* until they expire.                                                      *)
NoncesSettled ==
  pc = "done" /\ nonce = "reserved" =>
    \/ ask.connector = "uniswapLP"
    \/ ask.connector = "pancakeswap" /\ answer = "error"

(* A wallet that approved a connector, and its additional spenders, by     *)
(* their names has allowed every contract that a trade or a new position   *)
(* of this connector sends tokens through, whichever route it takes; but   *)
(* not defira's on harmony's test network, whose router is another one,    *)
(* nor openocean's, which sends its trades wherever the remote API says.   *)
ApprovalsSuffice ==
  /\ tx.to # None /\ ask.kind \in {"trade", "add"} /\ ask.connector \notin {"openocean", "ref"}
  /\ Spenders(ask.connector) \subseteq approved
  /\ ask.connector # "defira" \/ net = "main"
  => tx.to \in allowances

(* The ticks of a new position are usable and in order, and, whichever of  *)
(* the two tokens sorts first, not further from the range asked for than   *)
(* the spacing of the fee; an asked range that is narrower than the        *)
(* spacing becomes one spacing wide, downwards, by at most half a spacing  *)
(* more, or, where the nearest usable tick is beyond the pool, one more.   *)
RangeAsRequested ==
  range # None =>
    LET lower == IF ask.order = "sorted" THEN ask.lower ELSE -ask.upper
        upper == IF ask.order = "sorted" THEN ask.upper ELSE -ask.lower
    IN  /\ -MaxTick <= range[1] /\ range[1] < range[2] /\ range[2] <= MaxTick
        /\ range[1] % Spacing = 0 /\ range[2] % Spacing = 0
        /\ range[2] - Spacing <= upper /\ upper <= range[2] + Spacing
        /\ range[1] - Spacing <= lower /\ lower < range[1] + 2 * Spacing
        /\ 2 * lower + Spacing <= 2 * MaxTick => 2 * lower <= 2 * range[1] + 3 * Spacing
=============================================================================
