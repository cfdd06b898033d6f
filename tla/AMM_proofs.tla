------------------------------ MODULE AMM_proofs ------------------------------
(***************************************************************************)
(* The promises of the requests to market makers, for any prices, limits,  *)
(* slippages, ticks and number of approvals.                               *)
(***************************************************************************)
EXTENDS AMM, TLAPS

-----------------------------------------------------------------------------
(* Ticks                                                                   *)

PoolTicks == -MaxTick .. MaxTick

\* the usable ticks are the multiples of the spacing
Usable(r) == \E k \in Int : r = k * Spacing

LEMMA UsableMod ==
  ASSUME NEW S \in Nat \ {0}, NEW k \in Int
  PROVE  (k * S) % S = 0
<1> DEFINE q == (k * S) \div S
           m == (k * S) % S
<1>1. q \in Int /\ m \in Int /\ 0 <= m /\ m < S /\ k * S = q * S + m
  BY SMT
<1> HIDE DEF q, m
<1>2. (k - q) * S = m
  BY <1>1
<1>3. CASE k - q >= 1
  <2>1. (k - q) * S >= S
    BY <1>1, <1>3
  <2> QED BY <1>1, <1>2, <2>1
<1>4. CASE k - q <= -1
  <2>1. (k - q) * S <= -S
    BY <1>1, <1>4
  <2> QED BY <1>1, <1>2, <2>1
<1>5. CASE k - q = 0
  BY <1>1, <1>5
<1> QED BY <1>1, <1>3, <1>4, <1>5 DEF m

\* the nearest multiple, halves up
LEMMA NearestMultiple ==
  ASSUME NEW t \in Int
  PROVE  LET k == (2 * t + Spacing) \div (2 * Spacing) IN
         k \in Int /\ 2 * (k * Spacing) <= 2 * t + Spacing /\ 2 * t < 2 * (k * Spacing) + Spacing
<1> DEFINE x == 2 * t + Spacing
           k == x \div (2 * Spacing)
<1>1. Spacing \in Nat \ {0}
  BY TickAssumption
<1>2. k \in Int /\ (2 * Spacing) * k <= x /\ x < (2 * Spacing) * k + 2 * Spacing
  BY <1>1, SMT
<1>3. (2 * Spacing) * k = 2 * (k * Spacing)
  BY <1>1, <1>2
<1> HIDE DEF k
<1> QED BY <1>1, <1>2, <1>3

\* multiples are at least one spacing apart
LEMMA MultiplesApart ==
  ASSUME NEW S \in Nat \ {0}, NEW j \in Int, NEW k \in Int, j < k
  PROVE  j * S + S <= k * S
<1>1. (k - j - 1) * S >= 0
  BY SMT
<1> QED BY <1>1, SMT

LEMMA NearestUsable ==
  ASSUME NEW t \in PoolTicks
  PROVE  LET n == NearestUsableTick(t)
             r == ((2 * t + Spacing) \div (2 * Spacing)) * Spacing IN
         /\ n \in PoolTicks /\ Usable(n) /\ r \in Int
         /\ 2 * r <= 2 * t + Spacing /\ 2 * t < 2 * r + Spacing
         /\ n = IF r < -MaxTick THEN r + Spacing ELSE IF r > MaxTick THEN r - Spacing ELSE r
<1> DEFINE k == (2 * t + Spacing) \div (2 * Spacing)
           r == k * Spacing
           n == NearestUsableTick(t)
<1>1. t \in Int /\ MaxTick \in Nat /\ Spacing \in Nat \ {0} /\ Spacing <= MaxTick
      /\ -MaxTick <= t /\ t <= MaxTick
  BY TickAssumption DEF PoolTicks
<1>2. k \in Int /\ 2 * r <= 2 * t + Spacing /\ 2 * t < 2 * r + Spacing
  BY <1>1, NearestMultiple
<1>3. n = IF r < -MaxTick THEN r + Spacing ELSE IF r > MaxTick THEN r - Spacing ELSE r
  BY DEF NearestUsableTick
<1>4. r \in Int /\ r + Spacing = (k + 1) * Spacing /\ r - Spacing = (k - 1) * Spacing
      /\ k + 1 \in Int /\ k - 1 \in Int
  <2> HIDE DEF k
  <2> QED BY <1>1, <1>2
<1>5. Usable(n)
  <2> HIDE DEF k, n
  <2> QED BY <1>2, <1>3, <1>4 DEF Usable
<1> HIDE DEF r, n
<1>6. n \in PoolTicks
  BY <1>1, <1>2, <1>3, <1>4 DEF PoolTicks
<1> QED BY <1>2, <1>3, <1>4, <1>5, <1>6 DEF r, n

\* a lower tick below an upper one: the nearest usable ones are in order too
LEMMA NearestInOrder ==
  ASSUME NEW s \in PoolTicks, NEW t \in PoolTicks, s < t
  PROVE  NearestUsableTick(s) <= NearestUsableTick(t)
<1> DEFINE i == (2 * s + Spacing) \div (2 * Spacing)
           k == (2 * t + Spacing) \div (2 * Spacing)
           q == i * Spacing
           r == k * Spacing
<1>1. /\ s \in Int /\ t \in Int /\ MaxTick \in Nat /\ Spacing \in Nat \ {0} /\ Spacing <= MaxTick
      /\ -MaxTick <= s /\ t <= MaxTick
  BY TickAssumption DEF PoolTicks
<1>2. i \in Int /\ k \in Int
  BY <1>1, NearestMultiple
<1>3. /\ q \in Int /\ 2 * q <= 2 * s + Spacing /\ 2 * s < 2 * q + Spacing
      /\ NearestUsableTick(s) = IF q < -MaxTick THEN q + Spacing ELSE IF q > MaxTick THEN q - Spacing ELSE q
  BY NearestUsable
<1>4. /\ r \in Int /\ 2 * r <= 2 * t + Spacing /\ 2 * t < 2 * r + Spacing
      /\ NearestUsableTick(t) = IF r < -MaxTick THEN r + Spacing ELSE IF r > MaxTick THEN r - Spacing ELSE r
  BY NearestUsable
<1>5. q <= r /\ (q < r => q + Spacing <= r)
  <2> HIDE DEF i, k
  <2>1. CASE i < k
    BY <1>1, <1>2, <2>1, MultiplesApart
  <2>2. CASE i = k
    BY <1>1, <1>2, <2>2
  <2>3. CASE k < i
    <3>1. r + Spacing <= q
      BY <1>1, <1>2, <2>3, MultiplesApart
    <3> QED BY <1>1, <1>3, <1>4, <3>1
  <2> QED BY <1>2, <2>1, <2>2, <2>3
<1> HIDE DEF q, r, i, k
<1> QED BY <1>1, <1>3, <1>4, <1>5

\* the range of two ticks, in the order of the pool
RangeFits(r, lower, upper) ==
  /\ -MaxTick <= r[1] /\ r[1] < r[2] /\ r[2] <= MaxTick
  /\ r[1] % Spacing = 0 /\ r[2] % Spacing = 0
  /\ r[2] - Spacing <= upper /\ upper <= r[2] + Spacing
  /\ r[1] - Spacing <= lower /\ lower < r[1] + 2 * Spacing
  /\ 2 * lower + Spacing <= 2 * MaxTick => 2 * lower <= 2 * r[1] + 3 * Spacing

LEMMA UsableRange ==
  ASSUME NEW lower \in PoolTicks, NEW upper \in PoolTicks, lower < upper
  PROVE  LET l == NearestUsableTick(lower)
             u == NearestUsableTick(upper)
             r == <<IF l = u THEN l - Spacing ELSE l, u>> IN
         r[1] >= -MaxTick => RangeFits(r, lower, upper)
<1> DEFINE l == NearestUsableTick(lower)
           u == NearestUsableTick(upper)
           q == ((2 * lower + Spacing) \div (2 * Spacing)) * Spacing
           p == ((2 * upper + Spacing) \div (2 * Spacing)) * Spacing
           first == IF l = u THEN l - Spacing ELSE l
<1>1. /\ lower \in Int /\ upper \in Int /\ MaxTick \in Nat /\ Spacing \in Nat \ {0} /\ Spacing <= MaxTick
      /\ -MaxTick <= lower /\ upper <= MaxTick
  BY TickAssumption DEF PoolTicks
<1>2. /\ l \in PoolTicks /\ Usable(l) /\ q \in Int
      /\ 2 * q <= 2 * lower + Spacing /\ 2 * lower < 2 * q + Spacing
      /\ l = IF q < -MaxTick THEN q + Spacing ELSE IF q > MaxTick THEN q - Spacing ELSE q
  BY NearestUsable
<1>3. /\ u \in PoolTicks /\ Usable(u) /\ p \in Int
      /\ 2 * p <= 2 * upper + Spacing /\ 2 * upper < 2 * p + Spacing
      /\ u = IF p < -MaxTick THEN p + Spacing ELSE IF p > MaxTick THEN p - Spacing ELSE p
  BY NearestUsable
<1>4. l <= u
  BY NearestInOrder
<1> HIDE DEF l, u, q, p
<1>5. l \in Int /\ u \in Int /\ -MaxTick <= l /\ u <= MaxTick
  BY <1>1, <1>2, <1>3 DEF PoolTicks
<1>6. l % Spacing = 0 /\ (l - Spacing) % Spacing = 0 /\ u % Spacing = 0
  <2>1. PICK i \in Int, k \in Int : l = i * Spacing /\ u = k * Spacing
    BY <1>2, <1>3 DEF Usable
  <2>2. l - Spacing = (i - 1) * Spacing /\ i - 1 \in Int
    BY <1>1, <2>1
  <2> QED BY <1>1, <2>1, <2>2, UsableMod
<1>7. first \in Int /\ first % Spacing = 0 /\ first < u
  BY <1>1, <1>4, <1>5, <1>6
<1>8. u - Spacing <= upper /\ upper <= u + Spacing
  BY <1>1, <1>3, <1>5
<1>9. /\ l - Spacing <= lower /\ lower < l + Spacing
      /\ 2 * lower + Spacing <= 2 * MaxTick => 2 * lower <= 2 * l + Spacing
  BY <1>1, <1>2, <1>5
<1>10. /\ first - Spacing <= lower /\ lower < first + 2 * Spacing
       /\ 2 * lower + Spacing <= 2 * MaxTick => 2 * lower <= 2 * first + 3 * Spacing
  BY <1>1, <1>5, <1>9
<1> HIDE DEF first
<1>11. ASSUME first >= -MaxTick PROVE RangeFits(<<first, u>>, lower, upper)
  <2> DEFINE r == <<first, u>>
  <2>1. r[1] = first /\ r[2] = u
    OBVIOUS
  <2> HIDE DEF r
  <2>2. -MaxTick <= r[1] /\ r[1] < r[2] /\ r[2] <= MaxTick /\ r[1] % Spacing = 0 /\ r[2] % Spacing = 0
    BY <1>5, <1>6, <1>7, <1>11, <2>1
  <2>3. RangeFits(r, lower, upper)
    BY <1>8, <1>10, <2>1, <2>2 DEF RangeFits
  <2> QED BY <2>3 DEF r
<1> QED BY <1>11 DEF first, l, u

LEMMA TickRangeOK ==
  ASSUME NEW order \in Orders, NEW lower \in Ticks, NEW upper \in Ticks, lower < upper,
         TickRange(order, lower, upper)[1] >= -MaxTick
  PROVE  IF order = "sorted" THEN RangeFits(TickRange(order, lower, upper), lower, upper)
         ELSE RangeFits(TickRange(order, lower, upper), -upper, -lower)
<1>1. /\ lower \in PoolTicks /\ upper \in PoolTicks /\ -lower \in PoolTicks /\ -upper \in PoolTicks
      /\ -upper < -lower
  BY TickAssumption DEF Ticks, PoolTicks
<1>2. CASE order = "sorted"
  BY <1>1, <1>2, UsableRange DEF TickRange
<1>3. CASE order = "flipped"
  BY <1>1, <1>3, UsableRange DEF TickRange
<1> QED BY <1>2, <1>3 DEF Orders

-----------------------------------------------------------------------------
(* The connectors                                                          *)

Asks ==
  TradeAsks \cup PriceAsks \cup PerpAsks \cup {a \in LiquidityAsks : "uniswapLP" \in Names}

LEMMA AskKinds ==
  ASSUME NEW a \in Asks
  PROVE  \/ /\ a.kind = "trade" /\ a.connector \in Swappers /\ a.side \in Sides
            /\ a.limit \in Limits \cup {None} /\ a.slippage \in Slippages \cup {None}
         \/ a.kind = "price" /\ a.connector \in Swappers
         \/ /\ a.connector = "uniswapLP" /\ "uniswapLP" \in Names
            /\ a.kind \in {"add", "reduce", "collect", "position", "pool"}
            /\ a.kind = "add" => a.order \in Orders /\ a.lower \in Ticks /\ a.upper \in Ticks /\ a.lower < a.upper
         \/ a.connector = "perp" /\ a.kind \in {"open", "close", "read"}
  BY DEF Asks, TradeAsks, PriceAsks, LiquidityAsks, PerpAsks

LEMMA SwappersAre ==
  ASSUME NEW c \in Swappers
  PROVE  /\ c \in {"uniswap", "sushiswap", "pancakeswap", "pangolin", "traderjoe", "quickswap",
                   "mad_meerkat", "vvs", "defikingdoms", "defira", "openocean", "ref"}
         /\ <<c, chain>> \in Deployed /\ (net = "test" => c \notin MainOnly)
  BY DEF Swappers, Quotes, Names

\* what a trade may tolerate, and who takes its nonce
LEMMA ExecutionIs ==
  ASSUME NEW c \in Swappers
  PROVE  /\ Execution[c].slippage \in {OrConfig, ConfigOnly}
         /\ c \notin {"sushiswap", "openocean"} => Execution[c].slippage = OrConfig
         /\ c # "openocean" => Execution[c].quote = "checked"
         /\ Execution[c].nonce \in {"provide", "commit", "key"}
         /\ Execution[c].nonce = "key" <=> c = "ref"
         /\ Execution[c].nonce = "commit" <=> c = "pancakeswap"
         /\ c \notin {"ref", "openocean"} => Quotes[c] \in {OrConfig, ConfigOnly}
<1> HIDE DEF OrConfig, ConfigOnly, Ignored
<1>1. c \in {"uniswap", "sushiswap", "pancakeswap", "pangolin", "traderjoe", "quickswap",
             "mad_meerkat", "vvs", "defikingdoms", "defira", "openocean", "ref"}
  BY SwappersAre
<1>2. \A s, q, n : LET e == Executes(s, q, n) IN e.slippage = s /\ e.quote = q /\ e.nonce = n
  BY DEF Executes
<1>3. /\ c \notin {"sushiswap", "pancakeswap", "openocean", "ref"} => Execution[c] = Executes(OrConfig, "checked", "provide")
      /\ c = "sushiswap" => Execution[c] = Executes(ConfigOnly, "checked", "provide")
      /\ c = "pancakeswap" => Execution[c] = Executes(OrConfig, "checked", "commit")
      /\ c = "openocean" => Execution[c] = Executes(ConfigOnly, "fresh", "provide")
      /\ c = "ref" => Execution[c] = Executes(OrConfig, "checked", "key")
  BY <1>1 DEF Execution, UniswapExecutes, SushiswapExecutes, PancakeswapExecutes, PangolinExecutes,
       TraderjoeExecutes, QuickswapExecutes, CronosExecutes, DefikingdomsExecutes, DefiraExecutes,
       OpenoceanExecutes, RefExecutes
<1>4. c \notin {"ref", "openocean"} => Quotes[c] \in {OrConfig, ConfigOnly}
  BY <1>1 DEF Quotes, UniswapQuotes, SushiswapQuotes, PancakeswapQuotes, PangolinQuotes, TraderjoeQuotes,
       QuickswapQuotes, MadMeerkatQuotes, VvsQuotes, CronosQuotes, DefikingdomsQuotes, DefiraQuotes
<1> HIDE DEF Executes
<1> QED BY <1>1, <1>2, <1>3, <1>4

LEMMA SlippageIs ==
  ASSUME NEW s \in Slippages \cup {None}
  PROVE  /\ OrConfig[s] \in Nat /\ ConfigOnly[s] \in Nat
         /\ s # None => OrConfig[s] = s
         /\ OrConfig[None] = Allowed /\ ConfigOnly[None] = Allowed
  BY SlippageAssumption DEF OrConfig, ConfigOnly

\* an approval by name reaches the contract of a connector that is there
LEMMA SpenderReaches ==
  ASSUME NEW c, <<c, chain>> \in Deployed, net \in Networks, net = "test" => c \notin MainOnly,
         c # "ref", c = "defira" => net = "main"
  PROVE  Spender(chain, c, net) = Contract(c, chain, net)
<1>1. CASE chain = "ethereum"
  BY <1>1 DEF Spender, EthereumSpender, ByName, Deployed
<1>2. CASE chain = "polygon"
  BY <1>2 DEF Spender, PolygonSpender, ByName, Deployed
<1>3. CASE chain = "avalanche"
  BY <1>3 DEF Spender, AvalancheSpender, ByName, Deployed
<1>4. CASE chain = "binance-smart-chain"
  BY <1>4 DEF Spender, BinanceSmartChainSpender, ByName, Deployed
<1>5. CASE chain = "cronos"
  BY <1>5 DEF Spender, CronosSpender, ByName, Deployed
<1>6. CASE chain = "harmony"
  BY <1>6 DEF Spender, HarmonySpender, ByName, Deployed, MainOnly, Networks
<1> QED BY <1>1, <1>2, <1>3, <1>4, <1>5, <1>6 DEF Deployed

-----------------------------------------------------------------------------
(* The invariant: what a request has of its trade or position              *)

IsTx(t) == t = [fate |-> t.fate, to |-> t.to, quote |-> t.quote, slippage |-> t.slippage, price |-> t.price]

\* The transaction of a trade is built from the quote that passed the limit;
\* the chain executes it within its slippage only.
Built ==
  /\ quote \in Prices /\ LimitHolds
  /\ tx.quote \in Prices /\ (ask.connector # "openocean" => tx.quote = quote)
  /\ ask.connector # "openocean" => tx.to = Contract(ask.connector, chain, net)
  /\ tx.slippage = Execution[ask.connector].slippage[Requested]
  /\ tx.fate = "ok" => tx.price \in Prices /\ Within(ask.side, tx.price, tx.quote, tx.slippage)

\* where a trade is, and whose nonce it has
TradeFits ==
  /\ pc \in {"connector", "quote", "check", "execute"} => tx = NoTx
  /\ pc \in {"check", "execute"} => quote \in Prices
  /\ pc = "execute" => LimitHolds
  /\ pc \in {"nonce", "send", "commit", "answer", "save"} \/ (pc = "done" /\ answer = "ok") => Built
  /\ tx = NoTx \/ Built
  /\ nonce = "reserved" => \/ pc \in {"send", "commit"}
                           \/ pc = "done" /\ answer = "error" /\ ask.connector = "pancakeswap"
  /\ ask.connector = "ref" => pc # "nonce" /\ nonce # "reserved"

NoRequest ==
  ask = None /\ nonce = "none" /\ tx = NoTx /\ answer = "none" /\ quote = None /\ range = None

RequestFits ==
  /\ ask \in Asks
  /\ pc \in {"check", "execute"} => ask.kind = "trade"
  /\ ask.kind = "price" => pc \in {"connector", "quote", "done"}
  /\ ask.kind = "trade" => TradeFits
  /\ ask.kind # "trade" /\ ask.connector # "uniswapLP" => nonce # "reserved"
  /\ ask.kind = "add" => tx.to \in {None, SwapRouter, PositionManager}
  /\ range # None => /\ ask.kind = "add" /\ range = TickRange(ask.order, ask.lower, ask.upper)
                     /\ range[1] >= -MaxTick

Allowances == \A n \in approved : Spender(chain, n, net) \in allowances

AMMInv ==
  /\ net \in Networks /\ IsTx(tx) /\ Allowances
  /\ pc = "idle" => NoRequest
  /\ pc # "idle" => RequestFits

LEMMA NoTxIs == IsTx(NoTx) /\ NoTx.fate = "none" /\ NoTx.to = None
  BY DEF IsTx, NoTx

LEMMA SameNames ==
  ASSUME UNCHANGED <<chain, net>>
  PROVE  Asks' = Asks /\ SwapRouter' = SwapRouter /\ PositionManager' = PositionManager
  BY DEF Asks, TradeAsks, PriceAsks, Swappers, Names, SwapRouter, PositionManager

LEMMA SameTrade ==
  ASSUME UNCHANGED <<ask, quote>>
  PROVE  (LimitHolds' <=> LimitHolds) /\ Requested' = Requested
  BY DEF LimitHolds, RefLimitHolds, UniswapLimitHolds, PriceHolds, Rounded, Requested

LEMMA BuiltKept ==
  ASSUME Built, UNCHANGED <<ask, quote, chain, net>>,
         tx'.quote = tx.quote, tx'.to = tx.to, tx'.slippage = tx.slippage,
         tx'.fate = "ok" => tx'.price \in Prices /\ Within(ask.side, tx'.price, tx.quote, tx.slippage)
  PROVE  Built'
  BY SameTrade DEF Built

\* what is sent, and what becomes of it
LEMMA SendTxIs ==
  ASSUME IsTx(tx), NEW l, SendTx(tx, l)
  PROVE  /\ IsTx(tx') /\ tx'.fate = "pool" /\ tx'.to = tx.to /\ tx'.quote = tx.quote
         /\ tx'.slippage = tx.slippage
  BY DEF SendTx, IsTx

LEMMA ConcludeIs ==
  ASSUME IsTx(tx), NEW f, NEW p, Conclude(f, p)
  PROVE  /\ IsTx(tx') /\ tx'.fate = f /\ tx'.price = p /\ tx'.to = tx.to /\ tx'.quote = tx.quote
         /\ tx'.slippage = tx.slippage /\ tx.fate = "pool"
  BY DEF Conclude, IsTx

\* A step of a request that leaves its transaction and its quote as they are.
LEMMA OnlyPcKeeps ==
  ASSUME AMMInv, pc # "idle", pc' # "idle", UNCHANGED <<ask, tx, quote, range, setupVars>>,
         pc' \in {"check", "execute"} => ask.kind = "trade",
         ask.kind = "price" => pc' \in {"connector", "quote", "done"},
         ask.kind = "trade" => TradeFits',
         ask.kind # "trade" /\ ask.connector # "uniswapLP" => nonce' # "reserved"
  PROVE  AMMInv'
<1>1. RequestFits /\ UNCHANGED <<chain, net, approved, allowances>>
  BY DEF AMMInv, setupVars
<1> QED BY <1>1, SameNames DEF AMMInv, RequestFits, Allowances, IsTx

\* As long as its transaction and quote stay, a trade is what it was.
LEMMA TradeKeeps ==
  ASSUME AMMInv, pc # "idle", ask.kind = "trade", UNCHANGED <<ask, tx, quote, setupVars>>,
         pc' \in {"connector", "quote", "check", "execute"} => tx = NoTx,
         pc' \in {"check", "execute"} => quote \in Prices,
         pc' = "execute" => LimitHolds,
         pc' \in {"nonce", "send", "commit", "answer", "save"} \/ (pc' = "done" /\ answer' = "ok") => Built,
         nonce' = "reserved" => \/ pc' \in {"send", "commit"}
                                \/ pc' = "done" /\ answer' = "error" /\ ask.connector = "pancakeswap",
         ask.connector = "ref" => pc' # "nonce" /\ nonce' # "reserved"
  PROVE  TradeFits'
<1>1. TradeFits /\ UNCHANGED <<chain, net>>
  BY DEF AMMInv, RequestFits, setupVars
<1>2. Built => Built'
  BY <1>1, SameTrade DEF Built
<1> QED BY <1>1, <1>2, SameTrade DEF TradeFits, NoTx

-----------------------------------------------------------------------------
(* Every step keeps it                                                     *)

LEMMA SetupKeeps ==
  ASSUME AMMInv,
         \/ ChainReady \/ StartVault \/ VaultReady
         \/ \E n \in Names : Approve(n) \/ ExecuteApproval(n),
         UNCHANGED <<quote, range>>
  PROVE  AMMInv'
<1>1. UNCHANGED <<chain, net, pc, ask, nonce, tx, answer, quote, range>>
  BY DEF ChainReady, StartVault, VaultReady, Approve, ExecuteApproval, requestVars
<1>2. Allowances'
  <2>1. CASE UNCHANGED <<approved, allowances>>
    BY <1>1, <2>1 DEF AMMInv, Allowances
  <2>2. ASSUME NEW n \in Names, ExecuteApproval(n) PROVE Allowances'
    BY <1>1, <2>2 DEF ExecuteApproval, AMMInv, Allowances
  <2> QED BY <2>1, <2>2 DEF ChainReady, StartVault, VaultReady, Approve
<1>3. pc = "idle" => NoRequest'
  BY <1>1 DEF AMMInv, NoRequest, NoTx
<1>4. pc # "idle" => RequestFits'
  <2>1. TradeFits => TradeFits'
    <3>1. Built => Built'
      BY <1>1, SameTrade DEF Built
    <3> QED BY <1>1, <3>1, SameTrade DEF TradeFits, NoTx
  <2> QED BY <1>1, <2>1, SameNames DEF AMMInv, RequestFits
<1> QED BY <1>1, <1>2, <1>3, <1>4 DEF AMMInv, IsTx

LEMMA ArriveKeeps ==
  ASSUME AMMInv, NEW a \in Asks, Arrive(a), UNCHANGED <<quote, range>>
  PROVE  AMMInv'
<1>1. /\ pc' = "connector" /\ ask' = a /\ UNCHANGED <<chain, net, approved, allowances, nonce, tx, answer>>
      /\ NoRequest
  BY DEF Arrive, setupVars, AMMInv
<1>2. ask' \in Asks'
  BY <1>1, SameNames
<1>3. tx' = NoTx /\ tx'.to = None /\ nonce' = "none" /\ range' = None /\ NoTx' = NoTx
  BY <1>1, NoTxIs DEF NoRequest, NoTx
<1>4. TradeFits'
  BY <1>1, <1>3 DEF TradeFits
<1> QED BY <1>1, <1>2, <1>3, <1>4, NoTxIs DEF AMMInv, RequestFits, Allowances, IsTx

LEMMA ForgetKeeps ==
  ASSUME AMMInv, Forget, quote' = None, range' = None
  PROVE  AMMInv'
<1>1. /\ pc' = "idle" /\ ask' = None /\ nonce' = "none" /\ tx' = NoTx /\ answer' = "none" /\ NoTx' = NoTx
      /\ UNCHANGED <<chain, net, approved, allowances>>
  BY DEF Forget, setupVars, NoTx
<1> QED BY <1>1, NoTxIs DEF AMMInv, NoRequest, Allowances, IsTx

\* the connector, the quote and the limit: nothing is built yet
LEMMA QuoteKeeps ==
  ASSUME AMMInv, pc # "idle",
         \/ Connect \/ GetTradeInfo \/ Price \/ RefGetTradeInfo \/ RefPrice \/ QuoteFails \/ CheckLimit
         \/ BuildFails,
         UNCHANGED range
  PROVE  AMMInv'
<1>1. RequestFits
  BY DEF AMMInv
<1>2. CASE GetTradeInfo \/ RefGetTradeInfo
  <2>1. /\ pc = "quote" /\ pc' = "check" /\ ask.kind = "trade" /\ quote' \in Prices
        /\ UNCHANGED <<ask, nonce, tx, answer, chain, net, approved, allowances>>
    BY <1>2 DEF GetTradeInfo, RefGetTradeInfo, Goto, setupVars
  <2>2. tx' = NoTx /\ NoTx' = NoTx /\ nonce' # "reserved"
    BY <1>1, <2>1 DEF RequestFits, TradeFits, NoTx
  <2>3. TradeFits'
    BY <2>1, <2>2 DEF TradeFits
  <2> QED BY <1>1, <2>1, <2>2, <2>3, SameNames DEF AMMInv, RequestFits, Allowances, IsTx
<1>3. CASE Price \/ RefPrice
  <2>1. /\ pc' = "done" /\ ask.kind = "price"
        /\ UNCHANGED <<ask, nonce, tx, chain, net, approved, allowances>>
    BY <1>3 DEF Price, RefPrice, Answer, setupVars
  <2> QED BY <1>1, <2>1, SameNames DEF AMMInv, RequestFits, Allowances, IsTx
<1>4. CASE Connect \/ QuoteFails \/ CheckLimit \/ BuildFails
  <2>1. /\ UNCHANGED <<ask, nonce, tx, quote, range, setupVars>>
        /\ pc \in {"connector", "quote", "check", "execute"}
        /\ \/ pc' = "done" /\ answer' \in {"error", "refused"}
           \/ pc' = "quote"
           \/ pc = "check" /\ pc' = "execute" /\ LimitHolds
    BY <1>4, Zenon DEF Connect, QuoteFails, CheckLimit, BuildFails, GetConnector, ConnectorFails,
         Goto, Answer, setupVars
  <2>2. pc' = "execute" => ask.kind = "trade"
    BY <1>1, <2>1 DEF RequestFits
  <2>3. ASSUME ask.kind = "trade" PROVE TradeFits'
    <3>1. tx = NoTx /\ nonce # "reserved" /\ (pc = "check" => quote \in Prices)
      BY <1>1, <2>1, <2>3 DEF RequestFits, TradeFits
    <3> QED BY <2>1, <2>3, <3>1, TradeKeeps
  <2>4. ask.kind # "trade" /\ ask.connector # "uniswapLP" => nonce' # "reserved"
    BY <1>1, <2>1 DEF RequestFits
  <2> QED BY <2>1, <2>2, <2>3, <2>4, OnlyPcKeeps
<1> QED BY <1>2, <1>3, <1>4

LEMMA BuildSwapKeeps ==
  ASSUME AMMInv, pc # "idle", BuildSwap, UNCHANGED range
  PROVE  AMMInv'
<1>1. RequestFits /\ ask.kind = "trade" /\ TradeFits /\ ask \in Asks
  BY DEF AMMInv, RequestFits, BuildSwap
<1>2. ask.connector \in Swappers
  BY <1>1, AskKinds DEF Asks
<1> DEFINE how == Execution[ask.connector]
<1>3. PICK q \in (IF how.quote = "fresh" THEN Prices ELSE {quote}), to \in Targets(how) :
        /\ tx' = [NoTx EXCEPT !.to = to, !.quote = q, !.slippage = how.slippage[Requested]]
        /\ pc' = IF how.nonce = "key" THEN "send" ELSE "nonce"
        /\ nonce' = IF how.nonce = "key" THEN "key" ELSE nonce
  BY DEF BuildSwap
<1>4. pc = "execute" /\ UNCHANGED <<ask, answer, quote, chain, net, approved, allowances>>
  BY DEF BuildSwap, setupVars
<1>5. quote \in Prices /\ LimitHolds /\ nonce # "reserved"
  BY <1>1, <1>4 DEF TradeFits
<1>6. /\ q \in Prices
      /\ ask.connector # "openocean" => q = quote /\ to = Contract(ask.connector, chain, net)
  BY <1>2, <1>3, <1>5, ExecutionIs DEF Targets
<1>7. /\ IsTx(tx') /\ tx'.fate = "none" /\ tx'.to = to /\ tx'.quote = q
      /\ tx'.slippage = how.slippage[Requested]
  <2> HIDE DEF how
  <2> QED BY <1>3 DEF NoTx, IsTx
<1>8. pc' \in {"send", "nonce"} /\ nonce' # "reserved" /\ (ask.connector = "ref" => pc' = "send")
  BY <1>2, <1>3, <1>5, ExecutionIs
<1>9. Built'
  BY <1>4, <1>5, <1>6, <1>7, SameTrade DEF Built
<1>10. TradeFits'
  BY <1>4, <1>8, <1>9 DEF TradeFits
<1> QED BY <1>1, <1>4, <1>7, <1>8, <1>10, SameNames DEF AMMInv, RequestFits, Allowances

\* the nonce and the answer of a trade that is built
LEMMA FinishKeeps ==
  ASSUME AMMInv, pc # "idle", SwapNonce \/ CommitSwap \/ AnswerSwap \/ SaveSwap, UNCHANGED range
  PROVE  AMMInv'
<1>1. RequestFits /\ ask.kind = "trade" /\ TradeFits
  BY DEF AMMInv, RequestFits, SwapNonce, CommitSwap, AnswerSwap, SaveSwap
<1>2. ask.connector \in Swappers
  BY <1>1, AskKinds DEF RequestFits
<1>3. UNCHANGED <<ask, tx, quote, range, setupVars>>
  BY DEF SwapNonce, CommitSwap, AnswerSwap, SaveSwap, TakeNonce, CommitNonce, CommitFails, SaveTx, Answer
<1>4. CASE SwapNonce
  <2>1. /\ pc = "nonce"
        /\ \/ pc' = "send"
           \/ pc' = "done" /\ answer' = "error" /\ nonce' = nonce
    BY <1>4 DEF SwapNonce, TakeNonce, Answer
  <2>2. Built /\ nonce # "reserved" /\ ask.connector # "ref"
    BY <1>1, <2>1 DEF TradeFits
  <2>3. TradeFits'
    BY <1>1, <1>3, <2>1, <2>2, TradeKeeps
  <2> QED BY <1>1, <1>3, <2>1, <2>3, OnlyPcKeeps
<1>5. CASE CommitSwap
  <2>1. /\ pc = "commit"
        /\ \/ pc' \in {"answer", "save"} /\ nonce' = "committed"
           \/ pc' = "done" /\ answer' = "error" /\ nonce' = Released(Execution[ask.connector].nonce)
    BY <1>5 DEF CommitSwap, CommitNonce, CommitFails, AfterSwap
  <2>2. Built
    BY <1>1, <2>1 DEF TradeFits
  <2>3. nonce' = "reserved" => pc' = "done" /\ answer' = "error" /\ ask.connector = "pancakeswap"
    BY <1>1, <1>2, <2>1, ExecutionIs DEF Released, TradeFits
  <2>4. TradeFits'
    BY <1>1, <1>3, <2>1, <2>2, <2>3, TradeKeeps
  <2> QED BY <1>1, <1>3, <2>1, <2>4, OnlyPcKeeps
<1>6. CASE AnswerSwap \/ SaveSwap
  <2>1. pc \in {"answer", "save"} /\ pc' = "done" /\ nonce' = nonce
    BY <1>6 DEF AnswerSwap, SaveSwap, SaveTx, Answer
  <2>2. Built /\ nonce # "reserved"
    BY <1>1, <2>1 DEF TradeFits
  <2>3. TradeFits'
    BY <1>1, <1>3, <2>1, <2>2, TradeKeeps
  <2> QED BY <1>1, <1>3, <2>1, <2>3, OnlyPcKeeps
<1> QED BY <1>4, <1>5, <1>6

\* a transaction enters the pool, or a call of the node fails
LEMMA SendKeeps ==
  ASSUME AMMInv, pc # "idle", SendSwap \/ RefSend, UNCHANGED range
  PROVE  AMMInv'
<1>1. RequestFits /\ ask.kind = "trade" /\ TradeFits /\ IsTx(tx) /\ pc = "send" /\ Built
  <2>1. RequestFits /\ IsTx(tx) /\ pc = "send" /\ (ask.kind = "trade" \/ ask.connector = "ref")
    BY DEF AMMInv, SendSwap, RefSend
  <2>2. ask.kind = "trade"
    BY <2>1, AskKinds DEF RequestFits
  <2> QED BY <2>1, <2>2 DEF RequestFits, TradeFits
<1>2. ask.connector \in Swappers
  BY <1>1, AskKinds DEF RequestFits
<1>3. ASSUME NEW l, SendTx(tx, l), quote' = quote, l = "commit" \/ (l = "answer" /\ ask.connector = "ref")
      PROVE  AMMInv'
  <2>1. pc' = l /\ UNCHANGED <<ask, nonce, answer, quote, chain, net, approved, allowances>>
    BY <1>3 DEF SendTx, setupVars
  <2>2. IsTx(tx') /\ tx'.to = tx.to /\ Built'
    BY <1>1, <1>3, <2>1, SendTxIs, BuiltKept
  <2>3. TradeFits'
    BY <1>1, <1>3, <2>1, <2>2 DEF TradeFits
  <2> QED BY <1>1, <1>3, <2>1, <2>2, <2>3, SameNames DEF AMMInv, RequestFits, Allowances
<1>4. ASSUME NEW how, SendFails(how), quote' = quote, how = Execution[ask.connector].nonce
      PROVE  AMMInv'
  <2>1. /\ pc' = "done" /\ answer' = "error" /\ UNCHANGED <<ask, tx, quote, range, setupVars>>
        /\ nonce' = IF how = "provide" THEN "released" ELSE nonce
    BY <1>4 DEF SendFails, Released
  <2>2. nonce' = "reserved" => ask.connector = "pancakeswap"
    BY <1>1, <1>2, <1>4, <2>1, ExecutionIs DEF TradeFits
  <2>3. TradeFits'
    BY <1>1, <2>1, <2>2, TradeKeeps
  <2> QED BY <1>1, <2>1, <2>3, OnlyPcKeeps
<1>5. ask.connector = "ref" => Execution[ask.connector].nonce = "key"
  BY <1>2, ExecutionIs
<1> QED BY <1>3, <1>4, <1>5 DEF SendSwap, RefSend

\* the chain executes a transaction within its slippage, or not at all
LEMMA ConcludeKeeps ==
  ASSUME AMMInv, NEW f, NEW p, Conclude(f, p), UNCHANGED <<quote, range>>,
         ask.kind = "trade" /\ f = "ok" => p \in Prices /\ Within(ask.side, p, tx.quote, tx.slippage)
  PROVE  AMMInv'
<1>1. /\ IsTx(tx') /\ tx'.fate = f /\ tx'.price = p /\ tx'.to = tx.to /\ tx'.quote = tx.quote
      /\ tx'.slippage = tx.slippage /\ tx.fate = "pool"
  BY ConcludeIs DEF AMMInv
<1>2. UNCHANGED <<pc, ask, nonce, answer, quote, range, chain, net, approved, allowances>>
  BY DEF Conclude, setupVars
<1>3. pc # "idle" /\ tx # NoTx
  BY <1>1, NoTxIs DEF AMMInv, NoRequest
<1>4. RequestFits
  BY <1>3 DEF AMMInv
<1>5. ASSUME ask.kind = "trade" PROVE TradeFits'
  <2>1. TradeFits /\ Built
    BY <1>3, <1>4, <1>5 DEF RequestFits, TradeFits
  <2>2. Built'
    BY <1>1, <1>2, <1>5, <2>1, BuiltKept
  <2> QED BY <1>2, <1>3, <2>1, <2>2 DEF TradeFits
<1> QED BY <1>1, <1>2, <1>3, <1>4, <1>5, SameNames DEF AMMInv, RequestFits, Allowances

LEMMA ExecuteKeeps ==
  ASSUME AMMInv, Drop \/ Revert \/ ExecuteSwap \/ ExecuteLiquidity \/ ExecutePerp, UNCHANGED <<quote, range>>
  PROVE  AMMInv'
<1>1. CASE Drop \/ Revert
  BY <1>1, ConcludeKeeps DEF Drop, Revert
<1>2. CASE ExecuteSwap
  BY <1>2, ConcludeKeeps DEF ExecuteSwap
<1>3. CASE ExecuteLiquidity \/ ExecutePerp
  <2>1. PICK c \in {"uniswapLP", "perp"} : ask.connector = c /\ Conclude("ok", None) /\ ask # None
    BY <1>3 DEF ExecuteLiquidity, ExecutePerp
  <2>2. tx # NoTx
    BY <2>1, NoTxIs DEF Conclude
  <2>3. pc # "idle" /\ ask \in Asks
    BY <2>1, <2>2 DEF AMMInv, NoRequest, RequestFits
  <2>4. ask.kind # "trade"
    BY <2>1, <2>3, AskKinds, SwappersAre
  <2> QED BY <2>1, <2>4, ConcludeKeeps
<1> QED BY <1>1, <1>2, <1>3

\* positions, of which only a new one has a range, and the perpetual protocol
LEMMA LiquidityKeeps ==
  ASSUME AMMInv, Liquidity
  PROVE  AMMInv'
<1>1. CASE AskLiquidity \/ AskPerp
  <2>1. PICK a \in Asks : Arrive(a) /\ UNCHANGED <<quote, range>>
    BY <1>1 DEF AskLiquidity, AskPerp, Asks
  <2> QED BY <2>1, ArriveKeeps
<1>2. CASE ExecuteLiquidity \/ ExecutePerp
  BY <1>2, ExecuteKeeps DEF ExecuteLiquidity, ExecutePerp
<1>3. ASSUME \/ ReadPosition \/ ReadPool \/ ReadPerp \/ ConnectLiquidity \/ LiquidityFails
             \/ LiquidityNonce \/ AnswerLiquidity \/ ConnectPerp \/ SavePerp
      PROVE  AMMInv'
  <2>1. /\ UNCHANGED <<ask, tx, quote, range, setupVars>>
        /\ pc \in {"connector", "build", "nonce", "answer", "perp", "save"}
        /\ pc' \in {"build", "send", "perp", "done"}
        /\ nonce' = nonce \/ ask.connector = "uniswapLP"
        /\ ask.kind \in {"position", "pool", "read"} \/ ask.connector \in {"uniswapLP", "perp"}
    BY <1>3 DEF ReadPosition, ReadPool, ReadPerp, ConnectLiquidity, LiquidityFails, LiquidityNonce,
         AnswerLiquidity, ConnectPerp, SavePerp, GetConnector, ConnectorFails, Goto, Answer, TakeNonce, SaveTx
  <2>2. RequestFits
    BY <2>1 DEF AMMInv
  <2>3. ask.kind \notin {"trade", "price"}
    BY <2>1, <2>2, AskKinds, SwappersAre DEF RequestFits
  <2> QED BY <2>1, <2>2, <2>3, OnlyPcKeeps DEF RequestFits
<1>4. CASE AddPosition
  <2>1. PICK to \in {SwapRouter, PositionManager} :
          /\ tx' = [NoTx EXCEPT !.to = to]
          /\ pc = "build" /\ ask.kind = "add" /\ pc' = "nonce"
          /\ range' = TickRange(ask.order, ask.lower, ask.upper) /\ range'[1] >= -MaxTick
          /\ UNCHANGED <<ask, nonce, answer, quote, chain, net, approved, allowances>>
    BY <1>4 DEF AddPosition, setupVars
  <2>2. IsTx(tx') /\ tx'.to = to
    BY <2>1 DEF NoTx, IsTx
  <2>3. RequestFits
    BY <2>1 DEF AMMInv
  <2> QED BY <2>1, <2>2, <2>3, SameNames DEF AMMInv, RequestFits, Allowances
<1>5. CASE ChangePosition
  <2>1. /\ tx' = [NoTx EXCEPT !.to = PositionManager]
        /\ pc = "build" /\ ask.kind \in {"reduce", "collect"} /\ pc' = "nonce"
        /\ UNCHANGED <<ask, nonce, answer, quote, range, chain, net, approved, allowances>>
    BY <1>5 DEF ChangePosition, setupVars
  <2>2. IsTx(tx')
    BY <2>1 DEF NoTx, IsTx
  <2>3. RequestFits
    BY <2>1 DEF AMMInv
  <2> QED BY <2>1, <2>2, <2>3, SameNames DEF AMMInv, RequestFits, Allowances
<1>6. CASE SendLiquidity
  <2>1. pc = "send" /\ ask.connector = "uniswapLP" /\ UNCHANGED <<quote, range>>
    BY <1>6 DEF SendLiquidity
  <2>2. RequestFits /\ IsTx(tx)
    BY <2>1 DEF AMMInv
  <2>3. ask.kind \notin {"trade", "price"}
    BY <2>1, <2>2, AskKinds, SwappersAre DEF RequestFits
  <2>4. ASSUME SendTx(tx, "answer") PROVE AMMInv'
    <3>1. IsTx(tx') /\ tx'.to = tx.to
      BY <2>2, <2>4, SendTxIs
    <3>2. pc' = "answer" /\ UNCHANGED <<ask, nonce, answer, chain, net, approved, allowances>>
      BY <2>4 DEF SendTx, setupVars
    <3> QED BY <2>1, <2>2, <2>3, <3>1, <3>2, SameNames DEF AMMInv, RequestFits, Allowances
  <2>5. ASSUME SendFails("next") PROVE AMMInv'
    BY <2>1, <2>2, <2>3, <2>5, OnlyPcKeeps DEF SendFails
  <2> QED BY <1>6, <2>4, <2>5 DEF SendLiquidity
<1>7. CASE SendPerp
  <2>1. pc = "perp" /\ ask.kind \in {"open", "close"} /\ UNCHANGED <<quote, range, chain, net, approved, allowances>>
    BY <1>7 DEF SendPerp, setupVars
  <2>2. RequestFits
    BY <2>1 DEF AMMInv
  <2>3. CASE Answer("error")
    BY <1>7, <2>1, <2>2, <2>3, OnlyPcKeeps DEF SendPerp, Answer, RequestFits
  <2>4. CASE /\ pc' = "save" /\ nonce' = "own"
             /\ tx' = [NoTx EXCEPT !.fate = "pool", !.to = Contract("perp", chain, net)]
             /\ UNCHANGED <<ask, answer>>
    <3>1. IsTx(tx')
      BY <2>4 DEF NoTx, IsTx
    <3> QED BY <2>1, <2>2, <2>4, <3>1, SameNames DEF AMMInv, RequestFits, Allowances
  <2> QED BY <1>7, <2>3, <2>4 DEF SendPerp
<1> QED BY <1>1, <1>2, <1>3, <1>4, <1>5, <1>6, <1>7 DEF Liquidity

LEMMA TradeStepKeeps ==
  ASSUME AMMInv, Trade, UNCHANGED range
  PROVE  AMMInv'
<1>1. CASE Ask
  <2>1. PICK a \in Asks : Arrive(a) /\ quote' = quote
    BY <1>1 DEF Ask, Asks
  <2> QED BY <2>1, ArriveKeeps
<1>2. CASE ExecuteSwap
  BY <1>2, ExecuteKeeps DEF ExecuteSwap
<1>3. CASE Connect \/ GetTradeInfo \/ Price \/ RefGetTradeInfo \/ RefPrice \/ QuoteFails \/ CheckLimit \/ BuildFails
  <2>1. pc # "idle"
    BY <1>3 DEF Connect, GetTradeInfo, Price, RefGetTradeInfo, RefPrice, QuoteFails, CheckLimit, BuildFails
  <2> QED BY <1>3, <2>1, QuoteKeeps
<1>4. CASE BuildSwap
  BY <1>4, BuildSwapKeeps DEF BuildSwap
<1>5. CASE SwapNonce \/ CommitSwap \/ AnswerSwap \/ SaveSwap
  <2>1. pc # "idle"
    BY <1>5 DEF SwapNonce, CommitSwap, AnswerSwap, SaveSwap, TakeNonce, SaveTx
  <2> QED BY <1>5, <2>1, FinishKeeps
<1>6. CASE SendSwap \/ RefSend
  BY <1>6, SendKeeps DEF SendSwap, RefSend
<1> QED BY <1>1, <1>2, <1>3, <1>4, <1>5, <1>6 DEF Trade

LEMMA AMMInvariant == Spec => []AMMInv
<1>1. Init => AMMInv
  BY NoTxIs DEF Init, RequestsInit, AMMInv, NoRequest, Allowances
<1>2. AMMInv /\ [Next]_vars => AMMInv'
  <2> SUFFICES ASSUME AMMInv, [Next]_vars PROVE AMMInv'
    OBVIOUS
  <2>1. CASE Next
    BY <2>1, TradeStepKeeps, LiquidityKeeps, SetupKeeps, ExecuteKeeps, ForgetKeeps DEF Next
  <2>2. CASE UNCHANGED vars
    <3>1. UNCHANGED <<setupVars, requestVars, quote, range>>
      BY <2>2 DEF vars
    <3>2. UNCHANGED <<chain, net, approved, allowances, pc, ask, nonce, tx, answer, quote, range>>
      BY <3>1 DEF setupVars, requestVars
    <3>3. TradeFits => TradeFits'
      <4>1. Built => Built'
        BY <3>2, SameTrade DEF Built
      <4> QED BY <3>2, <4>1, SameTrade DEF TradeFits, NoTx
    <3> QED BY <3>2, <3>3, SameNames DEF AMMInv, NoRequest, RequestFits, Allowances, IsTx, NoTx
  <2> QED BY <2>1, <2>2
<1> QED BY <1>1, <1>2, PTL DEF Spec

-----------------------------------------------------------------------------
(* What the client gets                                                    *)

LEMMA TradedIs ==
  ASSUME AMMInv, Traded
  PROVE  /\ Built /\ tx.price \in Prices /\ Within(ask.side, tx.price, tx.quote, tx.slippage)
         /\ ask.connector \in Swappers /\ ask.side \in Sides
         /\ ask.limit \in Limits \cup {None} /\ ask.slippage \in Slippages \cup {None}
         /\ Requested \in Slippages \cup {None}
<1>1. ask.kind = "trade" /\ ask # None /\ tx.fate = "ok"
  BY DEF Traded, IsTrade
<1>2. RequestFits /\ tx # NoTx
  BY <1>1, NoTxIs DEF AMMInv, NoRequest
<1>3. Built
  BY <1>1, <1>2 DEF RequestFits, TradeFits
<1>4. /\ ask.connector \in Swappers /\ ask.side \in Sides
      /\ ask.limit \in Limits \cup {None} /\ ask.slippage \in Slippages \cup {None}
  BY <1>1, <1>2, AskKinds DEF RequestFits
<1> QED BY <1>1, <1>3, <1>4 DEF Built, Requested

\* a better price for the same trade is within the slippage of a worse one
LEMMA WithinMonotone ==
  ASSUME NEW side \in Sides, NEW p \in Nat, NEW q \in Nat, NEW r \in Int, NEW s \in Nat,
         Within(side, p, q, s), IF side = "BUY" THEN q <= r ELSE q >= r
  PROVE  Within(side, p, r, s)
<1>1. CASE side = "BUY"
  <2>1. q * (100 + s) <= r * (100 + s)
    BY <1>1, SMT
  <2> QED BY <1>1, <2>1 DEF Within
<1>2. CASE side = "SELL"
  BY <1>2 DEF Within
<1> QED BY <1>1, <1>2 DEF Sides

(* However the price moves between the quote and the block, a trade with a *)
(* limit executes at the limit, up to the digit that toFixed(8) cuts off   *)
(* and the slippage that the transaction tolerates: for any prices, limits *)
(* and slippages and every connector but openocean.                        *)
THEOREM ExecutedAtLimit == Spec => []ExecutedWithinLimit
<1>1. AMMInv => ExecutedWithinLimit
  <2> SUFFICES ASSUME AMMInv, Traded, ask.limit # None, ask.connector # "openocean"
               PROVE  LET limit == IF ask.side = "BUY" THEN ask.limit + 5 ELSE ask.limit - 5
                      IN  Within(ask.side, tx.price, limit, Execution[ask.connector].slippage[Requested])
    BY DEF ExecutedWithinLimit
  <2> DEFINE limit == IF ask.side = "BUY" THEN ask.limit + 5 ELSE ask.limit - 5
             s == Execution[ask.connector].slippage[Requested]
  <2>1. /\ Built /\ tx.price \in Nat /\ quote \in Nat /\ ask.limit \in Nat /\ ask.side \in Sides
        /\ tx.quote = quote /\ tx.slippage = s /\ Within(ask.side, tx.price, quote, s)
    BY TradedIs, PriceAssumption DEF Built
  <2>2. s \in Nat
    BY TradedIs, ExecutionIs, SlippageIs
  <2>3. IF ask.side = "BUY" THEN quote <= limit ELSE quote >= limit
    <3>1. Rounded(quote) <= quote + 5 /\ quote - 4 <= Rounded(quote)
      <4>1. 10 * ((quote + 5) \div 10) <= quote + 5 /\ quote + 5 < 10 * ((quote + 5) \div 10) + 10
            /\ (quote + 5) \div 10 \in Int
        BY <2>1, SMT
      <4> QED BY <2>1, <4>1 DEF Rounded
    <3>2. Rounded(quote) \in Int
      BY <2>1 DEF Rounded
    <3>3. \/ IF ask.side = "BUY" THEN quote <= ask.limit ELSE quote >= ask.limit
          \/ IF ask.side = "BUY" THEN Rounded(quote) <= ask.limit ELSE Rounded(quote) >= ask.limit
      BY <2>1 DEF Built, LimitHolds, RefLimitHolds, UniswapLimitHolds, PriceHolds
    <3> QED BY <2>1, <3>1, <3>2, <3>3
  <2>4. limit \in Int
    BY <2>1
  <2> HIDE DEF limit, s
  <2>5. Within(ask.side, tx.price, limit, s)
    BY <2>1, <2>2, <2>3, <2>4, WithinMonotone
  <2> QED BY <2>5 DEF limit, s
<1> QED BY <1>1, AMMInvariant, PTL

(* expectedOut of the answer to a sale is the least that the sale brings,  *)
(* whatever slippage the request asked for, on every connector but         *)
(* openocean and ref.                                                      *)
THEOREM ExpectedIsHonoured == Spec => []ExpectedHonoured
<1>1. AMMInv => ExpectedHonoured
  <2> SUFFICES ASSUME AMMInv, Traded, ask.side = "SELL", ask.connector \notin {"openocean", "ref"}
               PROVE  Within("SELL", tx.price, quote, Quotes[ask.connector][None])
    BY DEF ExpectedHonoured
  <2>1. Requested = None
    BY DEF Requested
  <2>2. Execution[ask.connector].slippage[None] = Allowed /\ Quotes[ask.connector][None] = Allowed
    BY TradedIs, ExecutionIs, SlippageIs
  <2> QED BY <2>1, <2>2, TradedIs DEF Built
<1> QED BY <1>1, AMMInvariant, PTL

(* A purchase that asked for a slippage tolerates that one and no other,   *)
(* on every connector but openocean and sushiswap.                         *)
THEOREM SlippageIsAsAsked == Spec => []SlippageAsAsked
<1>1. AMMInv => SlippageAsAsked
  <2> SUFFICES ASSUME AMMInv, Traded, ask.side = "BUY", ask.slippage # None,
                      ask.connector \notin {"openocean", "sushiswap"}
               PROVE  Within("BUY", tx.price, quote, ask.slippage)
    BY DEF SlippageAsAsked
  <2>1. Requested = ask.slippage
    BY DEF Requested
  <2>2. Execution[ask.connector].slippage[ask.slippage] = ask.slippage
    BY TradedIs, ExecutionIs, SlippageIs
  <2> QED BY <2>1, <2>2, TradedIs DEF Built
<1> QED BY <1>1, AMMInvariant, PTL

(* Of the requests that end with a nonce neither committed nor given back, *)
(* there are positions and the failures of pancakeswap, and no others.     *)
THEOREM NoncesAreSettled == Spec => []NoncesSettled
<1>1. AMMInv => NoncesSettled
  BY DEF AMMInv, RequestFits, TradeFits, NoncesSettled
<1> QED BY <1>1, AMMInvariant, PTL

(* Approving a connector by its names, with its additional spenders, is    *)
(* enough for every trade and every new position, but for openocean's      *)
(* trades, whose address is the remote API's, and defira's on the test     *)
(* network: for any number of approvals, before and during the requests.   *)
THEOREM ApprovalsAreEnough == Spec => []ApprovalsSuffice
<1>1. AMMInv => ApprovalsSuffice
  <2> SUFFICES ASSUME AMMInv, tx.to # None, ask.kind \in {"trade", "add"},
                      ask.connector \notin {"openocean", "ref"},
                      Spenders(ask.connector) \subseteq approved,
                      ask.connector # "defira" \/ net = "main"
               PROVE  tx.to \in allowances
    BY DEF ApprovalsSuffice
  <2>1. RequestFits
    BY NoTxIs DEF AMMInv, NoRequest
  <2>2. CASE ask.kind = "trade"
    <3>1. ask.connector \in Swappers /\ tx.to = Contract(ask.connector, chain, net)
      BY <2>1, <2>2, AskKinds, NoTxIs DEF RequestFits, TradeFits, Built
    <3>2. /\ <<ask.connector, chain>> \in Deployed /\ ask.connector # "uniswapLP"
          /\ net = "test" => ask.connector \notin MainOnly
      BY <3>1, SwappersAre
    <3>3. Spender(chain, ask.connector, net) \in allowances
      BY <3>2 DEF AMMInv, Allowances, Spenders
    <3> QED BY <3>1, <3>2, <3>3, SpenderReaches DEF AMMInv
  <2>3. CASE ask.kind = "add"
    <3>1. ask.connector = "uniswapLP" /\ tx.to \in {SwapRouter, PositionManager} /\ "uniswapLP" \in Names
      BY <2>1, <2>3, AskKinds, SwappersAre DEF RequestFits
    <3>2. /\ <<"uniswapLP", chain>> \in Deployed /\ <<"uniswap", chain>> \in Deployed
          /\ "uniswapLP" \notin MainOnly /\ "uniswap" \notin MainOnly
      BY <3>1 DEF Names, Deployed, MainOnly
    <3>3. Spender(chain, "uniswapLP", net) \in allowances /\ Spender(chain, "uniswap", net) \in allowances
      BY <3>1 DEF AMMInv, Allowances, Spenders
    <3> QED BY <3>1, <3>2, <3>3, SpenderReaches DEF AMMInv, SwapRouter, PositionManager
  <2> QED BY <2>2, <2>3
<1> QED BY <1>1, AMMInvariant, PTL

(* The ticks of a new position are usable, in order, inside the pool and   *)
(* near the range asked for, whichever token sorts first: for any range,   *)
(* any spacing of the fee and any bound of the pool.                       *)
THEOREM RangeIsAsRequested == Spec => []RangeAsRequested
<1>1. AMMInv => RangeAsRequested
  <2> SUFFICES ASSUME AMMInv, range # None PROVE RangeAsRequested
    BY DEF RangeAsRequested
  <2>1. /\ ask \in Asks /\ ask.kind = "add" /\ range = TickRange(ask.order, ask.lower, ask.upper)
        /\ range[1] >= -MaxTick
    BY DEF AMMInv, NoRequest, RequestFits
  <2>2. ask.order \in Orders /\ ask.lower \in Ticks /\ ask.upper \in Ticks /\ ask.lower < ask.upper
    BY <2>1, AskKinds
  <2>3. IF ask.order = "sorted" THEN RangeFits(range, ask.lower, ask.upper)
        ELSE RangeFits(range, -ask.upper, -ask.lower)
    BY <2>1, <2>2, TickRangeOK
  <2> QED BY <2>3 DEF RangeAsRequested, RangeFits
<1> QED BY <1>1, AMMInvariant, PTL
=============================================================================
