--------------------------- MODULE AMMConnectors ---------------------------
(***************************************************************************)
(* The connectors of the Gateway to automated market makers: what each     *)
(* class does with the slippage a request asks for, with the quote that    *)
(* passed the limit, and with the nonce of the wallet; which connector is  *)
(* there on which chain; and which contract an approval by name reaches.   *)
(* A network is "main" (the one contracts are best known on, optimism for  *)
(* perp) or "test" (any other).                                            *)
(***************************************************************************)
EXTENDS Naturals

CONSTANTS
  Slippages,   \* percents a request may ask for
  Allowed,     \* allowedSlippage of the configuration, in percent
  None

ASSUME SlippageAssumption == Slippages \subseteq Nat /\ Allowed \in Nat /\ None \notin Slippages

\* getAllowedSlippage(allowedSlippageStr), getSlippagePercentage(), or neither
OrConfig == [s \in Slippages \cup {None} |-> IF s = None THEN Allowed ELSE s]
ConfigOnly == [s \in Slippages \cup {None} |-> Allowed]
Ignored == [s \in Slippages \cup {None} |-> 0]

-----------------------------------------------------------------------------
(* init: waits for the chain, or throws when the chain is not ready        *)

UniswapInit == "waits"
SushiswapInit == "waits"
PancakeswapInit == "throws"
PangolinInit == "waits"
TraderjoeInit == "waits"
QuickswapInit == "waits"
CronosInit == "waits"
DefikingdomsInit == "waits"
DefiraInit == "waits"
OpenoceanInit == "waits"
RefInit == "waits"
UniswapLPInit == "throws"
PerpInit == "throws"

-----------------------------------------------------------------------------
(* estimateBuyTrade, estimateSellTrade: the slippage in expectedAmount     *)

UniswapQuotes == OrConfig
SushiswapQuotes == ConfigOnly
PancakeswapQuotes == OrConfig
PangolinQuotes == OrConfig
TraderjoeQuotes == OrConfig
QuickswapQuotes == OrConfig
CronosQuotes == OrConfig
DefikingdomsQuotes == OrConfig
DefiraQuotes == OrConfig
OpenoceanQuotes == Ignored
RefQuotes == Ignored

-----------------------------------------------------------------------------
(* executeTrade: the slippage the transaction tolerates, the quote it is   *)
(* built from, and the nonce: provideNonce; getNextNonce and commitNonce;  *)
(* or the one of the access key, which no nonce manager hands out          *)

Executes(slippage, quote, nonce) == [slippage |-> slippage, quote |-> quote, nonce |-> nonce]

UniswapExecutes == Executes(OrConfig, "checked", "provide")
SushiswapExecutes == Executes(ConfigOnly, "checked", "provide")
PancakeswapExecutes == Executes(OrConfig, "checked", "commit")
PangolinExecutes == Executes(OrConfig, "checked", "provide")
TraderjoeExecutes == Executes(OrConfig, "checked", "provide")
QuickswapExecutes == Executes(OrConfig, "checked", "provide")
CronosExecutes == Executes(OrConfig, "checked", "provide")
DefikingdomsExecutes == Executes(OrConfig, "checked", "provide")
DefiraExecutes == Executes(OrConfig, "checked", "provide")
OpenoceanExecutes == Executes(ConfigOnly, "fresh", "provide")
RefExecutes == Executes(OrConfig, "checked", "key")

-----------------------------------------------------------------------------
\* madMeerkat and vvs: an SDK under the class they share
MadMeerkatQuotes == CronosQuotes
VvsQuotes == CronosQuotes

Inits == [uniswap |-> UniswapInit, sushiswap |-> SushiswapInit, pancakeswap |-> PancakeswapInit,
  pangolin |-> PangolinInit, traderjoe |-> TraderjoeInit, quickswap |-> QuickswapInit,
  mad_meerkat |-> CronosInit, vvs |-> CronosInit, defikingdoms |-> DefikingdomsInit,
  defira |-> DefiraInit, openocean |-> OpenoceanInit, ref |-> RefInit,
  uniswapLP |-> UniswapLPInit, perp |-> PerpInit]

Quotes == [uniswap |-> UniswapQuotes, sushiswap |-> SushiswapQuotes,
  pancakeswap |-> PancakeswapQuotes, pangolin |-> PangolinQuotes, traderjoe |-> TraderjoeQuotes,
  quickswap |-> QuickswapQuotes, mad_meerkat |-> MadMeerkatQuotes, vvs |-> VvsQuotes,
  defikingdoms |-> DefikingdomsQuotes, defira |-> DefiraQuotes, openocean |-> OpenoceanQuotes,
  ref |-> RefQuotes]

Execution == [uniswap |-> UniswapExecutes, sushiswap |-> SushiswapExecutes,
  pancakeswap |-> PancakeswapExecutes, pangolin |-> PangolinExecutes,
  traderjoe |-> TraderjoeExecutes, quickswap |-> QuickswapExecutes,
  mad_meerkat |-> CronosExecutes, vvs |-> CronosExecutes, defikingdoms |-> DefikingdomsExecutes,
  defira |-> DefiraExecutes, openocean |-> OpenoceanExecutes, ref |-> RefExecutes]

\* getConnector: 'unsupported chain or connector' for any other pair
Deployed ==
  ({"uniswap", "uniswapLP"} \X {"ethereum", "polygon"})
    \cup {<<"quickswap", "polygon">>, <<"perp", "ethereum">>, <<"ref", "near">>}
    \cup ({"pangolin", "openocean", "traderjoe"} \X {"avalanche"})
    \cup ({"defikingdoms", "defira"} \X {"harmony"})
    \cup ({"mad_meerkat", "vvs"} \X {"cronos"})
    \cup {<<"pancakeswap", "binance-smart-chain">>}
    \cup ({"sushiswap"} \X {"ethereum", "binance-smart-chain"})

Networks == {"main", "test"}

\* availableNetworks of their configurations
MainOnly == {"defikingdoms", "openocean", "perp"}

-----------------------------------------------------------------------------
(* getSpender: a contract of the configuration, an address in the code, or *)
(* the string of the request itself                                        *)

Contract(name, chain, net) == [name |-> name, chain |-> chain, net |-> net]
Verbatim(name) == Contract(name, "", "")

ByName(names, name, chain, net) ==
  IF name \in names THEN Contract(name, chain, net) ELSE Verbatim(name)

\* additional_spenders of the connectors' list
Spenders(c) == IF c = "uniswapLP" THEN {"uniswapLP", "uniswap"} ELSE {c}

\* mutant: ethereum's table without the position manager of uniswap
EthereumSpenderSwapsOnly(name, net) ==
  ByName({"uniswap", "sushiswap", "perp"}, name, "ethereum", net)
EthereumSpender(name, net) ==
  ByName({"uniswap", "sushiswap", "uniswapLP", "perp"}, name, "ethereum", net)
PolygonSpender(name, net) == ByName({"uniswap", "uniswapLP", "quickswap"}, name, "polygon", net)
AvalancheSpender(name, net) ==
  ByName({"pangolin", "openocean", "traderjoe"}, name, "avalanche", net)
BinanceSmartChainSpender(name, net) ==
  ByName({"pancakeswap", "sushiswap"}, name, "binance-smart-chain", net)
CronosSpender(name, net) == ByName({"mad_meerkat", "vvs"}, name, "cronos", net)
\* the addresses in the code are the ones of harmony's main network
HarmonySpender(name, net) ==
  ByName({"sushiswap", "viperswap", "defikingdoms", "defira"}, name, "harmony", "main")

Spender(chain, name, net) ==
  CASE chain = "ethereum" -> EthereumSpender(name, net)
    [] chain = "polygon" -> PolygonSpender(name, net)
    [] chain = "avalanche" -> AvalancheSpender(name, net)
    [] chain = "binance-smart-chain" -> BinanceSmartChainSpender(name, net)
    [] chain = "cronos" -> CronosSpender(name, net)
    [] chain = "harmony" -> HarmonySpender(name, net)
=============================================================================
