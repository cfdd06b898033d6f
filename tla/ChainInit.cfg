SPECIFICATION FairSpec
CONSTANTS
  Requests = {r1, r2, r3}
  Tokens = {t1, t2}
  Waiting = {uniswap}
  Guarded = {uniswapLP, perp}
  Remote = {perp}
  None = None
INVARIANTS LoadedOnce ReadyMeansLoaded GuardedConnectorsComplete
PROPERTY RequestsAnswered
