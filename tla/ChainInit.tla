------------------------------ MODULE ChainInit ------------------------------
(***************************************************************************)
(* How requests of the Gateway get a ready EVM chain and a ready connector *)
(* (gateway/src/services/connection-manager.ts): both are singletons that  *)
(* the first request initialises while other requests already use them.    *)
(* A chain loads its nonce manager and then its token list; a connector    *)
(* copies the chain's tokens.                                              *)
(*                                                                         *)
(* A step is the code between two awaits on I/O.  An init() that has       *)
(* nothing to do returns without I/O, in the same step.                    *)
(***************************************************************************)
EXTENDS FiniteSets

CONSTANTS
  Requests,
  Tokens,     \* tokens of this chain in the token list
  Waiting,    \* connectors whose init awaits chain.init (uniswap and its kin)
  Guarded,    \* connectors whose init throws unless the chain is ready (uniswapLP, perp)
  Remote,     \* guarded connectors that then await a library's init (perp)
  None        \* no connector: the request only needs the chain

Connectors == Waiting \cup Guarded

ASSUME ConnectorsAssumption ==
  /\ Waiting \cap Guarded = {} /\ Remote \subseteq Guarded /\ None \notin Connectors

VARIABLES
  ready,          \* EthereumBase._ready
  initializing,   \* EthereumBase._initializing
  nonceReady,     \* EVMNonceManager.#initialized
  tokens,         \* EthereumBase._tokenMap
  known,          \* tokenList of each connector
  open,           \* connectors whose _ready is set
  req             \* where each request waits

chain == <<ready, initializing, nonceReady, tokens>>
vars == <<chain, known, open, req>>

Waits == {"idle", "nonces", "tokens", "library", "serve"}

Idle == [pc |-> "idle", connector |-> None]

TypeOK ==
  /\ ready \in BOOLEAN /\ initializing \in BOOLEAN /\ nonceReady \in BOOLEAN
  /\ tokens \subseteq Tokens
  /\ known \in [Connectors -> SUBSET Tokens] /\ open \subseteq Connectors
  /\ req \in [Requests -> [pc : Waits, connector : Connectors \cup {None}]]

Init ==
  /\ ready = FALSE /\ initializing = FALSE /\ nonceReady = FALSE
  /\ tokens = {}
  /\ known = [c \in Connectors |-> {}] /\ open = {}
  /\ req = [r \in Requests |-> Idle]

-----------------------------------------------------------------------------
WaitFor(r, pc, c) == req' = [req EXCEPT ![r] = [pc |-> pc, connector |-> c]]

\* the request goes on with its chain and its connector
Serve(r, c) == WaitFor(r, "serve", c) /\ UNCHANGED <<known, open>>

\* the request is answered with an error
Throw(r) == req' = [req EXCEPT ![r] = Idle] /\ UNCHANGED <<known, open>>

\* mutant: _initializing is not set
BeginInitUnmarked(r, c) ==
  /\ WaitFor(r, "nonces", c)
  /\ UNCHANGED <<chain, known, open>>

\* EthereumBase.init with work to do, up to its first await
BeginInit(r, c) ==
  /\ initializing' = TRUE
  /\ WaitFor(r, "nonces", c)
  /\ UNCHANGED <<ready, nonceReady, tokens, known, open>>

\* the loop of a connector's init over chain.storedTokenList
CopyTokens(r, c, stored) ==
  /\ known' = [known EXCEPT ![c] = @ \cup stored]
  /\ IF c \in Remote THEN WaitFor(r, "library", c) /\ UNCHANGED open
                     ELSE WaitFor(r, "serve", c) /\ open' = open \cup {c}

\* mutant: a guarded connector does not look whether the chain is ready
GetConnectorUnguarded(r, c, isReady, stored) ==
  IF c = None \/ c \in open THEN Serve(r, c) ELSE CopyTokens(r, c, stored)

\* mutant: a guarded connector waits for a chain that is not ready
GetConnectorWaits(r, c, isReady, stored) ==
  IF c = None \/ c \in open THEN Serve(r, c)
  ELSE IF c \in Guarded /\ ~isReady THEN WaitFor(r, "forever", c) /\ UNCHANGED <<known, open>>
  ELSE CopyTokens(r, c, stored)

\* getConnector, given what the chain is like at this moment.  The init of a
\* waiting connector finds the chain ready or being initialised, in which case
\* chain.init returns at once.
GetConnector(r, c, isReady, stored) ==
  IF c = None \/ c \in open THEN Serve(r, c)
  ELSE IF c \in Guarded /\ ~isReady THEN Throw(r)
  ELSE CopyTokens(r, c, stored)

\* getChain, and getConnector where the controller calls it next
Arrive(r) ==
  /\ req[r].pc = "idle"
  /\ \E c \in Connectors \cup {None} :
       IF ready \/ initializing
       THEN GetConnector(r, c, ready, tokens) /\ UNCHANGED chain
       ELSE BeginInit(r, c)

\* mutant: the chain is ready before its tokens are there
NoncesLoadedEarly(r) ==
  /\ req[r].pc = "nonces"
  /\ nonceReady' = TRUE /\ ready' = TRUE
  /\ WaitFor(r, "tokens", req[r].connector)
  /\ UNCHANGED <<initializing, tokens, known, open>>

\* EVMNonceManager.init resolves
NoncesLoaded(r) ==
  /\ req[r].pc = "nonces"
  /\ nonceReady' = TRUE
  /\ WaitFor(r, "tokens", req[r].connector)
  /\ UNCHANGED <<ready, initializing, tokens, known, open>>

\* getTokenList resolves: loadTokens and init finish, and the request goes on
TokensLoaded(r) ==
  /\ req[r].pc = "tokens"
  /\ ready' = TRUE /\ initializing' = FALSE
  /\ tokens' = Tokens
  /\ UNCHANGED nonceReady
  /\ GetConnector(r, req[r].connector, TRUE, Tokens)

\* the init of the connector's own library resolves
LibraryReady(r) ==
  /\ req[r].pc = "library"
  /\ open' = open \cup {req[r].connector}
  /\ WaitFor(r, "serve", req[r].connector)
  /\ UNCHANGED <<chain, known>>

\* one of these awaits rejects; _initializing stays as it is
AwaitFails(r) ==
  /\ req[r].pc \in {"nonces", "tokens", "library"}
  /\ Throw(r) /\ UNCHANGED chain

Answer(r) ==
  /\ req[r].pc = "serve"
  /\ req' = [req EXCEPT ![r] = Idle]
  /\ UNCHANGED <<chain, known, open>>

Settles(r) ==
  NoncesLoaded(r) \/ TokensLoaded(r) \/ LibraryReady(r) \/ AwaitFails(r) \/ Answer(r)

Next == \E r \in Requests : Arrive(r) \/ Settles(r)

Spec == Init /\ [][Next]_vars

\* every await settles
FairSpec == Spec /\ \A r \in Requests : WF_vars(Settles(r))

-----------------------------------------------------------------------------
(* However many requests find the chain uninitialised, one of them loads   *)
(* it, and it is never loaded again.                                       *)
LoadedOnce ==
  \A r \in Requests : req[r].pc \in {"nonces", "tokens"} =>
    /\ ~ready
    /\ \A q \in Requests : req[q].pc \in {"nonces", "tokens"} => q = r

(* ready() is not true before nonces and tokens are loaded, whoever asks.  *)
ReadyMeansLoaded == ready => nonceReady /\ tokens = Tokens

(* A connector that refuses a chain that is not ready never keeps an       *)
(* incomplete token list.                                                  *)
GuardedConnectorsComplete == \A c \in open \cap Guarded : known[c] = Tokens

(* Every request is answered, also when the initialisation it needs failed *)
(* for another one.                                                        *)
RequestsAnswered == \A r \in Requests : req[r].pc # "idle" ~> req[r].pc = "idle"

(* "Given a token's address, return the connector's native representation  *)
(* of the token": a connector that is ready knows every token its chain    *)
(* knows.  A connector that was initialised while the chain was being      *)
(* initialised keeps the empty list it copied.                             *)
ConnectorKnowsTokens == \A c \in open : tokens \subseteq known[c]
=============================================================================
