---------------------------- MODULE AMMRequests ----------------------------
(***************************************************************************)
(* What every request to a market maker goes through, on one chain and     *)
(* network: the chain and the connector get ready, a nonce is taken, the   *)
(* transaction is sent, the nonce is committed or given back, the          *)
(* transaction is stored, the request is answered; and, at any moment, the *)
(* wallet approves a spender by the name of a connector.  One request is   *)
(* under way at a time: what several of them do to the nonces of a wallet  *)
(* is in EVMNonceManager.                                                  *)
(***************************************************************************)
EXTENDS AMMConnectors, FiniteSets

CONSTANT MaxApprovals   \* names a wallet approves in a behaviour

VARIABLES
  chain, net,   \* of all the requests
  ready,        \* the chain is initialised
  vault,        \* getSpender's own instance of perp: "none", "starting" or "ready"
  sentNames,    \* names whose approval is sent
  approved,     \* names whose approval was executed
  allowances,   \* contracts that may spend the wallet's tokens
  pc, ask,      \* the request
  nonce,        \* "none", "given", "reserved", "committed", "released", "key" or "own"
  tx,           \* its transaction
  answer        \* "none", "ok", "refused" (by the limit) or "error"

setupVars == <<chain, net, ready, vault, sentNames, approved, allowances>>
requestVars == <<pc, ask, nonce, tx, answer>>

NoTx == [fate |-> "none", to |-> None, quote |-> None, slippage |-> None, price |-> None]
Names == {n \in DOMAIN Inits : <<n, chain>> \in Deployed /\ (net = "test" => n \notin MainOnly)}

RequestsInit ==
  /\ chain \in {d[2] : d \in Deployed} /\ net \in Networks
  /\ ready = "no" /\ vault = "none"
  /\ sentNames = {} /\ approved = {} /\ allowances = {}
  /\ pc = "idle" /\ ask = None /\ nonce = "none" /\ tx = NoTx /\ answer = "none"

-----------------------------------------------------------------------------
(* The chain, and approvals                                                *)

ChainReady ==
  /\ ready = "no" /\ ready' = "yes"
  /\ UNCHANGED <<chain, net, vault, sentNames, approved, allowances, requestVars>>

\* getSpender of perp: until its instance is ready it starts init and throws
StartVault ==
  /\ chain = "ethereum" /\ ready = "yes" /\ vault = "none" /\ vault' = "starting"
  /\ UNCHANGED <<chain, net, ready, sentNames, approved, allowances, requestVars>>

VaultReady ==
  /\ vault = "starting" /\ vault' = "ready"
  /\ UNCHANGED <<chain, net, ready, sentNames, approved, allowances, requestVars>>

\* approve of ethereum.controllers; near answers before it gets there
Approve(n) ==
  /\ chain # "near" /\ ready = "yes"
  /\ n = "perp" => vault = "ready"
  /\ Cardinality(sentNames) < MaxApprovals
  /\ sentNames' = sentNames \cup {n}
  /\ UNCHANGED <<chain, net, ready, vault, approved, allowances, requestVars>>

ExecuteApproval(n) ==
  /\ n \in sentNames \ approved
  /\ approved' = approved \cup {n}
  /\ allowances' = allowances \cup {Spender(chain, n, net)}
  /\ UNCHANGED <<chain, net, ready, vault, sentNames, requestVars>>

-----------------------------------------------------------------------------
(* Steps of a request                                                      *)

Goto(l) == pc' = l /\ UNCHANGED <<ask, nonce, tx, answer>>

Answer(a) == pc' = "done" /\ answer' = a /\ UNCHANGED <<ask, nonce, tx>>

Arrive(a) ==
  /\ pc = "idle" /\ pc' = "connector" /\ ask' = a
  /\ UNCHANGED <<nonce, tx, answer, setupVars>>

\* the answer is with the client; the transaction may still be in the pool
Forget ==
  /\ pc = "done" /\ tx.fate # "pool"
  /\ pc' = "idle" /\ ask' = None /\ nonce' = "none" /\ tx' = NoTx /\ answer' = "none"
  /\ UNCHANGED setupVars

\* getConnector of a chain that another request is still initialising:
\* uniswapLP looks at ethereum only; what the others then lack is in ChainInit
Refuses(c) == Inits[c] = "throws" /\ (c = "uniswapLP" => chain = "ethereum")

\* of polygon, too, uniswapLP builds on Ethereum.getInstance of the network's
\* name: its router does not know a network that ethereum has not configured,
\* and throws; ethereum's tokens, which nobody need have loaded, are the ones
\* that LiquidityFails lacks
ConnectorFails ==
  /\ pc = "connector" /\ ask.connector = "uniswapLP" /\ chain = "polygon"
  /\ Answer("error") /\ UNCHANGED setupVars

GetConnector(first) ==
  \/ /\ pc = "connector"
     /\ IF ready = "no" /\ Refuses(ask.connector) THEN Answer("error") ELSE Goto(first)
     /\ UNCHANGED setupVars
  \/ ConnectorFails

\* the nonce of the request, or the next one of the nonce manager, which
\* throws until the chain initialised it
TakeNonce ==
  /\ pc = "nonce"
  /\ \/ /\ ask.nonce = "given" \/ ready = "yes"
        /\ nonce' = IF ask.nonce = "given" THEN "given" ELSE "reserved"
        /\ pc' = "send" /\ UNCHANGED <<ask, tx, answer>>
     \/ ask.nonce = "none" /\ ready = "no" /\ Answer("error")
  /\ UNCHANGED setupVars

SendTx(t, then) ==
  /\ tx' = [t EXCEPT !.fate = "pool"] /\ pc' = then
  /\ UNCHANGED <<ask, nonce, answer, setupVars>>

\* mutant: a failed transaction keeps its nonce everywhere
ReleasedNever(how) == nonce

\* provideNonce gives the nonce back, the others keep it
Released(how) == IF how = "provide" THEN "released" ELSE nonce

SendFails(how) ==
  /\ pc' = "done" /\ answer' = "error" /\ nonce' = Released(how)
  /\ UNCHANGED <<ask, tx, setupVars>>

CommitNonce(then) ==
  /\ pc = "commit" /\ pc' = then /\ nonce' = "committed"
  /\ UNCHANGED <<ask, tx, answer, setupVars>>

\* a nonce that is not above the last one committed, or a failed write: an
\* error to the client, of a transaction that was sent
CommitFails(how) ==
  /\ pc = "commit" /\ pc' = "done" /\ answer' = "error" /\ nonce' = Released(how)
  /\ UNCHANGED <<ask, tx, setupVars>>

\* txStorage.saveTx, when it is called at all; and a failed write is
\* such an error
SaveTx ==
  /\ pc = "save" /\ \E a \in {"ok", "error"} : Answer(a)
  /\ UNCHANGED setupVars

-----------------------------------------------------------------------------
(* The chain executes, refuses or forgets a transaction                    *)

Conclude(fate, price) ==
  /\ tx.fate = "pool" /\ tx' = [tx EXCEPT !.fate = fate, !.price = price]
  /\ UNCHANGED <<pc, ask, nonce, answer, setupVars>>

Drop == Conclude("dropped", None)
Revert == Conclude("reverted", None)
=============================================================================
