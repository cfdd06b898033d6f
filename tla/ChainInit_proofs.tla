-------------------------- MODULE ChainInit_proofs --------------------------
(***************************************************************************)
(* Proofs about ChainInit for any set of requests, tokens and connectors.  *)
(***************************************************************************)
EXTENDS ChainInit, TLAPS

Loading(r) == req[r].pc \in {"nonces", "tokens"}

(* One request at a time loads the chain, and only while _initializing is  *)
(* set and _ready is not: a failed load leaves _initializing set, so there *)
(* is never a second one.                                                  *)
LoadingInv ==
  /\ ready => ~initializing /\ nonceReady /\ tokens = Tokens
  /\ \A r \in Requests : Loading(r) =>
       /\ initializing /\ ~ready
       /\ \A q \in Requests : Loading(q) => q = r
       /\ req[r].pc = "tokens" => nonceReady
  /\ \A c \in open \cap Guarded : known[c] = Tokens
  /\ \A r \in Requests : req[r].pc = "library" =>
       req[r].connector \in Guarded /\ known[req[r].connector] = Tokens

Inv == TypeOK /\ LoadingInv

LEMMA IdleType == Idle \in [pc : Waits, connector : Connectors \cup {None}]
BY DEF Idle, Waits

(* Waiting at a place puts one request there.                              *)
LEMMA WaitForType ==
  ASSUME Inv, NEW r \in Requests, NEW pc \in Waits, NEW c \in Connectors \cup {None},
         WaitFor(r, pc, c)
  PROVE  /\ req' \in [Requests -> [pc : Waits, connector : Connectors \cup {None}]]
         /\ req'[r].pc = pc /\ req'[r].connector = c
         /\ \A q \in Requests : q # r => req'[q] = req[q]
<1> DEFINE w == [pc |-> pc, connector |-> c]
<1>1. w \in [pc : Waits, connector : Connectors \cup {None}]
  OBVIOUS
<1>2. req' = [req EXCEPT ![r] = w] /\ DOMAIN req = Requests
  BY DEF WaitFor, Inv, TypeOK
<1> QED BY <1>1, <1>2 DEF Inv, TypeOK

LEMMA ThrowType ==
  ASSUME Inv, NEW r \in Requests, req' = [req EXCEPT ![r] = Idle]
  PROVE  /\ req' \in [Requests -> [pc : Waits, connector : Connectors \cup {None}]]
         /\ req'[r].pc = "idle"
         /\ \A q \in Requests : q # r => req'[q] = req[q]
<1>1. DOMAIN req = Requests
  BY DEF Inv, TypeOK
<1>2. Idle.pc = "idle"
  BY DEF Idle
<1> QED BY <1>1, <1>2, IdleType DEF Inv, TypeOK

(* A request that gets its connector no longer loads the chain, and a      *)
(* guarded connector only copies the tokens of a ready chain.              *)
LEMMA GetConnectorInv ==
  ASSUME Inv, NEW r \in Requests, NEW c \in Connectors \cup {None},
         NEW isReady \in BOOLEAN, NEW stored \in SUBSET Tokens,
         isReady => stored = Tokens, GetConnector(r, c, isReady, stored)
  PROVE  /\ req' \in [Requests -> [pc : Waits, connector : Connectors \cup {None}]]
         /\ known' \in [Connectors -> SUBSET Tokens] /\ open' \subseteq Connectors
         /\ req'[r].pc \notin {"nonces", "tokens"}
         /\ \A q \in Requests : q # r => req'[q] = req[q]
         /\ \A g \in open' \cap Guarded : known'[g] = Tokens
         /\ \A q \in Requests : req'[q].pc = "library" =>
              req'[q].connector \in Guarded /\ known'[req'[q].connector] = Tokens
<1> DEFINE Moved(pc) ==
      /\ req' \in [Requests -> [pc : Waits, connector : Connectors \cup {None}]]
      /\ req'[r].pc = pc /\ req'[r].connector = c
      /\ \A q \in Requests : q # r => req'[q] = req[q]
<1>0. {"serve", "library", "idle"} \subseteq Waits
  BY DEF Waits
<1>1. CASE Serve(r, c)
  <2>1. UNCHANGED <<known, open>> /\ WaitFor(r, "serve", c)
    BY <1>1 DEF Serve
  <2>2. Moved("serve")
    BY <1>0, <2>1, WaitForType DEF Moved
  <2> QED BY <2>1, <2>2 DEF Inv, TypeOK, LoadingInv, Moved
<1>2. CASE Throw(r)
  <2>1. UNCHANGED <<known, open>> /\ req' = [req EXCEPT ![r] = Idle]
    BY <1>2 DEF Throw
  <2> QED BY <2>1, ThrowType DEF Inv, TypeOK, LoadingInv
<1>3. CASE CopyTokens(r, c, stored) /\ c \in Connectors /\ (c \in Guarded => isReady)
  <2>1. known' = [known EXCEPT ![c] = @ \cup stored] /\ known \in [Connectors -> SUBSET Tokens]
    BY <1>3 DEF CopyTokens, Inv, TypeOK
  <2>2. /\ known' \in [Connectors -> SUBSET Tokens]
        /\ c \in Guarded => known'[c] = Tokens
        /\ \A g \in Connectors : known[g] = Tokens => known'[g] = Tokens
    BY <1>3, <2>1
  <2>3. CASE c \in Remote
    <3>1. WaitFor(r, "library", c) /\ UNCHANGED open
      BY <1>3, <2>3 DEF CopyTokens
    <3>2. c \in Guarded
      BY <2>3, ConnectorsAssumption
    <3>3. Moved("library")
      BY <1>0, <3>1, WaitForType DEF Moved
    <3>4. /\ \A g \in open' \cap Guarded : known'[g] = Tokens
          /\ \A q \in Requests : req'[q].pc = "library" =>
               req'[q].connector \in Guarded /\ known'[req'[q].connector] = Tokens
      BY <2>2, <3>1, <3>2, <3>3 DEF Inv, LoadingInv, Moved, Connectors
    <3> QED BY <2>2, <3>1, <3>3, <3>4 DEF Inv, TypeOK, Moved
  <2>4. CASE c \notin Remote
    <3>1. WaitFor(r, "serve", c) /\ open' = open \cup {c}
      BY <1>3, <2>4 DEF CopyTokens
    <3>2. Moved("serve")
      BY <1>0, <3>1, WaitForType DEF Moved
    <3>3. /\ \A g \in open' \cap Guarded : known'[g] = Tokens
          /\ \A q \in Requests : req'[q].pc = "library" =>
               req'[q].connector \in Guarded /\ known'[req'[q].connector] = Tokens
      BY <2>2, <3>1, <3>2 DEF Inv, LoadingInv, Moved, Connectors
    <3> QED BY <1>3, <2>2, <3>1, <3>2, <3>3 DEF Inv, TypeOK, Moved
  <2> QED BY <2>3, <2>4
<1>4. \/ Serve(r, c)
      \/ Throw(r)
      \/ CopyTokens(r, c, stored) /\ c \in Connectors /\ (c \in Guarded => isReady)
  <2>1. CASE c = None \/ c \in open
    <3>1. Serve(r, c)
      BY <2>1 DEF GetConnector
    <3> QED BY <3>1
  <2>2. CASE c # None /\ c \notin open /\ c \in Guarded /\ ~isReady
    <3>1. Throw(r)
      BY <2>2 DEF GetConnector
    <3> QED BY <3>1
  <2>3. CASE c # None /\ c \notin open /\ ~(c \in Guarded /\ ~isReady)
    <3>1. CopyTokens(r, c, stored)
      BY <2>3 DEF GetConnector
    <3> QED BY <2>3, <3>1
  <2> QED BY <2>1, <2>2, <2>3
<1> QED BY <1>1, <1>2, <1>3, <1>4

LEMMA ArriveInv ==
  ASSUME Inv, NEW r \in Requests, Arrive(r)
  PROVE  Inv'
<1>1. PICK c \in Connectors \cup {None} :
        IF ready \/ initializing
        THEN GetConnector(r, c, ready, tokens) /\ UNCHANGED chain
        ELSE BeginInit(r, c)
  BY DEF Arrive
<1>2. CASE ready \/ initializing
  <2>1. GetConnector(r, c, ready, tokens) /\ UNCHANGED chain
    BY <1>1, <1>2
  <2>2. ready \in BOOLEAN /\ tokens \in SUBSET Tokens /\ (ready => tokens = Tokens)
    BY DEF Inv, TypeOK, LoadingInv
  <2>3. /\ req' \in [Requests -> [pc : Waits, connector : Connectors \cup {None}]]
        /\ known' \in [Connectors -> SUBSET Tokens] /\ open' \subseteq Connectors
        /\ req'[r].pc \notin {"nonces", "tokens"}
        /\ \A q \in Requests : q # r => req'[q] = req[q]
        /\ \A g \in open' \cap Guarded : known'[g] = Tokens
        /\ \A q \in Requests : req'[q].pc = "library" =>
             req'[q].connector \in Guarded /\ known'[req'[q].connector] = Tokens
    BY <2>1, <2>2, GetConnectorInv
  <2>4. TypeOK'
    BY <2>1, <2>3 DEF Inv, TypeOK, chain
  <2> QED BY <2>1, <2>3, <2>4 DEF Inv, LoadingInv, Loading, chain
<1>3. CASE ~ready /\ ~initializing
  <2>1. /\ initializing' = TRUE /\ WaitFor(r, "nonces", c)
        /\ UNCHANGED <<ready, nonceReady, tokens, known, open>>
    BY <1>1, <1>3 DEF BeginInit
  <2>2. "nonces" \in Waits
    BY DEF Waits
  <2>3. \A q \in Requests : ~Loading(q)
    BY <1>3 DEF Inv, LoadingInv
  <2> QED BY <1>3, <2>1, <2>2, <2>3, WaitForType DEF Inv, TypeOK, LoadingInv, Loading
<1> QED BY <1>2, <1>3

LEMMA SettlesInv ==
  ASSUME Inv, NEW r \in Requests, Settles(r)
  PROVE  Inv'
<1>0. Waits = {"idle", "nonces", "tokens", "library", "serve"}
      /\ req[r].connector \in Connectors \cup {None}
  BY DEF Waits, Inv, TypeOK
<1>1. CASE NoncesLoaded(r)
  <2>1. /\ WaitFor(r, "tokens", req[r].connector) /\ nonceReady' = TRUE /\ Loading(r)
        /\ UNCHANGED <<ready, initializing, tokens, known, open>>
    BY <1>1 DEF NoncesLoaded, Loading
  <2> QED BY <1>0, <2>1, WaitForType DEF Inv, TypeOK, LoadingInv, Loading
<1>2. CASE TokensLoaded(r)
  <2>1. /\ GetConnector(r, req[r].connector, TRUE, Tokens)
        /\ ready' = TRUE /\ initializing' = FALSE /\ tokens' = Tokens
        /\ UNCHANGED nonceReady /\ Loading(r) /\ req[r].pc = "tokens"
    BY <1>2 DEF TokensLoaded, Loading
  <2>2. \A q \in Requests : ~Loading(q)'
    BY <1>0, <2>1, GetConnectorInv DEF Inv, LoadingInv, Loading
  <2> QED BY <1>0, <2>1, <2>2, GetConnectorInv DEF Inv, TypeOK, LoadingInv
<1>3. CASE LibraryReady(r)
  <2>1. /\ WaitFor(r, "serve", req[r].connector) /\ open' = open \cup {req[r].connector}
        /\ UNCHANGED <<chain, known>> /\ req[r].pc = "library"
    BY <1>3 DEF LibraryReady
  <2>2. req[r].connector \in Guarded /\ known[req[r].connector] = Tokens
    BY <2>1 DEF Inv, LoadingInv
  <2> QED BY <1>0, <2>1, <2>2, WaitForType
          DEF Inv, TypeOK, LoadingInv, Loading, chain, Connectors
<1>4. CASE AwaitFails(r)
  <2>1. req' = [req EXCEPT ![r] = Idle] /\ UNCHANGED <<chain, known, open>>
    BY <1>4 DEF AwaitFails, Throw
  <2> QED BY <2>1, ThrowType DEF Inv, TypeOK, LoadingInv, Loading, chain
<1>5. CASE Answer(r)
  <2>1. req' = [req EXCEPT ![r] = Idle] /\ UNCHANGED <<chain, known, open>>
    BY <1>5 DEF Answer
  <2> QED BY <2>1, ThrowType DEF Inv, TypeOK, LoadingInv, Loading, chain
<1> QED BY <1>1, <1>2, <1>3, <1>4, <1>5 DEF Settles

LEMMA InitInv == Init => Inv
<1> SUFFICES ASSUME Init PROVE Inv
  OBVIOUS
<1>1. TypeOK
  BY IdleType DEF Init, TypeOK
<1>2. \A q \in Requests : req[q].pc = "idle"
  BY DEF Init, Idle
<1> QED BY <1>1, <1>2 DEF Init, Inv, LoadingInv, Loading

LEMMA NextInv == Inv /\ [Next]_vars => Inv'
<1>1. ASSUME Inv, UNCHANGED vars
      PROVE  Inv'
  BY <1>1 DEF vars, chain, Inv, TypeOK, LoadingInv, Loading
<1> QED BY <1>1, ArriveInv, SettlesInv DEF Next

LEMMA Invariance == Spec => []Inv
BY InitInv, NextInv, PTL DEF Spec

(* Whatever the number of requests that find the chain uninitialised, and  *)
(* whether loading fails or not, at most one of them ever loads it.        *)
THEOREM ChainLoadedOnce == Spec => []LoadedOnce
<1>1. Inv => LoadedOnce
  BY DEF Inv, LoadingInv, Loading, LoadedOnce
<1> QED BY <1>1, Invariance, PTL

(* ready() is true only when the nonce manager and the tokens are loaded.  *)
THEOREM ChainReady == Spec => []ReadyMeansLoaded
<1>1. Inv => ReadyMeansLoaded
  BY DEF Inv, LoadingInv, ReadyMeansLoaded
<1> QED BY <1>1, Invariance, PTL

(* The connectors that throw unless the chain is ready never keep a list   *)
(* that lacks a token of the chain.                                        *)
THEOREM GuardedComplete == Spec => []GuardedConnectorsComplete
<1>1. Inv => GuardedConnectorsComplete
  BY DEF Inv, LoadingInv, GuardedConnectorsComplete
<1> QED BY <1>1, Invariance, PTL
=============================================================================
