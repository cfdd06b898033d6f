--------------------------- MODULE EVMNonceManager ---------------------------
(***************************************************************************)
(* The EVM nonce manager of the Gateway (gateway/src/services/evm.nonce.ts)*)
(* for one address of one chain, together with the two things it depends   *)
(* on: the LevelDB store that survives a restart and the account at the    *)
(* EVM node.                                                               *)
(*                                                                         *)
(* Every HTTP request that needs a nonce runs one of the manager's async   *)
(* methods.  JavaScript runs a method without interruption until it awaits *)
(* I/O (a node RPC or a LevelDB write), so an action below is the code     *)
(* between two such awaits; an await that completes without I/O (a merge   *)
(* that finds a fresh leading nonce) does not let another request in.  The *)
(* state a request keeps across an await is its record in req.             *)
(*                                                                         *)
(* The array of pending nonces is a function from nonce to expiry: the     *)
(* code only filters the array, renews an expiry in place, pushes the last *)
(* nonce plus one, or replaces the array by one entry, so the array is     *)
(* always sorted by nonce and its last entry has the largest one (module   *)
(* PendingNonces checks this representation against the array).            *)
(***************************************************************************)
EXTENDS Integers, FiniteSets, FiniteSetsExt, Functions

CONSTANTS
  Requests,          \* HTTP requests that can be in flight at once
  Boot,              \* the slot that runs EVMNonceManager.init
  None,              \* an undefined entry: no leading nonce, no pending array
  LocalNonceTTL,     \* _localNonceTTL, in ticks of the clock
  PendingNonceTTL,   \* _pendingNonceTTL, in ticks of the clock
  GivenNonces,       \* nonces a client may ask for explicitly (cancel, resend)
  MaxTime,           \* bound: the clock stops here
  MaxCount,          \* bound: transactions the chain mines from the address
  MaxNonce           \* bound: no request starts once a nonce this large exists

\* a leading nonce of -1 is an account without transactions
NonceInfo == [nonce : Nat \cup {-1}, expiry : Nat]

ASSUME SlotsAssumption == Boot \notin Requests
ASSUME NoneAssumption == None \notin NonceInfo
ASSUME TTLAssumption == LocalNonceTTL \in Nat /\ PendingNonceTTL \in Nat
ASSUME GivenAssumption == GivenNonces \subseteq Nat
ASSUME BoundAssumption == MaxTime \in Nat /\ MaxCount \in Nat /\ MaxNonce \in Nat

VARIABLES
  now,        \* new Date().getTime()
  leading,    \* #addressToLeadingNonce[address]
  pending,    \* #addressToPendingNonces[address], as a function
  mode,       \* "down", "booting" or "ready" (#initialized)
  req,        \* what each request (and init) keeps across its awaits
  db,         \* LevelDB: the persisted leading and pending nonces
  mined,      \* getTransactionCount(address, 'latest') at the node
  pool,       \* nonces of the transactions in the node's mem-pool
  sent,       \* history: nonces of all transactions the node ever accepted
  issued      \* history: nonces ever put into the pending array

manager == <<leading, pending, mode>>
node == <<mined, pool, sent>>
vars == <<now, manager, req, db, node, issued>>

Slots == Requests \cup {Boot}

(***************************************************************************)
(* A request's method and the await it is suspended at.  "rpc" and "node"  *)
(* wait for getTransactionCount, "send" and "sent" for the transaction     *)
(* function f, the others for the LevelDB write of the entry in leadSave   *)
(* or pendSave.  getNextNonce merges twice: itself, and inside getNonce.   *)
(***************************************************************************)
Methods == {"none", "init", "getNonce", "getNextNonce", "provideNonce", "provideGiven"}
Awaits == {"idle", "rpc", "mergeSave", "mergeDrop", "drop", "reserve",
           "send", "sent", "commit", "abort", "node", "nodeSave"}

IsPending(p) ==
  /\ IsFiniteSet(DOMAIN p) /\ DOMAIN p \subseteq Nat
  /\ p = [n \in DOMAIN p |-> p[n]]
  /\ \A n \in DOMAIN p : p[n] \in Nat

Idle == [pc |-> "idle", method |-> "none", nonce |-> 0, merge |-> "outer",
         count |-> 0, asked |-> 0, base |-> 0, leadSave |-> None, pendSave |-> None]

IsRequest(r) ==
  /\ r = [pc |-> r.pc, method |-> r.method, nonce |-> r.nonce, merge |-> r.merge,
          count |-> r.count, asked |-> r.asked, base |-> r.base,
          leadSave |-> r.leadSave, pendSave |-> r.pendSave]
  /\ r.pc \in Awaits /\ r.method \in Methods /\ r.merge \in {"outer", "inner"}
  /\ r.nonce \in Nat /\ r.count \in Nat /\ r.asked \in Nat /\ r.base \in Nat
  /\ r.leadSave \in NonceInfo \cup {None}
  /\ r.pendSave = None \/ IsPending(r.pendSave)

TypeOK ==
  /\ now \in Nat
  /\ leading \in NonceInfo \cup {None}
  /\ pending = None \/ IsPending(pending)
  /\ mode \in {"down", "booting", "ready"}
  /\ req = [s \in Slots |-> req[s]]
  /\ \A s \in Slots : IsRequest(req[s])
  /\ db = [leading |-> db.leading, pending |-> db.pending]
  /\ db.leading \in NonceInfo \cup {None}
  /\ db.pending = None \/ IsPending(db.pending)
  /\ mined \in Nat /\ pool \subseteq Nat /\ sent \subseteq Nat /\ issued \subseteq Nat

Init ==
  /\ now = 0
  /\ leading = None /\ pending = None
  /\ mode = "down"
  /\ req = [s \in Slots |-> Idle]
  /\ db = [leading |-> None, pending |-> None]
  /\ mined = 0 /\ pool = {} /\ sent = {} /\ issued = {}

-----------------------------------------------------------------------------
(* The segments of the methods.  Each stands for the code from one point   *)
(* to the next await and says what becomes of the manager and of req.      *)

Suspend(s, r) == req' = [req EXCEPT ![s] = r]

Finish(s) ==
  /\ Suspend(s, Idle)
  /\ mode' = IF s = Boot THEN "ready" ELSE mode
  /\ UNCHANGED <<leading, pending, issued>>

FreshForever == leading # None                     \* mutant: never expires

Fresh == leading # None /\ leading.expiry > now

AskNode(s, r) ==
  /\ Suspend(s, [r EXCEPT !.pc = "rpc", !.count = mined, !.asked = now])
  /\ UNCHANGED <<manager, issued>>

\* mutant: the leading nonce is not looked at
UnexpiredOnly(p) == RestrictDomain(p, LAMBDA n : p[n] > now)

\* dropExpiredPendingNonces keeps these; an undefined leading nonce keeps all
Unexpired(p) ==
  RestrictDomain(p, LAMBDA n : p[n] > now /\ (leading # None => n > leading.nonce))

\* a nonce is given out: the array becomes p and is written, then returned
Reserve(s, r, n, p) ==
  /\ pending' = p
  /\ issued' = issued \cup {n}
  /\ Suspend(s, [Idle EXCEPT !.pc = "reserve", !.method = r.method, !.nonce = n,
                              !.pendSave = p])
  /\ UNCHANGED <<leading, mode>>

\* mutant: the leading nonce itself is given out again
TakeLeadingItself(s, r) ==
  Reserve(s, r, leading.nonce, [m \in {leading.nonce} |-> r.base + PendingNonceTTL])

\* getNextNonce with an empty array, after getNonce: it replaces the array
TakeLeading(s, r) ==
  LET n == leading.nonce + 1
  IN  Reserve(s, r, n, [m \in {n} |-> r.base + PendingNonceTTL])

\* mutant: the array is extended by the number after the next
ExtendedTooFar == Max(DOMAIN pending) + 2

\* a nonce beyond the last entry of the array
Extended == Max(DOMAIN pending) + 1

HasPending == pending # None /\ DOMAIN pending # {}

Overdue == {n \in DOMAIN pending : now > pending[n]}

\* getNextNonce once its own dropExpiredPendingNonces is written
Select(s, r) ==
  LET expiry == now + PendingNonceTTL
  IN  IF HasPending
      THEN LET n == IF Overdue # {} THEN Min(Overdue) ELSE Extended
           IN  Reserve(s, r, n, [m \in DOMAIN pending \cup {n} |->
                                   IF m = n THEN expiry ELSE pending[m]])
      ELSE IF Fresh
           THEN TakeLeading(s, [r EXCEPT !.base = now])
           ELSE AskNode(s, [r EXCEPT !.base = now, !.merge = "inner"])

\* what the caller of mergeNonceFromEVMNode does when the merge returns
MergeReturns(s, r) ==
  IF r.merge = "inner" THEN TakeLeading(s, r)
  ELSE IF r.method \in {"init", "getNonce"} THEN Finish(s)
  ELSE IF pending = None THEN Select(s, r)
  ELSE /\ pending' = Unexpired(pending)
       /\ Suspend(s, [r EXCEPT !.pc = "drop", !.pendSave = Unexpired(pending)])
       /\ UNCHANGED <<leading, mode, issued>>

\* mergeNonceFromEVMNode up to its first await
EnterMerge(s, r) == IF Fresh THEN MergeReturns(s, r) ELSE AskNode(s, r)

-----------------------------------------------------------------------------
(* A request arrives.                                                      *)

Arrives(r) ==
  /\ mode = "ready" /\ req[r].pc = "idle"
  /\ \A n \in issued \cup sent : n < MaxNonce
  /\ UNCHANGED <<now, db, node>>

\* provideNonce(undefined, address, f), and getNextNonce called on its own
GetNextNonce(r) ==
  /\ Arrives(r)
  /\ \E m \in {"provideNonce", "getNextNonce"} : EnterMerge(r, [Idle EXCEPT !.method = m])

\* provideNonce(n, address, f): f is called at once
ProvideGivenNonce(r) ==
  /\ Arrives(r)
  /\ \E n \in GivenNonces :
       Suspend(r, [Idle EXCEPT !.pc = "send", !.method = "provideGiven", !.nonce = n])
  /\ UNCHANGED <<manager, issued>>

\* getNonce: from memory through a merge, or from the node
GetNonce(r) ==
  /\ Arrives(r)
  /\ LET m == [Idle EXCEPT !.method = "getNonce"]
     IN  IF leading # None THEN EnterMerge(r, m)
         ELSE /\ Suspend(r, [m EXCEPT !.pc = "node", !.count = mined])
              /\ UNCHANGED <<manager, issued>>

(* The node answers with the count it had at some moment of the call.      *)

SetLeading(s, r, n, expiry) ==
  LET info == [nonce |-> n, expiry |-> expiry]
  IN  /\ leading' = info
      /\ Suspend(s, [r EXCEPT !.leadSave = info])
      /\ UNCHANGED <<now, pending, mode, db, node, issued>>

\* mutant: the count is taken for the nonce of the last transaction
MergeCountFromEVMNode(s) ==
  /\ req[s].pc = "rpc"
  /\ \E c \in req[s].count .. mined :
       SetLeading(s, [req[s] EXCEPT !.pc = "mergeSave", !.count = 0, !.asked = 0],
                  c, req[s].asked + LocalNonceTTL)

MergeNonceFromEVMNode(s) ==
  /\ req[s].pc = "rpc"
  /\ \E c \in req[s].count .. mined :
       SetLeading(s, [req[s] EXCEPT !.pc = "mergeSave", !.count = 0, !.asked = 0],
                  c - 1, req[s].asked + LocalNonceTTL)

GetNonceFromNode(s) ==
  /\ req[s].pc = "node"
  /\ \E c \in req[s].count .. mined :
       SetLeading(s, [Idle EXCEPT !.pc = "nodeSave"], c - 1, now + PendingNonceTTL)

\* getTransactionCount rejects: so does the method, before any try block
RpcFails(s) ==
  /\ req[s].pc \in {"rpc", "node"}
  /\ Suspend(s, Idle)
  /\ UNCHANGED <<now, manager, db, node, issued>>

(* A LevelDB write is done.                                                *)

LeadingSaved(s) ==
  /\ db' = [db EXCEPT !.leading = req[s].leadSave]
  /\ UNCHANGED <<now, node>>

PendingSaved(s) ==
  /\ db' = [db EXCEPT !.pending = req[s].pendSave]
  /\ UNCHANGED <<now, node>>

\* the last step of mergeNonceFromEVMNode is dropExpiredPendingNonces
MergeSaved(s) ==
  /\ req[s].pc = "mergeSave"
  /\ LeadingSaved(s)
  /\ LET r == [req[s] EXCEPT !.leadSave = None]
     IN  IF pending = None THEN MergeReturns(s, r)
         ELSE /\ pending' = Unexpired(pending)
              /\ Suspend(s, [r EXCEPT !.pc = "mergeDrop", !.pendSave = Unexpired(pending)])
              /\ UNCHANGED <<leading, mode, issued>>

MergeDropped(s) ==
  /\ req[s].pc = "mergeDrop"
  /\ PendingSaved(s)
  /\ MergeReturns(s, [req[s] EXCEPT !.pendSave = None])

DropSaved(s) ==
  /\ req[s].pc = "drop"
  /\ PendingSaved(s)
  /\ Select(s, [req[s] EXCEPT !.pendSave = None])

\* getNextNonce returns the nonce; provideNonce goes on to call f with it
Reserved(s) ==
  /\ req[s].pc = "reserve"
  /\ PendingSaved(s)
  /\ IF req[s].method = "provideNonce"
     THEN Suspend(s, [Idle EXCEPT !.pc = "send", !.method = "provideNonce",
                                  !.nonce = req[s].nonce])
     ELSE Suspend(s, Idle)
  /\ UNCHANGED <<manager, issued>>

\* provideNonce, getNonceFromNode or commitNonce returns after its last write
Returns(s) ==
  /\ \/ req[s].pc \in {"commit", "nodeSave"} /\ LeadingSaved(s)
     \/ req[s].pc = "abort" /\ PendingSaved(s)
  /\ Suspend(s, Idle)
  /\ UNCHANGED <<manager, issued>>

-----------------------------------------------------------------------------
(* The transaction function f and what provideNonce does with its outcome. *)

\* the node takes the transaction; only a client's own nonce replaces one
NodeAccepts(r) ==
  LET n == req[r].nonce
  IN  /\ req[r].pc = "send"
      /\ n >= mined
      /\ n \in pool => req[r].method = "provideGiven"
      /\ pool' = pool \cup {n} /\ sent' = sent \cup {n}
      /\ Suspend(r, [req[r] EXCEPT !.pc = "sent"])
      /\ UNCHANGED <<now, manager, db, mined, issued>>

\* mutant: the shortened array is not written
AbortUnsaved(r) ==
  /\ pending' = IF pending = None THEN None
                ELSE RestrictDomain(pending, LAMBDA n : n < req[r].nonce)
  /\ Suspend(r, Idle)
  /\ UNCHANGED <<now, leading, mode, db, node, issued>>

\* the catch block: forget the nonces from this one on.  Without an array the
\* filter itself throws.
Abort(r) ==
  /\ IF pending = None
     THEN Suspend(r, Idle) /\ UNCHANGED pending
     ELSE LET kept == RestrictDomain(pending, LAMBDA n : n < req[r].nonce)
          IN  /\ pending' = kept
              /\ Suspend(r, [Idle EXCEPT !.pc = "abort", !.pendSave = kept])
  /\ UNCHANGED <<now, leading, mode, db, node, issued>>

\* f rejects: the node refused the transaction, or its answer was lost
SendFails(r) == req[r].pc \in {"send", "sent"} /\ Abort(r)

\* f resolves; commitNonce throws InvalidNonceError for a nonce that is not new
CommitNonce(r) ==
  /\ req[r].pc = "sent"
  /\ IF leading = None \/ req[r].nonce > leading.nonce
     THEN SetLeading(r, [Idle EXCEPT !.pc = "commit", !.nonce = req[r].nonce],
                     req[r].nonce, now + LocalNonceTTL)
     ELSE Abort(r)

\* the awaits of a LevelDB write
Writes == {"mergeSave", "mergeDrop", "drop", "reserve", "commit", "abort", "nodeSave"}

\* LevelDB rejects a write: the manager keeps the value it did not store, and
\* the method rejects.  The write of commitNonce is inside the try block.
SaveFails(s) ==
  /\ req[s].pc \in Writes
  /\ IF req[s].pc = "commit" THEN Abort(s)
     ELSE Suspend(s, Idle) /\ UNCHANGED <<now, manager, db, node, issued>>

-----------------------------------------------------------------------------
(* The process restarts; the clock and the chain move on.                  *)

\* The process ends: each write under way has or has not reached LevelDB.
Crash ==
  LET written(field, saves) == {db[field]} \cup (saves \ {None})
  IN  /\ mode # "down"
      /\ db' \in [leading : written("leading", {req[s].leadSave : s \in Slots}),
                  pending : written("pending", {req[s].pendSave : s \in Slots})]
      /\ leading' = None /\ pending' = None /\ mode' = "down"
      /\ req' = [s \in Slots |-> Idle]
      /\ UNCHANGED <<now, node, issued>>

\* A new process: init loads both entries and merges a leading nonce
Start ==
  /\ mode = "down"
  /\ leading' = db.leading /\ pending' = db.pending
  /\ IF db.leading # None /\ db.leading.expiry <= now
     THEN /\ mode' = "booting"
          /\ Suspend(Boot, [Idle EXCEPT !.pc = "rpc", !.method = "init",
                                        !.count = mined, !.asked = now])
     ELSE mode' = "ready" /\ UNCHANGED req
  /\ UNCHANGED <<now, db, node, issued>>

Tick ==
  /\ now < MaxTime /\ now' = now + 1
  /\ UNCHANGED <<manager, req, db, node, issued>>

\* the next transaction of the address is mined: ours or another wallet's
Mine ==
  /\ mined < MaxCount /\ mined' = mined + 1
  /\ pool' = pool \ {mined}
  /\ UNCHANGED <<now, manager, req, db, sent, issued>>

DropTx ==
  /\ \E n \in pool : pool' = pool \ {n}
  /\ UNCHANGED <<now, manager, req, db, mined, sent, issued>>

Answers(s) ==
  \/ MergeNonceFromEVMNode(s) \/ GetNonceFromNode(s) \/ RpcFails(s)
  \/ MergeSaved(s) \/ MergeDropped(s) \/ DropSaved(s) \/ Reserved(s) \/ Returns(s)
  \/ CommitNonce(s) \/ SendFails(s) \/ SaveFails(s)

Next ==
  \/ \E r \in Requests : GetNextNonce(r) \/ ProvideGivenNonce(r) \/ GetNonce(r) \/ NodeAccepts(r)
  \/ \E s \in Slots : Answers(s)
  \/ Crash \/ Start \/ Tick \/ Mine \/ DropTx

\* Every RPC, transaction call and LevelDB write eventually settles.
Fairness == \A s \in Slots : WF_vars(Answers(s))

Spec == Init /\ [][Next]_vars
FairSpec == Spec /\ Fairness

-----------------------------------------------------------------------------
(* "leading nonce means the latest nonce we have passed to the blockchain":*)
(* whatever concurrent merges, failures and restarts do, the cached nonce  *)
(* is one the account has used or one whose transaction the node accepted. *)
LeadingWasSent ==
  leading # None => leading.nonce < mined \/ leading.nonce \in sent

(* No nonce is given out beyond a hole: the one before it was used on the  *)
(* chain, accepted by the node, or given out too.                          *)
NoSkippedNonce ==
  \A n \in issued : n = 0 \/ n - 1 < mined \/ n - 1 \in sent \cup issued

(* "the nonces for new concurrent transactions will go out as [n, n+1,     *)
(* n+2, ...] rathan than [n, n, n, ...]": no two transactions on their way *)
(* to the node carry the same nonce.  The code does not ensure this.       *)
ConcurrentNoncesDiffer ==
  \A p, q \in Requests :
    /\ p # q
    /\ {req[p].pc, req[q].pc} \subseteq {"send", "sent"}
    /\ req[p].method = "provideNonce" /\ req[q].method = "provideNonce"
    => req[p].nonce # req[q].nonce

(* "The manager should allow the cached nonce to go back to the specified  *)
(* past nonce": a transaction sent with a client's own nonce leaves that   *)
(* nonce as the leading one.  commitNonce refuses to go back instead.      *)
PastNonceResets ==
  [][\A r \in Requests :
       CommitNonce(r) /\ req[r].method = "provideGiven"
         => leading' # None /\ leading'.nonce = req[r].nonce]_vars
=============================================================================
