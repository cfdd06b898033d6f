-------------------------------- MODULE Serum --------------------------------
(***************************************************************************)
(* The CLOB requests of the Gateway on one Serum market                    *)
(* (connectors/serum/serum.ts): create, cancel, settle and look up orders. *)
(* Every call to the cluster goes through runWithRetryAndTimeout, which    *)
(* repeats it whatever it was.                                             *)
(*                                                                         *)
(* A request of several orders works through them one by one: createOrders *)
(* and cancelOrders group by Account object, and getSolanaAccount makes a  *)
(* new object for every order or target, so each is a group of its own.    *)
(* An exception is "unknown" (the confirmation did not come in time) or    *)
(* "error" (anything else).                                                *)
(***************************************************************************)
EXTENDS SerumMarket, SerumReads

CONSTANTS
  Creates, Cancels, Settles, Lookups,   \* HTTP requests of each kind
  Sizes,                                \* amounts of candidates
  MaxCandidates, MaxTargets,            \* bounds: orders a request creates, targets one cancels
  MaxRequests,                          \* bound: requests of a behaviour
  MaxNumberOfRetries                    \* solana.retry.all.maxNumberOfRetries

ASSUME SerumAssumption ==
  /\ None \notin Signatures /\ None \notin Orders /\ None \notin Accounts
  /\ MaxCandidates \in Nat \ {0} /\ MaxTargets \in Nat \ {0} /\ MaxRequests \in Nat /\ MaxNumberOfRetries \in Nat

VARIABLES create, cancel, settle, lookup

requestVars == <<create, cancel, settle, lookup, read>>
vars == <<marketVars, requestVars>>

Candidates == [clientId : ClientIds, size : Sizes]
Batches(S, max) == UNION {[1 .. n -> S] : n \in 1 .. max}

NoAnswer == [status |-> "none", signature |-> None]

\* an order as the answers give it, or a target: client id and exchange id, None if undefined
Nothing == [id |-> None, exchangeId |-> None]

Init ==
  /\ MarketInit /\ ReadInit
  /\ create = [r \in Creates |->
       [pc |-> "idle", owner |-> None, batch |-> <<>>, i |-> 1, tries |-> 0, found |-> {},
        signature |-> None, created |-> [k \in ClientIds |-> NoAnswer]]]
  /\ cancel = [r \in Cancels |->
       [pc |-> "idle", method |-> "cancelOrder", owner |-> None, targets |-> <<>>, groups |-> <<>>,
        i |-> 1, tries |-> 0, signature |-> None, canceled |-> {}, pending |-> {}]]
  /\ settle = [r \in Settles |->
       [pc |-> "idle", owner |-> None, left |-> {}, tries |-> 0, signature |-> None,
        found |-> {}, used |-> {}]]
  /\ lookup = [r \in Lookups |->
       [pc |-> "idle", owner |-> None, target |-> Nothing, order |-> Nothing, seen |-> {}]]

-----------------------------------------------------------------------------
(* runWithRetryAndTimeout.  The timer never fires.                         *)

\* mutant: one try more
RetriesOneMore(tries) == tries < MaxNumberOfRetries

Retries(tries) == tries + 1 < MaxNumberOfRetries

\* what a call may throw; the confirmation of a transaction may also stay away
Exceptions(pc) == IF pc \in {"confirm", "settling"} THEN {"unknown", "error"} ELSE {"error"}

\* the request ends with that exception
Failed(c) == [c EXCEPT !.pc = "failed", !.i = 1, !.tries = 0, !.signature = None]

-----------------------------------------------------------------------------
(* createOrder and createOrders                                            *)

UpdateCreate(r, c) ==
  /\ create' = [create EXCEPT ![r] = c]
  /\ UNCHANGED <<cancel, settle, lookup, read>>

\* markets, keys and payers of all the candidates come first, and may fail
CreateArrives(r) ==
  /\ create[r].pc = "idle"
  /\ \E o \in Owners, batch \in Batches(Candidates, MaxCandidates), pc \in {"find", "failed"} :
       UpdateCreate(r, [create[r] EXCEPT !.pc = pc, !.owner = o, !.batch = batch])
  /\ UNCHANGED marketVars

FindAccounts(r) ==
  /\ create[r].pc = "find"
  /\ UpdateCreate(r, [create[r] EXCEPT !.pc = "send", !.found = AccountsOf(create[r].owner)])
  /\ UNCHANGED marketVars

\* placeOrders.  "size too small" is thrown before anything is sent.
SendOrder(r) ==
  LET c == create[r]  candidate == c.batch[c.i] IN
  /\ c.pc = "send" /\ SizeAccepted(candidate.size)
  /\ \E s \in Signatures :
       /\ Send(s, PlaceTransaction(c.owner, candidate.clientId, c.found, s))
       /\ UpdateCreate(r, [c EXCEPT !.pc = "confirm", !.signature = s, !.found = {}])

\* the next candidate, after the answer for this one is noted by its client id
Created(c, status, s) ==
  LET answer == [status |-> status, signature |-> s]
      noted == [c EXCEPT !.created = [c.created EXCEPT ![c.batch[c.i].clientId] = answer],
                         !.tries = 0, !.signature = None]
  IN  IF c.i < Len(c.batch) THEN [noted EXCEPT !.pc = "find", !.i = c.i + 1]
                            ELSE [noted EXCEPT !.pc = "answered"]

OrderConfirmed(r) ==
  LET c == create[r] IN
  /\ c.pc = "confirm" /\ tx[c.signature].fate = "ok"
  /\ UpdateCreate(r, Created(c, "OPEN", c.signature))
  /\ UNCHANGED marketVars

\* mutant: an order that may not be there is reported as open
CreateThrowsOpen(r, e) ==
  LET c == create[r] IN
  /\ c.pc \in {"find", "send", "confirm"} /\ e \in Exceptions(c.pc)
  /\ UpdateCreate(r, IF Retries(c.tries) THEN [c EXCEPT !.pc = "find", !.tries = @ + 1, !.found = {}, !.signature = None]
                     ELSE IF e = "unknown" THEN Created(c, "OPEN", c.signature)
                     ELSE Failed(c))
  /\ UNCHANGED marketVars

\* the call is made again, from the search for accounts on; the last
\* exception decides about the order, and an error about the whole request
CreateThrows(r, e) ==
  LET c == create[r] IN
  /\ c.pc \in {"find", "send", "confirm"} /\ e \in Exceptions(c.pc)
  /\ UpdateCreate(r, IF Retries(c.tries) THEN [c EXCEPT !.pc = "find", !.tries = @ + 1, !.found = {}, !.signature = None]
                     ELSE IF e = "unknown" THEN Created(c, "CREATION_PENDING", None)
                     ELSE Failed(c))
  /\ UNCHANGED marketVars

-----------------------------------------------------------------------------
(* cancelOrder, cancelOrders and cancelAllOrders                           *)

UpdateCancel(r, c) ==
  /\ cancel' = [cancel EXCEPT ![r] = c]
  /\ UNCHANGED <<create, settle, lookup, read>>

\* cancelAllOrders is cancelOrders with a target per market that names no order
CancelArrives(r) ==
  /\ cancel[r].pc = "idle"
  /\ \E o \in Owners :
       \/ \E targets \in Batches((SUBSET ClientIds) \ {{}}, MaxTargets) :
            UpdateCancel(r, [cancel[r] EXCEPT !.pc = "read", !.method = "cancelOrders",
                                              !.owner = o, !.targets = targets])
       \/ \E k \in ClientIds :
            UpdateCancel(r, [cancel[r] EXCEPT !.pc = "read", !.owner = o, !.targets = <<{k}>>])
  /\ UNCHANGED marketVars

\* getOpenOrders by client id
Matching(c) == {b \in OrdersOf(c.owner) : b.clientId \in c.targets[c.i]}

\* one target after another is looked up, then the first group is cancelled
ReadOpenOrders(r) ==
  LET c == cancel[r]  looked == [c EXCEPT !.groups = Append(@, Matching(c))] IN
  /\ c.pc = "read" /\ c.method = "cancelOrders"
  /\ UpdateCancel(r, IF c.i < Len(c.targets) THEN [looked EXCEPT !.i = @ + 1]
                                             ELSE [looked EXCEPT !.pc = "cancel", !.i = 1])
  /\ UNCHANGED marketVars

\* getOpenOrder finds one order of that client id, or none
ReadOpenOrder(r) ==
  LET c == cancel[r] IN
  /\ c.pc = "read" /\ c.method = "cancelOrder"
  /\ \/ \E b \in Matching(c) : UpdateCancel(r, [c EXCEPT !.groups = <<{b}>>, !.pc = "cancel"])
     \/ Matching(c) = {} /\ UpdateCancel(r, Failed(c))
  /\ UNCHANGED marketVars

Group(c) == c.groups[c.i]

Proceed(c) ==
  IF c.i < Len(c.groups) THEN [c EXCEPT !.pc = "cancel", !.i = @ + 1, !.tries = 0, !.signature = None]
                         ELSE [c EXCEPT !.pc = "answered", !.groups = <<>>, !.i = 1, !.tries = 0, !.signature = None]

Canceled(c) == Proceed([c EXCEPT !.canceled = @ \cup Group(c)])
Pending(c) == Proceed([c EXCEPT !.pending = @ \cup Group(c)])

SkipGroup(r) ==
  /\ cancel[r].pc = "cancel" /\ Group(cancel[r]) = {}
  /\ UpdateCancel(r, Proceed(cancel[r]))
  /\ UNCHANGED marketVars

SendCancel(r) ==
  LET c == cancel[r] IN
  /\ c.pc = "cancel" /\ Group(c) # {}
  /\ \E s \in Signatures :
       /\ Send(s, CancelTransaction(Group(c)))
       /\ UpdateCancel(r, [c EXCEPT !.pc = "confirm", !.signature = s])

CancelConfirmed(r) ==
  LET c == cancel[r] IN
  /\ c.pc = "confirm" /\ tx[c.signature].fate = "ok"
  /\ UpdateCancel(r, [c EXCEPT !.pc = "funds", !.tries = 0, !.signature = None])
  /\ UNCHANGED marketVars

\* without free funds there is nothing to settle, and no transaction
ReadFreeFunds(r) ==
  LET c == cancel[r] IN
  /\ c.pc = "funds"
  /\ UpdateCancel(r, IF free \cap AccountsOf(c.owner) = {} THEN Canceled(c)
                                                           ELSE [c EXCEPT !.pc = "settle"])
  /\ UNCHANGED marketVars

SendSettlements(r) ==
  LET c == cancel[r] IN
  /\ c.pc = "settle"
  /\ \E s \in Signatures :
       /\ Send(s, SettleSeveralTransaction)
       /\ UpdateCancel(r, [c EXCEPT !.pc = "settling", !.signature = s])

SettlementsConfirmed(r) ==
  LET c == cancel[r] IN
  /\ c.pc = "settling" /\ tx[c.signature].fate = "ok"
  /\ UpdateCancel(r, Canceled(c))
  /\ UNCHANGED marketVars

\* mutant: an unknown outcome counts as cancelled
CancelThrowsCanceled(r, e) ==
  LET c == cancel[r] IN
  /\ c.pc \in {"read", "cancel", "confirm", "funds", "settle", "settling"} /\ e \in Exceptions(c.pc)
  /\ c.pc = "cancel" => Group(c) # {}
  /\ UpdateCancel(r,
       IF c.pc \in {"cancel", "confirm"} /\ Retries(c.tries)
         THEN [c EXCEPT !.pc = "cancel", !.tries = @ + 1]
       ELSE IF c.pc \in {"settle", "settling"} /\ Retries(c.tries)
         THEN [c EXCEPT !.pc = "settle", !.tries = @ + 1]
       ELSE IF e = "unknown" THEN Canceled(c) ELSE Failed(c))
  /\ UNCHANGED marketVars

\* Either call is repeated on its own.  FundsSettlementError carries the text
\* of the exception it replaces, so an unknown settlement too makes the
\* confirmed cancellation pending.
CancelThrows(r, e) ==
  LET c == cancel[r] IN
  /\ c.pc \in {"read", "cancel", "confirm", "funds", "settle", "settling"} /\ e \in Exceptions(c.pc)
  /\ c.pc = "cancel" => Group(c) # {}
  /\ UpdateCancel(r,
       IF c.pc \in {"cancel", "confirm"} /\ Retries(c.tries)
         THEN [c EXCEPT !.pc = "cancel", !.tries = @ + 1]
       ELSE IF c.pc \in {"settle", "settling"} /\ Retries(c.tries)
         THEN [c EXCEPT !.pc = "settle", !.tries = @ + 1]
       ELSE IF e = "unknown" THEN Pending(c) ELSE Failed([c EXCEPT !.groups = <<>>]))
  /\ UNCHANGED marketVars

-----------------------------------------------------------------------------
(* settleFundsForMarket.  found and used are history: the accounts the     *)
(* request read, and the signatures of the settlements it sent.            *)

UpdateSettle(r, c) ==
  /\ settle' = [settle EXCEPT ![r] = c]
  /\ UNCHANGED <<create, cancel, lookup, read>>

SettleArrives(r) ==
  /\ settle[r].pc = "idle"
  /\ \E o \in Owners : UpdateSettle(r, [settle[r] EXCEPT !.pc = "funds", !.owner = o])
  /\ UNCHANGED marketVars

SettleNext(c) == [c EXCEPT !.pc = IF c.left = {} THEN "answered" ELSE "settle",
                           !.tries = 0, !.signature = None]

ReadFundsToSettle(r) ==
  LET c == settle[r] IN
  /\ c.pc = "funds"
  /\ UpdateSettle(r, SettleNext([c EXCEPT !.left = free \cap AccountsOf(c.owner),
                                         !.found = free \cap AccountsOf(c.owner)]))
  /\ UNCHANGED marketVars

\* the accounts are settled one after another, each in a transaction of its own
SettlingAccount(c) == CHOOSE a \in c.left : TRUE

SendSettle(r) ==
  LET c == settle[r] IN
  /\ c.pc = "settle"
  /\ \E s \in Signatures :
       /\ Send(s, SettleTransaction(SettlingAccount(c)))
       /\ UpdateSettle(r, [c EXCEPT !.pc = "settling", !.signature = s, !.used = @ \cup {s}])

\* mutant: the confirmation is not looked at
SettleUnconfirmed(r) ==
  LET c == settle[r] IN
  /\ c.pc = "settling"
  /\ UpdateSettle(r, SettleNext([c EXCEPT !.left = @ \ {SettlingAccount(c)}]))
  /\ UNCHANGED marketVars

SettleConfirmed(r) ==
  LET c == settle[r] IN
  /\ c.pc = "settling" /\ tx[c.signature].fate = "ok"
  /\ UpdateSettle(r, SettleNext([c EXCEPT !.left = @ \ {SettlingAccount(c)}]))
  /\ UNCHANGED marketVars

SettleThrows(r) ==
  LET c == settle[r] IN
  /\ c.pc \in {"funds", "settle", "settling"}
  /\ UpdateSettle(r, IF c.pc # "funds" /\ Retries(c.tries)
                       THEN [c EXCEPT !.pc = "settle", !.tries = @ + 1]
                       ELSE Failed(c))
  /\ UNCHANGED marketVars

-----------------------------------------------------------------------------
(* getOrder: an open order, or else a filled one                           *)

UpdateLookup(r, c) ==
  /\ lookup' = [lookup EXCEPT ![r] = c]
  /\ UNCHANGED <<create, cancel, settle, read>>
  /\ UNCHANGED marketVars

Placed == {s \in Signatures : tx[s].kind = "place" /\ tx[s].fate = "ok"}

Matches(order, target) == order.id = target.id \/ order.exchangeId = target.exchangeId

\* an order has an exchange id once it is executed; one of the two ids is
\* enough.  seen (history): the open orders it could mean when the request came
LookupArrives(r) ==
  /\ lookup[r].pc = "idle"
  /\ \E o \in Owners, k \in ClientIds \cup {None}, e \in Placed \cup {None} :
       LET target == [id |-> k, exchangeId |-> e] IN
       /\ target # Nothing
       /\ UpdateLookup(r, [lookup[r] EXCEPT !.pc = "open", !.owner = o, !.target = target,
                             !.seen = {b \in OrdersOf(o) : Matches(OpenOrder(b), target)}])

\* the first order that matches, or the next read
Find(r, c, orders, otherwise) ==
  \/ \E order \in orders :
       /\ Matches(order, c.target)
       /\ UpdateLookup(r, [c EXCEPT !.pc = "found", !.order = order])
  \/ /\ ~ \E order \in orders : Matches(order, c.target)
     /\ UpdateLookup(r, [c EXCEPT !.pc = otherwise])

GetOpenOrder(r) ==
  /\ lookup[r].pc = "open"
  /\ Find(r, lookup[r], {OpenOrder(b) : b \in OrdersOf(lookup[r].owner)}, "filled")

\* an undefined id of the target equals the undefined id of every fill
GetFilledOrder(r) ==
  /\ lookup[r].pc = "filled"
  /\ Find(r, lookup[r], LoadFills, "missing")

\* mutant: an exception of getFilledOrder passes for OrderNotFoundError
LookupThrowsMissing(r) ==
  LET c == lookup[r] IN
  /\ c.pc \in {"open", "filled"}
  /\ UpdateLookup(r, [c EXCEPT !.pc = IF c.pc = "open" THEN "failed" ELSE "missing"])

\* any other exception of getFilledOrder gives way to that of getOpenOrder
LookupThrows(r) ==
  LET c == lookup[r] IN
  /\ c.pc \in {"open", "filled"}
  /\ UpdateLookup(r, [c EXCEPT !.pc = IF c.pc = "open" THEN "failed" ELSE "notOpen"])

-----------------------------------------------------------------------------
CreateSteps(r) ==
  \/ FindAccounts(r) \/ SendOrder(r) \/ OrderConfirmed(r)
  \/ \E e \in {"unknown", "error"} : CreateThrows(r, e)

CancelSteps(r) ==
  \/ ReadOpenOrders(r) \/ ReadOpenOrder(r) \/ SkipGroup(r)
  \/ SendCancel(r) \/ CancelConfirmed(r)
  \/ ReadFreeFunds(r) \/ SendSettlements(r) \/ SettlementsConfirmed(r)
  \/ \E e \in {"unknown", "error"} : CancelThrows(r, e)

SettleSteps(r) ==
  ReadFundsToSettle(r) \/ SendSettle(r) \/ SettleConfirmed(r) \/ SettleThrows(r)

LookupSteps(r) == GetOpenOrder(r) \/ GetFilledOrder(r) \/ LookupThrows(r)

Arrived ==
  Cardinality({r \in Creates : create[r].pc # "idle"}) + Cardinality({r \in Cancels : cancel[r].pc # "idle"})
  + Cardinality({r \in Settles : settle[r].pc # "idle"}) + Cardinality({r \in Lookups : lookup[r].pc # "idle"})
  + Cardinality({r \in Reads : read[r].pc # "idle"})

Arrive ==
  /\ Arrived < MaxRequests
  /\ \/ \E r \in Creates : CreateArrives(r)
     \/ \E r \in Cancels : CancelArrives(r)
     \/ \E r \in Settles : SettleArrives(r)
     \/ \E r \in Lookups : LookupArrives(r)
     \/ \E r \in Reads : ReadArrives(r) /\ UNCHANGED <<marketVars, create, cancel, settle, lookup>>

Next ==
  \/ Arrive
  \/ \E r \in Creates : CreateSteps(r)
  \/ \E r \in Cancels : CancelSteps(r)
  \/ \E r \in Settles : SettleSteps(r)
  \/ \E r \in Lookups : LookupSteps(r)
  \/ \E r \in Reads : ReadSteps(r) /\ UNCHANGED <<marketVars, create, cancel, settle, lookup>>
  \/ Cluster /\ UNCHANGED requestVars

Spec == Init /\ [][Next]_vars

-----------------------------------------------------------------------------
(* An order that createOrders answers OPEN was executed by the cluster,    *)
(* under the signature of the answer and with the client id it is listed   *)
(* under, whatever tries came before.                                      *)
OpenWasPlaced ==
  \A r \in Creates, k \in ClientIds :
    LET answer == create[r].created[k] IN
    answer.status = "OPEN" =>
      /\ tx[answer.signature].fate = "ok"
      /\ tx[answer.signature].order # None /\ tx[answer.signature].order.clientId = k

(* An order that cancelOrder or cancelOrders answers CANCELED is off the   *)
(* book for good: no transaction still under way brings it back.           *)
CanceledIsGone == \A r \in Cancels : cancel[r].canceled \cap book = {}

(* One candidate becomes at most as many orders as its call had tries.     *)
CopiesBounded ==
  \A o \in Owners, k \in ClientIds :
    Cardinality({s \in Signatures : tx[s].order # None /\ tx[s].order.clientId = k
                                    /\ tx[s].order.account.owner = o})
      <= Cardinality({p \in Creates \X (1 .. MaxCandidates) :
                        LET batch == create[p[1]].batch IN
                        /\ create[p[1]].owner = o /\ p[2] \in DOMAIN batch
                        /\ batch[p[2]].clientId = k})
         * (IF MaxNumberOfRetries = 0 THEN 1 ELSE MaxNumberOfRetries)

(* getOrder: if it says "No order found", every order it could mean that   *)
(* was open when the request came is off the book, and one it names by its *)
(* exchange id is not among the fills either: it does not slip through     *)
(* when it trades between the two reads.                                   *)
MissingIsGone ==
  \A r \in Lookups : lookup[r].pc = "missing" =>
    \A b \in lookup[r].seen :
      b \notin book /\ (b.id = lookup[r].target.exchangeId => b \notin fills)

(* A settle request that is answered has settled every account it found:   *)
(* the cluster executed a settlement of each that this request sent,       *)
(* whatever exceptions and retries came between.                           *)
SettlesComplete ==
  \A r \in Settles : settle[r].pc = "answered" =>
    \A a \in settle[r].found : \E s \in settle[r].used :
      tx[s].kind = "settle" /\ tx[s].account = a /\ tx[s].fate = "ok"

-----------------------------------------------------------------------------
(* What the tests and the API's description say of lookups.  It is not so: *)
(* the fills have no client id.                                            *)

(* "No order found" is not answered for an order whose fill is in the      *)
(* event queue (serum.routes.test.ts, clob-routes.yml).                    *)
FilledIsFound ==
  \A r \in Lookups : lookup[r].pc = "missing" => lookup[r].seen \cap fills = {}
=============================================================================
