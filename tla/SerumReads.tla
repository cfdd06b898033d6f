----------------------------- MODULE SerumReads -----------------------------
(***************************************************************************)
(* The CLOB requests of the Gateway that only read, for one market, for    *)
(* several or for all of them (clob.controllers.ts, serum.controllers.ts,  *)
(* connectors/serum/serum.ts), with the batches of promiseAllInBatches.    *)
(* A task is the work for one name: it looks the market up and then makes  *)
(* its calls to the cluster one after another.                             *)
(***************************************************************************)
EXTENDS Naturals, FiniteSets

CONSTANTS
  Reads,        \* requests
  Names,        \* market names that clients ask for
  Allowed,      \* those of getAllMarkets
  BatchSize     \* parallel.all.batchSize

ASSUME ReadsAssumption == Allowed \subseteq Names /\ BatchSize \in Nat \ {0}

VARIABLE read

\* what a request asks for: the calls of one task, the answer when the market
\* of a task is not found, and the one when nothing was found in the markets
Operations == [calls : 0 .. 2, unknown : {"notFound", "failed"}, empty : {"answered", "noOrders"}]

ReadRequests ==
  [pc : {"idle", "list", "run", "answered", "noOrders", "notFound", "failed"},
   form : {"one", "several", "all"}, operation : Operations,
   asked : SUBSET Names, left : SUBSET Names,
   running : [Names -> 0 .. 3],      \* steps a task still has to make; 0 if it does not run
   loaded : SUBSET Names]

ReadsOK == read \in [Reads -> ReadRequests]

-----------------------------------------------------------------------------
(* The operations                                                          *)

GetMarket == 1      \* a step of every task; the markets come from their cache, or are loaded again

GetMarkets == [calls |-> 0, unknown |-> "notFound", empty |-> "answered"]
GetOrderBook == [calls |-> 2, unknown |-> "notFound", empty |-> "answered"]   \* asks, then bids
GetTicker == [calls |-> 1, unknown |-> "notFound", empty |-> "answered"]

\* the handlers of orders turn only OrderNotFoundError into 404
GetOpenOrders == [calls |-> 1, unknown |-> "failed", empty |-> "noOrders"]
GetFilledOrders == [calls |-> 1, unknown |-> "failed", empty |-> "noOrders"]
GetOrders == [calls |-> 2, unknown |-> "failed", empty |-> "noOrders"]        \* open, then filled

ReadInit ==
  read = [r \in Reads |->
    [pc |-> "idle", form |-> "one", operation |-> GetMarkets, asked |-> {}, left |-> {},
     running |-> [n \in Names |-> 0], loaded |-> {}]]

-----------------------------------------------------------------------------
(* The requests                                                            *)

\* chain, connector and validation come first, and may refuse the request
Ask(r, operation) ==
  /\ read[r].pc = "idle"
  /\ \E names \in (SUBSET Names) \ {{}}, form \in {"one", "several", "all"}, pc \in {"list", "failed"} :
       /\ form = "one" => Cardinality(names) = 1
       /\ form = "all" => names = Allowed
       /\ read' = [read EXCEPT ![r] = [@ EXCEPT !.pc = pc, !.form = form, !.operation = operation,
                                                !.asked = names, !.left = names]]

AskMarkets(r) == Ask(r, GetMarkets)
AskOrderBooks(r) == Ask(r, GetOrderBook)
AskTickers(r) == Ask(r, GetTicker)
AskOpenOrders(r) == Ask(r, GetOpenOrders)
AskFilledOrders(r) == Ask(r, GetFilledOrders)
AskOrders(r) == Ask(r, GetOrders)

\* getAllMarkets: from its cache, or loaded, which may fail
GetAllMarkets(r) ==
  /\ read[r].pc = "list"
  /\ \E pc \in {"run", "failed"} : read' = [read EXCEPT ![r].pc = pc]

Running(c) == {n \in Names : c.running[n] > 0}

\* mutant: the position moves on by one too many
NextBatchSkips(c, batch) ==
  [c EXCEPT !.left = @ \ (batch \cup (IF @ = batch THEN {} ELSE {CHOOSE n \in @ \ batch : TRUE})),
            !.running = [n \in Names |-> IF n \in batch THEN GetMarket + c.operation.calls ELSE @[n]]]

NextBatch(c, batch) ==
  [c EXCEPT !.left = @ \ batch,
            !.running = [n \in Names |-> IF n \in batch THEN GetMarket + c.operation.calls ELSE @[n]]]

\* promiseAllInBatches: names in any order, a batch at a time
StartBatch(r) ==
  LET c == read[r] IN
  /\ c.pc = "run" /\ Running(c) = {} /\ c.left # {}
  /\ \E batch \in SUBSET c.left :
       /\ Cardinality(batch) = BatchSize \/ (batch = c.left /\ Cardinality(batch) < BatchSize)
       /\ read' = [read EXCEPT ![r] = NextBatch(c, batch)]

\* a task that has looked its market up, or has the answer of a call; it goes
\* on even if the request has failed meanwhile
TaskProceeds(r, n) ==
  LET c == read[r] IN
  /\ c.running[n] > 0
  /\ c.running[n] = GetMarket + c.operation.calls => n \in Allowed
  /\ read' = [read EXCEPT ![r] = [c EXCEPT !.running = [c.running EXCEPT ![n] = @ - 1],
                                           !.loaded = IF c.running[n] = 1 THEN @ \cup {n} ELSE @]]

\* the first rejection decides about the request, and ends the batches
Reject(c, n, answer) ==
  [c EXCEPT !.running = [@ EXCEPT ![n] = 0], !.pc = IF c.pc = "run" THEN answer ELSE @]

MarketNotFound(r, n) ==
  LET c == read[r] IN
  /\ c.running[n] = GetMarket + c.operation.calls /\ n \notin Allowed
  /\ read' = [read EXCEPT ![r] = Reject(c, n, c.operation.unknown)]

\* mutant: the handler takes any exception for MarketNotFoundError
CallFailsNotFound(r, n) ==
  LET c == read[r] IN
  /\ c.running[n] > 0
  /\ read' = [read EXCEPT ![r] = Reject(c, n, c.operation.unknown)]

\* a call to the cluster fails, the reload of the markets for the task's getMarket too
CallFails(r, n) ==
  LET c == read[r] IN
  /\ c.running[n] > 0
  /\ read' = [read EXCEPT ![r] = Reject(c, n, "failed")]

AnswerRead(r) ==
  LET c == read[r] IN
  /\ c.pc = "run" /\ Running(c) = {} /\ c.left = {}
  /\ \E pc \in {"answered"} \cup (IF c.form = "all" THEN {} ELSE {c.operation.empty}) :
       read' = [read EXCEPT ![r].pc = pc]

ReadArrives(r) ==
  \/ AskMarkets(r) \/ AskOrderBooks(r) \/ AskTickers(r)
  \/ AskOpenOrders(r) \/ AskFilledOrders(r) \/ AskOrders(r)

ReadSteps(r) ==
  \/ GetAllMarkets(r) \/ StartBatch(r) \/ AnswerRead(r)
  \/ \E n \in Names : TaskProceeds(r, n) \/ MarketNotFound(r, n) \/ CallFails(r, n)

-----------------------------------------------------------------------------
(* A read that is answered has loaded every market it asked for: no name   *)
(* falls between two batches of promiseAllInBatches.                       *)
AnswersComplete == \A r \in Reads : read[r].pc = "answered" => read[r].loaded = read[r].asked

(* 404 for a market is answered only if one that was asked for does not    *)
(* exist, never because the cluster failed.                                *)
NotFoundIsCaused == \A r \in Reads : read[r].pc = "notFound" => read[r].asked \ Allowed # {}
=============================================================================
