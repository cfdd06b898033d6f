---------------------------- MODULE Serum_proofs ----------------------------
(***************************************************************************)
(* What the answers of the CLOB requests promise, for any numbers of       *)
(* requests, markets, owners, retries and any size of a batch.             *)
(***************************************************************************)
EXTENDS Serum, FiniteSetTheorems, TLAPS

-----------------------------------------------------------------------------
(* Requests that read                                                      *)

\* every name a read asked for is still to come, under way or loaded
ReadProgress(c) ==
  /\ c \in ReadRequests
  /\ c.left \cup Running(c) \subseteq c.asked
  /\ c.pc \in {"idle", "list"} => c.loaded = {} /\ Running(c) = {}
  /\ c.pc \in {"list", "run"} => c.asked = c.left \cup Running(c) \cup c.loaded
  /\ c.pc = "answered" => c.loaded = c.asked /\ Running(c) = {}
  /\ c.pc = "notFound" => c.asked \ Allowed # {}

ReadInv == read \in [Reads -> ReadRequests] /\ \A r \in Reads : ReadProgress(read[r])

LEMMA UpdateRead ==
  ASSUME ReadInv, NEW r \in Reads, NEW c, ReadProgress(c), read' = [read EXCEPT ![r] = c]
  PROVE  ReadInv'
  BY DEF ReadInv, ReadProgress, Running

LEMMA ReadInitial == ReadInit => ReadInv
<1> DEFINE c == [pc |-> "idle", form |-> "one", operation |-> GetMarkets, asked |-> {}, left |-> {},
                 running |-> [n \in Names |-> 0], loaded |-> {}]
<1>1. GetMarkets \in Operations
  BY DEF GetMarkets, Operations
<1>2. c \in ReadRequests
  BY <1>1 DEF ReadRequests
<1>3. c.pc = "idle" /\ c.left = {} /\ c.loaded = {} /\ c.running = [n \in Names |-> 0]
  OBVIOUS
<1>4. Running(c) = {}
  BY <1>3 DEF Running
<1>5. ReadProgress(c)
  <2> HIDE DEF c
  <2> QED BY <1>2, <1>3, <1>4 DEF ReadProgress
<1>6. ReadInit => read = [r \in Reads |-> c]
  BY DEF ReadInit
<1> HIDE DEF c
<1> QED BY <1>2, <1>5, <1>6 DEF ReadInv

LEMMA OperationsOK ==
  /\ GetMarkets \in Operations /\ GetOrderBook \in Operations /\ GetTicker \in Operations
  /\ GetOpenOrders \in Operations /\ GetFilledOrders \in Operations /\ GetOrders \in Operations
  BY DEF GetMarkets, GetOrderBook, GetTicker, GetOpenOrders, GetFilledOrders, GetOrders, Operations

LEMMA AskKeeps ==
  ASSUME ReadInv, NEW r \in Reads, NEW operation \in Operations, Ask(r, operation)
  PROVE  ReadInv'
<1>1. PICK names \in (SUBSET Names) \ {{}}, form \in {"one", "several", "all"}, pc \in {"list", "failed"} :
        read' = [read EXCEPT ![r] = [@ EXCEPT !.pc = pc, !.form = form, !.operation = operation,
                                              !.asked = names, !.left = names]]
  BY DEF Ask
<1> DEFINE c == read[r]
           d == [c EXCEPT !.pc = pc, !.form = form, !.operation = operation, !.asked = names, !.left = names]
<1>2. c \in ReadRequests /\ c.pc = "idle" /\ ReadProgress(c)
  BY DEF Ask, ReadInv
<1>3. /\ d \in ReadRequests /\ d.pc = pc /\ d.asked = names /\ d.left = names
      /\ d.running = c.running /\ d.loaded = c.loaded
  BY <1>2 DEF ReadRequests
<1>4. read' = [read EXCEPT ![r] = d]
  BY <1>1
<1>5. ReadProgress(d)
  <2> HIDE DEF c, d
  <2> QED BY <1>2, <1>3 DEF ReadProgress, Running
<1> HIDE DEF d
<1> QED BY <1>4, <1>5, UpdateRead

LEMMA GetAllMarketsKeeps ==
  ASSUME ReadInv, NEW r \in Reads, GetAllMarkets(r)
  PROVE  ReadInv'
<1>1. PICK pc \in {"run", "failed"} : read' = [read EXCEPT ![r].pc = pc]
  BY DEF GetAllMarkets
<1> DEFINE c == read[r]
           d == [c EXCEPT !.pc = pc]
<1>2. c \in ReadRequests /\ c.pc = "list" /\ ReadProgress(c)
  BY DEF GetAllMarkets, ReadInv
<1>3. /\ d \in ReadRequests /\ d.pc = pc /\ d.asked = c.asked /\ d.left = c.left
      /\ d.running = c.running /\ d.loaded = c.loaded
  BY <1>2 DEF ReadRequests
<1>4. read' = [read EXCEPT ![r] = d]
  BY <1>1
<1>5. ReadProgress(d)
  <2> HIDE DEF c, d
  <2> QED BY <1>2, <1>3 DEF ReadProgress, Running
<1> HIDE DEF d
<1> QED BY <1>4, <1>5, UpdateRead

LEMMA StartBatchKeeps ==
  ASSUME ReadInv, NEW r \in Reads, StartBatch(r)
  PROVE  ReadInv'
<1> DEFINE c == read[r]
           steps == GetMarket + c.operation.calls
<1>1. /\ c \in ReadRequests /\ c.pc = "run" /\ Running(c) = {} /\ ReadProgress(c)
  BY DEF StartBatch, ReadInv
<1>2. PICK batch \in SUBSET c.left : read' = [read EXCEPT ![r] = NextBatch(c, batch)]
  BY DEF StartBatch
<1> DEFINE d == NextBatch(c, batch)
<1>3. steps \in 1 .. 3
  <2>1. c.operation.calls \in 0 .. 2
    BY <1>1 DEF ReadRequests, Operations
  <2> QED BY <2>1 DEF GetMarket
<1>4. c.running \in [Names -> 0 .. 3] /\ c.left \subseteq Names
  BY <1>1 DEF ReadRequests
<1>5. [n \in Names |-> IF n \in batch THEN steps ELSE c.running[n]] \in [Names -> 0 .. 3]
  BY <1>3, <1>4
<1>6. d = [c EXCEPT !.left = @ \ batch,
                    !.running = [n \in Names |-> IF n \in batch THEN steps ELSE @[n]]]
  BY DEF NextBatch
<1>7. /\ d \in ReadRequests /\ d.pc = "run" /\ d.asked = c.asked /\ d.left = c.left \ batch
      /\ d.running = [n \in Names |-> IF n \in batch THEN steps ELSE c.running[n]]
      /\ d.loaded = c.loaded
  <2> HIDE DEF d, steps
  <2> QED BY <1>1, <1>4, <1>5, <1>6 DEF ReadRequests
<1>8. ReadProgress(d)
  <2> HIDE DEF c, d, steps
  <2>1. Running(d) = batch
    BY <1>1, <1>2, <1>3, <1>4, <1>7 DEF Running
  <2> QED BY <1>1, <1>2, <1>7, <2>1 DEF ReadProgress
<1>9. read' = [read EXCEPT ![r] = d]
  BY <1>2
<1> HIDE DEF d
<1> QED BY <1>8, <1>9, UpdateRead

LEMMA TaskProceedsKeeps ==
  ASSUME ReadInv, NEW r \in Reads, NEW n \in Names, TaskProceeds(r, n)
  PROVE  ReadInv'
<1> DEFINE c == read[r]
           left == [c.running EXCEPT ![n] = @ - 1]
           got == IF c.running[n] = 1 THEN c.loaded \cup {n} ELSE c.loaded
           d == [c EXCEPT !.running = left,
                          !.loaded = IF c.running[n] = 1 THEN @ \cup {n} ELSE @]
<1>1. c \in ReadRequests /\ ReadProgress(c) /\ c.running[n] > 0
  BY DEF TaskProceeds, ReadInv
<1>2. read' = [read EXCEPT ![r] = d]
  BY DEF TaskProceeds
<1>3. c.running \in [Names -> 0 .. 3] /\ c.loaded \subseteq Names
  BY <1>1 DEF ReadRequests
<1>4. left \in [Names -> 0 .. 3] /\ got \subseteq Names
  BY <1>1, <1>3
<1>5. /\ d \in ReadRequests /\ d.pc = c.pc /\ d.asked = c.asked /\ d.left = c.left
      /\ d.running = left /\ d.loaded = got
  <2> HIDE DEF left
  <2> QED BY <1>1, <1>4 DEF ReadRequests
<1>6. Running(d) = IF c.running[n] = 1 THEN Running(c) \ {n} ELSE Running(c)
  <2> HIDE DEF d, c
  <2> QED BY <1>1, <1>3, <1>5 DEF Running
<1>7. n \in Running(c)
  BY <1>1 DEF Running
<1>8. ReadProgress(d)
  <2> HIDE DEF c, d, left
  <2> QED BY <1>1, <1>5, <1>6, <1>7 DEF ReadProgress
<1> HIDE DEF d
<1> QED BY <1>2, <1>8, UpdateRead

\* a task that ends with an exception, and the answer "notFound" for a name
\* that does not exist
LEMMA RejectKeeps ==
  ASSUME ReadInv, NEW r \in Reads, NEW n \in Names, NEW answer \in {"notFound", "failed"},
         read[r].running[n] > 0, answer = "notFound" => n \notin Allowed,
         read' = [read EXCEPT ![r] = Reject(read[r], n, answer)]
  PROVE  ReadInv'
<1> DEFINE c == read[r]
           left == [c.running EXCEPT ![n] = 0]
           pc == IF c.pc = "run" THEN answer ELSE c.pc
           d == [c EXCEPT !.running = left, !.pc = pc]
<1>1. c \in ReadRequests /\ ReadProgress(c)
  BY DEF ReadInv
<1>2. read' = [read EXCEPT ![r] = d]
  BY DEF Reject
<1>3. c.running \in [Names -> 0 .. 3]
  BY <1>1 DEF ReadRequests
<1>4. left \in [Names -> 0 .. 3]
  BY <1>3
<1>5. /\ d \in ReadRequests /\ d.pc = pc /\ d.asked = c.asked /\ d.left = c.left
      /\ d.running = left /\ d.loaded = c.loaded
  <2> HIDE DEF left
  <2> QED BY <1>1, <1>4 DEF ReadRequests
<1>6. Running(d) = Running(c) \ {n} /\ n \in Running(c)
  <2> HIDE DEF d
  <2> QED BY <1>3, <1>5 DEF Running
<1>7. c.pc \notin {"idle", "list", "answered"} /\ n \in c.asked
  BY <1>1, <1>6 DEF ReadProgress
<1>8. ReadProgress(d)
  <2> HIDE DEF c, d, left
  <2> QED BY <1>1, <1>5, <1>6, <1>7 DEF ReadProgress
<1> HIDE DEF d
<1> QED BY <1>2, <1>8, UpdateRead

LEMMA AnswerKeeps ==
  ASSUME ReadInv, NEW r \in Reads, AnswerRead(r)
  PROVE  ReadInv'
<1> DEFINE c == read[r]
<1>1. c \in ReadRequests /\ c.pc = "run" /\ Running(c) = {} /\ c.left = {} /\ ReadProgress(c)
  BY DEF AnswerRead, ReadInv
<1>2. PICK pc \in {"answered", c.operation.empty} : read' = [read EXCEPT ![r].pc = pc]
  BY DEF AnswerRead
<1>3. pc \in {"answered", "noOrders"}
  BY <1>1 DEF ReadRequests, Operations
<1> DEFINE d == [c EXCEPT !.pc = pc]
<1>4. /\ d \in ReadRequests /\ d.pc = pc /\ d.asked = c.asked /\ d.left = c.left
      /\ d.running = c.running /\ d.loaded = c.loaded
  BY <1>1, <1>3 DEF ReadRequests
<1>5. read' = [read EXCEPT ![r] = d]
  BY <1>2
<1>6. ReadProgress(d)
  <2> HIDE DEF c, d
  <2> QED BY <1>1, <1>3, <1>4 DEF ReadProgress, Running
<1> HIDE DEF d
<1> QED BY <1>5, <1>6, UpdateRead

LEMMA ReadStep ==
  ASSUME ReadInv, NEW r \in Reads, ReadArrives(r) \/ ReadSteps(r)
  PROVE  ReadInv'
<1>1. CASE ReadArrives(r)
  BY <1>1, OperationsOK, AskKeeps
  DEF ReadArrives, AskMarkets, AskOrderBooks, AskTickers, AskOpenOrders, AskFilledOrders, AskOrders
<1>2. ASSUME NEW n \in Names, MarketNotFound(r, n) \/ CallFails(r, n) PROVE ReadInv'
  <2>1. read[r].operation.calls \in 0 .. 2 /\ read[r].operation.unknown \in {"notFound", "failed"}
    BY DEF ReadInv, ReadRequests, Operations
  <2>2. CASE MarketNotFound(r, n)
    <3>1. read[r].running[n] > 0
      BY <2>1, <2>2 DEF MarketNotFound, GetMarket
    <3> QED BY <2>1, <2>2, <3>1, RejectKeeps DEF MarketNotFound
  <2>3. CASE CallFails(r, n)
    <3>1. read[r].running[n] > 0
      BY <2>1, <2>3 DEF CallFails
    <3> QED BY <2>3, <3>1, RejectKeeps DEF CallFails
  <2> QED BY <1>2, <2>2, <2>3
<1> QED BY <1>1, <1>2, GetAllMarketsKeeps, StartBatchKeeps, AnswerKeeps, TaskProceedsKeeps
    DEF ReadSteps

LEMMA ReadInvariant == Spec => []ReadInv
<1>1. Init => ReadInv
  BY ReadInitial DEF Init
<1>2. ReadInv /\ [Next]_vars => ReadInv'
  <2> SUFFICES ASSUME ReadInv, [Next]_vars PROVE ReadInv'
    OBVIOUS
  <2>1. UNCHANGED read \/ \E r \in Reads : ReadArrives(r) \/ ReadSteps(r)
    BY DEF Next, Arrive, CreateSteps, CancelSteps, SettleSteps, LookupSteps, vars, requestVars,
           CreateArrives, FindAccounts, SendOrder, OrderConfirmed, CreateThrows, UpdateCreate,
           CancelArrives, ReadOpenOrders, ReadOpenOrder, SkipGroup, SendCancel, CancelConfirmed,
           ReadFreeFunds, SendSettlements, SettlementsConfirmed, CancelThrows, UpdateCancel,
           SettleArrives, ReadFundsToSettle, SendSettle, SettleConfirmed, SettleThrows, UpdateSettle,
           LookupArrives, GetOpenOrder, GetFilledOrder, Find, LookupThrows, UpdateLookup
  <2> QED BY <2>1, ReadStep DEF ReadInv, ReadProgress, Running
<1> QED BY <1>1, <1>2, PTL DEF Spec

(* Batches of any size over any names leave none out (promiseAllInBatches). *)
THEOREM AnswersAreComplete == Spec => []AnswersComplete
<1>1. ReadInv => AnswersComplete
  BY DEF ReadInv, ReadProgress, AnswersComplete
<1> QED BY <1>1, ReadInvariant, PTL

(* 404 is for names that do not exist, whichever calls of whichever tasks  *)
(* of the request failed, and in whichever order.                          *)
THEOREM NotFoundCaused == Spec => []NotFoundIsCaused
<1>1. ReadInv => NotFoundIsCaused
  BY DEF ReadInv, ReadProgress, NotFoundIsCaused
<1> QED BY <1>1, ReadInvariant, PTL

-----------------------------------------------------------------------------
(* Transactions, and orders that are gone                                  *)

IsTransaction(x) ==
  x = [kind |-> x.kind, fate |-> x.fate, order |-> x.order, orders |-> x.orders, account |-> x.account]

\* order b was executed, which happens once, and is on the book m no more
Gone(b, t, m) == b.id \in Signatures /\ t[b.id].fate = "ok" /\ b \notin m

MarketInv ==
  /\ accounts \subseteq Accounts
  /\ tx = [s \in Signatures |-> tx[s]]
  /\ \A s \in Signatures :
       /\ IsTransaction(tx[s]) /\ tx[s].fate \in {"none", "sent", "ok"}
       /\ tx[s].kind = "none" => tx[s].fate = "none"
       /\ tx[s].kind = "place" => tx[s].order \in Orders /\ tx[s].order.id = s
       /\ tx[s].kind = "cancel" /\ tx[s].fate = "ok" => \A b \in tx[s].orders : Gone(b, tx, book)
  /\ \A b \in book : b.id \in Signatures /\ tx[b.id].fate = "ok"

\* what every step keeps: transactions that were sent, and orders that are gone
Grows(t, m, t2, m2) ==
  /\ \A s \in Signatures :
       /\ t[s].kind # "none" =>
            /\ t2[s].kind = t[s].kind /\ t2[s].order = t[s].order
            /\ t2[s].orders = t[s].orders /\ t2[s].account = t[s].account
       /\ t[s].fate = "ok" => t2[s].fate = "ok"
  /\ \A b \in m2 : b \in m \/ t[b.id].fate # "ok"

LEMMA GoneStays ==
  ASSUME NEW t, NEW m, NEW t2, NEW m2, Grows(t, m, t2, m2), NEW b, Gone(b, t, m)
  PROVE  Gone(b, t2, m2)
  BY DEF Grows, Gone

LEMMA NothingGrows == \A t, m : Grows(t, m, t, m)
  BY DEF Grows

LEMMA MarketInitial == MarketInit => MarketInv
<1> SUFFICES ASSUME MarketInit PROVE MarketInv
  OBVIOUS
<1>1. IsTransaction(Unused) /\ Unused.fate = "none" /\ Unused.kind = "none"
  BY DEF IsTransaction, Unused
<1>2. tx = [s \in Signatures |-> tx[s]] /\ \A s \in Signatures : tx[s] = Unused
  BY DEF MarketInit
<1> QED BY <1>1, <1>2 DEF MarketInit, MarketInv

LEMMA SendGrows ==
  ASSUME MarketInv, NEW s \in Signatures, NEW x, Send(s, x), IsTransaction(x), x.fate = "sent",
         x.kind # "none", x.kind = "place" => x.order \in Orders /\ x.order.id = s
  PROVE  MarketInv' /\ Grows(tx, book, tx', book') /\ tx'[s] = x
<1>1. tx' = [tx EXCEPT ![s] = x] /\ tx[s].kind = "none" /\ tx[s].fate = "none"
      /\ UNCHANGED <<accounts, book>>
  BY DEF Send, MarketInv
<1>2. tx'[s] = x /\ \A u \in Signatures : u # s => tx'[u] = tx[u]
  BY <1>1 DEF MarketInv
<1>3. Grows(tx, book, tx', book')
  BY <1>1, <1>2 DEF Grows
<1>4. tx' = [u \in Signatures |-> tx'[u]]
  BY <1>1 DEF MarketInv
<1>5. MarketInv'
  BY <1>1, <1>2, <1>3, <1>4, GoneStays DEF MarketInv, Gone
<1> QED BY <1>2, <1>3, <1>5

LEMMA ExecuteGrows ==
  ASSUME MarketInv, NEW s \in Signatures, Execute(s)
  PROVE  MarketInv' /\ Grows(tx, book, tx', book')
<1> DEFINE x == [tx[s] EXCEPT !.fate = "ok"]
<1>1. tx[s].fate = "sent" /\ tx' = [tx EXCEPT ![s] = x]
  BY DEF Execute
<1>2. /\ IsTransaction(x) /\ x.fate = "ok" /\ x.kind = tx[s].kind
      /\ x.order = tx[s].order /\ x.orders = tx[s].orders /\ x.account = tx[s].account
  BY DEF MarketInv, IsTransaction
<1> HIDE DEF x
<1>3. tx'[s] = x /\ \A u \in Signatures : u # s => tx'[u] = tx[u]
  BY <1>1 DEF MarketInv
<1>4. tx' = [u \in Signatures |-> tx'[u]]
  BY <1>1 DEF MarketInv
<1>5. \A b \in book' : b \in book \/ (tx[s].kind = "place" /\ b = tx[s].order)
  BY DEF Execute, ExecutePlace, ExecuteCancel, ExecuteSettle, ExecuteEmpty
<1>6. Grows(tx, book, tx', book')
  BY <1>1, <1>2, <1>3, <1>5 DEF Grows, MarketInv
<1>7. accounts' \subseteq Accounts
  BY DEF Execute, ExecutePlace, ExecuteCancel, ExecuteSettle, ExecuteEmpty, MarketInv, Orders
<1>8. \A b \in book' : b.id \in Signatures /\ tx'[b.id].fate = "ok"
  BY <1>2, <1>3, <1>5, <1>6 DEF MarketInv, Grows
<1>9. ASSUME x.kind = "cancel", NEW b \in x.orders PROVE Gone(b, tx', book')
  <2>1. b \in book /\ b \notin book'
    BY <1>2, <1>9 DEF Execute, ExecutePlace, ExecuteCancel, ExecuteSettle, ExecuteEmpty
  <2> QED BY <1>6, <2>1 DEF MarketInv, Grows, Gone
<1>10. ASSUME NEW u \in Signatures, u # s, tx[u].kind = "cancel", tx[u].fate = "ok", NEW b \in tx[u].orders
       PROVE  Gone(b, tx', book')
  BY <1>6, <1>10, GoneStays DEF MarketInv
<1>11. MarketInv'
  BY <1>1, <1>2, <1>3, <1>4, <1>7, <1>8, <1>9, <1>10 DEF MarketInv
<1> QED BY <1>6, <1>11

LEMMA ClusterGrows ==
  ASSUME MarketInv, Cluster
  PROVE  MarketInv' /\ Grows(tx, book, tx', book')
<1>1. CASE book' \subseteq book /\ UNCHANGED <<accounts, tx>>
  <2>1. Grows(tx, book, tx', book')
    BY <1>1 DEF Grows
  <2> QED BY <1>1, <2>1, GoneStays DEF MarketInv
<1>2. (\E s \in Signatures : Execute(s)) \/ (book' \subseteq book /\ UNCHANGED <<accounts, tx>>)
  BY DEF Cluster, Fill, Consume
<1> QED BY <1>1, <1>2, ExecuteGrows

LEMMA MarketUnchanged ==
  ASSUME MarketInv, UNCHANGED marketVars
  PROVE  MarketInv' /\ Grows(tx, book, tx', book')
  BY NothingGrows DEF MarketInv, marketVars

-----------------------------------------------------------------------------
(* Requests that create orders                                             *)

CreateRecords ==
  [pc : {"idle", "find", "send", "confirm", "answered", "failed"},
   owner : Owners \cup {None}, batch : Seq(Candidates), i : Nat, tries : Nat,
   found : SUBSET Accounts, signature : Signatures \cup {None},
   created : [ClientIds -> [status : {"none", "OPEN", "CREATION_PENDING"},
                            signature : Signatures \cup {None}]]]

\* transaction s of t places an order with that client id
Places(t, s, clientId) ==
  /\ s \in Signatures /\ t[s].kind = "place" /\ t[s].order \in Orders
  /\ t[s].order.clientId = clientId

CreateOK(c, t) ==
  /\ c \in CreateRecords
  /\ c.pc = "idle" => c.i = 1
  /\ c.pc \in {"find", "send", "confirm"} => c.owner \in Owners /\ c.i \in 1 .. Len(c.batch)
  /\ c.pc = "confirm" => Places(t, c.signature, c.batch[c.i].clientId)
  /\ \A k \in ClientIds : c.created[k].status = "OPEN" =>
       Places(t, c.created[k].signature, k) /\ t[c.created[k].signature].fate = "ok"

CreateInv == create \in [Creates -> CreateRecords] /\ \A r \in Creates : CreateOK(create[r], tx)

LEMMA CreateStays ==
  ASSUME NEW t, NEW m, NEW t2, NEW m2, Grows(t, m, t2, m2), NEW c, CreateOK(c, t)
  PROVE  CreateOK(c, t2)
<1>1. ASSUME NEW s, NEW k, Places(t, s, k) PROVE Places(t2, s, k) /\ (t[s].fate = "ok" => t2[s].fate = "ok")
  BY <1>1 DEF Places, Grows
<1> QED BY <1>1 DEF CreateOK

LEMMA CreateKept ==
  ASSUME CreateInv, Grows(tx, book, tx', book'), UNCHANGED create
  PROVE  CreateInv'
  BY CreateStays DEF CreateInv

LEMMA CreateUpdated ==
  ASSUME CreateInv, Grows(tx, book, tx', book'), NEW r \in Creates, NEW c, CreateOK(c, tx'),
         create' = [create EXCEPT ![r] = c]
  PROVE  CreateInv'
<1>1. \A q \in Creates : CreateOK(create[q], tx')
  BY CreateStays DEF CreateInv
<1>2. c \in CreateRecords
  BY DEF CreateOK
<1> QED BY <1>1, <1>2 DEF CreateInv

LEMMA BatchesAreSeqs ==
  ASSUME NEW batch \in Batches(Candidates, MaxCandidates)
  PROVE  batch \in Seq(Candidates) /\ Len(batch) \in Nat /\ Len(batch) >= 1
<1>1. PICK n \in 1 .. MaxCandidates : batch \in [1 .. n -> Candidates]
  BY DEF Batches
<1>2. n \in Nat /\ n >= 1
  BY <1>1, SerumAssumption
<1>3. batch \in Seq(Candidates)
  BY <1>1, <1>2
<1>4. Len(batch) = n
  BY <1>1, <1>2
<1> QED BY <1>2, <1>3, <1>4

LEMMA AccountForOK ==
  ASSUME NEW o \in Owners, NEW found \in SUBSET Accounts, NEW s \in Signatures
  PROVE  AccountFor(o, found, s) \in Accounts
<1>1. CASE found = {}
  BY <1>1 DEF AccountFor, Accounts
<1>2. CASE found # {}
  <2>1. (CHOOSE a \in found : TRUE) \in found
    BY <1>2
  <2> QED BY <1>2, <2>1 DEF AccountFor
<1> QED BY <1>1, <1>2

LEMMA CreatedOK ==
  ASSUME NEW c, NEW t, CreateOK(c, t), c.pc \in {"find", "send", "confirm"},
         NEW status \in {"OPEN", "CREATION_PENDING"}, NEW s \in Signatures \cup {None},
         status = "OPEN" => Places(t, s, c.batch[c.i].clientId) /\ t[s].fate = "ok"
  PROVE  CreateOK(Created(c, status, s), t)
<1> DEFINE k == c.batch[c.i].clientId
           answer == [status |-> status, signature |-> s]
           created == [c.created EXCEPT ![k] = answer]
           noted == [c EXCEPT !.created = created, !.tries = 0, !.signature = None]
<1>1. /\ c \in CreateRecords /\ c.i \in 1 .. Len(c.batch) /\ c.batch \in Seq(Candidates)
      /\ c.owner \in Owners
  BY DEF CreateOK, CreateRecords
<1>2. c.batch[c.i] \in Candidates /\ k \in ClientIds
  <2>1. c.batch[c.i] \in Candidates
    BY <1>1
  <2> QED BY <2>1 DEF Candidates
<1>3. /\ created \in [ClientIds -> [status : {"none", "OPEN", "CREATION_PENDING"},
                                    signature : Signatures \cup {None}]]
      /\ created[k] = answer
      /\ \A j \in ClientIds : j # k => created[j] = c.created[j]
  <2>1. answer \in [status : {"none", "OPEN", "CREATION_PENDING"}, signature : Signatures \cup {None}]
    OBVIOUS
  <2> HIDE DEF k, answer
  <2> QED BY <1>1, <1>2, <2>1 DEF CreateRecords
<1>4. ASSUME NEW j \in ClientIds, created[j].status = "OPEN"
      PROVE  Places(t, created[j].signature, j) /\ t[created[j].signature].fate = "ok"
  <2>1. CASE j = k
    BY <1>3, <1>4, <2>1
  <2>2. CASE j # k
    BY <1>3, <1>4, <2>2 DEF CreateOK
  <2> QED BY <2>1, <2>2
<1>5. /\ noted \in CreateRecords /\ noted.created = created /\ noted.i = c.i
      /\ noted.batch = c.batch /\ noted.owner = c.owner
  <2> HIDE DEF created
  <2> QED BY <1>1, <1>3 DEF CreateRecords
<1>6. CASE c.i < Len(c.batch)
  <2> DEFINE d == [noted EXCEPT !.pc = "find", !.i = c.i + 1]
  <2>1. Created(c, status, s) = d
    BY <1>6 DEF Created
  <2>2. c.i + 1 \in 1 .. Len(c.batch) /\ c.i + 1 \in Nat
    BY <1>1, <1>6
  <2> HIDE DEF noted
  <2>3. d \in CreateRecords /\ d.pc = "find" /\ d.created = created /\ d.i = c.i + 1
        /\ d.batch = c.batch /\ d.owner = c.owner
    <3> HIDE DEF created
    <3> QED BY <1>5, <2>2 DEF CreateRecords
  <2>4. CreateOK(d, t)
    <3> HIDE DEF d, created
    <3> QED BY <1>1, <1>4, <2>2, <2>3 DEF CreateOK
  <2> QED BY <2>1, <2>4
<1>7. CASE ~(c.i < Len(c.batch))
  <2> DEFINE d == [noted EXCEPT !.pc = "answered"]
  <2>1. Created(c, status, s) = d
    BY <1>7 DEF Created
  <2> HIDE DEF noted
  <2>2. d \in CreateRecords /\ d.pc = "answered" /\ d.created = created
    <3> HIDE DEF created
    <3> QED BY <1>5 DEF CreateRecords
  <2>3. CreateOK(d, t)
    <3> HIDE DEF d, created
    <3> QED BY <1>4, <2>2 DEF CreateOK
  <2> QED BY <2>1, <2>3
<1> QED BY <1>6, <1>7

OrdersInv == MarketInv /\ CreateInv

LEMMA CreateArrivesKeeps ==
  ASSUME OrdersInv, NEW r \in Creates, CreateArrives(r)
  PROVE  CreateInv'
<1>1. Grows(tx, book, tx', book') /\ UNCHANGED tx
  BY MarketUnchanged DEF OrdersInv, CreateArrives, marketVars
<1>2. PICK o \in Owners, batch \in Batches(Candidates, MaxCandidates), pc \in {"find", "failed"} :
        create' = [create EXCEPT ![r] = [create[r] EXCEPT !.pc = pc, !.owner = o, !.batch = batch]]
  BY DEF CreateArrives, UpdateCreate
<1> DEFINE c == create[r]
           d == [c EXCEPT !.pc = pc, !.owner = o, !.batch = batch]
<1>3. c \in CreateRecords /\ c.pc = "idle" /\ CreateOK(c, tx) /\ c.i = 1
  BY DEF OrdersInv, CreateInv, CreateArrives, CreateOK
<1>4. batch \in Seq(Candidates) /\ 1 \in 1 .. Len(batch)
  BY BatchesAreSeqs
<1>5. /\ d \in CreateRecords /\ d.pc = pc /\ d.owner = o /\ d.batch = batch
      /\ d.i = 1 /\ d.created = c.created
  BY <1>3, <1>4 DEF CreateRecords
<1>6. create' = [create EXCEPT ![r] = d]
  BY <1>2
<1>7. CreateOK(d, tx')
  <2> HIDE DEF c, d
  <2> QED BY <1>1, <1>3, <1>4, <1>5 DEF CreateOK
<1> HIDE DEF d
<1> QED BY <1>1, <1>6, <1>7, CreateUpdated DEF OrdersInv

LEMMA FindAccountsKeeps ==
  ASSUME OrdersInv, NEW r \in Creates, FindAccounts(r)
  PROVE  CreateInv'
<1> DEFINE c == create[r]
           d == [c EXCEPT !.pc = "send", !.found = AccountsOf(c.owner)]
<1>1. Grows(tx, book, tx', book') /\ UNCHANGED tx
  BY MarketUnchanged DEF OrdersInv, FindAccounts, marketVars
<1>2. create' = [create EXCEPT ![r] = d]
  BY DEF FindAccounts, UpdateCreate
<1>3. c \in CreateRecords /\ c.pc = "find" /\ CreateOK(c, tx)
  BY DEF OrdersInv, CreateInv, FindAccounts
<1>4. AccountsOf(c.owner) \in SUBSET Accounts
  BY DEF OrdersInv, MarketInv, AccountsOf
<1>5. /\ d \in CreateRecords /\ d.pc = "send" /\ d.owner = c.owner /\ d.batch = c.batch
      /\ d.i = c.i /\ d.created = c.created
  <2> HIDE DEF c
  <2> QED BY <1>3, <1>4 DEF CreateRecords
<1>6. CreateOK(d, tx')
  <2> HIDE DEF c, d
  <2> QED BY <1>1, <1>3, <1>5 DEF CreateOK
<1> HIDE DEF d
<1> QED BY <1>1, <1>2, <1>6, CreateUpdated DEF OrdersInv

LEMMA PlaceTransactionOK ==
  ASSUME NEW o \in Owners, NEW k \in ClientIds, NEW found \in SUBSET Accounts, NEW s \in Signatures
  PROVE  LET x == PlaceTransaction(o, k, found, s) IN
         /\ IsTransaction(x) /\ x.fate = "sent" /\ x.kind = "place"
         /\ x.order \in Orders /\ x.order.id = s /\ x.order.clientId = k
<1> DEFINE a == AccountFor(o, found, s)
           x == PlaceTransaction(o, k, found, s)
<1>1. a \in Accounts
  BY AccountForOK
<1>2. x = [kind |-> "place", fate |-> "sent", order |-> [id |-> s, clientId |-> k, account |-> a],
           orders |-> {}, account |-> None]
  <2> HIDE DEF a
  <2>1. x = [Unused EXCEPT !.kind = "place", !.fate = "sent",
                           !.order = [id |-> s, clientId |-> k, account |-> a]]
    BY DEF PlaceTransaction, a
  <2> HIDE DEF x
  <2> QED BY <2>1 DEF Unused
<1>3. [id |-> s, clientId |-> k, account |-> a] \in Orders
  <2> HIDE DEF a
  <2> QED BY <1>1 DEF Orders
<1>4. /\ IsTransaction(x) /\ x.fate = "sent" /\ x.kind = "place"
      /\ x.order \in Orders /\ x.order.id = s /\ x.order.clientId = k
  <2> HIDE DEF x, a
  <2> QED BY <1>2, <1>3 DEF IsTransaction
<1> QED BY <1>4

LEMMA SendOrderKeeps ==
  ASSUME OrdersInv, NEW r \in Creates, SendOrder(r)
  PROVE  OrdersInv' /\ Grows(tx, book, tx', book')
<1> DEFINE c == create[r]
           k == c.batch[c.i].clientId
<1>1. c \in CreateRecords /\ c.pc = "send" /\ CreateOK(c, tx) /\ c.owner \in Owners
      /\ c.i \in 1 .. Len(c.batch) /\ c.batch \in Seq(Candidates) /\ c.found \in SUBSET Accounts
  BY DEF OrdersInv, CreateInv, SendOrder, CreateOK, CreateRecords
<1>2. k \in ClientIds
  <2>1. c.batch[c.i] \in Candidates
    BY <1>1
  <2> QED BY <2>1 DEF Candidates
<1>3. PICK s \in Signatures :
        /\ Send(s, PlaceTransaction(c.owner, k, c.found, s))
        /\ create' = [create EXCEPT ![r] = [c EXCEPT !.pc = "confirm", !.signature = s, !.found = {}]]
  BY DEF SendOrder, UpdateCreate
<1> DEFINE x == PlaceTransaction(c.owner, k, c.found, s)
           d == [c EXCEPT !.pc = "confirm", !.signature = s, !.found = {}]
<1>4. /\ IsTransaction(x) /\ x.fate = "sent" /\ x.kind = "place"
      /\ x.order \in Orders /\ x.order.id = s /\ x.order.clientId = k
  <2> HIDE DEF c, k
  <2> QED BY <1>1, <1>2, PlaceTransactionOK
<1>5. MarketInv' /\ Grows(tx, book, tx', book') /\ tx'[s] = x
  <2>1. Send(s, x)
    BY <1>3
  <2> HIDE DEF x
  <2> QED BY <1>4, <2>1, SendGrows DEF OrdersInv
<1>6. /\ d \in CreateRecords /\ d.pc = "confirm" /\ d.owner = c.owner /\ d.batch = c.batch
      /\ d.i = c.i /\ d.created = c.created /\ d.signature = s
  <2> HIDE DEF c
  <2> QED BY <1>1 DEF CreateRecords
<1>7. create' = [create EXCEPT ![r] = d]
  BY <1>3
<1>8. CreateOK(d, tx')
  <2>1. CreateOK(c, tx')
    BY <1>1, <1>5, CreateStays
  <2>2. Places(tx', s, k)
    <3> HIDE DEF x, k
    <3> QED BY <1>4, <1>5 DEF Places
  <2>3. k = d.batch[d.i].clientId
    <3> HIDE DEF d
    <3> QED BY <1>6
  <2> HIDE DEF c, d, k
  <2> QED BY <1>1, <1>6, <2>1, <2>2, <2>3 DEF CreateOK
<1> HIDE DEF d
<1> QED BY <1>5, <1>7, <1>8, CreateUpdated DEF OrdersInv

LEMMA OrderConfirmedKeeps ==
  ASSUME OrdersInv, NEW r \in Creates, OrderConfirmed(r)
  PROVE  CreateInv'
<1> DEFINE c == create[r]
           d == Created(c, "OPEN", c.signature)
<1>1. Grows(tx, book, tx', book') /\ UNCHANGED tx
  BY MarketUnchanged DEF OrdersInv, OrderConfirmed, marketVars
<1>2. create' = [create EXCEPT ![r] = d]
  BY DEF OrderConfirmed, UpdateCreate
<1>3. c \in CreateRecords /\ c.pc = "confirm" /\ CreateOK(c, tx) /\ tx[c.signature].fate = "ok"
  BY DEF OrdersInv, CreateInv, OrderConfirmed
<1>4. Places(tx, c.signature, c.batch[c.i].clientId) /\ c.signature \in Signatures
  BY <1>3 DEF CreateOK, Places
<1>5. CreateOK(d, tx')
  <2> HIDE DEF c
  <2> QED BY <1>1, <1>3, <1>4, CreatedOK
<1> HIDE DEF d
<1> QED BY <1>1, <1>2, <1>5, CreateUpdated DEF OrdersInv

LEMMA CreateThrowsKeeps ==
  ASSUME OrdersInv, NEW r \in Creates, NEW e, CreateThrows(r, e)
  PROVE  CreateInv'
<1> DEFINE c == create[r]
           again == [c EXCEPT !.pc = "find", !.tries = @ + 1, !.found = {}, !.signature = None]
           failed == Failed(c)
           pending == Created(c, "CREATION_PENDING", None)
<1>1. Grows(tx, book, tx', book') /\ UNCHANGED tx
  BY MarketUnchanged DEF OrdersInv, CreateThrows, marketVars
<1>2. \/ create' = [create EXCEPT ![r] = again]
      \/ create' = [create EXCEPT ![r] = pending]
      \/ create' = [create EXCEPT ![r] = failed]
  BY DEF CreateThrows, UpdateCreate
<1>3. c \in CreateRecords /\ c.pc \in {"find", "send", "confirm"} /\ CreateOK(c, tx)
  BY DEF OrdersInv, CreateInv, CreateThrows
<1>4. /\ again \in CreateRecords /\ again.pc = "find" /\ again.owner = c.owner
      /\ again.batch = c.batch /\ again.i = c.i /\ again.created = c.created
  <2> HIDE DEF c
  <2>1. c.tries + 1 \in Nat
    BY <1>3 DEF CreateRecords
  <2> QED BY <1>3, <2>1 DEF CreateRecords
<1>5. failed \in CreateRecords /\ failed.pc = "failed" /\ failed.created = c.created
  <2> HIDE DEF c
  <2> QED BY <1>3 DEF CreateRecords, Failed
<1>6. CreateOK(again, tx')
  <2> HIDE DEF c, again
  <2> QED BY <1>1, <1>3, <1>4 DEF CreateOK
<1>7. CreateOK(failed, tx')
  <2> HIDE DEF c, failed
  <2> QED BY <1>1, <1>3, <1>5 DEF CreateOK
<1>8. CreateOK(pending, tx')
  <2> HIDE DEF c
  <2> QED BY <1>1, <1>3, CreatedOK
<1> HIDE DEF again, failed, pending
<1> QED BY <1>1, <1>2, <1>6, <1>7, <1>8, CreateUpdated DEF OrdersInv

-----------------------------------------------------------------------------
(* Requests that cancel orders                                             *)

\* the fields of a request, whatever is in them
IsCancel(c) ==
  c \in [pc : {c.pc}, method : {c.method}, owner : {c.owner}, targets : {c.targets},
         groups : {c.groups}, i : {c.i}, tries : {c.tries}, signature : {c.signature},
         canceled : {c.canceled}, pending : {c.pending}]

\* a cancellation is confirmed for what its transaction removes, and what was
\* removed is settled
CancelOK(c, t, m) ==
  /\ IsCancel(c)
  /\ \A b \in c.canceled : Gone(b, t, m)
  /\ c.pc = "confirm" => /\ c.signature \in Signatures /\ t[c.signature].kind = "cancel"
                         /\ t[c.signature].orders = Group(c)
  /\ c.pc \in {"funds", "settle", "settling"} => \A b \in Group(c) : Gone(b, t, m)

CancelInv == cancel = [r \in Cancels |-> cancel[r]] /\ \A r \in Cancels : CancelOK(cancel[r], tx, book)

LEMMA CancelStays ==
  ASSUME NEW t, NEW m, NEW t2, NEW m2, Grows(t, m, t2, m2), NEW c, CancelOK(c, t, m)
  PROVE  CancelOK(c, t2, m2)
<1>1. \A b : Gone(b, t, m) => Gone(b, t2, m2)
  BY GoneStays
<1>2. c.pc = "confirm" => /\ t2[c.signature].kind = "cancel"
                          /\ t2[c.signature].orders = t[c.signature].orders
  BY DEF CancelOK, Grows
<1> QED BY <1>1, <1>2 DEF CancelOK

LEMMA CancelKept ==
  ASSUME CancelInv, Grows(tx, book, tx', book'), UNCHANGED cancel
  PROVE  CancelInv'
  BY CancelStays DEF CancelInv

LEMMA CancelUpdated ==
  ASSUME CancelInv, Grows(tx, book, tx', book'), NEW r \in Cancels, NEW c, CancelOK(c, tx', book'),
         cancel' = [cancel EXCEPT ![r] = c]
  PROVE  CancelInv'
<1>1. \A q \in Cancels : CancelOK(cancel[q], tx', book')
  BY CancelStays DEF CancelInv
<1>2. cancel' = [q \in Cancels |-> cancel'[q]] /\ cancel'[r] = c
      /\ \A q \in Cancels : q # r => cancel'[q] = cancel[q]
  BY DEF CancelInv
<1> QED BY <1>1, <1>2 DEF CancelInv

\* a record that differs in its place, its group and its transaction
LEMMA CancelMoves ==
  ASSUME NEW c, NEW d, NEW t, NEW m, CancelOK(c, t, m), IsCancel(d), d.canceled = c.canceled,
         d.pc \notin {"confirm", "funds", "settle", "settling"}
  PROVE  CancelOK(d, t, m)
  BY DEF CancelOK

LEMMA ProceedOK ==
  ASSUME NEW c, NEW t, NEW m, IsCancel(c), \A b \in c.canceled : Gone(b, t, m)
  PROVE  CancelOK(Proceed(c), t, m)
<1> DEFINE more == [c EXCEPT !.pc = "cancel", !.i = @ + 1, !.tries = 0, !.signature = None]
           done == [c EXCEPT !.pc = "answered", !.groups = <<>>, !.i = 1, !.tries = 0, !.signature = None]
<1>1. IsCancel(more) /\ more.pc = "cancel" /\ more.canceled = c.canceled
  BY DEF IsCancel
<1>2. IsCancel(done) /\ done.pc = "answered" /\ done.canceled = c.canceled
  BY DEF IsCancel
<1>3. CancelOK(more, t, m)
  <2> HIDE DEF more
  <2> QED BY <1>1 DEF CancelOK
<1>4. CancelOK(done, t, m)
  <2> HIDE DEF done
  <2> QED BY <1>2 DEF CancelOK
<1>5. Proceed(c) = more \/ Proceed(c) = done
  BY DEF Proceed
<1> HIDE DEF more, done
<1> QED BY <1>3, <1>4, <1>5

LEMMA CanceledOK ==
  ASSUME NEW c, NEW t, NEW m, CancelOK(c, t, m), \A b \in Group(c) : Gone(b, t, m)
  PROVE  CancelOK(Canceled(c), t, m)
<1> DEFINE d == [c EXCEPT !.canceled = @ \cup Group(c)]
<1>1. IsCancel(d) /\ d.canceled = c.canceled \cup Group(c)
  BY DEF CancelOK, IsCancel
<1>2. CancelOK(Proceed(d), t, m)
  <2> HIDE DEF d
  <2> QED BY <1>1, ProceedOK DEF CancelOK
<1> QED BY <1>2 DEF Canceled

LEMMA PendingOK ==
  ASSUME NEW c, NEW t, NEW m, CancelOK(c, t, m)
  PROVE  CancelOK(Pending(c), t, m)
<1> DEFINE d == [c EXCEPT !.pending = @ \cup Group(c)]
<1>1. IsCancel(d) /\ d.canceled = c.canceled
  BY DEF CancelOK, IsCancel
<1>2. CancelOK(Proceed(d), t, m)
  <2> HIDE DEF d
  <2> QED BY <1>1, ProceedOK DEF CancelOK
<1> QED BY <1>2 DEF Pending

\* the steps that go back or on without a transaction
LEMMA CancelReads ==
  ASSUME MarketInv, CancelInv, NEW r \in Cancels,
         CancelArrives(r) \/ ReadOpenOrders(r) \/ ReadOpenOrder(r) \/ SkipGroup(r)
  PROVE  CancelInv'
<1> DEFINE c == cancel[r]
<1>1. Grows(tx, book, tx', book') /\ UNCHANGED <<tx, book>>
  BY MarketUnchanged
  DEF CancelArrives, ReadOpenOrders, ReadOpenOrder, SkipGroup, marketVars
<1>2. CancelOK(c, tx, book) /\ IsCancel(c)
  BY DEF CancelInv, CancelOK
<1>3. ASSUME NEW d, CancelOK(d, tx, book), cancel' = [cancel EXCEPT ![r] = d] PROVE CancelInv'
  BY <1>1, <1>3, CancelUpdated
<1>4. ASSUME NEW d, IsCancel(d), d.canceled = c.canceled, d.pc \in {"read", "cancel", "failed"},
             cancel' = [cancel EXCEPT ![r] = d]
      PROVE  CancelInv'
  <2>1. CancelOK(d, tx, book)
    <3> HIDE DEF c
    <3> QED BY <1>2, <1>4, CancelMoves
  <2> QED BY <1>3, <1>4, <2>1
<1>5. CASE CancelArrives(r)
  <2>1. \/ \E o, targets : cancel' = [cancel EXCEPT ![r] = [c EXCEPT !.pc = "read", !.method = "cancelOrders",
                                                                    !.owner = o, !.targets = targets]]
        \/ \E o, k : cancel' = [cancel EXCEPT ![r] = [c EXCEPT !.pc = "read", !.owner = o, !.targets = <<{k}>>]]
    BY <1>5 DEF CancelArrives, UpdateCancel
  <2>2. ASSUME NEW o, NEW targets
        PROVE  LET d == [c EXCEPT !.pc = "read", !.method = "cancelOrders", !.owner = o, !.targets = targets]
                   e == [c EXCEPT !.pc = "read", !.owner = o, !.targets = targets]
               IN  /\ IsCancel(d) /\ d.canceled = c.canceled /\ d.pc = "read"
                   /\ IsCancel(e) /\ e.canceled = c.canceled /\ e.pc = "read"
    BY <1>2 DEF IsCancel
  <2> HIDE DEF c
  <2>3. CASE \E o, targets : cancel' = [cancel EXCEPT ![r] = [c EXCEPT !.pc = "read", !.method = "cancelOrders",
                                                                    !.owner = o, !.targets = targets]]
    BY <2>2, <2>3, <1>4
  <2>4. CASE \E o, k : cancel' = [cancel EXCEPT ![r] = [c EXCEPT !.pc = "read", !.owner = o, !.targets = <<{k}>>]]
    BY <2>2, <2>4, <1>4
  <2> QED BY <2>1, <2>3, <2>4
<1>6. CASE ReadOpenOrders(r)
  <2> DEFINE looked == [c EXCEPT !.groups = Append(@, Matching(c))]
             next == [looked EXCEPT !.i = @ + 1]
             all == [looked EXCEPT !.pc = "cancel", !.i = 1]
  <2>1. cancel' = [cancel EXCEPT ![r] = next] \/ cancel' = [cancel EXCEPT ![r] = all]
    BY <1>6 DEF ReadOpenOrders, UpdateCancel
  <2>2. c.pc = "read"
    BY <1>6 DEF ReadOpenOrders
  <2>3. IsCancel(looked) /\ looked.canceled = c.canceled /\ looked.pc = "read"
    <3> HIDE DEF c
    <3> QED BY <1>2, <2>2 DEF IsCancel
  <2>4. /\ IsCancel(next) /\ next.canceled = c.canceled /\ next.pc = "read"
        /\ IsCancel(all) /\ all.canceled = c.canceled /\ all.pc = "cancel"
    <3> HIDE DEF looked, c
    <3> QED BY <2>3 DEF IsCancel
  <2> HIDE DEF next, all
  <2> QED BY <1>4, <2>1, <2>4
<1>7. CASE ReadOpenOrder(r)
  <2>1. \/ \E b : cancel' = [cancel EXCEPT ![r] = [c EXCEPT !.groups = <<{b}>>, !.pc = "cancel"]]
        \/ cancel' = [cancel EXCEPT ![r] = Failed(c)]
    BY <1>7 DEF ReadOpenOrder, UpdateCancel
  <2>2. ASSUME NEW b
        PROVE  LET d == [c EXCEPT !.groups = <<{b}>>, !.pc = "cancel"]
               IN  IsCancel(d) /\ d.canceled = c.canceled /\ d.pc = "cancel"
    BY <1>2 DEF IsCancel
  <2>3. LET d == Failed(c) IN IsCancel(d) /\ d.canceled = c.canceled /\ d.pc = "failed"
    BY <1>2 DEF IsCancel, Failed
  <2> HIDE DEF c
  <2> QED BY <1>4, <2>1, <2>2, <2>3
<1>8. CASE SkipGroup(r)
  <2>1. cancel' = [cancel EXCEPT ![r] = Proceed(c)]
    BY <1>8 DEF SkipGroup, UpdateCancel
  <2>2. CancelOK(Proceed(c), tx, book)
    <3> HIDE DEF c
    <3> QED BY <1>2, ProceedOK DEF CancelOK
  <2> QED BY <1>3, <2>1, <2>2
<1> QED BY <1>5, <1>6, <1>7, <1>8

LEMMA SendCancelKeeps ==
  ASSUME MarketInv, CancelInv, NEW r \in Cancels, SendCancel(r)
  PROVE  MarketInv' /\ CancelInv' /\ Grows(tx, book, tx', book')
<1> DEFINE c == cancel[r]
           x == CancelTransaction(Group(c))
<1>1. CancelOK(c, tx, book) /\ IsCancel(c)
  BY DEF CancelInv, CancelOK
<1>2. PICK s \in Signatures :
        Send(s, x) /\ cancel' = [cancel EXCEPT ![r] = [c EXCEPT !.pc = "confirm", !.signature = s]]
  BY DEF SendCancel, UpdateCancel
<1>3. IsTransaction(x) /\ x.fate = "sent" /\ x.kind = "cancel" /\ x.orders = Group(c)
  <2> HIDE DEF c
  <2>1. x = [kind |-> "cancel", fate |-> "sent", order |-> None, orders |-> Group(c), account |-> None]
    <3>1. x = [Unused EXCEPT !.kind = "cancel", !.fate = "sent", !.orders = Group(c)]
      BY DEF CancelTransaction
    <3> HIDE DEF x
    <3> QED BY <3>1 DEF Unused
  <2> HIDE DEF x
  <2> QED BY <2>1 DEF IsTransaction
<1>4. MarketInv' /\ Grows(tx, book, tx', book') /\ tx'[s] = x
  <2> HIDE DEF x
  <2> QED BY <1>2, <1>3, SendGrows
<1> DEFINE d == [c EXCEPT !.pc = "confirm", !.signature = s]
<1>5. /\ IsCancel(d) /\ d.pc = "confirm" /\ d.signature = s /\ d.canceled = c.canceled
      /\ d.groups = c.groups /\ d.i = c.i
  <2> HIDE DEF c
  <2> QED BY <1>1 DEF IsCancel
<1>6. CancelOK(d, tx', book')
  <2>1. CancelOK(c, tx', book')
    BY <1>1, <1>4, CancelStays
  <2> HIDE DEF c, d, x
  <2>2. Group(d) = Group(c)
    BY <1>5 DEF Group
  <2> QED BY <1>3, <1>4, <1>5, <2>1, <2>2 DEF CancelOK
<1>7. cancel' = [cancel EXCEPT ![r] = d]
  BY <1>2
<1> HIDE DEF d
<1> QED BY <1>4, <1>6, <1>7, CancelUpdated

LEMMA SendSettlementsKeeps ==
  ASSUME MarketInv, CancelInv, NEW r \in Cancels, SendSettlements(r)
  PROVE  MarketInv' /\ CancelInv' /\ Grows(tx, book, tx', book')
<1> DEFINE c == cancel[r]
<1>1. CancelOK(c, tx, book) /\ IsCancel(c) /\ c.pc = "settle"
  BY DEF CancelInv, CancelOK, SendSettlements
<1>2. PICK s \in Signatures :
        /\ Send(s, SettleSeveralTransaction)
        /\ cancel' = [cancel EXCEPT ![r] = [c EXCEPT !.pc = "settling", !.signature = s]]
  BY DEF SendSettlements, UpdateCancel
<1>3. /\ IsTransaction(SettleSeveralTransaction) /\ SettleSeveralTransaction.fate = "sent"
      /\ SettleSeveralTransaction.kind = "empty"
  <2>1. SettleSeveralTransaction =
          [kind |-> "empty", fate |-> "sent", order |-> None, orders |-> {}, account |-> None]
    <3>1. SettleSeveralTransaction = [Unused EXCEPT !.kind = "empty", !.fate = "sent"]
      BY DEF SettleSeveralTransaction
    <3> QED BY <3>1 DEF Unused
  <2> QED BY <2>1 DEF IsTransaction
<1>4. MarketInv' /\ Grows(tx, book, tx', book')
  BY <1>2, <1>3, SendGrows
<1> DEFINE d == [c EXCEPT !.pc = "settling", !.signature = s]
<1>5. /\ IsCancel(d) /\ d.pc = "settling" /\ d.canceled = c.canceled
      /\ d.groups = c.groups /\ d.i = c.i
  <2> HIDE DEF c
  <2> QED BY <1>1 DEF IsCancel
<1>6. CancelOK(d, tx', book')
  <2>1. CancelOK(c, tx', book')
    BY <1>1, <1>4, CancelStays
  <2> HIDE DEF c, d
  <2>2. Group(d) = Group(c)
    BY <1>5 DEF Group
  <2> QED BY <1>1, <1>5, <2>1, <2>2 DEF CancelOK
<1>7. cancel' = [cancel EXCEPT ![r] = d]
  BY <1>2
<1> HIDE DEF d
<1> QED BY <1>4, <1>6, <1>7, CancelUpdated

\* the steps that note the outcome of a transaction, or the exception of a call
LEMMA CancelOutcomes ==
  ASSUME MarketInv, CancelInv, NEW r \in Cancels, NEW e,
         \/ CancelConfirmed(r) \/ ReadFreeFunds(r) \/ SettlementsConfirmed(r) \/ CancelThrows(r, e)
  PROVE  CancelInv'
<1> DEFINE c == cancel[r]
<1>1. Grows(tx, book, tx', book') /\ UNCHANGED <<tx, book>>
  BY MarketUnchanged
  DEF CancelConfirmed, ReadFreeFunds, SettlementsConfirmed, CancelThrows, marketVars
<1>2. CancelOK(c, tx, book) /\ IsCancel(c)
  BY DEF CancelInv, CancelOK
<1>3. ASSUME NEW d, CancelOK(d, tx, book), cancel' = [cancel EXCEPT ![r] = d] PROVE CancelInv'
  BY <1>1, <1>3, CancelUpdated
<1>4. CancelOK(Pending(c), tx, book)
  <2> HIDE DEF c
  <2> QED BY <1>2, PendingOK
<1>5. CASE CancelConfirmed(r)
  <2> DEFINE d == [c EXCEPT !.pc = "funds", !.tries = 0, !.signature = None]
  <2>1. c.pc = "confirm" /\ tx[c.signature].fate = "ok" /\ cancel' = [cancel EXCEPT ![r] = d]
    BY <1>5 DEF CancelConfirmed, UpdateCancel
  <2>2. \A b \in Group(c) : Gone(b, tx, book)
    <3> HIDE DEF c
    <3> QED BY <1>2, <2>1 DEF CancelOK, MarketInv
  <2>3. IsCancel(d) /\ d.pc = "funds" /\ d.canceled = c.canceled /\ d.groups = c.groups /\ d.i = c.i
    <3> HIDE DEF c
    <3> QED BY <1>2 DEF IsCancel
  <2>4. CancelOK(d, tx, book)
    <3> HIDE DEF c, d
    <3>1. Group(d) = Group(c)
      BY <2>3 DEF Group
    <3> QED BY <1>2, <2>2, <2>3, <3>1 DEF CancelOK
  <2> HIDE DEF d
  <2> QED BY <1>3, <2>1, <2>4
<1>6. ASSUME c.pc \in {"funds", "settle", "settling"}
      PROVE  /\ CancelOK(Canceled(c), tx, book)
             /\ CancelOK([c EXCEPT !.pc = "settle"], tx, book)
             /\ CancelOK([c EXCEPT !.pc = "settle", !.tries = @ + 1], tx, book)
  <2> HIDE DEF c
  <2>1. \A b \in Group(c) : Gone(b, tx, book)
    BY <1>2, <1>6 DEF CancelOK
  <2>2. CancelOK(Canceled(c), tx, book)
    BY <1>2, <2>1, CanceledOK
  <2>3. ASSUME NEW d, IsCancel(d), d.pc = "settle", d.canceled = c.canceled, d.groups = c.groups, d.i = c.i
        PROVE  CancelOK(d, tx, book)
    <3>1. Group(d) = Group(c)
      BY <2>3 DEF Group
    <3> QED BY <1>2, <2>1, <2>3, <3>1 DEF CancelOK
  <2> DEFINE d1 == [c EXCEPT !.pc = "settle"]
             d2 == [c EXCEPT !.pc = "settle", !.tries = @ + 1]
  <2>4. IsCancel(d1) /\ d1.pc = "settle" /\ d1.canceled = c.canceled /\ d1.groups = c.groups /\ d1.i = c.i
    BY <1>2 DEF IsCancel
  <2>5. IsCancel(d2) /\ d2.pc = "settle" /\ d2.canceled = c.canceled /\ d2.groups = c.groups /\ d2.i = c.i
    BY <1>2 DEF IsCancel
  <2>6. CancelOK(d1, tx, book) /\ CancelOK(d2, tx, book)
    <3> HIDE DEF d1, d2
    <3> QED BY <2>3, <2>4, <2>5
  <2> QED BY <2>2, <2>6
<1>7. CASE ReadFreeFunds(r) \/ SettlementsConfirmed(r)
  <2>1. c.pc \in {"funds", "settling"}
        /\ \/ cancel' = [cancel EXCEPT ![r] = Canceled(c)]
           \/ cancel' = [cancel EXCEPT ![r] = [c EXCEPT !.pc = "settle"]]
    BY <1>7 DEF ReadFreeFunds, SettlementsConfirmed, UpdateCancel
  <2> HIDE DEF c
  <2> QED BY <1>3, <1>6, <2>1
<1>8. CASE CancelThrows(r, e)
  <2> DEFINE again == [c EXCEPT !.pc = "cancel", !.tries = @ + 1]
             settle_again == [c EXCEPT !.pc = "settle", !.tries = @ + 1]
             failed == Failed([c EXCEPT !.groups = <<>>])
  <2>1. \/ cancel' = [cancel EXCEPT ![r] = again]
        \/ c.pc \in {"settle", "settling"} /\ cancel' = [cancel EXCEPT ![r] = settle_again]
        \/ cancel' = [cancel EXCEPT ![r] = Pending(c)]
        \/ cancel' = [cancel EXCEPT ![r] = failed]
    BY <1>8 DEF CancelThrows, UpdateCancel
  <2>2. IsCancel(again) /\ again.pc = "cancel" /\ again.canceled = c.canceled
    <3> HIDE DEF c
    <3> QED BY <1>2 DEF IsCancel
  <2>3. IsCancel(failed) /\ failed.pc = "failed" /\ failed.canceled = c.canceled
    <3> HIDE DEF c
    <3> QED BY <1>2 DEF IsCancel, Failed
  <2>4. CancelOK(again, tx, book) /\ CancelOK(failed, tx, book)
    <3> HIDE DEF c, again, failed
    <3> QED BY <1>2, <2>2, <2>3, CancelMoves
  <2> HIDE DEF c, again, failed
  <2> QED BY <1>3, <1>4, <1>6, <2>1, <2>4
<1> QED BY <1>5, <1>7, <1>8

-----------------------------------------------------------------------------
(* All together                                                            *)

LEMMA SendSettleGrows ==
  ASSUME MarketInv, NEW r \in Settles, SendSettle(r)
  PROVE  MarketInv' /\ Grows(tx, book, tx', book')
<1> DEFINE a == SettlingAccount(settle[r])
           x == SettleTransaction(a)
<1>1. PICK s \in Signatures : Send(s, x)
  BY DEF SendSettle
<1> HIDE DEF a
<1>2. x = [kind |-> "settle", fate |-> "sent", order |-> None, orders |-> {}, account |-> a]
  <2>1. x = [Unused EXCEPT !.kind = "settle", !.fate = "sent", !.account = a]
    BY DEF SettleTransaction
  <2> HIDE DEF x
  <2> QED BY <2>1 DEF Unused
<1> HIDE DEF x
<1>3. IsTransaction(x) /\ x.fate = "sent" /\ x.kind = "settle"
  BY <1>2 DEF IsTransaction
<1> QED BY <1>1, <1>3, SendGrows

LEMMA CreateInitial == Init => CreateInv
<1> SUFFICES ASSUME Init PROVE CreateInv
  OBVIOUS
<1> DEFINE c == [pc |-> "idle", owner |-> None, batch |-> <<>>, i |-> 1, tries |-> 0, found |-> {},
                 signature |-> None, created |-> [k \in ClientIds |-> NoAnswer]]
<1>1. create = [r \in Creates |-> c]
  BY DEF Init
<1>2. NoAnswer.status = "none"
      /\ NoAnswer \in [status : {"none", "OPEN", "CREATION_PENDING"}, signature : Signatures \cup {None}]
  BY DEF NoAnswer
<1>3. c \in CreateRecords
  BY <1>2 DEF CreateRecords
<1>4. CreateOK(c, tx)
  <2>1. c.pc = "idle" /\ c.i = 1 /\ \A k \in ClientIds : c.created[k].status = "none"
    BY <1>2
  <2> HIDE DEF c
  <2> QED BY <1>3, <2>1 DEF CreateOK
<1> HIDE DEF c
<1> QED BY <1>1, <1>3, <1>4 DEF CreateInv

LEMMA CancelInitial == Init => CancelInv
<1> SUFFICES ASSUME Init PROVE CancelInv
  OBVIOUS
<1> DEFINE c == [pc |-> "idle", method |-> "cancelOrder", owner |-> None, targets |-> <<>>, groups |-> <<>>,
                 i |-> 1, tries |-> 0, signature |-> None, canceled |-> {}, pending |-> {}]
<1>1. cancel = [r \in Cancels |-> c]
  BY DEF Init
<1>2. IsCancel(c) /\ c.pc = "idle" /\ c.canceled = {}
  BY DEF IsCancel
<1> HIDE DEF c
<1>3. CancelOK(c, tx, book)
  BY <1>2 DEF CancelOK
<1> QED BY <1>1, <1>3 DEF CancelInv

\* the steps of every actor, seen by the others
LEMMA CreatesKeep ==
  ASSUME OrdersInv, CancelInv, NEW r \in Creates, CreateArrives(r) \/ CreateSteps(r)
  PROVE  OrdersInv' /\ CancelInv'
<1>1. UNCHANGED cancel
  BY DEF CreateArrives, CreateSteps, FindAccounts, SendOrder, OrderConfirmed, CreateThrows, UpdateCreate
<1>2. CASE SendOrder(r)
  BY <1>1, <1>2, SendOrderKeeps, CancelKept
<1>3. CASE ~SendOrder(r)
  <2>1. UNCHANGED marketVars
    BY <1>3 DEF CreateArrives, CreateSteps, FindAccounts, OrderConfirmed, CreateThrows
  <2>2. CreateInv'
    BY <1>3, CreateArrivesKeeps, FindAccountsKeeps, OrderConfirmedKeeps, CreateThrowsKeeps DEF CreateSteps
  <2> QED BY <1>1, <2>1, <2>2, MarketUnchanged, CancelKept DEF OrdersInv
<1> QED BY <1>2, <1>3

LEMMA CancelsKeep ==
  ASSUME OrdersInv, CancelInv, NEW r \in Cancels, CancelArrives(r) \/ CancelSteps(r)
  PROVE  OrdersInv' /\ CancelInv'
<1>1. UNCHANGED create
  BY DEF CancelArrives, CancelSteps, ReadOpenOrders, ReadOpenOrder, SkipGroup, SendCancel, CancelConfirmed,
         ReadFreeFunds, SendSettlements, SettlementsConfirmed, CancelThrows, UpdateCancel
<1>2. CASE SendCancel(r) \/ SendSettlements(r)
  BY <1>1, <1>2, SendCancelKeeps, SendSettlementsKeeps, CreateKept DEF OrdersInv
<1>3. CASE ~(SendCancel(r) \/ SendSettlements(r))
  <2>1. UNCHANGED marketVars
    BY <1>3 DEF CancelArrives, CancelSteps, ReadOpenOrders, ReadOpenOrder, SkipGroup, CancelConfirmed,
                ReadFreeFunds, SettlementsConfirmed, CancelThrows
  <2>2. CancelInv'
    BY <1>3, CancelReads, CancelOutcomes DEF CancelSteps, OrdersInv
  <2> QED BY <1>1, <2>1, <2>2, MarketUnchanged, CreateKept DEF OrdersInv
<1> QED BY <1>2, <1>3

LEMMA OthersKeep ==
  ASSUME OrdersInv, CancelInv, UNCHANGED <<create, cancel>>,
         \/ UNCHANGED marketVars
         \/ \E r \in Settles : SendSettle(r)
         \/ Cluster
  PROVE  OrdersInv' /\ CancelInv'
<1>1. MarketInv' /\ Grows(tx, book, tx', book')
  BY MarketUnchanged, SendSettleGrows, ClusterGrows DEF OrdersInv
<1> QED BY <1>1, CreateKept, CancelKept DEF OrdersInv

LEMMA OrdersInvariant == Spec => [](OrdersInv /\ CancelInv)
<1>1. Init => OrdersInv /\ CancelInv
  BY MarketInitial, CreateInitial, CancelInitial DEF Init, OrdersInv
<1>2. OrdersInv /\ CancelInv /\ [Next]_vars => (OrdersInv /\ CancelInv)'
  <2> SUFFICES ASSUME OrdersInv, CancelInv, [Next]_vars PROVE OrdersInv' /\ CancelInv'
    OBVIOUS
  <2>1. ASSUME NEW r \in Settles, SettleArrives(r) \/ SettleSteps(r) PROVE OrdersInv' /\ CancelInv'
    BY <2>1, OthersKeep
    DEF SettleArrives, SettleSteps, ReadFundsToSettle, SendSettle, SettleConfirmed, SettleThrows, UpdateSettle
  <2>2. ASSUME NEW r \in Lookups, LookupArrives(r) \/ LookupSteps(r) PROVE OrdersInv' /\ CancelInv'
    BY <2>2, OthersKeep
    DEF LookupArrives, LookupSteps, GetOpenOrder, GetFilledOrder, Find, LookupThrows, UpdateLookup
  <2>3. ASSUME UNCHANGED <<marketVars, create, cancel>> PROVE OrdersInv' /\ CancelInv'
    BY <2>3, OthersKeep
  <2>4. ASSUME Cluster, UNCHANGED requestVars PROVE OrdersInv' /\ CancelInv'
    BY <2>4, OthersKeep DEF requestVars
  <2>5. CASE Arrive
    BY <2>1, <2>2, <2>3, <2>5, CreatesKeep, CancelsKeep DEF Arrive
  <2>6. CASE Next /\ ~Arrive
    BY <2>1, <2>2, <2>3, <2>4, <2>6, CreatesKeep, CancelsKeep DEF Next
  <2>7. CASE UNCHANGED vars
    BY <2>3, <2>7 DEF vars, requestVars
  <2> QED BY <2>5, <2>6, <2>7
<1> QED BY <1>1, <1>2, PTL DEF Spec

(* createOrder: an answer OPEN names an executed order, for any number of  *)
(* candidates, tries and other requests.                                   *)
THEOREM OpenPlaced == Spec => []OpenWasPlaced
<1>1. CreateInv => OpenWasPlaced
  BY SerumAssumption DEF CreateInv, CreateOK, Places, OpenWasPlaced
<1> QED BY <1>1, OrdersInvariant, PTL DEF OrdersInv

(* cancelOrder: an order that is answered CANCELED never comes back,       *)
(* whatever transactions of whoever are still under way.                   *)
THEOREM CanceledGone == Spec => []CanceledIsGone
<1>1. CancelInv => CanceledIsGone
  BY DEF CancelInv, CancelOK, Gone, CanceledIsGone
<1> QED BY <1>1, OrdersInvariant, PTL

-----------------------------------------------------------------------------
(* Requests that settle funds                                              *)

IsSettle(c) ==
  c \in [pc : {c.pc}, owner : {c.owner}, left : {c.left}, tries : {c.tries}, signature : {c.signature},
         found : {c.found}, used : {c.used}]

\* the cluster executed a settlement of a with one of those signatures
Settled(a, used, t) ==
  \E s \in used : t[s].kind = "settle" /\ t[s].account = a /\ t[s].fate = "ok"

\* what the request waits for is its own settlement of the next account
SettleOK(c, t) ==
  /\ IsSettle(c) /\ c.used \subseteq Signatures
  /\ c.pc \in {"idle", "funds"} => c.left = {} /\ c.found = {}
  /\ c.pc \in {"settle", "settling"} => c.left # {}
  /\ c.pc = "settling" =>
       /\ c.signature \in c.used
       /\ t[c.signature].kind = "settle" /\ t[c.signature].account = SettlingAccount(c)
  /\ c.pc = "answered" => c.left = {}
  /\ \A a \in c.found : a \in c.left \/ Settled(a, c.used, t)

SettleInv == settle = [r \in Settles |-> settle[r]] /\ \A r \in Settles : SettleOK(settle[r], tx)

LEMMA SettleStays ==
  ASSUME NEW t, NEW m, NEW t2, NEW m2, Grows(t, m, t2, m2), NEW c, SettleOK(c, t)
  PROVE  SettleOK(c, t2)
<1>1. ASSUME NEW a, Settled(a, c.used, t) PROVE Settled(a, c.used, t2)
  BY <1>1 DEF Settled, SettleOK, Grows
<1>2. c.pc = "settling" => t2[c.signature].kind = "settle" /\ t2[c.signature].account = SettlingAccount(c)
  BY DEF SettleOK, Grows
<1> QED BY <1>1, <1>2 DEF SettleOK

\* a step that changes neither what is left nor what was found and sent
LEMMA SettleGoesOn ==
  ASSUME NEW c, NEW t, SettleOK(c, t), NEW d, IsSettle(d),
         d.left = c.left, d.found = c.found, d.used = c.used,
         \/ d.pc = "failed"
         \/ d.pc = "settle" /\ c.left # {}
         \/ d.pc = "funds" /\ c.pc = "idle"
  PROVE  SettleOK(d, t)
  BY DEF SettleOK

\* an account less, or the first look at them
LEMMA SettleNextOK ==
  ASSUME NEW c, NEW t, IsSettle(c), c.used \subseteq Signatures,
         \A a \in c.found : a \in c.left \/ Settled(a, c.used, t)
  PROVE  SettleOK(SettleNext(c), t)
<1> DEFINE d == SettleNext(c)
<1>1. /\ IsSettle(d) /\ d.left = c.left /\ d.found = c.found /\ d.used = c.used
      /\ d.pc = IF c.left = {} THEN "answered" ELSE "settle"
  BY DEF IsSettle, SettleNext
<1> HIDE DEF d
<1>2. SettleOK(d, t)
  BY <1>1 DEF SettleOK
<1> QED BY <1>2 DEF d

LEMMA SendSettleKeeps ==
  ASSUME MarketInv, SettleInv, NEW r \in Settles, SendSettle(r)
  PROVE  SettleInv'
<1> DEFINE c == settle[r]
<1>1. SettleOK(c, tx) /\ c.pc = "settle"
  BY DEF SettleInv, SendSettle
<1>2. PICK s \in Signatures :
        /\ Send(s, SettleTransaction(SettlingAccount(c)))
        /\ settle' = [settle EXCEPT ![r] = [c EXCEPT !.pc = "settling", !.signature = s, !.used = @ \cup {s}]]
  BY DEF SendSettle, UpdateSettle
<1> DEFINE d == [c EXCEPT !.pc = "settling", !.signature = s, !.used = @ \cup {s}]
           x == SettleTransaction(SettlingAccount(c))
<1>3. /\ IsSettle(d) /\ d.pc = "settling" /\ d.signature = s /\ d.used = c.used \cup {s}
      /\ d.left = c.left /\ d.found = c.found
  <2> HIDE DEF c
  <2> QED BY <1>1 DEF SettleOK, IsSettle
<1>4. Grows(tx, book, tx', book')
  BY SendSettleGrows
<1>5. tx'[s].kind = "settle" /\ tx'[s].account = SettlingAccount(c)
  <2> DEFINE a == SettlingAccount(c)
  <2>1. x = [Unused EXCEPT !.kind = "settle", !.fate = "sent", !.account = a]
    BY DEF SettleTransaction
  <2> HIDE DEF x, a
  <2>2. x.kind = "settle" /\ x.account = a
    BY <2>1 DEF Unused
  <2>3. tx'[s] = x
    BY <1>2 DEF Send, MarketInv, x, a
  <2> QED BY <2>2, <2>3 DEF a
<1>6. SettlingAccount(d) = SettlingAccount(c)
  <2> HIDE DEF d
  <2> QED BY <1>3 DEF SettlingAccount
<1> HIDE DEF d, x
<1>7. SettleOK(d, tx')
  <2>1. SettleOK(c, tx')
    BY <1>1, <1>4, SettleStays
  <2>2. \A a \in c.found : a \in c.left \/ Settled(a, d.used, tx')
    BY <1>3, <2>1 DEF SettleOK, Settled
  <2> HIDE DEF c
  <2> QED BY <1>1, <1>3, <1>5, <1>6, <2>1, <2>2 DEF SettleOK
<1>8. \A q \in Settles : SettleOK(settle[q], tx')
  BY <1>4, SettleStays DEF SettleInv
<1>9. settle' = [settle EXCEPT ![r] = d]
  BY <1>2 DEF d
<1> HIDE DEF c
<1> QED BY <1>7, <1>8, <1>9 DEF SettleInv

\* the other steps of a request: the market stays as it is
LEMMA SettleStep ==
  ASSUME SettleInv, NEW r \in Settles,
         SettleArrives(r) \/ ReadFundsToSettle(r) \/ SettleConfirmed(r) \/ SettleThrows(r)
  PROVE  SettleInv'
<1> DEFINE c == settle[r]
<1>1. SettleOK(c, tx) /\ IsSettle(c)
  BY DEF SettleInv, SettleOK
<1>2. UNCHANGED tx
  BY DEF SettleArrives, ReadFundsToSettle, SettleConfirmed, SettleThrows, marketVars
<1>3. ASSUME NEW d, SettleOK(d, tx), settle' = [settle EXCEPT ![r] = d]
      PROVE  SettleInv'
  BY <1>2, <1>3 DEF SettleInv
<1>4. CASE SettleArrives(r)
  <2>1. PICK o : settle' = [settle EXCEPT ![r] = [c EXCEPT !.pc = "funds", !.owner = o]]
    BY <1>4 DEF SettleArrives, UpdateSettle
  <2> DEFINE d == [c EXCEPT !.pc = "funds", !.owner = o]
  <2>2. c.pc = "idle"
    BY <1>4 DEF SettleArrives
  <2>3. IsSettle(d) /\ d.pc = "funds" /\ d.left = c.left /\ d.found = c.found /\ d.used = c.used
    <3> HIDE DEF c
    <3> QED BY <1>1 DEF IsSettle
  <2>4. SettleOK(d, tx)
    <3> HIDE DEF c, d
    <3> QED BY <1>1, <2>2, <2>3, SettleGoesOn
  <2> HIDE DEF d
  <2> QED BY <1>3, <2>1, <2>4 DEF d
<1>5. CASE ReadFundsToSettle(r)
  <2> DEFINE left == free \cap AccountsOf(c.owner)
             e == [c EXCEPT !.left = left, !.found = left]
  <2>1. settle' = [settle EXCEPT ![r] = SettleNext(e)]
    BY <1>5 DEF ReadFundsToSettle, UpdateSettle
  <2>2. IsSettle(e) /\ e.left = left /\ e.found = left /\ e.used = c.used
    <3> HIDE DEF c, left
    <3> QED BY <1>1 DEF IsSettle
  <2>3. SettleOK(SettleNext(e), tx)
    <3> HIDE DEF c, e, left
    <3> QED BY <1>1, <2>2, SettleNextOK DEF SettleOK
  <2> HIDE DEF e
  <2> QED BY <1>3, <2>1, <2>3
<1>6. CASE SettleConfirmed(r)
  <2> DEFINE left == c.left \ {SettlingAccount(c)}
             e == [c EXCEPT !.left = left]
  <2>1. /\ c.pc = "settling" /\ tx[c.signature].fate = "ok"
        /\ settle' = [settle EXCEPT ![r] = SettleNext(e)]
    BY <1>1, <1>6 DEF SettleConfirmed, UpdateSettle, IsSettle
  <2>2. IsSettle(e) /\ e.left = left /\ e.found = c.found /\ e.used = c.used
    <3> HIDE DEF c, left
    <3> QED BY <1>1 DEF IsSettle
  <2>3. Settled(SettlingAccount(c), c.used, tx)
    <3> HIDE DEF c
    <3> QED BY <1>1, <2>1 DEF SettleOK, Settled
  <2>4. \A a \in e.found : a \in e.left \/ Settled(a, e.used, tx)
    <3> HIDE DEF c, e
    <3> QED BY <1>1, <2>2, <2>3 DEF SettleOK
  <2>5. SettleOK(SettleNext(e), tx)
    <3> HIDE DEF c, e, left
    <3> QED BY <1>1, <2>2, <2>4, SettleNextOK DEF SettleOK
  <2> HIDE DEF e
  <2> QED BY <1>3, <2>1, <2>5
<1>7. CASE SettleThrows(r)
  <2> DEFINE again == [c EXCEPT !.pc = "settle", !.tries = @ + 1]
  <2>1. /\ c.pc \in {"funds", "settle", "settling"}
        /\ \/ c.pc # "funds" /\ settle' = [settle EXCEPT ![r] = again]
           \/ settle' = [settle EXCEPT ![r] = Failed(c)]
    BY <1>7 DEF SettleThrows, UpdateSettle
  <2>2. /\ IsSettle(again) /\ again.pc = "settle"
        /\ again.left = c.left /\ again.found = c.found /\ again.used = c.used
    <3> HIDE DEF c
    <3> QED BY <1>1 DEF IsSettle
  <2>3. /\ IsSettle(Failed(c)) /\ Failed(c).pc = "failed"
        /\ Failed(c).left = c.left /\ Failed(c).found = c.found /\ Failed(c).used = c.used
    <3> HIDE DEF c
    <3> QED BY <1>1 DEF IsSettle, Failed
  <2>4. SettleOK(Failed(c), tx)
    <3> HIDE DEF c
    <3> QED BY <1>1, <2>3, SettleGoesOn
  <2>5. c.pc # "funds" => SettleOK(again, tx)
    <3> HIDE DEF again, c
    <3> QED BY <1>1, <2>1, <2>2, SettleGoesOn DEF SettleOK
  <2> HIDE DEF again
  <2> QED BY <1>3, <2>1, <2>4, <2>5
<1> QED BY <1>4, <1>5, <1>6, <1>7

LEMMA OthersLeaveSettle ==
  ASSUME [Next]_vars, ~ \E r \in Settles : SettleArrives(r) \/ SettleSteps(r)
  PROVE  UNCHANGED settle
<1>1. ASSUME NEW r \in Creates, CreateArrives(r) \/ CreateSteps(r) PROVE UNCHANGED settle
  BY <1>1 DEF CreateArrives, CreateSteps, FindAccounts, SendOrder, OrderConfirmed, CreateThrows, UpdateCreate
<1>2. ASSUME NEW r \in Cancels, CancelArrives(r) \/ CancelSteps(r) PROVE UNCHANGED settle
  BY <1>2
  DEF CancelArrives, CancelSteps, ReadOpenOrders, ReadOpenOrder, SkipGroup, SendCancel, CancelConfirmed,
      ReadFreeFunds, SendSettlements, SettlementsConfirmed, CancelThrows, UpdateCancel
<1>3. ASSUME NEW r \in Lookups, LookupArrives(r) \/ LookupSteps(r) PROVE UNCHANGED settle
  BY <1>3 DEF LookupArrives, LookupSteps, GetOpenOrder, GetFilledOrder, Find, LookupThrows, UpdateLookup
<1>4. CASE Arrive
  BY <1>1, <1>2, <1>3, <1>4 DEF Arrive
<1>5. CASE Next /\ ~Arrive
  BY <1>1, <1>2, <1>3, <1>5 DEF Next, requestVars
<1>6. CASE UNCHANGED vars
  BY <1>6 DEF vars, requestVars
<1> QED BY <1>4, <1>5, <1>6

\* what any step does to the market, whoever takes it
MarketStep ==
  \/ UNCHANGED marketVars
  \/ \E s \in Signatures : \E x : Send(s, x)
  \/ Cluster

LEMMA StepsOfTheMarket ==
  ASSUME [Next]_vars
  PROVE  MarketStep
<1>1. ASSUME NEW r \in Creates, CreateArrives(r) \/ CreateSteps(r) PROVE MarketStep
  BY <1>1 DEF CreateArrives, CreateSteps, FindAccounts, SendOrder, OrderConfirmed, CreateThrows, MarketStep
<1>2. ASSUME NEW r \in Cancels, CancelArrives(r) \/ CancelSteps(r) PROVE MarketStep
  BY <1>2
  DEF CancelArrives, CancelSteps, ReadOpenOrders, ReadOpenOrder, SkipGroup, SendCancel, CancelConfirmed,
      ReadFreeFunds, SendSettlements, SettlementsConfirmed, CancelThrows, MarketStep
<1>3. ASSUME NEW r \in Settles, SettleArrives(r) \/ SettleSteps(r) PROVE MarketStep
  BY <1>3
  DEF SettleArrives, SettleSteps, ReadFundsToSettle, SendSettle, SettleConfirmed, SettleThrows, MarketStep
<1>4. ASSUME NEW r \in Lookups, LookupArrives(r) \/ LookupSteps(r) PROVE MarketStep
  BY <1>4 DEF LookupArrives, LookupSteps, GetOpenOrder, GetFilledOrder, Find, LookupThrows, UpdateLookup, MarketStep
<1>5. CASE Arrive
  BY <1>1, <1>2, <1>3, <1>4, <1>5 DEF Arrive, MarketStep
<1>6. CASE Next /\ ~Arrive
  BY <1>1, <1>2, <1>3, <1>4, <1>6 DEF Next, MarketStep
<1>7. CASE UNCHANGED vars
  BY <1>7 DEF vars, MarketStep
<1> QED BY <1>5, <1>6, <1>7

LEMMA MarketGrows ==
  ASSUME MarketInv, MarketStep
  PROVE  Grows(tx, book, tx', book') /\ fills' \subseteq fills \cup book /\ accounts \subseteq accounts'
<1>1. CASE UNCHANGED marketVars
  BY <1>1, NothingGrows DEF marketVars
<1>2. ASSUME NEW s \in Signatures, NEW x, Send(s, x)
      PROVE  Grows(tx, book, tx', book') /\ UNCHANGED <<accounts, fills>>
  <2>1. tx' = [tx EXCEPT ![s] = x] /\ tx[s].kind = "none" /\ tx[s].fate = "none"
        /\ UNCHANGED <<accounts, book, fills>>
    BY <1>2 DEF Send, MarketInv
  <2>2. \A u \in Signatures : u # s => tx'[u] = tx[u]
    BY <2>1 DEF MarketInv
  <2> QED BY <2>1, <2>2 DEF Grows
<1>3. CASE Cluster
  <2>1. ASSUME NEW s \in Signatures, Execute(s) PROVE UNCHANGED fills /\ accounts \subseteq accounts'
    BY <2>1 DEF Execute, ExecutePlace, ExecuteCancel, ExecuteSettle, ExecuteEmpty
  <2>2. ASSUME NEW o \in book, Fill(o) PROVE fills' \subseteq fills \cup book /\ UNCHANGED accounts
    BY <2>2 DEF Fill
  <2>3. ASSUME NEW o \in fills, Consume(o) PROVE fills' \subseteq fills /\ UNCHANGED accounts
    BY <2>3 DEF Consume
  <2> QED BY <1>3, <2>1, <2>2, <2>3, ClusterGrows DEF Cluster
<1> QED BY <1>1, <1>2, <1>3 DEF MarketStep

LEMMA SettleKeeps ==
  ASSUME MarketInv, SettleInv, [Next]_vars
  PROVE  SettleInv'
<1>1. ASSUME NEW r \in Settles, SettleArrives(r) \/ SettleSteps(r) PROVE SettleInv'
  BY <1>1, SendSettleKeeps, SettleStep DEF SettleSteps
<1>2. CASE UNCHANGED settle
  <2>1. Grows(tx, book, tx', book')
    BY StepsOfTheMarket, MarketGrows
  <2>2. \A q \in Settles : SettleOK(settle[q], tx')
    BY <2>1, SettleStays DEF SettleInv
  <2> QED BY <1>2, <2>2 DEF SettleInv
<1> QED BY <1>1, <1>2, OthersLeaveSettle

LEMMA SettleInvariant == Spec => []SettleInv
<1>1. Init => SettleInv
  <2> SUFFICES ASSUME Init PROVE SettleInv
    OBVIOUS
  <2> DEFINE c == [pc |-> "idle", owner |-> None, left |-> {}, tries |-> 0, signature |-> None,
                   found |-> {}, used |-> {}]
  <2>1. settle = [r \in Settles |-> c]
    BY DEF Init
  <2>2. IsSettle(c) /\ c.pc = "idle" /\ c.left = {} /\ c.found = {} /\ c.used = {}
    BY DEF IsSettle
  <2> HIDE DEF c
  <2>3. SettleOK(c, tx)
    BY <2>2 DEF SettleOK
  <2> QED BY <2>1, <2>3 DEF SettleInv
<1>2. MarketInv /\ SettleInv /\ [Next]_vars => SettleInv'
  BY SettleKeeps
<1>3. OrdersInv => MarketInv
  BY DEF OrdersInv
<1> QED BY <1>1, <1>2, <1>3, OrdersInvariant, PTL DEF Spec

(* settleFunds: an answer means that the cluster executed, for every       *)
(* account the request found, a settlement this very request sent,         *)
(* whatever exceptions and retries come before and whatever others send.   *)
THEOREM SettlesAreComplete == Spec => []SettlesComplete
<1>1. SettleInv => SettlesComplete
  BY DEF SettleInv, SettleOK, Settled, SettlesComplete
<1> QED BY <1>1, SettleInvariant, PTL

-----------------------------------------------------------------------------
(* Requests that look up an order                                          *)

IsLookup(c) ==
  c \in [pc : {c.pc}, owner : {c.owner}, target : {c.target}, order : {c.order}, seen : {c.seen}]

\* The orders a lookup is about were executed, so they cannot come back to
\* the book; off the book they cannot be filled; and while one is on the book
\* getOpenOrder finds it, because its account is there to be found.
LookupOK(c, t, m, f, found) ==
  /\ IsLookup(c)
  /\ c.pc # "idle" => \A b \in c.seen :
       /\ b.id \in Signatures /\ t[b.id].fate = "ok"
       /\ Matches(OpenOrder(b), c.target) /\ b.account \in found /\ b.account.owner = c.owner
  /\ c.pc \in {"filled", "missing"} => \A b \in c.seen : b \notin m
  /\ c.pc = "missing" => \A b \in c.seen : b.id = c.target.exchangeId => b \notin f

LookupInv ==
  /\ lookup = [r \in Lookups |-> lookup[r]]
  /\ \A r \in Lookups : LookupOK(lookup[r], tx, book, fills, accounts)

LEMMA LookupStays ==
  ASSUME NEW t, NEW m, NEW f, NEW a, NEW t2, NEW m2, NEW f2, NEW a2,
         Grows(t, m, t2, m2), f2 \subseteq f \cup m, a \subseteq a2,
         NEW c, LookupOK(c, t, m, f, a)
  PROVE  LookupOK(c, t2, m2, f2, a2)
<1>1. ASSUME NEW b \in c.seen, b.id \in Signatures, t[b.id].fate = "ok"
      PROVE  t2[b.id].fate = "ok" /\ (b \notin m => b \notin m2)
  BY <1>1 DEF Grows
<1> QED BY <1>1 DEF LookupOK

\* what the steps of one request make of its record
LEMMA LookupStep ==
  ASSUME MarketInv, LookupInv, NEW r \in Lookups, LookupArrives(r) \/ LookupSteps(r)
  PROVE  /\ UNCHANGED marketVars
         /\ \E d : LookupOK(d, tx, book, fills, accounts) /\ lookup' = [lookup EXCEPT ![r] = d]
<1> DEFINE c == lookup[r]
<1>1. LookupOK(c, tx, book, fills, accounts) /\ IsLookup(c)
  BY DEF LookupInv, LookupOK
<1>2. UNCHANGED marketVars
  BY DEF LookupArrives, LookupSteps, GetOpenOrder, GetFilledOrder, Find, LookupThrows, UpdateLookup
<1>3. CASE LookupArrives(r)
  <2>1. PICK o \in Owners, k \in ClientIds \cup {None}, x \in Placed \cup {None} :
          lookup' = [lookup EXCEPT ![r] =
            [c EXCEPT !.pc = "open", !.owner = o, !.target = [id |-> k, exchangeId |-> x],
                      !.seen = {b \in OrdersOf(o) : Matches(OpenOrder(b), [id |-> k, exchangeId |-> x])}]]
    BY <1>3 DEF LookupArrives, UpdateLookup
  <2> DEFINE target == [id |-> k, exchangeId |-> x]
  <2> DEFINE seen == {b \in OrdersOf(o) : Matches(OpenOrder(b), target)}
             d == [c EXCEPT !.pc = "open", !.owner = o, !.target = target, !.seen = seen]
  <2>2. \A b \in seen : /\ b.id \in Signatures /\ tx[b.id].fate = "ok"
                        /\ Matches(OpenOrder(b), target) /\ b.account \in accounts /\ b.account.owner = o
    BY DEF OrdersOf, AccountsOf, MarketInv
  <2>3. IsLookup(d) /\ d.pc = "open" /\ d.owner = o /\ d.target = target /\ d.seen = seen
    <3> HIDE DEF seen, target, c
    <3> QED BY <1>1 DEF IsLookup
  <2>4. LookupOK(d, tx, book, fills, accounts)
    <3> HIDE DEF seen, target, d
    <3> QED BY <2>2, <2>3 DEF LookupOK
  <2> QED BY <1>2, <2>1, <2>4
<1>4. ASSUME NEW d, IsLookup(d), d.owner = c.owner, d.target = c.target, d.seen = c.seen, c.pc # "idle",
             d.pc \in {"found", "filled", "missing", "failed", "notOpen"},
             lookup' = [lookup EXCEPT ![r] = d],
             d.pc \in {"filled", "missing"} => \A b \in c.seen : b \notin book,
             d.pc = "missing" => \A b \in c.seen : b.id = c.target.exchangeId => b \notin fills
      PROVE  \E e : LookupOK(e, tx, book, fills, accounts) /\ lookup' = [lookup EXCEPT ![r] = e]
  <2> HIDE DEF c
  <2>1. LookupOK(d, tx, book, fills, accounts)
    BY <1>1, <1>4 DEF LookupOK
  <2> QED BY <1>4, <2>1
\* both reads end in an order that matches, or in none
<1>5. ASSUME NEW orders, NEW otherwise \in {"filled", "missing"}, c.pc # "idle",
             Find(r, c, orders, otherwise),
             (~ \E order \in orders : Matches(order, c.target)) =>
               /\ \A b \in c.seen : b \notin book
               /\ otherwise = "missing" => \A b \in c.seen : b.id = c.target.exchangeId => b \notin fills
      PROVE  \E e : LookupOK(e, tx, book, fills, accounts) /\ lookup' = [lookup EXCEPT ![r] = e]
  <2>1. CASE \E order \in orders : Matches(order, c.target)
    <3>1. PICK order \in orders : lookup' = [lookup EXCEPT ![r] = [c EXCEPT !.pc = "found", !.order = order]]
      BY <1>5, <2>1 DEF Find, UpdateLookup
    <3> DEFINE d == [c EXCEPT !.pc = "found", !.order = order]
    <3>2. IsLookup(d) /\ d.pc = "found" /\ d.owner = c.owner /\ d.target = c.target /\ d.seen = c.seen
      <4> HIDE DEF c
      <4> QED BY <1>1 DEF IsLookup
    <3>3. lookup' = [lookup EXCEPT ![r] = d]
      BY <3>1
    <3> HIDE DEF c, d
    <3> QED BY <1>4, <1>5, <3>2, <3>3
  <2>2. CASE ~ \E order \in orders : Matches(order, c.target)
    <3> DEFINE d == [c EXCEPT !.pc = otherwise]
    <3>1. lookup' = [lookup EXCEPT ![r] = d]
      BY <1>5, <2>2 DEF Find, UpdateLookup
    <3>2. IsLookup(d) /\ d.pc = otherwise /\ d.owner = c.owner /\ d.target = c.target /\ d.seen = c.seen
      <4> HIDE DEF c
      <4> QED BY <1>1 DEF IsLookup
    <3> HIDE DEF c, d
    <3> QED BY <1>4, <1>5, <2>2, <3>1, <3>2
  <2> QED BY <2>1, <2>2
<1>6. CASE GetOpenOrder(r)
  <2> DEFINE orders == {OpenOrder(b) : b \in OrdersOf(c.owner)}
  <2>1. c.pc = "open" /\ Find(r, c, orders, "filled")
    BY <1>6 DEF GetOpenOrder
  <2>2. ASSUME ~ \E order \in orders : Matches(order, c.target), NEW b \in c.seen PROVE b \notin book
    <3>1. Matches(OpenOrder(b), c.target) /\ (b \in book => b \in OrdersOf(c.owner))
      BY <1>1, <2>1 DEF LookupOK, OrdersOf, AccountsOf
    <3> HIDE DEF c
    <3> QED BY <2>2, <3>1
  <2> HIDE DEF c, orders
  <2> QED BY <1>2, <1>5, <2>1, <2>2
<1>7. CASE GetFilledOrder(r)
  <2>1. c.pc = "filled" /\ Find(r, c, LoadFills, "missing")
    BY <1>7 DEF GetFilledOrder
  <2>2. ASSUME ~ \E order \in LoadFills : Matches(order, c.target)
        PROVE  /\ \A b \in c.seen : b \notin book
               /\ \A b \in c.seen : b.id = c.target.exchangeId => b \notin fills
    <3>1. \A b \in c.seen : b \notin book
      BY <1>1, <2>1 DEF LookupOK
    <3>2. ASSUME NEW b \in fills PROVE b.id # c.target.exchangeId
      <4>1. FilledOrder(b) \in LoadFills
        BY <3>2 DEF LoadFills
      <4>2. FilledOrder(b).exchangeId # c.target.exchangeId
        <5> HIDE DEF c
        <5> QED BY <2>2, <4>1 DEF Matches
      <4> QED BY <4>2 DEF FilledOrder
    <3> QED BY <3>1, <3>2
  <2> HIDE DEF c
  <2> QED BY <1>2, <1>5, <2>1, <2>2
<1>8. CASE LookupThrows(r)
  <2>1. PICK pc \in {"failed", "notOpen"} : c.pc # "idle" /\ lookup' = [lookup EXCEPT ![r] = [c EXCEPT !.pc = pc]]
    BY <1>8 DEF LookupThrows, UpdateLookup
  <2> DEFINE d == [c EXCEPT !.pc = pc]
  <2>2. IsLookup(d) /\ d.pc = pc /\ d.owner = c.owner /\ d.target = c.target /\ d.seen = c.seen
    <3> HIDE DEF c
    <3> QED BY <1>1 DEF IsLookup
  <2>3. lookup' = [lookup EXCEPT ![r] = d]
    BY <2>1
  <2> HIDE DEF c, d
  <2> QED BY <1>2, <1>4, <2>1, <2>2, <2>3
<1> QED BY <1>3, <1>6, <1>7, <1>8 DEF LookupSteps

LEMMA OthersLeaveLookup ==
  ASSUME [Next]_vars, ~ \E r \in Lookups : LookupArrives(r) \/ LookupSteps(r)
  PROVE  UNCHANGED lookup
<1>1. ASSUME NEW r \in Creates, CreateArrives(r) \/ CreateSteps(r) PROVE UNCHANGED lookup
  BY <1>1 DEF CreateArrives, CreateSteps, FindAccounts, SendOrder, OrderConfirmed, CreateThrows, UpdateCreate
<1>2. ASSUME NEW r \in Cancels, CancelArrives(r) \/ CancelSteps(r) PROVE UNCHANGED lookup
  BY <1>2
  DEF CancelArrives, CancelSteps, ReadOpenOrders, ReadOpenOrder, SkipGroup, SendCancel, CancelConfirmed,
      ReadFreeFunds, SendSettlements, SettlementsConfirmed, CancelThrows, UpdateCancel
<1>3. ASSUME NEW r \in Settles, SettleArrives(r) \/ SettleSteps(r) PROVE UNCHANGED lookup
  BY <1>3 DEF SettleArrives, SettleSteps, ReadFundsToSettle, SendSettle, SettleConfirmed, SettleThrows, UpdateSettle
<1>4. CASE Arrive
  BY <1>1, <1>2, <1>3, <1>4 DEF Arrive
<1>5. CASE Next /\ ~Arrive
  BY <1>1, <1>2, <1>3, <1>5 DEF Next, requestVars
<1>6. CASE UNCHANGED vars
  BY <1>6 DEF vars, requestVars
<1> QED BY <1>4, <1>5, <1>6

LEMMA LookupKeeps ==
  ASSUME MarketInv, LookupInv, [Next]_vars
  PROVE  LookupInv'
<1>1. Grows(tx, book, tx', book') /\ fills' \subseteq fills \cup book /\ accounts \subseteq accounts'
  BY StepsOfTheMarket, MarketGrows
<1>2. ASSUME NEW r \in Lookups, LookupArrives(r) \/ LookupSteps(r) PROVE LookupInv'
  <2>1. PICK d : LookupOK(d, tx, book, fills, accounts) /\ lookup' = [lookup EXCEPT ![r] = d]
    BY <1>2, LookupStep
  <2>2. lookup' = [q \in Lookups |-> lookup'[q]] /\ \A q \in Lookups : lookup'[q] = IF q = r THEN d ELSE lookup[q]
    BY <2>1 DEF LookupInv
  <2>3. \A q \in Lookups : LookupOK(lookup'[q], tx, book, fills, accounts)
    BY <2>1, <2>2 DEF LookupInv
  <2>4. UNCHANGED <<tx, book, fills, accounts>>
    BY <1>2, LookupStep DEF marketVars
  <2> QED BY <2>2, <2>3, <2>4 DEF LookupInv
<1>3. CASE UNCHANGED lookup
  <2>1. \A q \in Lookups : LookupOK(lookup[q], tx', book', fills', accounts')
    BY <1>1, LookupStays DEF LookupInv
  <2> QED BY <1>3, <2>1 DEF LookupInv
<1> QED BY <1>2, <1>3, OthersLeaveLookup

LEMMA LookupInvariant == Spec => []LookupInv
<1>1. Init => LookupInv
  <2> SUFFICES ASSUME Init PROVE LookupInv
    OBVIOUS
  <2> DEFINE c == [pc |-> "idle", owner |-> None, target |-> Nothing, order |-> Nothing, seen |-> {}]
  <2>1. lookup = [r \in Lookups |-> c]
    BY DEF Init
  <2>2. IsLookup(c) /\ c.pc = "idle"
    BY DEF IsLookup
  <2> HIDE DEF c
  <2>3. LookupOK(c, tx, book, fills, accounts)
    BY <2>2 DEF LookupOK
  <2> QED BY <2>1, <2>3 DEF LookupInv
<1>2. MarketInv /\ LookupInv /\ [Next]_vars => LookupInv'
  BY LookupKeeps
<1>3. OrdersInv => MarketInv
  BY DEF OrdersInv
<1> QED BY <1>1, <1>2, <1>3, OrdersInvariant, PTL DEF Spec

(* getOrder: "No order found" is never said of an order that was open when *)
(* the request came and is still on the book, nor, when it is asked for by *)
(* its exchange id, of one whose fill is in the queue, however the trading *)
(* goes on between the two reads.                                          *)
THEOREM MissingGone == Spec => []MissingIsGone
<1>1. LookupInv => MissingIsGone
  BY DEF LookupInv, LookupOK, MissingIsGone
<1> QED BY <1>1, LookupInvariant, PTL

-----------------------------------------------------------------------------
(* How many orders a candidate may become                                  *)

Tries == IF MaxNumberOfRetries = 0 THEN 1 ELSE MaxNumberOfRetries

AtWork == {"find", "send", "confirm"}

\* the tries of the current candidate that have sent their transaction
Sent(c) == c.tries + (IF c.pc = "confirm" THEN 1 ELSE 0)

CallOK(c) ==
  /\ c.pc = "idle" => c.tries = 0 /\ c.batch = <<>>
  /\ c.pc # "idle" => Len(c.batch) \in 1 .. MaxCandidates
  /\ c.pc = "send" => \A a \in c.found : a.owner = c.owner
  /\ c.tries < Tries

\* try n for candidate i of request c placed that order
PlacedBy(c, order, i, n) ==
  /\ c.pc # "idle" /\ i \in 1 .. Len(c.batch) /\ n \in 1 .. Tries
  /\ order.clientId = c.batch[i].clientId /\ order.account.owner = c.owner
  /\ c.pc \in AtWork => i < c.i \/ (i = c.i /\ n <= Sent(c))

\* every order was placed by some try of some candidate of some request, and
\* no two by the same
Attributed(t, requests, of, candidate, try) ==
  /\ \A s \in Signatures : t[s].order # None =>
       of[s] \in Creates /\ PlacedBy(requests[of[s]], t[s].order, candidate[s], try[s])
  /\ \A s, u \in Signatures :
       /\ t[s].order # None /\ t[u].order # None
       /\ of[s] = of[u] /\ candidate[s] = candidate[u] /\ try[s] = try[u]
       => s = u

CopiesInv ==
  /\ \A r \in Creates : CallOK(create[r])
  /\ IsFiniteSet({r \in Creates : create[r].pc # "idle"})
  /\ \E of, candidate, try : Attributed(tx, create, of, candidate, try)

\* a request that goes on keeps what its tries have placed
GoesOn(c, d) ==
  c.pc # "idle" =>
    /\ d.pc # "idle" /\ d.batch = c.batch /\ d.owner = c.owner
    /\ d.pc \in AtWork => c.pc \in AtWork /\ (c.i < d.i \/ (c.i = d.i /\ Sent(c) <= Sent(d)))

LEMMA TriesType == Tries \in Nat /\ Tries >= 1
  BY SerumAssumption DEF Tries

LEMMA PlacedByStays ==
  ASSUME NEW c \in CreateRecords, NEW d \in CreateRecords, GoesOn(c, d),
         NEW order, NEW i, NEW n, PlacedBy(c, order, i, n)
  PROVE  PlacedBy(d, order, i, n)
<1>1. c.i \in Nat /\ d.i \in Nat /\ c.tries \in Nat /\ d.tries \in Nat
  BY DEF CreateRecords
<1>2. Sent(c) \in Nat /\ Sent(d) \in Nat
  BY <1>1 DEF Sent
<1>3. Len(c.batch) \in Nat
  BY DEF CreateRecords
<1> QED BY <1>1, <1>2, <1>3, TriesType DEF GoesOn, PlacedBy

LEMMA ActiveIsFinite ==
  ASSUME CreateInv, IsFiniteSet({q \in Creates : create[q].pc # "idle"}),
         NEW r \in Creates, NEW d, create' = [create EXCEPT ![r] = d]
  PROVE  IsFiniteSet({q \in Creates : create'[q].pc # "idle"})
<1> DEFINE A == {q \in Creates : create[q].pc # "idle"}
           B == {q \in Creates : create'[q].pc # "idle"}
<1>1. IsFiniteSet(A \cup {r})
  BY FS_AddElement
<1>2. \A q \in Creates : q # r => create'[q] = create[q]
  BY DEF CreateInv
<1>3. B \in SUBSET (A \cup {r})
  BY <1>2
<1> HIDE DEF A, B
<1>4. IsFiniteSet(B)
  BY <1>1, <1>3, FS_Subset
<1> QED BY <1>4 DEF B

\* steps that place no order
LEMMA CopiesUpdated ==
  ASSUME CreateInv, CopiesInv, \A s \in Signatures : tx'[s].order # None => tx'[s].order = tx[s].order,
         NEW r \in Creates, NEW d \in CreateRecords, create' = [create EXCEPT ![r] = d],
         CallOK(d), GoesOn(create[r], d)
  PROVE  CopiesInv'
<1>1. PICK of, candidate, try : Attributed(tx, create, of, candidate, try)
  BY DEF CopiesInv
<1>2. \A q \in Creates : create'[q] = IF q = r THEN d ELSE create[q]
  BY DEF CreateInv
<1>3. \A q \in Creates : create[q] \in CreateRecords
  BY DEF CreateInv
<1>4. ASSUME NEW s \in Signatures, tx'[s].order # None
      PROVE  of[s] \in Creates /\ PlacedBy(create'[of[s]], tx'[s].order, candidate[s], try[s])
  <2>1. of[s] \in Creates /\ PlacedBy(create[of[s]], tx'[s].order, candidate[s], try[s])
    BY <1>1, <1>4 DEF Attributed
  <2>2. CASE of[s] = r
    BY <1>2, <1>3, <2>1, <2>2, PlacedByStays
  <2> QED BY <1>2, <2>1, <2>2
<1>5. Attributed(tx', create', of, candidate, try)
  BY <1>1, <1>4 DEF Attributed
<1>6. \A q \in Creates : CallOK(create'[q])
  BY <1>2 DEF CopiesInv
<1>7. IsFiniteSet({q \in Creates : create'[q].pc # "idle"})
  BY ActiveIsFinite DEF CopiesInv
<1>8. \E of2, candidate2, try2 : Attributed(tx', create', of2, candidate2, try2)
  BY <1>5
<1> QED BY <1>6, <1>7, <1>8 DEF CopiesInv

LEMMA CopiesKept ==
  ASSUME CreateInv, CopiesInv, \A s \in Signatures : tx'[s].order # None => tx'[s].order = tx[s].order,
         UNCHANGED create
  PROVE  CopiesInv'
<1>1. PICK of, candidate, try : Attributed(tx, create, of, candidate, try)
  BY DEF CopiesInv
<1>2. Attributed(tx', create, of, candidate, try)
  BY <1>1 DEF Attributed
<1>3. \E of2, candidate2, try2 : Attributed(tx', create', of2, candidate2, try2)
  BY <1>2
<1>4. IsFiniteSet({q \in Creates : create'[q].pc # "idle"})
  BY DEF CopiesInv
<1> QED BY <1>3, <1>4 DEF CopiesInv

LEMMA CreateArrivesCopies ==
  ASSUME OrdersInv, CopiesInv, NEW r \in Creates, CreateArrives(r)
  PROVE  CopiesInv'
<1>1. UNCHANGED tx
  BY DEF CreateArrives, marketVars
<1>2. PICK o \in Owners, batch \in Batches(Candidates, MaxCandidates), pc \in {"find", "failed"} :
        create' = [create EXCEPT ![r] = [create[r] EXCEPT !.pc = pc, !.owner = o, !.batch = batch]]
  BY DEF CreateArrives, UpdateCreate
<1> DEFINE c == create[r]
           d == [c EXCEPT !.pc = pc, !.owner = o, !.batch = batch]
<1>3. c \in CreateRecords /\ c.pc = "idle" /\ CallOK(c)
  BY DEF OrdersInv, CreateInv, CreateArrives, CopiesInv
<1>4. batch \in Seq(Candidates) /\ Len(batch) \in 1 .. MaxCandidates
  <2>1. PICK n \in 1 .. MaxCandidates : batch \in [1 .. n -> Candidates]
    BY DEF Batches
  <2>2. Len(batch) = n
    BY <2>1, SerumAssumption
  <2> QED BY <2>2, BatchesAreSeqs
<1>5. d \in CreateRecords /\ d.pc = pc /\ d.batch = batch /\ d.tries = c.tries
  BY <1>3, <1>4 DEF CreateRecords
<1>6. CallOK(d) /\ GoesOn(c, d)
  <2> HIDE DEF c, d
  <2> QED BY <1>3, <1>4, <1>5 DEF CallOK, GoesOn
<1>7. create' = [create EXCEPT ![r] = d]
  BY <1>2
<1> HIDE DEF d
<1> QED BY <1>1, <1>5, <1>6, <1>7, CopiesUpdated DEF OrdersInv

LEMMA FindAccountsCopies ==
  ASSUME OrdersInv, CopiesInv, NEW r \in Creates, FindAccounts(r)
  PROVE  CopiesInv'
<1> DEFINE c == create[r]
           found == AccountsOf(c.owner)
           d == [c EXCEPT !.pc = "send", !.found = found]
<1>1. UNCHANGED tx
  BY DEF FindAccounts, marketVars
<1>2. create' = [create EXCEPT ![r] = d]
  BY DEF FindAccounts, UpdateCreate
<1>3. c \in CreateRecords /\ c.pc = "find" /\ CallOK(c) /\ c.i \in Nat /\ c.tries \in Nat
  BY DEF OrdersInv, CreateInv, FindAccounts, CopiesInv, CreateRecords
<1>4. found \in SUBSET Accounts /\ \A a \in found : a.owner = c.owner
  BY DEF OrdersInv, MarketInv, AccountsOf
<1>5. /\ d \in CreateRecords /\ d.pc = "send" /\ d.owner = c.owner /\ d.batch = c.batch
      /\ d.i = c.i /\ d.tries = c.tries /\ d.found = found
  <2> HIDE DEF c, found
  <2> QED BY <1>3, <1>4 DEF CreateRecords
<1>6. CallOK(d) /\ GoesOn(c, d)
  <2> HIDE DEF c, d, found
  <2> QED BY <1>3, <1>4, <1>5 DEF CallOK, GoesOn, Sent, AtWork
<1> HIDE DEF d
<1> QED BY <1>1, <1>2, <1>5, <1>6, CopiesUpdated DEF OrdersInv

\* the answer for one candidate, and the end of a request
LEMMA CreatedGoesOn ==
  ASSUME NEW c \in CreateRecords, CallOK(c), c.pc \in AtWork, c.i \in 1 .. Len(c.batch),
         NEW status \in {"OPEN", "CREATION_PENDING"}, NEW s \in Signatures \cup {None}
  PROVE  LET d == Created(c, status, s) IN d \in CreateRecords /\ CallOK(d) /\ GoesOn(c, d)
<1> DEFINE k == c.batch[c.i].clientId
           answer == [status |-> status, signature |-> s]
           created == [c.created EXCEPT ![k] = answer]
           noted == [c EXCEPT !.created = created, !.tries = 0, !.signature = None]
           d == Created(c, status, s)
<1>1. answer \in [status : {"none", "OPEN", "CREATION_PENDING"}, signature : Signatures \cup {None}]
  OBVIOUS
<1>2. created \in [ClientIds -> [status : {"none", "OPEN", "CREATION_PENDING"},
                                 signature : Signatures \cup {None}]]
  <2> HIDE DEF k, answer
  <2> QED BY <1>1 DEF CreateRecords
<1>3. /\ noted \in CreateRecords /\ noted.i = c.i /\ noted.batch = c.batch /\ noted.owner = c.owner
      /\ noted.tries = 0
  <2> HIDE DEF created
  <2> QED BY <1>2 DEF CreateRecords
<1>4. Len(c.batch) \in Nat /\ c.i \in Nat /\ c.tries \in Nat
  BY DEF CreateRecords
<1>5. d = IF c.i < Len(c.batch) THEN [noted EXCEPT !.pc = "find", !.i = c.i + 1]
                                ELSE [noted EXCEPT !.pc = "answered"]
  BY DEF Created
<1>6. /\ d \in CreateRecords /\ d.batch = c.batch /\ d.owner = c.owner /\ d.tries = 0
      /\ d.pc = "answered" \/ (d.pc = "find" /\ d.i = c.i + 1)
  <2>1. CASE c.i < Len(c.batch)
    <3> HIDE DEF noted, d
    <3>1. d = [noted EXCEPT !.pc = "find", !.i = c.i + 1]
      BY <1>5, <2>1
    <3>2. c.i + 1 \in Nat
      BY <1>4
    <3> QED BY <1>3, <3>1, <3>2 DEF CreateRecords
  <2>2. CASE ~(c.i < Len(c.batch))
    <3> HIDE DEF noted, d
    <3>1. d = [noted EXCEPT !.pc = "answered"]
      BY <1>5, <2>2
    <3> QED BY <1>3, <3>1 DEF CreateRecords
  <2> QED BY <2>1, <2>2
<1>7. CallOK(d) /\ GoesOn(c, d)
  <2> HIDE DEF d
  <2> QED BY <1>4, <1>6, TriesType DEF CallOK, GoesOn, AtWork
<1> QED BY <1>6, <1>7

LEMMA CreateEndsCopies ==
  ASSUME OrdersInv, CopiesInv, NEW r \in Creates, NEW e \in {"unknown", "error"},
         OrderConfirmed(r) \/ CreateThrows(r, e)
  PROVE  CopiesInv'
<1> DEFINE c == create[r]
<1>1. UNCHANGED tx
  BY DEF OrderConfirmed, CreateThrows, marketVars
<1>2. /\ c \in CreateRecords /\ c.pc \in AtWork /\ CallOK(c) /\ CreateOK(c, tx)
      /\ c.i \in Nat /\ c.tries \in Nat /\ c.signature \in Signatures \cup {None}
  BY DEF OrdersInv, CreateInv, OrderConfirmed, CreateThrows, CopiesInv, CreateRecords, AtWork
<1>3. c.i \in 1 .. Len(c.batch)
  BY <1>2 DEF CreateOK, AtWork
<1>4. ASSUME NEW status \in {"OPEN", "CREATION_PENDING"}, NEW s \in Signatures \cup {None},
             create' = [create EXCEPT ![r] = Created(c, status, s)]
      PROVE  CopiesInv'
  <2> DEFINE d == Created(c, status, s)
  <2>1. d \in CreateRecords /\ CallOK(d) /\ GoesOn(c, d)
    <3> HIDE DEF c
    <3> QED BY <1>2, <1>3, CreatedGoesOn
  <2>2. create' = [create EXCEPT ![r] = d]
    BY <1>4
  <2> HIDE DEF d
  <2> QED BY <1>1, <2>1, <2>2, CopiesUpdated DEF OrdersInv
<1>5. CASE OrderConfirmed(r)
  <2>1. create' = [create EXCEPT ![r] = Created(c, "OPEN", c.signature)]
    BY <1>5 DEF OrderConfirmed, UpdateCreate
  <2> HIDE DEF c
  <2> QED BY <1>2, <1>4, <2>1
<1>6. CASE CreateThrows(r, e)
  <2> DEFINE again == [c EXCEPT !.pc = "find", !.tries = @ + 1, !.found = {}, !.signature = None]
             failed == Failed(c)
  <2>1. \/ Retries(c.tries) /\ create' = [create EXCEPT ![r] = again]
        \/ create' = [create EXCEPT ![r] = Created(c, "CREATION_PENDING", None)]
        \/ create' = [create EXCEPT ![r] = failed]
    BY <1>6 DEF CreateThrows, UpdateCreate
  <2>2. CASE Retries(c.tries) /\ create' = [create EXCEPT ![r] = again]
    <3>1. /\ again \in CreateRecords /\ again.pc = "find" /\ again.i = c.i /\ again.tries = c.tries + 1
          /\ again.batch = c.batch /\ again.owner = c.owner
      <4> HIDE DEF c
      <4>1. c.tries + 1 \in Nat
        BY <1>2
      <4> QED BY <1>2, <4>1 DEF CreateRecords
    <3>2. c.tries + 1 < Tries
      BY <1>2, <2>2, SerumAssumption DEF Retries, Tries
    <3>3. CallOK(again) /\ GoesOn(c, again)
      <4> HIDE DEF c, again
      <4> QED BY <1>2, <3>1, <3>2 DEF CallOK, GoesOn, Sent, AtWork
    <3> HIDE DEF again
    <3> QED BY <1>1, <2>2, <3>1, <3>3, CopiesUpdated DEF OrdersInv
  <2>3. CASE create' = [create EXCEPT ![r] = failed]
    <3>1. /\ failed \in CreateRecords /\ failed.pc = "failed" /\ failed.tries = 0
          /\ failed.batch = c.batch /\ failed.owner = c.owner
      <4> HIDE DEF c
      <4> QED BY <1>2 DEF CreateRecords, Failed
    <3>2. CallOK(failed) /\ GoesOn(c, failed)
      <4> HIDE DEF c, failed
      <4> QED BY <1>2, <3>1, TriesType DEF CallOK, GoesOn, AtWork
    <3> HIDE DEF failed
    <3> QED BY <1>1, <2>3, <3>1, <3>2, CopiesUpdated DEF OrdersInv
  <2> HIDE DEF c, again, failed
  <2> QED BY <1>4, <2>1, <2>2, <2>3
<1> QED BY <1>5, <1>6

\* the one step that places an order: a try that has placed none yet
LEMMA SendOrderCopies ==
  ASSUME OrdersInv, CopiesInv, NEW r \in Creates, SendOrder(r)
  PROVE  CopiesInv'
<1> DEFINE c == create[r]
           k == c.batch[c.i].clientId
<1>1. /\ c \in CreateRecords /\ c.pc = "send" /\ CallOK(c) /\ CreateOK(c, tx) /\ c.owner \in Owners
      /\ c.i \in 1 .. Len(c.batch) /\ c.batch \in Seq(Candidates) /\ c.found \in SUBSET Accounts
      /\ c.i \in Nat /\ c.tries \in Nat
  BY DEF OrdersInv, CreateInv, SendOrder, CreateOK, CreateRecords, CopiesInv
<1>2. k \in ClientIds
  <2>1. c.batch[c.i] \in Candidates
    BY <1>1
  <2> QED BY <2>1 DEF Candidates
<1>3. PICK s \in Signatures :
        /\ Send(s, PlaceTransaction(c.owner, k, c.found, s))
        /\ create' = [create EXCEPT ![r] = [c EXCEPT !.pc = "confirm", !.signature = s, !.found = {}]]
  BY DEF SendOrder, UpdateCreate
<1> DEFINE x == PlaceTransaction(c.owner, k, c.found, s)
           d == [c EXCEPT !.pc = "confirm", !.signature = s, !.found = {}]
<1>4. x.order.clientId = k /\ x.order.account.owner = c.owner
  <2>1. x.order = [id |-> s, clientId |-> k, account |-> AccountFor(c.owner, c.found, s)]
    <3> DEFINE order == [id |-> s, clientId |-> k, account |-> AccountFor(c.owner, c.found, s)]
    <3>1. x = [Unused EXCEPT !.kind = "place", !.fate = "sent", !.order = order]
      BY DEF PlaceTransaction
    <3> HIDE DEF x, order
    <3>2. x.order = order
      BY <3>1 DEF Unused
    <3> QED BY <3>2 DEF order
  <2>2. AccountFor(c.owner, c.found, s).owner = c.owner
    <3>1. CASE c.found = {}
      BY <3>1 DEF AccountFor
    <3>2. CASE c.found # {}
      <4>1. (CHOOSE a \in c.found : TRUE) \in c.found
        BY <3>2
      <4> QED BY <1>1, <3>2, <4>1 DEF AccountFor, CallOK
    <3> QED BY <3>1, <3>2
  <2> HIDE DEF x, k, c
  <2> QED BY <2>1, <2>2
<1>5. tx'[s] = x /\ \A u \in Signatures : u # s => tx'[u] = tx[u]
  <2>1. tx = [u \in Signatures |-> tx[u]] /\ tx' = [tx EXCEPT ![s] = x]
    BY <1>3 DEF Send, OrdersInv, MarketInv
  <2> HIDE DEF x
  <2> QED BY <2>1
<1>6. /\ d \in CreateRecords /\ d.pc = "confirm" /\ d.owner = c.owner /\ d.batch = c.batch
      /\ d.i = c.i /\ d.tries = c.tries
  <2> HIDE DEF c
  <2> QED BY <1>1 DEF CreateRecords
<1>7. \A q \in Creates : create'[q] = IF q = r THEN d ELSE create[q]
  <2>1. create' = [create EXCEPT ![r] = d]
    BY <1>3
  <2> HIDE DEF d
  <2> QED BY <2>1 DEF OrdersInv, CreateInv
<1>8. CallOK(d) /\ GoesOn(c, d) /\ Sent(c) = c.tries /\ Sent(d) = c.tries + 1
  <2> HIDE DEF c, d
  <2> QED BY <1>1, <1>6 DEF CallOK, GoesOn, Sent, AtWork
<1>9. PICK of, candidate, try : Attributed(tx, create, of, candidate, try)
  BY DEF CopiesInv
<1> DEFINE of2 == [u \in Signatures |-> IF u = s THEN r ELSE of[u]]
           candidate2 == [u \in Signatures |-> IF u = s THEN c.i ELSE candidate[u]]
           try2 == [u \in Signatures |-> IF u = s THEN c.tries + 1 ELSE try[u]]
<1>10. PlacedBy(d, x.order, c.i, c.tries + 1)
  <2>1. d.batch[c.i].clientId = k
    <3> HIDE DEF d
    <3> QED BY <1>6
  <2> HIDE DEF c, d, k, x
  <2> QED BY <1>1, <1>4, <1>6, <1>8, <2>1, TriesType DEF PlacedBy, CallOK
<1>11. ASSUME NEW u \in Signatures, u # s, tx[u].order # None
       PROVE  /\ of[u] \in Creates /\ PlacedBy(create'[of[u]], tx[u].order, candidate[u], try[u])
              /\ ~(of[u] = r /\ candidate[u] = c.i /\ try[u] = c.tries + 1)
  <2>1. of[u] \in Creates /\ PlacedBy(create[of[u]], tx[u].order, candidate[u], try[u])
    BY <1>9, <1>11 DEF Attributed
  <2>2. CASE of[u] = r
    <3>1. PlacedBy(c, tx[u].order, candidate[u], try[u])
      BY <2>1, <2>2
    <3> HIDE DEF c, d
    <3>2. PlacedBy(d, tx[u].order, candidate[u], try[u])
      BY <1>1, <1>6, <1>8, <3>1, PlacedByStays
    <3>3. ~(candidate[u] = c.i /\ try[u] = c.tries + 1)
      BY <1>1, <1>8, <3>1 DEF PlacedBy, AtWork
    <3> QED BY <1>7, <2>1, <2>2, <3>2, <3>3
  <2>3. CASE of[u] # r
    <3> HIDE DEF c, d
    <3> QED BY <1>7, <2>1, <2>3
  <2> QED BY <2>2, <2>3
<1>12. Attributed(tx', create', of2, candidate2, try2)
  <2>1. /\ of2[s] = r /\ candidate2[s] = c.i /\ try2[s] = c.tries + 1
        /\ \A u \in Signatures : u # s => of2[u] = of[u] /\ candidate2[u] = candidate[u] /\ try2[u] = try[u]
    OBVIOUS
  <2> HIDE DEF c, d, k, x, of2, candidate2, try2
  <2>2. ASSUME NEW u \in Signatures, tx'[u].order # None
        PROVE  of2[u] \in Creates /\ PlacedBy(create'[of2[u]], tx'[u].order, candidate2[u], try2[u])
    <3>1. CASE u = s
      BY <1>5, <1>7, <1>10, <2>1, <3>1
    <3>2. CASE u # s
      BY <1>5, <1>11, <2>1, <2>2, <3>2
    <3> QED BY <3>1, <3>2
  <2>3. ASSUME NEW u \in Signatures, NEW v \in Signatures, tx'[u].order # None, tx'[v].order # None,
               of2[u] = of2[v], candidate2[u] = candidate2[v], try2[u] = try2[v]
        PROVE  u = v
    <3>1. CASE u = s \/ v = s
      BY <1>5, <1>11, <2>1, <2>3, <3>1
    <3>2. CASE u # s /\ v # s
      BY <1>5, <1>9, <2>1, <2>3, <3>2 DEF Attributed
    <3> QED BY <3>1, <3>2
  <2> QED BY <2>2, <2>3 DEF Attributed
<1>13. \A q \in Creates : CallOK(create'[q])
  <2> HIDE DEF c, d
  <2> QED BY <1>7, <1>8 DEF CopiesInv
<1>14. IsFiniteSet({q \in Creates : create'[q].pc # "idle"})
  <2>1. create' = [create EXCEPT ![r] = d]
    BY <1>3
  <2> HIDE DEF d
  <2> QED BY <2>1, ActiveIsFinite DEF CopiesInv, OrdersInv
<1>15. \E of3, candidate3, try3 : Attributed(tx', create', of3, candidate3, try3)
  <2> HIDE DEF of2, candidate2, try2
  <2> QED BY <1>12
<1> QED BY <1>13, <1>14, <1>15 DEF CopiesInv

\* the transactions of the others are not orders
PlacesNothing ==
  UNCHANGED create /\ \A s \in Signatures : tx'[s].order # None => tx'[s].order = tx[s].order

LEMMA OthersPlaceNothing ==
  ASSUME MarketInv, [Next]_vars, ~ \E r \in Creates : CreateArrives(r) \/ CreateSteps(r)
  PROVE  PlacesNothing
<1>1. ASSUME NEW s \in Signatures, NEW x, Send(s, x), x.order = None
      PROVE  \A u \in Signatures : tx'[u].order # None => tx'[u].order = tx[u].order
  <2>1. tx' = [tx EXCEPT ![s] = x] /\ tx = [u \in Signatures |-> tx[u]]
    BY <1>1 DEF Send, MarketInv
  <2> QED BY <1>1, <2>1
<1>2. ASSUME NEW orders PROVE CancelTransaction(orders).order = None
  BY DEF CancelTransaction, Unused
<1>3. SettleSeveralTransaction.order = None
  BY DEF SettleSeveralTransaction, Unused
<1>4. ASSUME NEW a PROVE SettleTransaction(a).order = None
  BY DEF SettleTransaction, Unused
<1>5. ASSUME NEW r \in Cancels, CancelArrives(r) \/ CancelSteps(r) PROVE PlacesNothing
  <2>1. UNCHANGED create
    BY <1>5 DEF CancelArrives, CancelSteps, ReadOpenOrders, ReadOpenOrder, SkipGroup, SendCancel, CancelConfirmed,
         ReadFreeFunds, SendSettlements, SettlementsConfirmed, CancelThrows, UpdateCancel
  <2>2. CASE SendCancel(r)
    BY <1>1, <1>2, <2>1, <2>2 DEF SendCancel, PlacesNothing
  <2>3. CASE SendSettlements(r)
    BY <1>1, <1>3, <2>1, <2>3 DEF SendSettlements, PlacesNothing
  <2>4. CASE ~(SendCancel(r) \/ SendSettlements(r))
    <3>1. UNCHANGED tx
      BY <1>5, <2>4 DEF CancelArrives, CancelSteps, ReadOpenOrders, ReadOpenOrder, SkipGroup, CancelConfirmed,
                ReadFreeFunds, SettlementsConfirmed, CancelThrows, marketVars
    <3> QED BY <2>1, <3>1 DEF PlacesNothing
  <2> QED BY <2>2, <2>3, <2>4
<1>6. ASSUME NEW r \in Settles, SettleArrives(r) \/ SettleSteps(r) PROVE PlacesNothing
  <2>1. UNCHANGED create
    BY <1>6 DEF SettleArrives, SettleSteps, ReadFundsToSettle, SendSettle, SettleConfirmed, SettleThrows, UpdateSettle
  <2>2. CASE SendSettle(r)
    BY <1>1, <1>4, <2>1, <2>2 DEF SendSettle, PlacesNothing
  <2>3. CASE ~SendSettle(r)
    <3>1. UNCHANGED tx
      BY <1>6, <2>3 DEF SettleArrives, SettleSteps, ReadFundsToSettle, SettleConfirmed, SettleThrows, marketVars
    <3> QED BY <2>1, <3>1 DEF PlacesNothing
  <2> QED BY <2>2, <2>3
<1>7. ASSUME UNCHANGED <<marketVars, create>> PROVE PlacesNothing
  BY <1>7 DEF marketVars, PlacesNothing
<1>8. ASSUME NEW r \in Lookups, LookupArrives(r) \/ LookupSteps(r) PROVE PlacesNothing
  BY <1>8
  DEF LookupArrives, LookupSteps, GetOpenOrder, GetFilledOrder, Find, LookupThrows, UpdateLookup,
      marketVars, PlacesNothing
<1>9. ASSUME Cluster, UNCHANGED create PROVE PlacesNothing
  <2>1. ASSUME NEW s \in Signatures, Execute(s) PROVE \A u \in Signatures : tx'[u].order = tx[u].order
    <3> DEFINE x == [tx[s] EXCEPT !.fate = "ok"]
    <3>1. tx' = [tx EXCEPT ![s] = x]
      BY <2>1 DEF Execute
    <3>2. x.order = tx[s].order
      BY DEF MarketInv, IsTransaction
    <3> HIDE DEF x
    <3> QED BY <3>1, <3>2 DEF MarketInv
  <2>2. (\E s \in Signatures : Execute(s)) \/ UNCHANGED tx
    BY <1>9 DEF Cluster, Fill, Consume
  <2> QED BY <1>9, <2>1, <2>2 DEF PlacesNothing
<1>10. CASE Arrive
  BY <1>5, <1>6, <1>7, <1>8, <1>10 DEF Arrive
<1>11. CASE Next /\ ~Arrive
  BY <1>5, <1>6, <1>7, <1>8, <1>9, <1>11 DEF Next, requestVars
<1>12. CASE UNCHANGED vars
  BY <1>7, <1>12 DEF vars, requestVars
<1> QED BY <1>10, <1>11, <1>12

LEMMA CopiesInvariant == Spec => []CopiesInv
<1>1. Init => CopiesInv
  <2> SUFFICES ASSUME Init PROVE CopiesInv
    OBVIOUS
  <2> DEFINE c == [pc |-> "idle", owner |-> None, batch |-> <<>>, i |-> 1, tries |-> 0, found |-> {},
                   signature |-> None, created |-> [k \in ClientIds |-> NoAnswer]]
  <2>1. create = [r \in Creates |-> c]
    BY DEF Init
  <2>2. c.pc = "idle" /\ c.tries = 0 /\ c.batch = <<>>
    OBVIOUS
  <2> HIDE DEF c
  <2>3. \A r \in Creates : CallOK(create[r])
    BY <2>1, <2>2, TriesType DEF CallOK
  <2>4. {r \in Creates : create[r].pc # "idle"} = {}
    BY <2>1, <2>2
  <2>5. \A s \in Signatures : tx[s].order = None
    BY DEF Init, MarketInit, Unused
  <2>6. \A of, candidate, try : Attributed(tx, create, of, candidate, try)
    BY <2>5 DEF Attributed
  <2> QED BY <2>3, <2>4, <2>6, FS_EmptySet DEF CopiesInv
<1>2. OrdersInv /\ CopiesInv /\ [Next]_vars => CopiesInv'
  <2> SUFFICES ASSUME OrdersInv, CopiesInv, [Next]_vars PROVE CopiesInv'
    OBVIOUS
  <2>1. ASSUME NEW r \in Creates, CreateArrives(r) \/ CreateSteps(r) PROVE CopiesInv'
    BY <2>1, CreateArrivesCopies, FindAccountsCopies, SendOrderCopies, CreateEndsCopies DEF CreateSteps
  <2>2. CASE ~ \E r \in Creates : CreateArrives(r) \/ CreateSteps(r)
    BY <2>2, OthersPlaceNothing, CopiesKept DEF OrdersInv, PlacesNothing
  <2> QED BY <2>1, <2>2
<1> QED BY <1>1, <1>2, OrdersInvariant, PTL DEF Spec

\* as many orders as there are tries of candidates, at most
LEMMA CopiesCounted == CreateInv /\ CopiesInv => CopiesBounded
<1> SUFFICES ASSUME CreateInv, CopiesInv, NEW o \in Owners, NEW k \in ClientIds
             PROVE  Cardinality({s \in Signatures : tx[s].order # None /\ tx[s].order.clientId = k
                                    /\ tx[s].order.account.owner = o})
                    <= Cardinality({p \in Creates \X (1 .. MaxCandidates) :
                          LET batch == create[p[1]].batch IN
                          /\ create[p[1]].owner = o /\ p[2] \in DOMAIN batch
                          /\ batch[p[2]].clientId = k})
                       * (IF MaxNumberOfRetries = 0 THEN 1 ELSE MaxNumberOfRetries)
  BY DEF CopiesBounded
<1> DEFINE S == {s \in Signatures : tx[s].order # None /\ tx[s].order.clientId = k
                                    /\ tx[s].order.account.owner = o}
           P == {p \in Creates \X (1 .. MaxCandidates) :
                   LET batch == create[p[1]].batch IN
                   /\ create[p[1]].owner = o /\ p[2] \in DOMAIN batch
                   /\ batch[p[2]].clientId = k}
           A == {r \in Creates : create[r].pc # "idle"}
<1>1. PICK of, candidate, try : Attributed(tx, create, of, candidate, try)
  BY DEF CopiesInv
<1>2. ASSUME NEW r \in Creates
      PROVE  /\ DOMAIN create[r].batch = 1 .. Len(create[r].batch)
             /\ create[r].pc # "idle" => Len(create[r].batch) \in 1 .. MaxCandidates
             /\ create[r].pc = "idle" => create[r].batch = <<>>
  <2>1. create[r].batch \in Seq(Candidates)
    BY DEF CreateInv, CreateRecords
  <2> QED BY <2>1 DEF CopiesInv, CallOK
<1>3. IsFiniteSet(P)
  <2>1. IsFiniteSet(1 .. MaxCandidates)
    BY FS_Interval, SerumAssumption
  <2>2. IsFiniteSet(A \X (1 .. MaxCandidates))
    <3> HIDE DEF A
    <3>1. IsFiniteSet(A)
      BY DEF CopiesInv, A
    <3> QED BY <2>1, <3>1, FS_Product
  <2>3. P \in SUBSET (A \X (1 .. MaxCandidates))
    BY <1>2
  <2> HIDE DEF P, A
  <2> QED BY <2>2, <2>3, FS_Subset
<1>4. /\ IsFiniteSet(1 .. Tries) /\ Cardinality(1 .. Tries) = Tries
  BY FS_Interval, TriesType
<1> DEFINE T == P \X (1 .. Tries)
           f == [s \in S |-> <<<<of[s], candidate[s]>>, try[s]>>]
<1>5. IsFiniteSet(T) /\ Cardinality(T) = Cardinality(P) * Tries
  <2> HIDE DEF P
  <2> QED BY <1>3, <1>4, FS_Product
<1>6. \A s \in S : f[s] \in T
  <2> SUFFICES ASSUME NEW s \in S PROVE f[s] \in T
    OBVIOUS
  <2>1. of[s] \in Creates /\ PlacedBy(create[of[s]], tx[s].order, candidate[s], try[s])
    BY <1>1 DEF Attributed
  <2>2. candidate[s] \in 1 .. MaxCandidates /\ try[s] \in 1 .. Tries /\ candidate[s] \in DOMAIN create[of[s]].batch
    BY <1>2, <2>1, SerumAssumption DEF PlacedBy
  <2>3. create[of[s]].owner = o /\ create[of[s]].batch[candidate[s]].clientId = k
    BY <2>1 DEF PlacedBy
  <2>4. <<of[s], candidate[s]>> \in P
    BY <2>1, <2>2, <2>3
  <2> HIDE DEF P
  <2> QED BY <2>2, <2>4
<1>7. \A s, u \in S : f[s] = f[u] => s = u
  <2> HIDE DEF P
  <2> QED BY <1>1 DEF Attributed
<1>8. f \in Injection(S, T)
  <2>1. f \in [S -> T]
    <3> HIDE DEF T, S
    <3> QED BY <1>6
  <2> HIDE DEF f, T, S
  <2> QED BY <1>7, <2>1 DEF Injection, IsInjective
<1>9. Cardinality(S) <= Cardinality(T)
  <2> HIDE DEF f, S, T
  <2> QED BY <1>5, <1>8, FS_Injection
<1>10. Cardinality(S) <= Cardinality(P) * Tries
  <2> HIDE DEF S, T, P
  <2> QED BY <1>5, <1>9
<1> QED BY <1>10 DEF Tries

(* createOrders: a candidate becomes at most as many orders as its call    *)
(* has tries, for any number of requests and of candidates, and whatever   *)
(* the confirmations that stayed away.                                     *)
THEOREM CopiesAreBounded == Spec => []CopiesBounded
<1>1. OrdersInv => CreateInv
  BY DEF OrdersInv
<1> QED BY <1>1, CopiesCounted, CopiesInvariant, OrdersInvariant, PTL
=============================================================================
