----------------------- MODULE EVMTransactions_proofs -----------------------
(***************************************************************************)
(* Proofs about the reports on transactions.                               *)
(***************************************************************************)
EXTENDS EVMTransactions, TLAPS

\* a poll under way is about a transaction and has no status yet
PollsHaveTx ==
  \A p \in Polls : poll[p].pc # "idle" => poll[p].tx \in Txs /\ poll[p].status = None

\* no receipt is older than its block, wherever it waits
ReceiptsAreMined ==
  /\ \A t \in Txs : cache[t] = "receipt" => Mined(t)
  /\ \A p \in Polls : poll[p].pc # "idle" /\ poll[p].receipt = "receipt" => Mined(poll[p].tx)

\* what a client knows of a buy or an approval is in EvmTxStorage
AnsweredIsStored == \A t \in Txs \ Sells : request[t] \in {"saved", "answered"} => t \in stored

\* and a poll that begins then reads it there
FoundIfAfter(q) ==
  q.pc # "idle" /\ q.after =>
    /\ request[q.tx] = "answered"
    /\ q.pc = "txs" => q.found \/ q.tx \in Sells

LatePollsFind == \A p \in Polls : FoundIfAfter(poll[p])

\* a request that has not been sent is not on the chain
UnsentIsUnknown == \A t \in Txs : request[t] \in {"idle", "send"} => chain[t] = "none"

Inv == /\ UnsentIsUnknown /\ TypeOK /\ PollsHaveTx /\ ReceiptsAreMined /\ AnsweredIsStored
       /\ LatePollsFind

LEMMA InitInv == Init => Inv
BY TransactionsAssumption DEF Init, Inv, TypeOK, Idle, PollsHaveTx, ReceiptsAreMined,
   AnsweredIsStored, UnsentIsUnknown, LatePollsFind, FoundIfAfter, RequestStates, PollStates

\* The requests and the chain: what is mined stays mined.
LEMMA RequestKeepsInv ==
  ASSUME Inv, NEW t \in Txs,
         RequestArrives(t) \/ RequestStep(t) \/ Cancel(t) \/ Mine(t) \/ Replaced(t)
  PROVE  Inv'
<1>1. CASE RequestArrives(t) \/ RequestStep(t)
  <2> USE <1>1 DEF Inv, TypeOK, RequestArrives, RequestStep, NodeAccepts, SaveTx, Executed,
         RequestFails, Proceed, requests, ledger, receipts
  <2>1. TypeOK'  BY DEF RequestStates
  <2>2. PollsHaveTx'  BY DEF PollsHaveTx
  <2>3. \A u \in Txs : Mined(u) => Mined(u)'  BY DEF Mined, Outcomes, UnsentIsUnknown
  <2>6. UnsentIsUnknown'  BY DEF UnsentIsUnknown, RequestStates
  <2>4. ReceiptsAreMined'  BY <2>3 DEF ReceiptsAreMined, PollsHaveTx
  <2>5. AnsweredIsStored'  BY DEF AnsweredIsStored, RequestStates
  <2>7. LatePollsFind'  BY DEF LatePollsFind, FoundIfAfter, PollsHaveTx, RequestStates
  <2> QED  BY <2>1, <2>2, <2>4, <2>5, <2>6, <2>7
<1>2. CASE Cancel(t) \/ Mine(t) \/ Replaced(t)
  <2> USE <1>2 DEF Inv, TypeOK, Cancel, Mine, Replaced, requests, ledger, receipts
  <2>1. TypeOK'  BY DEF Outcomes
  <2>2. PollsHaveTx'  BY DEF PollsHaveTx
  <2>3. \A u \in Txs : Mined(u) => Mined(u)'  BY DEF Mined, Outcomes
  <2>6. UnsentIsUnknown'  BY DEF UnsentIsUnknown
  <2>4. ReceiptsAreMined'  BY <2>3 DEF ReceiptsAreMined, PollsHaveTx
  <2>5. AnsweredIsStored' /\ LatePollsFind'
    BY DEF AnsweredIsStored, LatePollsFind, FoundIfAfter
  <2> QED  BY <2>1, <2>2, <2>4, <2>5, <2>6
<1> QED  BY <1>1, <1>2

\* The receipt cache: only a receipt of a block is put into it as one.
LEMMA CacheKeepsInv ==
  ASSUME Inv, NEW t \in Txs, CacheTransactionReceipt(t) \/ CacheExpires(t)
  PROVE  Inv'
BY DEF Inv, TypeOK, PollsHaveTx, ReceiptsAreMined, AnsweredIsStored, UnsentIsUnknown, Mined,
   LatePollsFind, FoundIfAfter, CacheTransactionReceipt, CacheExpires, requests, ledger

PollRecord == [pc : PollStates, tx : Txs \cup {None},
               receipt : {"null", "receipt"}, found : BOOLEAN, after : BOOLEAN,
               status : Statuses \cup {None}]

CacheSound ==
  /\ cache \in [Txs -> {"absent", "null", "receipt", "expired"}]
  /\ \A t \in Txs : cache[t] = "receipt" => Mined(t)

\* What a step of one poll has to show: its new record and the cache are sound.
LEMMA OnePollMoves ==
  ASSUME Inv, NEW p \in Polls, NEW q \in PollRecord,
         poll' = [poll EXCEPT ![p] = q],
         q.pc # "idle" => q.tx \in Txs /\ q.status = None,
         q.pc # "idle" /\ q.receipt = "receipt" => Mined(q.tx), FoundIfAfter(q),
         UNCHANGED <<requests, ledger>>, listeners' \subseteq Txs, CacheSound'
  PROVE  Inv'
<1> USE DEF Inv, requests, ledger
<1>1. poll' \in [Polls -> PollRecord] /\ \A r \in Polls : poll'[r] = IF r = p THEN q ELSE poll[r]
  BY DEF TypeOK, PollRecord
<1>2. TypeOK'  BY <1>1 DEF TypeOK, PollRecord, CacheSound
<1>3. PollsHaveTx'  BY <1>1 DEF PollsHaveTx
<1>4. ReceiptsAreMined'  BY <1>1 DEF ReceiptsAreMined, CacheSound, Mined
<1>5. AnsweredIsStored' /\ UnsentIsUnknown'  BY DEF AnsweredIsStored, UnsentIsUnknown
<1>6. LatePollsFind'  BY <1>1 DEF LatePollsFind, FoundIfAfter
<1> QED  BY <1>2, <1>3, <1>4, <1>5, <1>6

\* A poll ends, with an answer or without.
LEMMA PollEnds ==
  ASSUME Inv, NEW p \in Polls, NEW status \in Statuses \cup {None},
         poll' = [poll EXCEPT ![p] = [Idle EXCEPT !.status = status]],
         UNCHANGED <<requests, ledger>>, listeners' \subseteq Txs, CacheSound'
  PROVE  Inv'
<1> DEFINE q == [Idle EXCEPT !.status = status]
<1>1. q \in PollRecord /\ q.pc = "idle"  BY DEF Idle, PollRecord, PollStates
<1>2. poll' = [poll EXCEPT ![p] = q]  OBVIOUS
<1> HIDE DEF q
<1>3. FoundIfAfter(q)  BY <1>1 DEF FoundIfAfter
<1> QED  BY <1>1, <1>2, <1>3, OnePollMoves

\* A poll fails.
LEMMA PollStops ==
  ASSUME Inv, NEW p \in Polls, poll' = [poll EXCEPT ![p] = Idle],
         UNCHANGED <<requests, ledger>>, listeners' \subseteq Txs, CacheSound'
  PROVE  Inv'
<1>1. Idle \in PollRecord /\ Idle.pc = "idle" /\ FoundIfAfter(Idle)
  BY DEF Idle, PollRecord, PollStates, FoundIfAfter
<1> QED  BY <1>1, OnePollMoves

\* A poll goes on to its next await.
LEMMA PollProceeds ==
  ASSUME Inv, NEW p \in Polls, poll[p].pc # "idle", NEW pc \in PollStates \ {"txs"},
         poll' = [poll EXCEPT ![p].pc = pc],
         UNCHANGED <<requests, ledger>>, listeners' \subseteq Txs, CacheSound'
  PROVE  Inv'
<1> DEFINE q == [poll[p] EXCEPT !.pc = pc]
<1>1. poll[p] \in PollRecord  BY DEF Inv, TypeOK, PollRecord
<1>2. /\ q \in PollRecord /\ q.tx = poll[p].tx
      /\ q.receipt = poll[p].receipt /\ q.status = poll[p].status
      /\ q.after = poll[p].after /\ q.pc # "txs"
  BY <1>1 DEF PollRecord
<1>3. poll' = [poll EXCEPT ![p] = q]  BY DEF Inv, TypeOK
<1>4. /\ poll[p].tx \in Txs /\ poll[p].status = None
      /\ poll[p].receipt = "receipt" => Mined(poll[p].tx)
  BY DEF Inv, PollsHaveTx, ReceiptsAreMined
<1> HIDE DEF q
<1>5. FoundIfAfter(q)
  BY <1>2 DEF FoundIfAfter, Inv, LatePollsFind
<1> QED  BY <1>2, <1>3, <1>4, <1>5, OnePollMoves

LEMMA PollKeepsInv ==
  ASSUME Inv, NEW p \in Polls, PollArrives(p) \/ PollStep(p)
  PROVE  Inv'
<1> DEFINE t == poll[p].tx
<1>1. CacheSound /\ listeners \subseteq Txs
  BY DEF CacheSound, Inv, TypeOK, ReceiptsAreMined
<1>2. ASSUME UNCHANGED <<receipts, ledger>>  PROVE CacheSound' /\ listeners' \subseteq Txs
  BY <1>1, <1>2 DEF CacheSound, Mined, receipts, ledger
<1>3. \A pc \in {"receipt", "fetch", "fetched", "storage"} : pc \in PollStates \ {"txs"}
  BY DEF PollStates
<1>4. CASE PollArrives(p)
  <2>1. PICK u \in Txs :
          poll' = [poll EXCEPT ![p] = [Idle EXCEPT !.pc = "data", !.tx = u,
                                                   !.after = request[u] = "answered"]]
    BY <1>4 DEF PollArrives
  <2> DEFINE q == [Idle EXCEPT !.pc = "data", !.tx = u, !.after = request[u] = "answered"]
  <2>2. /\ q \in PollRecord /\ q.tx = u /\ q.status = None /\ q.receipt = "null"
        /\ FoundIfAfter(q)
    BY DEF Idle, PollRecord, PollStates, FoundIfAfter
  <2>3. poll' = [poll EXCEPT ![p] = q]  BY <2>1
  <2>4. UNCHANGED <<requests, ledger, receipts>>  BY <1>4 DEF PollArrives
  <2> HIDE DEF q
  <2> QED  BY <1>2, <2>2, <2>3, <2>4, OnePollMoves
<1>5. CASE GetTransaction(p)
  BY <1>2, <1>3, <1>5, PollEnds, PollProceeds DEF GetTransaction, Answer, Statuses
<1>6. CASE GetReceipt(p)
  <2>1. t \in Txs  BY <1>6 DEF GetReceipt, Inv, PollsHaveTx
  <2>2. CASE cache[t] \in {"null", "absent"}
    BY <1>2, <1>3, <1>6, <2>2, PollProceeds DEF GetReceipt, receipts
  <2>3. CASE cache[t] = "receipt"
    BY <1>2, <1>3, <1>6, <2>3, PollEnds, PollStops DEF GetReceipt, Processed, Answer, Fail, Statuses, receipts
  <2>4. CASE cache[t] = "expired"
    <3>1. CacheSound' /\ listeners' \subseteq Txs
      BY <1>1, <1>6, <2>1, <2>4 DEF GetReceipt, CacheSound, Mined, ledger
    <3> QED  BY <1>3, <1>6, <2>4, <3>1, PollEnds, PollStops DEF GetReceipt, Fail
  <2> QED  BY <2>1, <2>2, <2>3, <2>4 DEF Inv, TypeOK
<1>7. CASE FetchReceipt(p)
  <2>1. PICK receipt \in {"null", "receipt"} :
          /\ receipt = "receipt" => Mined(t)
          /\ poll' = [poll EXCEPT ![p].pc = "fetched", ![p].receipt = receipt]
    BY <1>7 DEF FetchReceipt
  <2> DEFINE q == [[poll[p] EXCEPT !.pc = "fetched"] EXCEPT !.receipt = receipt]
  <2>2. poll[p] \in PollRecord  BY DEF Inv, TypeOK, PollRecord
  <2>3. /\ q \in PollRecord /\ q.tx = t /\ q.status = poll[p].status /\ q.receipt = receipt
        /\ q.pc = "fetched" /\ q.after = poll[p].after
    BY <1>3, <2>2 DEF PollRecord
  <2>4. poll' = [poll EXCEPT ![p] = q]  BY <2>1, <2>2 DEF Inv, TypeOK
  <2>5. t \in Txs /\ poll[p].status = None /\ UNCHANGED <<requests, ledger, receipts>>
    BY <1>7 DEF FetchReceipt, Inv, PollsHaveTx
  <2> HIDE DEF q
  <2>6. FoundIfAfter(q)
    BY <1>7, <2>3 DEF FetchReceipt, FoundIfAfter, Inv, LatePollsFind
  <2> QED  BY <1>2, <2>1, <2>3, <2>4, <2>5, <2>6, OnePollMoves
<1>8. CASE StoreReceipt(p)
  <2>1. t \in Txs  BY <1>8 DEF StoreReceipt, Inv, PollsHaveTx
  <2>2. CASE poll[p].receipt = "receipt"
    <3>1. Mined(t)  BY <1>8, <2>2 DEF StoreReceipt, Inv, ReceiptsAreMined
    <3>2. CacheSound' /\ listeners' \subseteq Txs
      BY <1>1, <1>8, <2>1, <2>2, <3>1 DEF StoreReceipt, CacheSound, Mined, ledger
    <3> QED  BY <1>3, <1>8, <2>2, <3>2, PollEnds, PollStops DEF StoreReceipt, Processed, Answer, Fail, Statuses
  <2>3. CASE poll[p].receipt # "receipt"
    <3>1. CacheSound' /\ listeners' \subseteq Txs
      BY <1>1, <1>8, <2>1, <2>3 DEF StoreReceipt, CacheSound, Mined, ledger
    <3> QED  BY <1>3, <1>8, <2>3, <3>1, PollProceeds DEF StoreReceipt
  <2> QED  BY <2>2, <2>3
<1>9. CASE GetTxs(p)
  BY <1>2, <1>9, PollEnds DEF GetTxs, Answer, Statuses
<1>10. CASE PollFails(p)
  BY <1>2, <1>3, <1>10, PollEnds, PollStops DEF PollFails, Fail
<1>11. CASE IterateTxs(p)
  <2>0. PICK b \in BOOLEAN : b <=> t \in stored  OBVIOUS
  <2>a. b = (t \in stored)  BY <2>0
  <2> DEFINE q == [poll[p] EXCEPT !.pc = "txs", !.found = b]
  <2>1. poll[p] \in PollRecord  BY DEF Inv, TypeOK, PollRecord
  <2>2. "txs" \in PollStates  BY DEF PollStates
  <2>3. /\ q \in PollRecord /\ q.pc = "txs" /\ q.tx = t /\ q.status = poll[p].status
        /\ q.receipt = poll[p].receipt /\ q.after = poll[p].after /\ q.found = b
    BY <2>1, <2>2 DEF PollRecord
  <2>b. poll' = [poll EXCEPT ![p].pc = "txs", ![p].found = b]
    BY <1>11, <2>a DEF IterateTxs
  <2>4. poll' = [poll EXCEPT ![p] = q]  BY <2>b, <2>1 DEF Inv, TypeOK
  <2>5. /\ t \in Txs /\ poll[p].status = None /\ UNCHANGED <<requests, ledger, receipts>>
        /\ poll[p].receipt = "receipt" => Mined(t)
    BY <1>11 DEF IterateTxs, Inv, PollsHaveTx, ReceiptsAreMined
  <2>6. poll[p].after => request[t] = "answered"
    BY <1>11 DEF IterateTxs, Inv, LatePollsFind, FoundIfAfter
  <2> HIDE DEF q
  <2>7. FoundIfAfter(q)
    BY <2>0, <2>3, <2>5, <2>6 DEF FoundIfAfter, Inv, AnsweredIsStored
  <2> QED  BY <1>2, <2>3, <2>4, <2>5, <2>7, OnePollMoves
<1> QED  BY <1>4, <1>5, <1>6, <1>7, <1>8, <1>9, <1>10, <1>11 DEF PollStep

LEMMA CrashKeepsInv == Inv /\ Crash => Inv'
BY DEF Inv, TypeOK, PollsHaveTx, ReceiptsAreMined, AnsweredIsStored, UnsentIsUnknown, Mined,
   LatePollsFind, FoundIfAfter, Crash, Idle, RequestStates, PollStates, ledger

LEMMA StutterKeepsInv == Inv /\ UNCHANGED vars => Inv'
BY DEF Inv, TypeOK, PollsHaveTx, ReceiptsAreMined, AnsweredIsStored, UnsentIsUnknown, Mined, vars,
   LatePollsFind, FoundIfAfter, requests, ledger, receipts

LEMMA NextKeepsInv == Inv /\ [Next]_vars => Inv'
BY RequestKeepsInv, CacheKeepsInv, PollKeepsInv, CrashKeepsInv, StutterKeepsInv DEF Next

\* Reports are about known transactions, receipts about mined ones, and
\* entries are saved before answers.
THEOREM TransactionsInv == Spec => []Inv
BY InitInv, NextKeepsInv, PTL DEF Spec

\* The type invariant of the model.
THEOREM TransactionsTyped == Spec => []TypeOK
<1>1. Inv => TypeOK  BY DEF Inv
<1> QED  BY <1>1, TransactionsInv, PTL

\* A poll that gets a status in a step has made that step itself.
LEMMA OnlyPollsAnswer ==
  ASSUME Inv, [Next]_vars, NEW p \in Polls, NEW status \in Statuses, Answers(p, status)
  PROVE  PollStep(p)
<1> USE DEF Inv
<1>1. poll[p].pc # "idle" /\ poll[p].status = None /\ poll'[p].status # None
  BY TransactionsAssumption DEF Answers, PollsHaveTx
<1>2. CASE UNCHANGED poll
  BY <1>1, <1>2
<1>3. ASSUME NEW q \in Polls, PollArrives(q) \/ PollStep(q)
      PROVE  PollStep(p)
  <2>1. CASE q = p  BY <1>1, <1>3, <2>1 DEF PollArrives
  <2>2. CASE q # p
    <3>1. poll'[p] = poll[p]
      BY <1>3, <2>2 DEF TypeOK, PollArrives, PollStep, GetTransaction, GetReceipt, FetchReceipt,
         StoreReceipt, IterateTxs, GetTxs, PollFails, Answer, Fail, Processed
    <3> QED  BY <1>1, <3>1
  <2> QED  BY <2>1, <2>2
<1>4. CASE Crash
  BY <1>1, <1>4 DEF Crash, Idle
<1>5. CASE \E t \in Txs : \/ RequestArrives(t) \/ RequestStep(t) \/ Cancel(t)
                         \/ CacheTransactionReceipt(t) \/ CacheExpires(t)
                         \/ Mine(t) \/ Replaced(t)
  BY <1>2, <1>5 DEF RequestArrives, RequestStep, NodeAccepts, SaveTx, Executed, RequestFails, Cancel,
     CacheTransactionReceipt, CacheExpires, Mine, Replaced
<1> QED  BY <1>2, <1>3, <1>4, <1>5 DEF Next, vars

\* Whatever the cache, the listener and the node deliver in whichever order,
\* success is reported of mined transactions only.
THEOREM SuccessMined == Spec => SuccessIsMined
<1>1. ASSUME Inv, [Next]_vars, NEW p \in Polls, Answers(p, "succeeded")
      PROVE  chain[poll[p].tx] \in {"ok", "reverted"}
  <2> DEFINE t == poll[p].tx
  <2>1. PollStep(p)  BY <1>1, OnlyPollsAnswer DEF Statuses
  <2>2. poll'[p].status = "succeeded" /\ t \in Txs  BY <1>1 DEF Answers, Inv, PollsHaveTx
  <2>3. None # "succeeded"  BY TransactionsAssumption DEF Statuses
  <2>4. poll[p].status = None  BY <1>1 DEF Answers, Inv, PollsHaveTx
  <2>5. CASE Processed(p, t) /\ Mined(t)
    BY <1>1, <2>2, <2>3, <2>5 DEF Processed, Fail, Idle, Mined, Outcomes, Inv, TypeOK
  <2>6. CASE GetReceipt(p)
    BY <1>1, <2>2, <2>3, <2>4, <2>5, <2>6
       DEF GetReceipt, Fail, Idle, Inv, TypeOK, ReceiptsAreMined
  <2>7. CASE StoreReceipt(p)
    BY <1>1, <2>2, <2>3, <2>4, <2>5, <2>7 DEF StoreReceipt, Inv, TypeOK, ReceiptsAreMined
  <2>8. CASE GetTransaction(p) \/ FetchReceipt(p) \/ IterateTxs(p) \/ GetTxs(p) \/ PollFails(p)
    BY <1>1, <2>2, <2>3, <2>4, <2>8
       DEF GetTransaction, FetchReceipt, IterateTxs, GetTxs, PollFails, Answer, Fail, Idle, Inv, TypeOK
  <2> QED  BY <2>1, <2>6, <2>7, <2>8 DEF PollStep
<1>2. Inv /\ [Next]_vars => [\A p \in Polls : Answers(p, "succeeded") =>
                               chain[poll[p].tx] \in {"ok", "reverted"}]_vars
  BY <1>1
<1> QED  BY <1>2, TransactionsInv, PTL DEF Spec, SuccessIsMined

\* A client that has the answer to its buy or approval and polls it then never
\* reads that the Gateway has no data on it, through any number of restarts.
THEOREM AnsweredGuessed == Spec => AnsweredIsGuessed
<1>1. ASSUME Inv, [Next]_vars, NEW p \in Polls, Answers(p, "unknown")
      PROVE  poll[p].tx \in Sells \/ ~poll[p].after
  <2> DEFINE t == poll[p].tx
  <2>1. PollStep(p)  BY <1>1, OnlyPollsAnswer DEF Statuses
  <2>2. poll'[p].status = "unknown" /\ t \in Txs  BY <1>1 DEF Answers, Inv, PollsHaveTx
  <2>3. None # "unknown"  BY TransactionsAssumption DEF Statuses
  <2>4. poll[p].status = None  BY <1>1 DEF Answers, Inv, PollsHaveTx
  <2>5. GetTxs(p)
    BY <1>1, <2>1, <2>2, <2>3, <2>4
       DEF PollStep, GetTransaction, GetReceipt, FetchReceipt, StoreReceipt, IterateTxs, PollFails,
           Processed, Answer, Fail, Idle, Inv, TypeOK
  <2>6. poll[p].pc = "txs" /\ ~poll[p].found
    BY <1>1, <2>2, <2>5 DEF GetTxs, Answer, Idle, Inv, TypeOK
  <2> QED  BY <1>1, <2>6 DEF Inv, LatePollsFind, FoundIfAfter
<1>2. Inv /\ [Next]_vars => [\A p \in Polls : Answers(p, "unknown") =>
                               poll[p].tx \in Sells \/ ~poll[p].after]_vars
  BY <1>1
<1> QED  BY <1>2, TransactionsInv, PTL DEF Spec, AnsweredIsGuessed
=============================================================================
