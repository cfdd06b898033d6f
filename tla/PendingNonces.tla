---------------------------- MODULE PendingNonces ----------------------------
(***************************************************************************)
(* The array of pending nonces of one address as the code keeps it         *)
(* (gateway/src/services/evm.nonce.ts), and its text in LevelDB.  The      *)
(* operations come in any order and the leading nonce takes any value, so  *)
(* what holds here holds for every interleaving of requests.  The module   *)
(* EVMNonceManager keeps the same data as a function from nonce to expiry; *)
(* StepsMatch says that each operation on the array is the one used there. *)
(***************************************************************************)
EXTENDS Integers, Sequences, SequencesExt

CONSTANTS
  Undefined,         \* no array, no leading nonce, nothing stored
  PendingNonceTTL,   \* _pendingNonceTTL
  MaxTime,           \* bound on the clock
  MaxNonce           \* bound on the nonces

Entries == [nonce : Nat, expiry : Nat]   \* NonceInfo, without the -1 of a leading nonce

EmptyField == ""

ASSUME UndefinedAssumption == /\ Undefined \notin Seq(Entries \cup {EmptyField})
                              /\ Undefined \notin [nonce : Nat \cup {-1}, expiry : Nat]
ASSUME BoundAssumption == PendingNonceTTL \in Nat /\ MaxNonce \in Nat

VARIABLES
  now,
  leading,   \* nonce of #addressToLeadingNonce[address]
  nonces,    \* #addressToPendingNonces[address]: an array of NonceInfo
  text,      \* value.split(',') of what LevelDB holds under <address>/pending
  saved      \* history: the array that was stored

arrayVars == <<now, leading, nonces, text, saved>>

NonceInfo(n, e) == [nonce |-> n, expiry |-> e]

\* savePendingNonces puts a comma before every entry, the first one too
SavePendingNonces(a) == <<EmptyField>> \o a

\* mutant: the field before the first comma is kept and the last one dropped
GetPendingNoncesButLast(t) == Tail(Front(t))

\* getPendingNonces: nonceInfoList.splice(0, 1)
GetPendingNonces(t) == Tail(t)

ArrayInit ==
  /\ now = 0 /\ leading = Undefined /\ nonces = Undefined
  /\ text = Undefined /\ saved = Undefined

\* the new array is written; the write may be lost with the process
Store(a) ==
  /\ nonces' = a
  /\ \/ text' = SavePendingNonces(a) /\ saved' = a
     \/ UNCHANGED <<text, saved>>

\* the loops that push what they keep of an array, here what is in S, on a new one
Keep(a, S) ==
  LET kept[i \in 0 .. Len(a)] ==
        IF i = 0 THEN <<>>
        ELSE IF a[i] \in S THEN Append(kept[i - 1], a[i]) ELSE kept[i - 1]
  IN  kept[Len(a)]

DropExpiredPendingNonces ==
  /\ nonces # Undefined
  /\ Store(Keep(nonces, {p \in ToSet(nonces) :
       p.expiry > now /\ (leading = Undefined \/ p.nonce > leading)}))
  /\ UNCHANGED <<now, leading>>

FirstOverdue == SelectInSeq(nonces, LAMBDA p : now > p.expiry)

\* mutant: what is overdue is given out as a new last entry
GetNextNoncePush ==
  /\ nonces # Undefined /\ nonces # <<>>
  /\ LET n == IF FirstOverdue # 0 THEN nonces[FirstOverdue].nonce ELSE Last(nonces).nonce + 1
     IN  n <= MaxNonce /\ Store(Append(nonces, NonceInfo(n, now + PendingNonceTTL)))
  /\ UNCHANGED <<now, leading>>

\* getNextNonce with pending nonces: the first overdue one, or the next one
GetNextNonce ==
  /\ nonces # Undefined /\ nonces # <<>>
  /\ LET i == FirstOverdue
         next == Last(nonces).nonce + 1
         expiry == now + PendingNonceTTL
     IN  IF i # 0 THEN Store([nonces EXCEPT ![i].expiry = expiry])
         ELSE next <= MaxNonce /\ Store(Append(nonces, NonceInfo(next, expiry)))
  /\ UNCHANGED <<now, leading>>

\* getNextNonce found no pending nonce, at an earlier time, and asked getNonce
StartPending ==
  /\ leading # Undefined /\ leading < MaxNonce
  /\ \E base \in 0 .. now : Store(<<NonceInfo(leading + 1, base + PendingNonceTTL)>>)
  /\ UNCHANGED <<now, leading>>

\* provideNonce forgets the failed nonce and the ones after it
ForgetFrom ==
  /\ nonces # Undefined
  /\ \E n \in 0 .. MaxNonce : Store(Keep(nonces, {p \in ToSet(nonces) : p.nonce < n}))
  /\ UNCHANGED <<now, leading>>

\* init of a new process
Load ==
  /\ nonces' = IF text = Undefined THEN Undefined ELSE GetPendingNonces(text)
  /\ UNCHANGED <<now, leading, text, saved>>

SetLeading ==
  /\ leading' \in -1 .. MaxNonce
  /\ UNCHANGED <<now, nonces, text, saved>>

Tick ==
  /\ now < MaxTime /\ now' = now + 1
  /\ UNCHANGED <<leading, nonces, text, saved>>

ArrayNext ==
  \/ DropExpiredPendingNonces \/ GetNextNonce \/ StartPending \/ ForgetFrom
  \/ Load \/ SetLeading \/ Tick

ArraySpec == ArrayInit /\ [][ArrayNext]_arrayVars

-----------------------------------------------------------------------------
(* The nonces of the array go up one by one or with holes, never down and  *)
(* never twice: so its last entry plus one is a nonce that is not in it.   *)
NoncesIncrease ==
  nonces # Undefined => \A i, j \in DOMAIN nonces : i < j => nonces[i].nonce < nonces[j].nonce

AsFunction(a) ==
  IF a = Undefined THEN Undefined
  ELSE [n \in {a[i].nonce : i \in DOMAIN a} |->
          a[CHOOSE i \in DOMAIN a : a[i].nonce = n].expiry]

\* EVMNonceManager over this array and this leading nonce; its operators on
\* the pending array look at nothing else
Manager == INSTANCE EVMNonceManager WITH
  None <- Undefined, Requests <- {}, Boot <- Undefined, LocalNonceTTL <- 0, GivenNonces <- {}, MaxCount <- 0,
  pending <- AsFunction(nonces),
  leading <- IF leading = Undefined THEN Undefined ELSE NonceInfo(leading, 0),
  mode <- "ready", req <- <<>>, db <- <<>>, mined <- 0, pool <- {}, sent <- {}, issued <- {}

(* The operations on the array are the operations on the function that     *)
(* EVMNonceManager uses, and what a restart loads is what was stored.      *)
StepsMatch ==
  [][/\ DropExpiredPendingNonces =>
          AsFunction(nonces') = Manager!Unexpired(AsFunction(nonces))
     /\ GetNextNonce =>
          LET n == IF Manager!Overdue # {} THEN Manager!Min(Manager!Overdue)
                   ELSE Manager!Extended
          IN  AsFunction(nonces') = [m \in DOMAIN AsFunction(nonces) \cup {n} |->
                 IF m = n THEN now + PendingNonceTTL ELSE AsFunction(nonces)[m]]
     /\ Load => nonces' = saved]_arrayVars
=============================================================================
