----------------------- MODULE EVMNonceManager_proofs -----------------------
(***************************************************************************)
(* Proofs about EVMNonceManager for any number of requests, any TTLs, any  *)
(* bounds and any restarts: its type invariant; where its nonces come      *)
(* from, namely that the cached leading nonce was used and that nothing is *)
(* given out beyond a hole; and what it promises to requests that do not   *)
(* overlap (NonceHistory).                                                 *)
(***************************************************************************)
EXTENDS NonceHistory, FiniteSetTheorems, WellFoundedInduction, TLAPS

-----------------------------------------------------------------------------
(* The largest and the smallest nonce of a finite set, and restrictions    *)

(* Every nonempty set of naturals has a smallest element.                  *)
LEMMA SmallestExists ==
  ASSUME NEW S \in SUBSET Nat, S # {}
  PROVE  \E x \in S : \A y \in S : x <= y
<1> DEFINE Less == OpToRel(<, Nat)
<1>1. \A x, y \in Nat : y < x => <<y, x>> \in Less
  BY Zenon DEF OpToRel
<1>2. IsWellFoundedOn(Less, Nat)
  BY NatLessThanWellFounded
<1> HIDE DEF Less
<1>3. PICK x \in S : \A y \in S : ~ (<<y, x>> \in Less)
  BY <1>2, WFMin, Zenon
<1>4. \A y \in S : ~(y < x)
  BY <1>1, <1>3
<1> QED BY <1>4

(* Min, by which getNextNonce's first overdue entry is modelled.           *)
LEMMA MinProperty ==
  ASSUME NEW S \in SUBSET Nat, S # {}
  PROVE  Min(S) \in S /\ \A y \in S : Min(S) <= y
BY SmallestExists DEF Min

(* Every nonempty finite set of naturals has a largest element.            *)
LEMMA LargestExists ==
  ASSUME NEW S \in SUBSET Nat, IsFiniteSet(S), S # {}
  PROVE  \E x \in S : \A y \in S : x >= y
<1> DEFINE HasLargest(T) == \E x \in T : \A y \in T : x >= y
           Bad == {n \in Nat : \E T \in SUBSET Nat :
                     IsFiniteSet(T) /\ T # {} /\ Cardinality(T) = n /\ ~HasLargest(T)}
<1>1. Bad = {}
  <2> SUFFICES ASSUME Bad # {} PROVE FALSE
    OBVIOUS
  <2>1. PICK n \in Bad : \A m \in Bad : n <= m
    BY SmallestExists
  <2>2. PICK T \in SUBSET Nat :
          IsFiniteSet(T) /\ T # {} /\ Cardinality(T) = n /\ ~HasLargest(T)
    BY <2>1
  <2>3. PICK x \in T : TRUE
    BY <2>2
  <2> DEFINE R == T \ {x}
  <2>4. IsFiniteSet(R) /\ Cardinality(R) = n - 1
    BY <2>2, <2>3, FS_RemoveElement
  <2>5. R # {}
    BY <2>2, <2>3
  <2>6. n - 1 \in Nat /\ n \in Nat
    BY <2>4, <2>1, FS_CardinalityType
  <2>7. n - 1 \notin Bad
    BY <2>1, <2>6
  <2>8. HasLargest(R)
    BY <2>4, <2>5, <2>6, <2>7
  <2>9. PICK l \in R : \A y \in R : l >= y
    BY <2>8
  <2>10. HasLargest(T)
    <3>1. CASE l >= x
      BY <2>9, <3>1
    <3>2. CASE ~(l >= x)
      <4>1. \A y \in T : x >= y
        BY <2>2, <2>3, <2>9, <3>2
      <4> QED BY <4>1, <2>3
    <3> QED BY <3>1, <3>2
  <2> QED BY <2>2, <2>10
<1>2. Cardinality(S) \in Nat
  BY FS_CardinalityType
<1> QED BY <1>1, <1>2

(* Max, by which the last entry of the pending array is modelled.          *)
LEMMA MaxProperty ==
  ASSUME NEW S \in SUBSET Nat, IsFiniteSet(S), S # {}
  PROVE  Max(S) \in S /\ \A y \in S : Max(S) >= y
BY LargestExists DEF Max

-----------------------------------------------------------------------------
(* The type invariant                                                      *)

(* What the type invariant needs to be inductive: between the RPC answer   *)
(* of a merge and the end of the merge there is a leading nonce, and while *)
(* the process is down nothing is in flight.                               *)
LeadingKnown ==
  \A s \in Slots : req[s].pc \in {"mergeSave", "mergeDrop"} => leading # None

DownIdle == mode = "down" => \A s \in Slots : req[s].pc = "idle"

TypeInv == TypeOK /\ LeadingKnown /\ DownIdle

(* The part of TypeInv a segment can change.                               *)
ManagerInv ==
  /\ leading \in NonceInfo \cup {None}
  /\ pending = None \/ IsPending(pending)
  /\ mode \in {"down", "booting", "ready"}
  /\ req = [s \in Slots |-> req[s]]
  /\ \A s \in Slots : IsRequest(req[s])
  /\ issued \subseteq Nat
  /\ LeadingKnown /\ DownIdle

-----------------------------------------------------------------------------
(* Operators on the pending array.                                         *)

(* Filtering the array yields an array of some of its entries.             *)
LEMMA RestrictPending ==
  ASSUME NEW p, IsPending(p), NEW S \in SUBSET DOMAIN p
  PROVE  IsPending(Restrict(p, S)) /\ DOMAIN Restrict(p, S) = S
<1>1. IsFiniteSet(S)
  BY FS_Subset DEF IsPending
<1> QED BY <1>1 DEF IsPending, Restrict

LEMMA UnexpiredPending ==
  ASSUME NEW p, IsPending(p)
  PROVE  IsPending(Unexpired(p)) /\ DOMAIN Unexpired(p) \subseteq DOMAIN p
<1> DEFINE S == {n \in DOMAIN p : p[n] > now /\ (leading # None => n > leading.nonce)}
<1>1. Unexpired(p) = Restrict(p, S)
  BY DEF Unexpired, RestrictDomain
<1> QED BY <1>1, RestrictPending

(* Adding or renewing an entry yields an array.                            *)
LEMMA ExtendPending ==
  ASSUME NEW p, IsPending(p), NEW n \in Nat, NEW e \in Nat
  PROVE  LET q == [m \in DOMAIN p \cup {n} |-> IF m = n THEN e ELSE p[m]]
         IN  IsPending(q) /\ DOMAIN q = DOMAIN p \cup {n}
<1>1. IsFiniteSet(DOMAIN p \cup {n})
  BY FS_AddElement DEF IsPending
<1> QED BY <1>1 DEF IsPending

LEMMA SinglePending ==
  ASSUME NEW n \in Nat, NEW e \in Nat
  PROVE  IsPending([m \in {n} |-> e])
BY FS_Singleton DEF IsPending

-----------------------------------------------------------------------------
(* The idle record, and a suspended request, keep the shape of req.        *)
LEMMA IdleIsRequest == IsRequest(Idle)
BY DEF IsRequest, Idle, Awaits, Methods

(* Updating one field of a request by a value of its type.                 *)
LEMMA UpdateRequest ==
  ASSUME NEW r, IsRequest(r)
  PROVE  /\ \A x \in Awaits : LET q == [r EXCEPT !.pc = x] IN IsRequest(q) /\ q.pc = x
         /\ \A x \in Methods : LET q == [r EXCEPT !.method = x] IN IsRequest(q) /\ q.pc = r.pc
         /\ \A x \in Nat : LET q == [r EXCEPT !.nonce = x] IN IsRequest(q) /\ q.pc = r.pc
         /\ \A x \in Nat : LET q == [r EXCEPT !.count = x] IN IsRequest(q) /\ q.pc = r.pc
         /\ \A x \in Nat : LET q == [r EXCEPT !.asked = x] IN IsRequest(q) /\ q.pc = r.pc
         /\ \A x \in Nat : LET q == [r EXCEPT !.base = x] IN IsRequest(q) /\ q.pc = r.pc
         /\ IsRequest([r EXCEPT !.merge = "inner"])
         /\ \A x \in NonceInfo \cup {None} :
              LET q == [r EXCEPT !.leadSave = x] IN IsRequest(q) /\ q.pc = r.pc
         /\ \A x : x = None \/ IsPending(x) =>
              LET q == [r EXCEPT !.pendSave = x] IN IsRequest(q) /\ q.pc = r.pc
<1>1. \A x \in Awaits : LET q == [r EXCEPT !.pc = x] IN IsRequest(q) /\ q.pc = x
  BY DEF IsRequest
<1>2. \A x \in Methods : LET q == [r EXCEPT !.method = x] IN IsRequest(q) /\ q.pc = r.pc
  BY DEF IsRequest
<1>3. \A x \in Nat : LET q == [r EXCEPT !.nonce = x] IN IsRequest(q) /\ q.pc = r.pc
  BY DEF IsRequest
<1>4. \A x \in Nat : LET q == [r EXCEPT !.count = x] IN IsRequest(q) /\ q.pc = r.pc
  BY DEF IsRequest
<1>5. \A x \in Nat : LET q == [r EXCEPT !.asked = x] IN IsRequest(q) /\ q.pc = r.pc
  BY DEF IsRequest
<1>6. \A x \in Nat : LET q == [r EXCEPT !.base = x] IN IsRequest(q) /\ q.pc = r.pc
  BY DEF IsRequest
<1>7. IsRequest([r EXCEPT !.merge = "inner"])
  BY DEF IsRequest
<1>8. \A x \in NonceInfo \cup {None} :
        LET q == [r EXCEPT !.leadSave = x] IN IsRequest(q) /\ q.pc = r.pc
  BY DEF IsRequest
<1>9. \A x : x = None \/ IsPending(x) =>
        LET q == [r EXCEPT !.pendSave = x] IN IsRequest(q) /\ q.pc = r.pc
  BY DEF IsRequest
<1> QED BY <1>1, <1>2, <1>3, <1>4, <1>5, <1>6, <1>7, <1>8, <1>9

LEMMA SuspendType ==
  ASSUME TypeInv, mode # "down", mode' # "down", NEW s \in Slots, NEW r, IsRequest(r),
         r.pc \in {"mergeSave", "mergeDrop"} => leading' # None,
         leading # None => leading' # None,
         Suspend(s, r)
  PROVE  /\ req' = [t \in Slots |-> req'[t]]
         /\ \A t \in Slots : IsRequest(req'[t])
         /\ LeadingKnown' /\ DownIdle'
<1>1. req' = [t \in Slots |-> IF t = s THEN r ELSE req[t]]
  BY DEF Suspend, TypeInv, TypeOK
<1> QED BY <1>1 DEF TypeInv, TypeOK, LeadingKnown, DownIdle

-----------------------------------------------------------------------------
(* Each segment keeps the manager's part of the type invariant.            *)
LEMMA AskNodeType ==
  ASSUME TypeInv, mode # "down", NEW s \in Slots, NEW r, IsRequest(r), AskNode(s, r)
  PROVE  ManagerInv'
<1> DEFINE q1 == [r EXCEPT !.pc = "rpc"]
           q2 == [q1 EXCEPT !.count = mined]
           q == [q2 EXCEPT !.asked = now]
<1>1. IsRequest(q) /\ q.pc = "rpc"
  <2>1. "rpc" \in Awaits /\ mined \in Nat /\ now \in Nat
    BY DEF Awaits, TypeInv, TypeOK
  <2>2. IsRequest(q1) /\ q1.pc = "rpc"
    BY <2>1, UpdateRequest
  <2> HIDE DEF q1
  <2>3. IsRequest(q2) /\ q2.pc = "rpc"
    BY <2>1, <2>2, UpdateRequest
  <2> HIDE DEF q2
  <2> QED BY <2>1, <2>3, UpdateRequest
<1>2. Suspend(s, q) /\ UNCHANGED <<leading, pending, mode, issued>>
  BY DEF AskNode, manager
<1>3. /\ req' = [t \in Slots |-> req'[t]]
      /\ \A t \in Slots : IsRequest(req'[t])
      /\ LeadingKnown' /\ DownIdle'
  <2> HIDE DEF q
  <2> QED BY <1>1, <1>2, SuspendType
<1> QED BY <1>2, <1>3 DEF ManagerInv, TypeInv, TypeOK

LEMMA FinishType ==
  ASSUME TypeInv, mode # "down", NEW s \in Slots, Finish(s)
  PROVE  ManagerInv'
<1>1. Suspend(s, Idle) /\ UNCHANGED <<leading, pending, issued>> /\ mode' \in {"ready", mode}
  BY DEF Finish
<1>2. Idle.pc = "idle"
  BY DEF Idle
<1>3. /\ req' = [t \in Slots |-> req'[t]]
      /\ \A t \in Slots : IsRequest(req'[t])
      /\ LeadingKnown' /\ DownIdle'
  BY <1>1, <1>2, SuspendType, IdleIsRequest
<1> QED BY <1>1, <1>3 DEF ManagerInv, TypeInv, TypeOK

LEMMA ReserveType ==
  ASSUME TypeInv, mode # "down", NEW s \in Slots, NEW r, IsRequest(r),
         NEW n \in Nat, NEW p, IsPending(p), Reserve(s, r, n, p)
  PROVE  ManagerInv'
<1> DEFINE q1 == [Idle EXCEPT !.pc = "reserve"]
           q2 == [q1 EXCEPT !.method = r.method]
           q3 == [q2 EXCEPT !.nonce = n]
           q == [q3 EXCEPT !.pendSave = p]
<1>1. IsRequest(q) /\ q.pc = "reserve"
  <2>1. "reserve" \in Awaits /\ r.method \in Methods
    BY DEF Awaits, IsRequest
  <2>2. IsRequest(q1) /\ q1.pc = "reserve"
    BY <2>1, UpdateRequest, IdleIsRequest
  <2> HIDE DEF q1
  <2>3. IsRequest(q2) /\ q2.pc = "reserve"
    BY <2>1, <2>2, UpdateRequest
  <2> HIDE DEF q2
  <2>4. IsRequest(q3) /\ q3.pc = "reserve"
    BY <2>3, UpdateRequest
  <2> HIDE DEF q3
  <2> QED BY <2>4, UpdateRequest
<1>2. Suspend(s, q) /\ UNCHANGED <<leading, mode>> /\ pending' = p /\ issued' = issued \cup {n}
  BY DEF Reserve
<1>3. /\ req' = [t \in Slots |-> req'[t]]
      /\ \A t \in Slots : IsRequest(req'[t])
      /\ LeadingKnown' /\ DownIdle'
  <2> HIDE DEF q
  <2> QED BY <1>1, <1>2, SuspendType
<1> QED BY <1>2, <1>3 DEF ManagerInv, TypeInv, TypeOK

LEMMA TakeLeadingType ==
  ASSUME TypeInv, mode # "down", NEW s \in Slots, NEW r, IsRequest(r),
         leading # None, TakeLeading(s, r)
  PROVE  ManagerInv'
<1> DEFINE n == leading.nonce + 1
           e == r.base + PendingNonceTTL
<1>1. n \in Nat /\ e \in Nat
  BY TTLAssumption DEF TypeInv, TypeOK, NonceInfo, IsRequest
<1>2. Reserve(s, r, n, [m \in {n} |-> e])
  BY DEF TakeLeading
<1> HIDE DEF n, e
<1> QED BY <1>1, <1>2, SinglePending, ReserveType

(* The nonce Select takes from the array: an overdue one, or the next.     *)
LEMMA SelectedNonce ==
  ASSUME TypeInv, HasPending
  PROVE  /\ Overdue # {} => Min(Overdue) \in DOMAIN pending
         /\ Max(DOMAIN pending) \in DOMAIN pending
         /\ DOMAIN pending \subseteq Nat
<1>1. DOMAIN pending \in SUBSET Nat /\ IsFiniteSet(DOMAIN pending) /\ DOMAIN pending # {}
  BY DEF TypeInv, TypeOK, HasPending, IsPending
<1>2. Overdue \in SUBSET DOMAIN pending
  BY DEF Overdue
<1> QED BY <1>1, <1>2, MaxProperty, MinProperty

LEMMA SelectType ==
  ASSUME TypeInv, mode # "down", NEW s \in Slots, NEW r, IsRequest(r), Select(s, r)
  PROVE  ManagerInv'
<1>1. CASE HasPending
  <2> DEFINE n == IF Overdue # {} THEN Min(Overdue) ELSE Extended
             e == now + PendingNonceTTL
             q == [m \in DOMAIN pending \cup {n} |-> IF m = n THEN e ELSE pending[m]]
  <2>1. n \in Nat /\ e \in Nat
    BY <1>1, SelectedNonce, TTLAssumption DEF TypeInv, TypeOK, Extended
  <2>2. Reserve(s, r, n, q)
    BY <1>1 DEF Select
  <2>3. IsPending(pending)
    BY <1>1 DEF HasPending, TypeInv, TypeOK
  <2> HIDE DEF n, e
  <2>4. IsPending(q)
    BY <2>1, <2>3, ExtendPending
  <2> QED BY <2>1, <2>2, <2>4, ReserveType
<1>2. CASE ~HasPending /\ Fresh
  <2> DEFINE q == [r EXCEPT !.base = now]
  <2>1. IsRequest(q)
    BY DEF IsRequest, TypeInv, TypeOK
  <2>2. TakeLeading(s, q) /\ leading # None
    BY <1>2 DEF Select, Fresh
  <2> HIDE DEF q
  <2> QED BY <2>1, <2>2, TakeLeadingType
<1>3. CASE ~HasPending /\ ~Fresh
  <2> DEFINE q1 == [r EXCEPT !.base = now]
             q == [q1 EXCEPT !.merge = "inner"]
  <2>1. IsRequest(q)
    <3>1. IsRequest(q1)
      BY UpdateRequest DEF TypeInv, TypeOK
    <3> HIDE DEF q1
    <3> QED BY <3>1, UpdateRequest
  <2>2. AskNode(s, q)
    BY <1>3 DEF Select
  <2> HIDE DEF q
  <2> QED BY <2>1, <2>2, AskNodeType
<1> QED BY <1>1, <1>2, <1>3

LEMMA MergeReturnsType ==
  ASSUME TypeInv, mode # "down", NEW s \in Slots, NEW r, IsRequest(r),
         leading # None, MergeReturns(s, r)
  PROVE  ManagerInv'
<1>1. CASE r.merge = "inner"
  BY <1>1, TakeLeadingType DEF MergeReturns
<1>2. CASE r.merge # "inner" /\ r.method \in {"init", "getNonce"}
  BY <1>2, FinishType DEF MergeReturns
<1>3. CASE r.merge # "inner" /\ r.method \notin {"init", "getNonce"} /\ pending = None
  BY <1>3, SelectType DEF MergeReturns
<1>4. CASE r.merge # "inner" /\ r.method \notin {"init", "getNonce"} /\ pending # None
  <2> DEFINE p == Unexpired(pending)
             q1 == [r EXCEPT !.pc = "drop"]
             q == [q1 EXCEPT !.pendSave = p]
  <2>1. IsPending(p)
    BY <1>4, UnexpiredPending DEF TypeInv, TypeOK
  <2>2. Suspend(s, q) /\ UNCHANGED <<leading, mode, issued>> /\ pending' = p
    BY <1>4 DEF MergeReturns
  <2> HIDE DEF p
  <2>3. IsRequest(q) /\ q.pc = "drop"
    <3>1. "drop" \in Awaits
      BY DEF Awaits
    <3>2. IsRequest(q1) /\ q1.pc = "drop"
      BY <3>1, UpdateRequest
    <3> HIDE DEF q1
    <3> QED BY <2>1, <3>2, UpdateRequest
  <2>4. /\ req' = [t \in Slots |-> req'[t]]
        /\ \A t \in Slots : IsRequest(req'[t])
        /\ LeadingKnown' /\ DownIdle'
    <3> HIDE DEF q
    <3> QED BY <2>2, <2>3, SuspendType
  <2> QED BY <2>1, <2>2, <2>4 DEF ManagerInv, TypeInv, TypeOK
<1> QED BY <1>1, <1>2, <1>3, <1>4

LEMMA EnterMergeType ==
  ASSUME TypeInv, mode # "down", NEW s \in Slots, NEW r, IsRequest(r), EnterMerge(s, r)
  PROVE  ManagerInv'
<1>1. CASE Fresh
  BY <1>1, MergeReturnsType DEF EnterMerge, Fresh
<1>2. CASE ~Fresh
  BY <1>2, AskNodeType DEF EnterMerge
<1> QED BY <1>1, <1>2

-----------------------------------------------------------------------------
(* From segments to actions.                                               *)
StoreInv ==
  /\ db = [leading |-> db.leading, pending |-> db.pending]
  /\ db.leading \in NonceInfo \cup {None}
  /\ db.pending = None \/ IsPending(db.pending)

NodeInv == now \in Nat /\ mined \in Nat /\ pool \subseteq Nat /\ sent \subseteq Nat

LEMMA TypeParts == TypeInv <=> ManagerInv /\ StoreInv /\ NodeInv
BY DEF TypeInv, TypeOK, ManagerInv, StoreInv, NodeInv

LEMMA TypePartsNext == TypeInv' <=> ManagerInv' /\ StoreInv' /\ NodeInv'
BY TypeParts, PTL

LEMMA SettledType ==
  ASSUME TypeInv, UNCHANGED <<now, db, node>>
  PROVE  StoreInv' /\ NodeInv'
BY TypeParts DEF StoreInv, NodeInv, node

LEMMA SuspendManager ==
  ASSUME TypeInv, mode # "down", UNCHANGED <<mode, issued>>, NEW s \in Slots,
         NEW r, IsRequest(r), r.pc \notin {"mergeSave", "mergeDrop"}, Suspend(s, r),
         leading' = leading, pending' = None \/ IsPending(pending')
  PROVE  ManagerInv'
<1>1. /\ req' = [t \in Slots |-> req'[t]]
      /\ \A t \in Slots : IsRequest(req'[t])
      /\ LeadingKnown' /\ DownIdle'
  BY SuspendType
<1> QED BY <1>1 DEF ManagerInv, TypeInv, TypeOK

(* What is in flight is not idle, so the process is up.                    *)
LEMMA InFlightUp ==
  ASSUME TypeInv, NEW s \in Slots, req[s].pc # "idle"
  PROVE  mode # "down" /\ IsRequest(req[s])
BY DEF TypeInv, TypeOK, DownIdle

LEMMA SavedType ==
  ASSUME TypeInv, NEW s \in Slots, LeadingSaved(s) \/ PendingSaved(s)
  PROVE  StoreInv' /\ NodeInv'
<1>1. IsRequest(req[s])
  BY DEF TypeInv, TypeOK
<1>2. CASE LeadingSaved(s)
  BY <1>1, <1>2, TypeParts DEF LeadingSaved, StoreInv, NodeInv, node, IsRequest
<1>3. CASE PendingSaved(s)
  BY <1>1, <1>3, TypeParts DEF PendingSaved, StoreInv, NodeInv, node, IsRequest
<1> QED BY <1>2, <1>3

LEMMA SetLeadingType ==
  ASSUME TypeInv, mode # "down", NEW s \in Slots, NEW r, IsRequest(r),
         NEW n \in Nat \cup {-1}, NEW e \in Nat, SetLeading(s, r, n, e)
  PROVE  TypeInv'
<1> DEFINE info == [nonce |-> n, expiry |-> e]
           q == [r EXCEPT !.leadSave = info]
<1>1. info \in NonceInfo /\ info # None
  BY NoneAssumption DEF NonceInfo
<1>2. leading' = info /\ Suspend(s, q) /\ UNCHANGED <<now, pending, mode, db, node, issued>>
  BY DEF SetLeading
<1> HIDE DEF info
<1>3. IsRequest(q)
  BY <1>1, UpdateRequest
<1>4. /\ req' = [t \in Slots |-> req'[t]]
      /\ \A t \in Slots : IsRequest(req'[t])
      /\ LeadingKnown' /\ DownIdle'
  <2> HIDE DEF q
  <2> QED BY <1>1, <1>2, <1>3, SuspendType
<1>5. ManagerInv'
  BY <1>1, <1>2, <1>4 DEF ManagerInv, TypeInv, TypeOK
<1> QED BY <1>2, <1>5, SettledType, TypePartsNext

LEMMA AbortType ==
  ASSUME TypeInv, mode # "down", NEW s \in Slots, Abort(s)
  PROVE  TypeInv'
<1>1. CASE pending = None
  <2>1. Idle.pc = "idle"
    BY DEF Idle
  <2>2. ManagerInv'
    BY <1>1, <2>1, SuspendManager, IdleIsRequest DEF Abort, TypeInv, TypeOK
  <2> QED BY <2>2, SettledType, TypePartsNext DEF Abort
<1>2. CASE pending # None
  <2> DEFINE S == {n \in DOMAIN pending : n < req[s].nonce}
             kept == Restrict(pending, S)
             q1 == [Idle EXCEPT !.pc = "abort"]
             q == [q1 EXCEPT !.pendSave = kept]
  <2>1. IsPending(kept)
    BY <1>2, RestrictPending DEF TypeInv, TypeOK
  <2>2. /\ pending' = kept /\ Suspend(s, q)
        /\ UNCHANGED <<now, leading, mode, db, node, issued>>
    BY <1>2 DEF Abort, RestrictDomain
  <2>3. IsRequest(q) /\ q.pc = "abort"
    <3>1. "abort" \in Awaits
      BY DEF Awaits
    <3>2. IsRequest(q1) /\ q1.pc = "abort"
      BY <3>1, UpdateRequest, IdleIsRequest
    <3> HIDE DEF q1, kept
    <3> QED BY <2>1, <3>2, UpdateRequest
  <2> HIDE DEF q, kept
  <2>4. ManagerInv'
    BY <2>1, <2>2, <2>3, SuspendManager
  <2> QED BY <2>2, <2>4, SettledType, TypePartsNext
<1> QED BY <1>1, <1>2

-----------------------------------------------------------------------------
(* One lemma per group of actions: each keeps the type invariant.          *)
LEMMA ArrivalType ==
  ASSUME TypeInv, NEW r \in Requests, GetNextNonce(r) \/ ProvideGivenNonce(r) \/ GetNonce(r)
  PROVE  TypeInv'
<1>1. r \in Slots /\ mode # "down" /\ UNCHANGED <<now, db, node>>
  BY DEF Arrives, Slots, GetNextNonce, ProvideGivenNonce, GetNonce
<1>2. \A m \in Methods : LET q == [Idle EXCEPT !.method = m]
                         IN  IsRequest(q) /\ q.pc = "idle"
  BY IdleIsRequest, UpdateRequest DEF Idle
<1>3. {"provideNonce", "getNextNonce", "getNonce", "provideGiven"} \subseteq Methods
      /\ {"node", "send"} \subseteq Awaits
  BY DEF Methods, Awaits
<1>4. CASE GetNextNonce(r)
  <2>1. PICK m \in {"provideNonce", "getNextNonce"} : EnterMerge(r, [Idle EXCEPT !.method = m])
    BY <1>4 DEF GetNextNonce
  <2>2. ManagerInv'
    BY <1>1, <1>2, <1>3, <2>1, EnterMergeType
  <2> QED BY <1>1, <2>2, SettledType, TypePartsNext
<1>5. CASE ProvideGivenNonce(r)
  <2>1. PICK n \in GivenNonces :
          Suspend(r, [Idle EXCEPT !.pc = "send", !.method = "provideGiven", !.nonce = n])
    BY <1>5 DEF ProvideGivenNonce
  <2> DEFINE q1 == [Idle EXCEPT !.pc = "send"]
             q2 == [q1 EXCEPT !.method = "provideGiven"]
             q == [q2 EXCEPT !.nonce = n]
  <2>2. IsRequest(q) /\ q.pc = "send"
    <3>1. IsRequest(q1) /\ q1.pc = "send"
      BY <1>3, UpdateRequest, IdleIsRequest
    <3> HIDE DEF q1
    <3>2. IsRequest(q2) /\ q2.pc = "send"
      BY <1>3, <3>1, UpdateRequest
    <3> HIDE DEF q2
    <3>3. n \in Nat
      BY GivenAssumption
    <3> QED BY <3>2, <3>3, UpdateRequest
  <2>3. Suspend(r, q) /\ UNCHANGED <<manager, issued>>
    BY <1>5, <2>1 DEF ProvideGivenNonce
  <2> HIDE DEF q
  <2>4. ManagerInv'
    BY <1>1, <2>2, <2>3, SuspendManager DEF manager, TypeInv, TypeOK
  <2> QED BY <1>1, <2>4, SettledType, TypePartsNext
<1>6. CASE GetNonce(r)
  <2> DEFINE m == [Idle EXCEPT !.method = "getNonce"]
  <2>1. IsRequest(m)
    BY <1>2, <1>3
  <2>2. CASE leading # None
    <3>1. EnterMerge(r, m)
      BY <1>6, <2>2 DEF GetNonce
    <3> HIDE DEF m
    <3>2. ManagerInv'
      BY <1>1, <2>1, <3>1, EnterMergeType
    <3> QED BY <1>1, <3>2, SettledType, TypePartsNext
  <2>3. CASE leading = None
    <3> DEFINE q1 == [m EXCEPT !.pc = "node"]
               q == [q1 EXCEPT !.count = mined]
    <3>1. Suspend(r, q) /\ UNCHANGED <<manager, issued>>
      BY <1>6, <2>3 DEF GetNonce
    <3> HIDE DEF m
    <3>2. IsRequest(q1) /\ q1.pc = "node" /\ mined \in Nat
      BY <1>3, <2>1, UpdateRequest DEF TypeInv, TypeOK
    <3> HIDE DEF q1
    <3>3. IsRequest(q) /\ q.pc = "node"
      BY <3>2, UpdateRequest
    <3> HIDE DEF q
    <3>4. ManagerInv'
      BY <1>1, <3>1, <3>3, SuspendManager DEF manager, TypeInv, TypeOK
    <3> QED BY <1>1, <3>4, SettledType, TypePartsNext
  <2> QED BY <2>2, <2>3
<1> QED BY <1>4, <1>5, <1>6

LEMMA RpcType ==
  ASSUME TypeInv, NEW s \in Slots,
         MergeNonceFromEVMNode(s) \/ GetNonceFromNode(s) \/ RpcFails(s)
  PROVE  TypeInv'
<1>1. mode # "down" /\ IsRequest(req[s])
  BY InFlightUp DEF MergeNonceFromEVMNode, GetNonceFromNode, RpcFails
<1>2. \A c \in req[s].count .. mined : c - 1 \in Nat \cup {-1}
  BY <1>1 DEF IsRequest
<1>3. CASE MergeNonceFromEVMNode(s)
  <2> DEFINE q1 == [req[s] EXCEPT !.pc = "mergeSave"]
             q2 == [q1 EXCEPT !.count = 0]
             q == [q2 EXCEPT !.asked = 0]
             e == req[s].asked + LocalNonceTTL
  <2>1. PICK c \in req[s].count .. mined : SetLeading(s, q, c - 1, e)
    BY <1>3 DEF MergeNonceFromEVMNode
  <2>2. e \in Nat
    BY <1>1, TTLAssumption DEF IsRequest
  <2>3. IsRequest(q)
    <3>1. "mergeSave" \in Awaits
      BY DEF Awaits
    <3>2. IsRequest(q1)
      BY <1>1, <3>1, UpdateRequest
    <3> HIDE DEF q1
    <3>3. IsRequest(q2)
      BY <3>2, UpdateRequest
    <3> HIDE DEF q2
    <3> QED BY <3>3, UpdateRequest
  <2> HIDE DEF q, e
  <2> QED BY <1>1, <1>2, <2>1, <2>2, <2>3, SetLeadingType
<1>4. CASE GetNonceFromNode(s)
  <2> DEFINE q == [Idle EXCEPT !.pc = "nodeSave"]
             e == now + PendingNonceTTL
  <2>1. PICK c \in req[s].count .. mined : SetLeading(s, q, c - 1, e)
    BY <1>4 DEF GetNonceFromNode
  <2>2. "nodeSave" \in Awaits /\ e \in Nat
    BY TTLAssumption DEF Awaits, TypeInv, TypeOK
  <2>3. IsRequest(q)
    BY <2>2, UpdateRequest, IdleIsRequest
  <2> HIDE DEF q, e
  <2> QED BY <1>1, <1>2, <2>1, <2>2, <2>3, SetLeadingType
<1>5. CASE RpcFails(s)
  <2>1. Idle.pc = "idle" /\ Suspend(s, Idle) /\ UNCHANGED <<manager, issued, now, db, node>>
    BY <1>5 DEF RpcFails, Idle
  <2>2. ManagerInv'
    BY <1>1, <2>1, SuspendManager, IdleIsRequest DEF manager, TypeInv, TypeOK
  <2> QED BY <2>1, <2>2, SettledType, TypePartsNext
<1> QED BY <1>3, <1>4, <1>5

LEMMA SavesType ==
  ASSUME TypeInv, NEW s \in Slots,
         \/ MergeSaved(s) \/ MergeDropped(s) \/ DropSaved(s) \/ Reserved(s) \/ Returns(s)
  PROVE  TypeInv'
<1>1. mode # "down" /\ IsRequest(req[s])
  BY InFlightUp DEF MergeSaved, MergeDropped, DropSaved, Reserved, Returns
<1>2. StoreInv' /\ NodeInv'
  BY SavedType DEF MergeSaved, MergeDropped, DropSaved, Reserved, Returns
<1>3. req[s].pc \in {"mergeSave", "mergeDrop"} => leading # None
  BY DEF TypeInv, LeadingKnown
<1>4. Idle.pc = "idle"
  BY DEF Idle
<1>5. CASE MergeSaved(s)
  <2> DEFINE r == [req[s] EXCEPT !.leadSave = None]
             p == Unexpired(pending)
             q1 == [r EXCEPT !.pc = "mergeDrop"]
             q == [q1 EXCEPT !.pendSave = p]
  <2>1. IsRequest(r) /\ leading # None
    BY <1>1, <1>3, <1>5, UpdateRequest DEF MergeSaved
  <2>2. CASE pending = None
    <3>1. MergeReturns(s, r)
      BY <1>5, <2>2 DEF MergeSaved
    <3> HIDE DEF r
    <3>2. ManagerInv'
      BY <1>1, <2>1, <3>1, MergeReturnsType
    <3> QED BY <1>2, <3>2, TypePartsNext
  <2>3. CASE pending # None
    <3>1. pending' = p /\ Suspend(s, q) /\ UNCHANGED <<leading, mode, issued>>
      BY <1>5, <2>3 DEF MergeSaved
    <3>2. IsPending(p)
      BY <2>3, UnexpiredPending DEF TypeInv, TypeOK
    <3> HIDE DEF r, p
    <3>3. "mergeDrop" \in Awaits
      BY DEF Awaits
    <3>4. IsRequest(q1)
      BY <2>1, <3>3, UpdateRequest
    <3> HIDE DEF q1
    <3>5. IsRequest(q)
      BY <3>2, <3>4, UpdateRequest
    <3> HIDE DEF q
    <3>6. /\ req' = [t \in Slots |-> req'[t]]
          /\ \A t \in Slots : IsRequest(req'[t])
          /\ LeadingKnown' /\ DownIdle'
      BY <1>1, <2>1, <3>1, <3>5, SuspendType
    <3>7. ManagerInv'
      BY <3>1, <3>2, <3>6 DEF ManagerInv, TypeInv, TypeOK
    <3> QED BY <1>2, <3>7, TypePartsNext
  <2> QED BY <2>2, <2>3
<1>6. CASE MergeDropped(s)
  <2> DEFINE r == [req[s] EXCEPT !.pendSave = None]
  <2>1. IsRequest(r) /\ leading # None /\ MergeReturns(s, r)
    BY <1>1, <1>3, <1>6, UpdateRequest DEF MergeDropped
  <2> HIDE DEF r
  <2>2. ManagerInv'
    BY <1>1, <2>1, MergeReturnsType
  <2> QED BY <1>2, <2>2, TypePartsNext
<1>7. CASE DropSaved(s)
  <2> DEFINE r == [req[s] EXCEPT !.pendSave = None]
  <2>1. IsRequest(r) /\ Select(s, r)
    BY <1>1, <1>7, UpdateRequest DEF DropSaved
  <2> HIDE DEF r
  <2>2. ManagerInv'
    BY <1>1, <2>1, SelectType
  <2> QED BY <1>2, <2>2, TypePartsNext
<1>8. CASE Reserved(s)
  <2> DEFINE q1 == [Idle EXCEPT !.pc = "send"]
             q2 == [q1 EXCEPT !.method = "provideNonce"]
             q == [q2 EXCEPT !.nonce = req[s].nonce]
  <2>1. (Suspend(s, q) \/ Suspend(s, Idle)) /\ UNCHANGED <<manager, issued>>
    BY <1>8 DEF Reserved
  <2>2. IsRequest(q) /\ q.pc = "send"
    <3>1. "send" \in Awaits /\ "provideNonce" \in Methods /\ req[s].nonce \in Nat
      BY <1>1 DEF Awaits, Methods, IsRequest
    <3>2. IsRequest(q1) /\ q1.pc = "send"
      BY <3>1, UpdateRequest, IdleIsRequest
    <3> HIDE DEF q1
    <3>3. IsRequest(q2) /\ q2.pc = "send"
      BY <3>1, <3>2, UpdateRequest
    <3> HIDE DEF q2
    <3> QED BY <3>1, <3>3, UpdateRequest
  <2> HIDE DEF q
  <2>3. ManagerInv'
    BY <1>1, <1>4, <2>1, <2>2, SuspendManager, IdleIsRequest DEF manager, TypeInv, TypeOK
  <2> QED BY <1>2, <2>3, TypePartsNext
<1>9. CASE Returns(s)
  <2>1. Suspend(s, Idle) /\ UNCHANGED <<manager, issued>>
    BY <1>9 DEF Returns
  <2>2. ManagerInv'
    BY <1>1, <1>4, <2>1, SuspendManager, IdleIsRequest DEF manager, TypeInv, TypeOK
  <2> QED BY <1>2, <2>2, TypePartsNext
<1> QED BY <1>5, <1>6, <1>7, <1>8, <1>9

LEMMA SendType ==
  ASSUME TypeInv, NEW s \in Slots,
         NodeAccepts(s) \/ CommitNonce(s) \/ SendFails(s) \/ SaveFails(s)
  PROVE  TypeInv'
<1>1. mode # "down" /\ IsRequest(req[s])
  BY InFlightUp DEF NodeAccepts, CommitNonce, SendFails, SaveFails, Writes
<1>2. req[s].nonce \in Nat
  BY <1>1 DEF IsRequest
<1>3. CASE NodeAccepts(s)
  <2> DEFINE q == [req[s] EXCEPT !.pc = "sent"]
  <2>1. Suspend(s, q) /\ UNCHANGED <<now, manager, db, mined, issued>>
    BY <1>3 DEF NodeAccepts
  <2>2. "sent" \in Awaits
    BY DEF Awaits
  <2>3. IsRequest(q) /\ q.pc = "sent"
    BY <1>1, <2>2, UpdateRequest
  <2> HIDE DEF q
  <2>4. ManagerInv'
    BY <1>1, <2>1, <2>3, SuspendManager DEF manager, TypeInv, TypeOK
  <2>5. StoreInv' /\ NodeInv'
    BY <1>2, <1>3, <2>1, TypeParts DEF NodeAccepts, StoreInv, NodeInv
  <2> QED BY <2>4, <2>5, TypePartsNext
<1>4. CASE CommitNonce(s)
  <2> DEFINE n == req[s].nonce
             q == [Idle EXCEPT !.pc = "commit", !.nonce = n]
             e == now + LocalNonceTTL
  <2>1. SetLeading(s, q, n, e) \/ Abort(s)
    BY <1>4 DEF CommitNonce
  <2>2. "commit" \in Awaits /\ e \in Nat
    BY TTLAssumption DEF Awaits, TypeInv, TypeOK
  <2>3. IsRequest(q)
    <3> DEFINE q1 == [Idle EXCEPT !.pc = "commit"]
    <3>1. IsRequest(q1)
      BY <2>2, UpdateRequest, IdleIsRequest
    <3>2. q = [q1 EXCEPT !.nonce = n]
      BY DEF Idle
    <3> HIDE DEF q1, q
    <3> QED BY <1>2, <3>1, <3>2, UpdateRequest
  <2> HIDE DEF q, e
  <2> QED BY <1>1, <1>2, <2>1, <2>2, <2>3, SetLeadingType, AbortType
<1>5. CASE SendFails(s)
  BY <1>1, <1>5, AbortType DEF SendFails
<1>6. CASE SaveFails(s) /\ req[s].pc = "commit"
  BY <1>1, <1>6, AbortType DEF SaveFails
<1>7. CASE SaveFails(s) /\ req[s].pc # "commit"
  <2>1. Suspend(s, Idle) /\ UNCHANGED <<now, manager, db, node, issued>>
    BY <1>7 DEF SaveFails
  <2>2. Idle.pc \notin {"mergeSave", "mergeDrop"}
    BY DEF Idle
  <2>3. ManagerInv'
    BY <1>1, <2>1, <2>2, SuspendManager, IdleIsRequest DEF manager, TypeInv, TypeOK
  <2> QED BY <2>1, <2>3, SettledType, TypePartsNext
<1> QED BY <1>3, <1>4, <1>5, <1>6, <1>7

LEMMA CrashType ==
  ASSUME TypeInv, Crash
  PROVE  TypeInv'
<1> DEFINE written(field, saves) == {db[field]} \cup (saves \ {None})
           L == written("leading", {req[s].leadSave : s \in Slots})
           P == written("pending", {req[s].pendSave : s \in Slots})
<1>1. db' \in [leading : L, pending : P]
  BY DEF Crash
<1>2. \A l \in L : l \in NonceInfo \cup {None}
  BY DEF TypeInv, TypeOK, IsRequest
<1>3. \A p \in P : p = None \/ IsPending(p)
  BY DEF TypeInv, TypeOK, IsRequest
<1>4. StoreInv'
  <2> HIDE DEF L, P
  <2>1. /\ db' = [leading |-> db'.leading, pending |-> db'.pending]
        /\ db'.leading \in L /\ db'.pending \in P
    BY <1>1
  <2> QED BY <1>2, <1>3, <2>1 DEF StoreInv
<1>5. /\ leading' = None /\ pending' = None /\ mode' = "down"
      /\ req' = [s \in Slots |-> Idle] /\ UNCHANGED <<now, node, issued>>
  BY DEF Crash
<1>6. ManagerInv'
  <2>1. Idle.pc = "idle"
    BY DEF Idle
  <2> QED BY <1>5, <2>1, IdleIsRequest
          DEF ManagerInv, TypeInv, TypeOK, LeadingKnown, DownIdle
<1>7. NodeInv'
  BY <1>5, TypeParts DEF NodeInv, node
<1> QED BY <1>4, <1>6, <1>7, TypePartsNext

LEMMA StartType ==
  ASSUME TypeInv, Start
  PROVE  TypeInv'
<1>1. /\ leading' = db.leading /\ pending' = db.pending
      /\ UNCHANGED <<now, db, node, issued>>
      /\ \A s \in Slots : req[s].pc = "idle"
  BY DEF Start, TypeInv, DownIdle
<1>2. CASE mode' = "ready" /\ UNCHANGED req
  <2>1. ManagerInv'
    BY <1>1, <1>2 DEF ManagerInv, TypeInv, TypeOK, LeadingKnown, DownIdle
  <2> QED BY <1>1, <2>1, SettledType, TypePartsNext
<1>3. CASE mode' = "booting" /\ Suspend(Boot, [Idle EXCEPT !.pc = "rpc", !.method = "init",
                                                         !.count = mined, !.asked = now])
  <2> DEFINE q1 == [Idle EXCEPT !.pc = "rpc"]
             q2 == [q1 EXCEPT !.method = "init"]
             q3 == [q2 EXCEPT !.count = mined]
             q == [q3 EXCEPT !.asked = now]
  <2>1. Suspend(Boot, q)
    BY <1>3
  <2>2. IsRequest(q) /\ q.pc = "rpc"
    <3>1. "rpc" \in Awaits /\ "init" \in Methods /\ mined \in Nat /\ now \in Nat
      BY DEF Awaits, Methods, TypeInv, TypeOK
    <3>2. IsRequest(q1) /\ q1.pc = "rpc"
      BY <3>1, UpdateRequest, IdleIsRequest
    <3> HIDE DEF q1
    <3>3. IsRequest(q2) /\ q2.pc = "rpc"
      BY <3>1, <3>2, UpdateRequest
    <3> HIDE DEF q2
    <3>4. IsRequest(q3) /\ q3.pc = "rpc"
      BY <3>1, <3>3, UpdateRequest
    <3> HIDE DEF q3
    <3> QED BY <3>1, <3>4, UpdateRequest
  <2> HIDE DEF q
  <2>3. req' = [s \in Slots |-> IF s = Boot THEN q ELSE req[s]]
    BY <2>1 DEF Suspend, TypeInv, TypeOK
  <2>4. ManagerInv'
    BY <1>1, <1>3, <2>2, <2>3 DEF ManagerInv, TypeInv, TypeOK, LeadingKnown, DownIdle
  <2> QED BY <1>1, <2>4, SettledType, TypePartsNext
<1> QED BY <1>2, <1>3 DEF Start

LEMMA EnvironmentType ==
  ASSUME TypeInv, Tick \/ Mine \/ DropTx
  PROVE  TypeInv'
<1>1. UNCHANGED <<manager, req, db, issued>>
  BY DEF Tick, Mine, DropTx
<1>2. ManagerInv' /\ StoreInv'
  BY <1>1, TypeParts DEF ManagerInv, StoreInv, manager, LeadingKnown, DownIdle
<1>3. NodeInv'
  BY TypeParts DEF NodeInv, Tick, Mine, DropTx, node
<1> QED BY <1>2, <1>3, TypePartsNext

LEMMA InitType == Init => TypeInv
BY IdleIsRequest DEF Init, TypeInv, TypeOK, LeadingKnown, DownIdle, Idle

LEMMA NextType == TypeInv /\ [Next]_vars => TypeInv'
<1> SUFFICES ASSUME TypeInv, [Next]_vars PROVE TypeInv'
  OBVIOUS
<1>1. ASSUME NEW r \in Requests,
             GetNextNonce(r) \/ ProvideGivenNonce(r) \/ GetNonce(r)
      PROVE  TypeInv'
  BY <1>1, ArrivalType
<1>2. ASSUME NEW r \in Requests, NodeAccepts(r)
      PROVE  TypeInv'
  BY <1>2, SendType DEF Slots
<1>3. ASSUME NEW s \in Slots, Answers(s)
      PROVE  TypeInv'
  BY <1>3, RpcType, SavesType, SendType DEF Answers
<1>4. CASE Crash
  BY <1>4, CrashType
<1>5. CASE Start
  BY <1>5, StartType
<1>6. CASE Tick \/ Mine \/ DropTx
  BY <1>6, EnvironmentType
<1>7. CASE UNCHANGED vars
  BY <1>7 DEF vars, manager, node, TypeInv, TypeOK, LeadingKnown, DownIdle
<1> QED BY <1>1, <1>2, <1>3, <1>4, <1>5, <1>6, <1>7 DEF Next

LEMMA TypeInvariant == Spec => []TypeInv
BY InitType, NextType, PTL DEF Spec

(* Every variable and every request keeps its type, for any set of         *)
(* requests and any TTLs: in particular no nonce below zero is given out   *)
(* and a merge never reads a missing leading nonce.                        *)
THEOREM TypeCorrect == Spec => []TypeOK
<1>1. TypeInv => TypeOK
  BY DEF TypeInv
<1> QED BY <1>1, TypeInvariant, PTL

-----------------------------------------------------------------------------
(* Where nonces come from                                                  *)

(* The invariant speaks of every copy of a nonce: in the cache, in LevelDB *)
(* and in each write under way, since a restart can bring any of them back *)
(* into the cache.  Its parts only refer to sets that never shrink.        *)
UsedInfo(i, m, S) == i # None => i.nonce < m \/ i.nonce \in S

GivenOut(p, I) == p # None => DOMAIN p \subseteq I

Origin(r, m, S, I) ==
  /\ UsedInfo(r.leadSave, m, S)
  /\ GivenOut(r.pendSave, I)
  /\ r.pc = "sent" => r.nonce \in S

ManagerOrigin ==
  /\ UsedInfo(leading, mined, sent)
  /\ GivenOut(pending, issued)
  /\ \A s \in Slots : Origin(req[s], mined, sent, issued)
  /\ NoSkippedNonce

StoreOrigin == UsedInfo(db.leading, mined, sent) /\ GivenOut(db.pending, issued)

OriginInv == ManagerOrigin /\ StoreOrigin

-----------------------------------------------------------------------------
(* Every part holds of larger sets if it holds of smaller ones.            *)
LEMMA UsedGrows ==
  ASSUME NEW i \in NonceInfo \cup {None}, NEW m \in Nat, NEW m2 \in Nat, m <= m2,
         NEW S, NEW S2, S \subseteq S2, UsedInfo(i, m, S)
  PROVE  UsedInfo(i, m2, S2)
BY DEF UsedInfo, NonceInfo

LEMMA OriginGrows ==
  ASSUME NEW r, IsRequest(r), NEW m \in Nat, NEW m2 \in Nat, m <= m2,
         NEW S, NEW S2, S \subseteq S2, NEW I, NEW I2, I \subseteq I2, Origin(r, m, S, I)
  PROVE  Origin(r, m2, S2, I2)
<1>1. r.leadSave \in NonceInfo \cup {None}
  BY DEF IsRequest
<1>2. UsedInfo(r.leadSave, m2, S2)
  BY <1>1, UsedGrows DEF Origin
<1> QED BY <1>2 DEF Origin, GivenOut

LEMMA IdleOrigin ==
  ASSUME NEW m, NEW S, NEW I
  PROVE  Origin(Idle, m, S, I)
BY DEF Origin, Idle, UsedInfo, GivenOut

LEMMA SuspendOrigin ==
  ASSUME TypeInv, OriginInv, UNCHANGED node, issued \subseteq issued',
         NEW s \in Slots, NEW r, Origin(r, mined, sent, issued'), Suspend(s, r)
  PROVE  \A t \in Slots : Origin(req'[t], mined', sent', issued')
<1>1. req' = [t \in Slots |-> IF t = s THEN r ELSE req[t]]
  BY DEF Suspend, TypeInv, TypeOK
<1>2. mined' = mined /\ sent' = sent /\ mined \in Nat
  BY DEF node, TypeInv, TypeOK
<1>3. \A t \in Slots : IsRequest(req[t]) /\ Origin(req[t], mined, sent, issued)
  BY DEF TypeInv, TypeOK, OriginInv, ManagerOrigin
<1>4. \A t \in Slots : Origin(req[t], mined, sent, issued')
  BY <1>2, <1>3, OriginGrows
<1> QED BY <1>1, <1>2, <1>4

(* A step that only suspends a request leaves the rest as it is.           *)
LEMMA ManagerKept ==
  ASSUME TypeInv, OriginInv, UNCHANGED <<node, issued, leading>>,
         GivenOut(pending', issued),
         NEW s \in Slots, NEW r, Origin(r, mined, sent, issued), Suspend(s, r)
  PROVE  ManagerOrigin'
<1>1. \A t \in Slots : Origin(req'[t], mined', sent', issued')
  BY SuspendOrigin
<1>2. NoSkippedNonce'
  BY DEF NoSkippedNonce, OriginInv, ManagerOrigin, node
<1> QED BY <1>1, <1>2 DEF ManagerOrigin, OriginInv, node

LEMMA StoreKept ==
  ASSUME OriginInv, UNCHANGED <<db, node>>, issued \subseteq issued'
  PROVE  StoreOrigin'
BY DEF OriginInv, StoreOrigin, UsedInfo, GivenOut, node

-----------------------------------------------------------------------------
(* The segments.                                                           *)
LEMMA AskNodeOrigin ==
  ASSUME TypeInv, OriginInv, UNCHANGED node, NEW s \in Slots,
         NEW r, IsRequest(r), Origin(r, mined, sent, issued), AskNode(s, r)
  PROVE  ManagerOrigin'
<1> DEFINE q == [r EXCEPT !.pc = "rpc", !.count = mined, !.asked = now]
<1>1. q.pc = "rpc" /\ q.leadSave = r.leadSave /\ q.pendSave = r.pendSave
  BY DEF IsRequest
<1>2. Suspend(s, q) /\ UNCHANGED <<manager, issued>>
  BY DEF AskNode
<1> HIDE DEF q
<1>3. Origin(q, mined, sent, issued)
  BY <1>1 DEF Origin
<1>4. GivenOut(pending', issued) /\ UNCHANGED <<node, issued, leading>>
  BY <1>2 DEF manager, OriginInv, ManagerOrigin
<1> QED BY <1>2, <1>3, <1>4, ManagerKept

LEMMA FinishOrigin ==
  ASSUME TypeInv, OriginInv, UNCHANGED node, NEW s \in Slots, Finish(s)
  PROVE  ManagerOrigin'
<1>1. Suspend(s, Idle) /\ UNCHANGED <<node, issued, leading>> /\ GivenOut(pending', issued)
  BY DEF Finish, OriginInv, ManagerOrigin
<1> QED BY <1>1, IdleOrigin, ManagerKept

(* A nonce is given out: it or the one before it has an origin.            *)
LEMMA ReserveOrigin ==
  ASSUME TypeInv, OriginInv, UNCHANGED node, NEW s \in Slots, NEW r,
         NEW n \in Nat, n = 0 \/ n - 1 < mined \/ n - 1 \in sent \cup issued \/ n \in issued,
         NEW p, DOMAIN p \subseteq issued \cup {n}, Reserve(s, r, n, p)
  PROVE  ManagerOrigin'
<1> DEFINE q == [Idle EXCEPT !.pc = "reserve", !.method = r.method, !.nonce = n,
                              !.pendSave = p]
<1>1. /\ Suspend(s, q) /\ leading' = leading /\ pending' = p
      /\ issued' = issued \cup {n} /\ mined' = mined /\ sent' = sent
  BY DEF Reserve, node
<1>2. q.pc = "reserve" /\ q.leadSave = None /\ q.pendSave = p
  BY DEF Idle
<1> HIDE DEF q
<1>3. Origin(q, mined, sent, issued') /\ GivenOut(pending', issued')
  BY <1>1, <1>2 DEF Origin, UsedInfo, GivenOut
<1>4. \A t \in Slots : Origin(req'[t], mined', sent', issued')
  BY <1>1, <1>3, SuspendOrigin
<1>5. NoSkippedNonce'
  BY <1>1 DEF NoSkippedNonce, OriginInv, ManagerOrigin
<1>6. UsedInfo(leading', mined', sent')
  BY <1>1 DEF OriginInv, ManagerOrigin
<1> QED BY <1>3, <1>4, <1>5, <1>6 DEF ManagerOrigin

LEMMA TakeLeadingOrigin ==
  ASSUME TypeInv, OriginInv, UNCHANGED node, NEW s \in Slots, NEW r, IsRequest(r),
         leading # None, TakeLeading(s, r)
  PROVE  ManagerOrigin'
<1> DEFINE n == leading.nonce + 1
           p == [m \in {n} |-> r.base + PendingNonceTTL]
<1>1. n \in Nat /\ n - 1 = leading.nonce
  BY DEF TypeInv, TypeOK, NonceInfo
<1>2. n - 1 < mined \/ n - 1 \in sent
  BY <1>1 DEF OriginInv, ManagerOrigin, UsedInfo
<1>3. DOMAIN p = {n} /\ Reserve(s, r, n, p)
  BY DEF TakeLeading
<1> HIDE DEF n, p
<1> QED BY <1>1, <1>2, <1>3, ReserveOrigin

LEMMA SelectOrigin ==
  ASSUME TypeInv, OriginInv, UNCHANGED node, NEW s \in Slots, NEW r, IsRequest(r),
         Origin(r, mined, sent, issued), Select(s, r)
  PROVE  ManagerOrigin'
<1>1. CASE HasPending
  <2> DEFINE n == IF Overdue # {} THEN Min(Overdue) ELSE Extended
             p == [m \in DOMAIN pending \cup {n} |->
                     IF m = n THEN now + PendingNonceTTL ELSE pending[m]]
  <2>1. DOMAIN pending \subseteq issued
    BY <1>1 DEF OriginInv, ManagerOrigin, GivenOut, HasPending
  <2>2. n \in Nat /\ (n \in issued \/ n - 1 \in issued)
    BY <1>1, <2>1, SelectedNonce DEF Extended
  <2>3. DOMAIN p = DOMAIN pending \cup {n} /\ Reserve(s, r, n, p)
    BY <1>1 DEF Select
  <2> HIDE DEF n, p
  <2> QED BY <2>1, <2>2, <2>3, ReserveOrigin
<1>2. CASE ~HasPending /\ Fresh
  <2> DEFINE q == [r EXCEPT !.base = now]
  <2>1. IsRequest(q) /\ TakeLeading(s, q) /\ leading # None
    BY <1>2, UpdateRequest DEF Select, Fresh, TypeInv, TypeOK
  <2> HIDE DEF q
  <2> QED BY <2>1, TakeLeadingOrigin
<1>3. CASE ~HasPending /\ ~Fresh
  <2> DEFINE q1 == [r EXCEPT !.base = now]
             q == [q1 EXCEPT !.merge = "inner"]
  <2>1. AskNode(s, q)
    BY <1>3 DEF Select
  <2>2. /\ q.pc = r.pc /\ q.nonce = r.nonce
        /\ q.leadSave = r.leadSave /\ q.pendSave = r.pendSave
    BY DEF IsRequest
  <2>3. IsRequest(q)
    <3>1. IsRequest(q1)
      BY UpdateRequest DEF TypeInv, TypeOK
    <3> HIDE DEF q1
    <3> QED BY <3>1, UpdateRequest
  <2> HIDE DEF q
  <2>4. Origin(q, mined, sent, issued)
    BY <2>2 DEF Origin
  <2> QED BY <2>1, <2>3, <2>4, AskNodeOrigin
<1> QED BY <1>1, <1>2, <1>3

LEMMA DroppedOrigin ==
  ASSUME TypeInv, OriginInv, pending # None
  PROVE  GivenOut(Unexpired(pending), issued)
<1>1. DOMAIN Unexpired(pending) \subseteq DOMAIN pending
  BY UnexpiredPending DEF TypeInv, TypeOK
<1> QED BY <1>1 DEF OriginInv, ManagerOrigin, GivenOut

LEMMA MergeReturnsOrigin ==
  ASSUME TypeInv, OriginInv, UNCHANGED node, NEW s \in Slots, NEW r, IsRequest(r),
         Origin(r, mined, sent, issued), leading # None, MergeReturns(s, r)
  PROVE  ManagerOrigin'
<1>1. CASE r.merge = "inner"
  BY <1>1, TakeLeadingOrigin DEF MergeReturns
<1>2. CASE r.merge # "inner" /\ r.method \in {"init", "getNonce"}
  BY <1>2, FinishOrigin DEF MergeReturns
<1>3. CASE r.merge # "inner" /\ r.method \notin {"init", "getNonce"} /\ pending = None
  BY <1>3, SelectOrigin DEF MergeReturns
<1>4. CASE r.merge # "inner" /\ r.method \notin {"init", "getNonce"} /\ pending # None
  <2> DEFINE p == Unexpired(pending)
             q == [r EXCEPT !.pc = "drop", !.pendSave = p]
  <2>1. Suspend(s, q) /\ UNCHANGED <<leading, issued>> /\ pending' = p
    BY <1>4 DEF MergeReturns
  <2>2. GivenOut(p, issued)
    BY <1>4, DroppedOrigin
  <2>3. q.pc = "drop" /\ q.leadSave = r.leadSave /\ q.pendSave = p
    BY DEF IsRequest
  <2> HIDE DEF p, q
  <2>4. Origin(q, mined, sent, issued)
    BY <2>2, <2>3 DEF Origin
  <2> QED BY <2>1, <2>2, <2>4, ManagerKept
<1> QED BY <1>1, <1>2, <1>3, <1>4

LEMMA EnterMergeOrigin ==
  ASSUME TypeInv, OriginInv, UNCHANGED node, NEW s \in Slots, NEW r, IsRequest(r),
         Origin(r, mined, sent, issued), EnterMerge(s, r)
  PROVE  ManagerOrigin'
<1>1. CASE Fresh
  BY <1>1, MergeReturnsOrigin DEF EnterMerge, Fresh
<1>2. CASE ~Fresh
  BY <1>2, AskNodeOrigin DEF EnterMerge
<1> QED BY <1>1, <1>2

(* A leading nonce that is used is set, and its write starts.              *)
LEMMA SetLeadingOrigin ==
  ASSUME TypeInv, OriginInv, NEW s \in Slots, NEW r, IsRequest(r),
         r.pc # "sent", GivenOut(r.pendSave, issued), NEW n \in Nat \cup {-1}, NEW e \in Nat,
         n < mined \/ n \in sent, SetLeading(s, r, n, e)
  PROVE  OriginInv'
<1> DEFINE info == [nonce |-> n, expiry |-> e]
           q == [r EXCEPT !.leadSave = info]
<1>1. UsedInfo(info, mined, sent)
  BY DEF UsedInfo
<1>2. leading' = info /\ Suspend(s, q) /\ UNCHANGED <<pending, db, node, issued>>
  BY DEF SetLeading
<1>3. q.pc # "sent" /\ q.leadSave = info /\ q.pendSave = r.pendSave
  BY DEF IsRequest
<1> HIDE DEF info, q
<1>4. Origin(q, mined, sent, issued')
  BY <1>1, <1>2, <1>3 DEF Origin
<1>5. \A t \in Slots : Origin(req'[t], mined', sent', issued')
  BY <1>2, <1>4, SuspendOrigin
<1>6. ManagerOrigin'
  BY <1>1, <1>2, <1>5 DEF ManagerOrigin, OriginInv, NoSkippedNonce, node
<1> QED BY <1>2, <1>6, StoreKept DEF OriginInv

LEMMA AbortOrigin ==
  ASSUME TypeInv, OriginInv, NEW s \in Slots, Abort(s)
  PROVE  OriginInv'
<1>1. UNCHANGED <<node, issued, leading, db>>
  BY DEF Abort
<1>2. CASE pending = None
  BY <1>1, <1>2, IdleOrigin, ManagerKept, StoreKept DEF Abort, OriginInv, GivenOut
<1>3. CASE pending # None
  <2> DEFINE kept == Restrict(pending, {n \in DOMAIN pending : n < req[s].nonce})
             q == [Idle EXCEPT !.pc = "abort", !.pendSave = kept]
  <2>1. pending' = kept /\ Suspend(s, q)
    BY <1>3 DEF Abort, RestrictDomain
  <2>2. GivenOut(kept, issued)
    BY <1>3 DEF OriginInv, ManagerOrigin, GivenOut, Restrict
  <2>3. q.pc = "abort" /\ q.leadSave = None /\ q.pendSave = kept
    BY DEF Idle
  <2> HIDE DEF kept, q
  <2>4. Origin(q, mined, sent, issued)
    BY <2>2, <2>3 DEF Origin, UsedInfo
  <2> QED BY <1>1, <2>1, <2>2, <2>4, ManagerKept, StoreKept DEF OriginInv
<1> QED BY <1>2, <1>3

-----------------------------------------------------------------------------
(* The actions.                                                            *)
LEMMA ArrivalOrigin ==
  ASSUME TypeInv, OriginInv, NEW r \in Requests,
         GetNextNonce(r) \/ ProvideGivenNonce(r) \/ GetNonce(r)
  PROVE  OriginInv'
<1>1. r \in Slots /\ UNCHANGED <<now, db, node>>
  BY DEF Arrives, Slots, GetNextNonce, ProvideGivenNonce, GetNonce
<1>2. \A m \in Methods : LET q == [Idle EXCEPT !.method = m]
                         IN  IsRequest(q) /\ Origin(q, mined, sent, issued)
  BY IdleIsRequest, UpdateRequest DEF Idle, Origin, UsedInfo, GivenOut
<1>3. {"provideNonce", "getNextNonce", "getNonce"} \subseteq Methods
  BY DEF Methods
<1>4. CASE GetNextNonce(r)
  <2>1. PICK m \in {"provideNonce", "getNextNonce"} : EnterMerge(r, [Idle EXCEPT !.method = m])
    BY <1>4 DEF GetNextNonce
  <2>2. ManagerOrigin'
    BY <1>1, <1>2, <1>3, <2>1, EnterMergeOrigin
  <2>3. issued \subseteq issued'
    BY <2>1 DEF EnterMerge, MergeReturns, Select, TakeLeading, Reserve, AskNode, Finish
  <2> QED BY <1>1, <2>2, <2>3, StoreKept DEF OriginInv
<1>5. CASE ProvideGivenNonce(r)
  <2>1. PICK n \in GivenNonces :
          Suspend(r, [Idle EXCEPT !.pc = "send", !.method = "provideGiven", !.nonce = n])
    BY <1>5 DEF ProvideGivenNonce
  <2> DEFINE q == [Idle EXCEPT !.pc = "send", !.method = "provideGiven", !.nonce = n]
  <2>2. Origin(q, mined, sent, issued)
    BY DEF Origin, UsedInfo, GivenOut, Idle
  <2>3. Suspend(r, q) /\ UNCHANGED <<manager, issued>>
    BY <1>5, <2>1 DEF ProvideGivenNonce
  <2> HIDE DEF q
  <2> QED BY <1>1, <2>2, <2>3, ManagerKept, StoreKept DEF OriginInv, ManagerOrigin, manager
<1>6. CASE GetNonce(r)
  <2> DEFINE m == [Idle EXCEPT !.method = "getNonce"]
             q == [m EXCEPT !.pc = "node", !.count = mined]
  <2>1. IsRequest(m) /\ Origin(m, mined, sent, issued)
    BY <1>2, <1>3
  <2>2. Origin(q, mined, sent, issued)
    BY DEF Origin, UsedInfo, GivenOut, Idle
  <2>3. \/ EnterMerge(r, m)
        \/ Suspend(r, q) /\ UNCHANGED <<manager, issued>>
    BY <1>6 DEF GetNonce
  <2> HIDE DEF m, q
  <2>4. ManagerOrigin'
    BY <1>1, <2>1, <2>2, <2>3, EnterMergeOrigin, ManagerKept
       DEF OriginInv, ManagerOrigin, manager
  <2>5. issued \subseteq issued'
    BY <2>3 DEF EnterMerge, MergeReturns, Select, TakeLeading, Reserve, AskNode, Finish
  <2> QED BY <1>1, <2>4, <2>5, StoreKept DEF OriginInv
<1> QED BY <1>4, <1>5, <1>6

(* The node's count, less one, is the last nonce it has mined.             *)
LEMMA RpcOrigin ==
  ASSUME TypeInv, OriginInv, NEW s \in Slots,
         MergeNonceFromEVMNode(s) \/ GetNonceFromNode(s) \/ RpcFails(s)
  PROVE  OriginInv'
<1>1. IsRequest(req[s]) /\ mined \in Nat /\ now \in Nat /\ Origin(req[s], mined, sent, issued)
  BY DEF TypeInv, TypeOK, OriginInv, ManagerOrigin
<1>2. \A c \in req[s].count .. mined : c - 1 \in Nat \cup {-1} /\ c - 1 < mined
  BY <1>1 DEF IsRequest
<1>3. CASE MergeNonceFromEVMNode(s)
  <2> DEFINE q1 == [req[s] EXCEPT !.pc = "mergeSave"]
             q2 == [q1 EXCEPT !.count = 0]
             q == [q2 EXCEPT !.asked = 0]
             e == req[s].asked + LocalNonceTTL
  <2>1. PICK c \in req[s].count .. mined : SetLeading(s, q, c - 1, e)
    BY <1>3 DEF MergeNonceFromEVMNode
  <2>2. e \in Nat /\ "mergeSave" \in Awaits
    BY <1>1, TTLAssumption DEF IsRequest, Awaits
  <2>3. IsRequest(q1) /\ q1.pc = "mergeSave" /\ q1.pendSave = req[s].pendSave
    BY <1>1, <2>2, UpdateRequest DEF IsRequest
  <2> HIDE DEF q1
  <2>4. IsRequest(q2) /\ q2.pc = "mergeSave" /\ q2.pendSave = req[s].pendSave
    BY <2>3, UpdateRequest DEF IsRequest
  <2> HIDE DEF q2
  <2>5. IsRequest(q) /\ q.pc = "mergeSave" /\ q.pendSave = req[s].pendSave
    BY <2>4, UpdateRequest DEF IsRequest
  <2>6. GivenOut(q.pendSave, issued)
    BY <1>1, <2>5 DEF Origin
  <2> HIDE DEF q, e
  <2> QED BY <1>1, <1>2, <2>1, <2>2, <2>5, <2>6, SetLeadingOrigin
<1>4. CASE GetNonceFromNode(s)
  <2> DEFINE q == [Idle EXCEPT !.pc = "nodeSave"]
             e == now + PendingNonceTTL
  <2>1. PICK c \in req[s].count .. mined : SetLeading(s, q, c - 1, e)
    BY <1>4 DEF GetNonceFromNode
  <2>2. "nodeSave" \in Awaits /\ e \in Nat
    BY <1>1, TTLAssumption DEF Awaits
  <2>3. IsRequest(q) /\ q.pc = "nodeSave" /\ GivenOut(q.pendSave, issued)
    BY <2>2, UpdateRequest, IdleIsRequest DEF Idle, GivenOut
  <2> HIDE DEF q, e
  <2> QED BY <1>1, <1>2, <2>1, <2>2, <2>3, SetLeadingOrigin
<1>5. CASE RpcFails(s)
  <2>1. Suspend(s, Idle) /\ UNCHANGED <<manager, issued, now, db, node>>
    BY <1>5 DEF RpcFails
  <2> QED BY <2>1, IdleOrigin, ManagerKept, StoreKept DEF OriginInv, ManagerOrigin, manager
<1> QED BY <1>3, <1>4, <1>5

(* What a write put under way reaches LevelDB.                             *)
LEMMA SavedOrigin ==
  ASSUME TypeInv, OriginInv, NEW s \in Slots, LeadingSaved(s) \/ PendingSaved(s),
         issued \subseteq issued'
  PROVE  StoreOrigin' /\ UNCHANGED node
<1>1. Origin(req[s], mined, sent, issued) /\ UNCHANGED node /\ StoreOrigin
  BY DEF OriginInv, ManagerOrigin, LeadingSaved, PendingSaved
<1>2. db = [leading |-> db.leading, pending |-> db.pending]
  BY DEF TypeInv, TypeOK
<1>3. CASE LeadingSaved(s)
  <2>1. db'.leading = req[s].leadSave /\ db'.pending = db.pending
    BY <1>2, <1>3 DEF LeadingSaved
  <2> QED BY <1>1, <2>1 DEF StoreOrigin, Origin, UsedInfo, GivenOut, node
<1>4. CASE PendingSaved(s)
  <2>1. db'.pending = req[s].pendSave /\ db'.leading = db.leading
    BY <1>2, <1>4 DEF PendingSaved
  <2> QED BY <1>1, <2>1 DEF StoreOrigin, Origin, UsedInfo, GivenOut, node
<1> QED BY <1>3, <1>4

LEMMA SavesOrigin ==
  ASSUME TypeInv, OriginInv, NEW s \in Slots,
         \/ MergeSaved(s) \/ MergeDropped(s) \/ DropSaved(s) \/ Reserved(s) \/ Returns(s)
  PROVE  OriginInv'
<1>1. IsRequest(req[s]) /\ Origin(req[s], mined, sent, issued)
  BY DEF TypeInv, TypeOK, OriginInv, ManagerOrigin
<1>2. issued \subseteq issued'
  BY DEF MergeSaved, MergeDropped, DropSaved, Reserved, Returns, MergeReturns, Select,
         TakeLeading, Reserve, AskNode, Finish
<1>3. StoreOrigin' /\ UNCHANGED node
  BY <1>2, SavedOrigin DEF MergeSaved, MergeDropped, DropSaved, Reserved, Returns
<1>4. req[s].pc \in {"mergeSave", "mergeDrop"} => leading # None
  BY DEF TypeInv, LeadingKnown
<1>5. CASE MergeSaved(s)
  <2> DEFINE r == [req[s] EXCEPT !.leadSave = None]
             p == Unexpired(pending)
             q == [r EXCEPT !.pc = "mergeDrop", !.pendSave = p]
  <2>1. IsRequest(r) /\ leading # None
    BY <1>1, <1>4, <1>5, UpdateRequest DEF MergeSaved
  <2>2. Origin(r, mined, sent, issued)
    BY <1>1 DEF Origin, UsedInfo, IsRequest
  <2>3. CASE pending = None
    <3>1. MergeReturns(s, r)
      BY <1>5, <2>3 DEF MergeSaved
    <3> HIDE DEF r
    <3> QED BY <1>3, <2>1, <2>2, <3>1, MergeReturnsOrigin DEF OriginInv
  <2>4. CASE pending # None
    <3>1. pending' = p /\ Suspend(s, q) /\ UNCHANGED <<leading, issued>>
      BY <1>5, <2>4 DEF MergeSaved
    <3>2. GivenOut(p, issued)
      BY <2>4, DroppedOrigin
    <3>3. q.pc = "mergeDrop" /\ q.leadSave = r.leadSave /\ q.pendSave = p
      BY <2>1 DEF IsRequest
    <3> HIDE DEF r, p, q
    <3>4. Origin(q, mined, sent, issued)
      BY <2>2, <3>2, <3>3 DEF Origin
    <3> QED BY <1>3, <3>1, <3>2, <3>4, ManagerKept DEF OriginInv
  <2> QED BY <2>3, <2>4
<1>6. CASE MergeDropped(s) \/ DropSaved(s)
  <2> DEFINE r == [req[s] EXCEPT !.pendSave = None]
  <2>1. IsRequest(r) /\ Origin(r, mined, sent, issued)
    BY <1>1, UpdateRequest DEF Origin, GivenOut, IsRequest
  <2>2. (leading # None /\ MergeReturns(s, r)) \/ Select(s, r)
    BY <1>4, <1>6 DEF MergeDropped, DropSaved
  <2> HIDE DEF r
  <2> QED BY <1>3, <2>1, <2>2, MergeReturnsOrigin, SelectOrigin DEF OriginInv
<1>7. CASE Reserved(s) \/ Returns(s)
  <2> DEFINE q == [Idle EXCEPT !.pc = "send", !.method = "provideNonce",
                               !.nonce = req[s].nonce]
  <2>1. (Suspend(s, q) \/ Suspend(s, Idle)) /\ UNCHANGED <<manager, issued>>
    BY <1>7 DEF Reserved, Returns
  <2>2. Origin(q, mined, sent, issued)
    BY DEF Origin, UsedInfo, GivenOut, Idle
  <2> HIDE DEF q
  <2> QED BY <1>3, <2>1, <2>2, IdleOrigin, ManagerKept DEF OriginInv, ManagerOrigin, manager
<1> QED BY <1>5, <1>6, <1>7

LEMMA SendOrigin ==
  ASSUME TypeInv, OriginInv, NEW s \in Slots,
         NodeAccepts(s) \/ CommitNonce(s) \/ SendFails(s) \/ SaveFails(s)
  PROVE  OriginInv'
<1>1. /\ IsRequest(req[s]) /\ mined \in Nat /\ now \in Nat
      /\ Origin(req[s], mined, sent, issued)
  BY DEF TypeInv, TypeOK, OriginInv, ManagerOrigin
<1>2. req[s].nonce \in Nat
  BY <1>1 DEF IsRequest
<1>3. CASE NodeAccepts(s)
  <2> DEFINE n == req[s].nonce
             q == [req[s] EXCEPT !.pc = "sent"]
  <2>1. /\ Suspend(s, q) /\ UNCHANGED <<leading, pending, mined, issued, db>>
        /\ sent' = sent \cup {n}
    BY <1>3 DEF NodeAccepts, manager
  <2>2. q.nonce = n /\ q.leadSave = req[s].leadSave /\ q.pendSave = req[s].pendSave
    BY <1>1 DEF IsRequest
  <2>3. \A t \in Slots : Origin(req[t], mined, sent', issued)
    <3>1. \A t \in Slots : IsRequest(req[t]) /\ Origin(req[t], mined, sent, issued)
      BY DEF TypeInv, TypeOK, OriginInv, ManagerOrigin
    <3> QED BY <1>1, <2>1, <3>1, OriginGrows
  <2>4. req' = [t \in Slots |-> IF t = s THEN q ELSE req[t]]
    BY <2>1 DEF Suspend, TypeInv, TypeOK
  <2> HIDE DEF q
  <2>5. Origin(q, mined, sent', issued)
    BY <2>1, <2>2, <2>3 DEF Origin
  <2>6. \A t \in Slots : Origin(req'[t], mined', sent', issued')
    BY <2>1, <2>3, <2>4, <2>5
  <2>7. UsedInfo(leading', mined', sent') /\ NoSkippedNonce' /\ GivenOut(pending', issued')
    BY <2>1 DEF OriginInv, ManagerOrigin, UsedInfo, NoSkippedNonce
  <2>8. StoreOrigin'
    BY <2>1 DEF OriginInv, StoreOrigin, UsedInfo
  <2> QED BY <2>6, <2>7, <2>8 DEF OriginInv, ManagerOrigin
<1>4. CASE CommitNonce(s)
  <2> DEFINE n == req[s].nonce
             q == [Idle EXCEPT !.pc = "commit", !.nonce = n]
             e == now + LocalNonceTTL
  <2>1. SetLeading(s, q, n, e) \/ Abort(s)
    BY <1>4 DEF CommitNonce
  <2>2. "commit" \in Awaits /\ e \in Nat
    BY <1>1, TTLAssumption DEF Awaits
  <2>3. IsRequest(q) /\ q.pc = "commit" /\ GivenOut(q.pendSave, issued)
    <3> DEFINE q1 == [Idle EXCEPT !.pc = "commit"]
    <3>1. IsRequest(q1) /\ q1.pc = "commit" /\ q1.pendSave = None
      BY <2>2, UpdateRequest, IdleIsRequest DEF Idle
    <3>2. q = [q1 EXCEPT !.nonce = n]
      BY DEF Idle
    <3> HIDE DEF q1, q
    <3>3. IsRequest(q) /\ q.pc = "commit" /\ q.pendSave = None
      BY <1>2, <3>1, <3>2, UpdateRequest DEF IsRequest
    <3> QED BY <3>3 DEF GivenOut
  <2>4. n \in sent
    BY <1>1, <1>4 DEF CommitNonce, Origin
  <2> HIDE DEF q, e
  <2> QED BY <1>2, <2>1, <2>2, <2>3, <2>4, SetLeadingOrigin, AbortOrigin
<1>5. CASE SendFails(s)
  BY <1>5, AbortOrigin DEF SendFails
<1>6. CASE SaveFails(s) /\ req[s].pc = "commit"
  BY <1>6, AbortOrigin DEF SaveFails
<1>7. CASE SaveFails(s) /\ req[s].pc # "commit"
  <2>1. Suspend(s, Idle) /\ UNCHANGED <<leading, pending, db, node, issued>>
    BY <1>7 DEF SaveFails, manager
  <2>2. GivenOut(pending', issued)
    BY <2>1 DEF OriginInv, ManagerOrigin, GivenOut
  <2> QED BY <2>1, <2>2, IdleOrigin, ManagerKept, StoreKept DEF OriginInv
<1> QED BY <1>3, <1>4, <1>5, <1>6, <1>7

(* After a crash LevelDB holds an old entry or one of those being written. *)
LEMMA CrashOrigin ==
  ASSUME TypeInv, OriginInv, Crash
  PROVE  OriginInv'
<1> DEFINE written(field, saves) == {db[field]} \cup (saves \ {None})
           L == written("leading", {req[s].leadSave : s \in Slots})
           P == written("pending", {req[s].pendSave : s \in Slots})
<1>1. /\ db' \in [leading : L, pending : P]
      /\ leading' = None /\ pending' = None /\ req' = [s \in Slots |-> Idle]
      /\ UNCHANGED <<mined, sent, issued>>
  BY DEF Crash, node
<1>2. \A s \in Slots : Origin(req[s], mined, sent, issued)
  BY DEF OriginInv, ManagerOrigin
<1>3. \A i \in L : UsedInfo(i, mined, sent)
  BY <1>2 DEF Origin, OriginInv, StoreOrigin
<1>4. \A p \in P : GivenOut(p, issued)
  BY <1>2 DEF Origin, OriginInv, StoreOrigin
<1> HIDE DEF L, P
<1>5. StoreOrigin'
  <2>1. db'.leading \in L /\ db'.pending \in P
    BY <1>1
  <2> QED BY <1>1, <1>3, <1>4, <2>1 DEF StoreOrigin
<1>6. \A s \in Slots : Origin(req'[s], mined', sent', issued')
  BY <1>1, IdleOrigin
<1> QED BY <1>1, <1>5, <1>6
        DEF OriginInv, ManagerOrigin, UsedInfo, GivenOut, NoSkippedNonce

LEMMA StartOrigin ==
  ASSUME TypeInv, OriginInv, Start
  PROVE  OriginInv'
<1> DEFINE q == [Idle EXCEPT !.pc = "rpc", !.method = "init", !.count = mined, !.asked = now]
<1>1. /\ leading' = db.leading /\ pending' = db.pending
      /\ UNCHANGED <<now, db, node, issued>>
      /\ UNCHANGED req \/ Suspend(Boot, q)
  BY DEF Start
<1>2. Origin(q, mined, sent, issued)
  BY DEF Origin, UsedInfo, GivenOut, Idle
<1> HIDE DEF q
<1>3. \A s \in Slots : Origin(req'[s], mined', sent', issued')
  <2>1. CASE UNCHANGED req
    BY <1>1, <2>1 DEF OriginInv, ManagerOrigin, node
  <2>2. CASE Suspend(Boot, q)
    BY <1>1, <1>2, <2>2, SuspendOrigin DEF Slots
  <2> QED BY <1>1, <2>1, <2>2
<1>4. StoreOrigin'
  BY <1>1, StoreKept
<1> QED BY <1>1, <1>3, <1>4 DEF OriginInv, ManagerOrigin, StoreOrigin, NoSkippedNonce, node

LEMMA EnvironmentOrigin ==
  ASSUME TypeInv, OriginInv, Tick \/ Mine \/ DropTx
  PROVE  OriginInv'
<1>1. /\ UNCHANGED <<leading, pending, req, db, sent, issued>>
      /\ mined \in Nat /\ mined' \in Nat /\ mined <= mined'
  BY DEF Tick, Mine, DropTx, manager, node, TypeInv, TypeOK
<1>2. \A s \in Slots : Origin(req'[s], mined', sent', issued')
  <2>1. \A s \in Slots : IsRequest(req[s]) /\ Origin(req[s], mined, sent, issued)
    BY DEF TypeInv, TypeOK, OriginInv, ManagerOrigin
  <2>2. \A s \in Slots : Origin(req[s], mined', sent, issued)
    BY <1>1, <2>1, OriginGrows
  <2> QED BY <1>1, <2>2
<1>3. UsedInfo(leading', mined', sent') /\ UsedInfo(db'.leading, mined', sent')
  BY <1>1, UsedGrows DEF OriginInv, ManagerOrigin, StoreOrigin, TypeInv, TypeOK
<1>4. NoSkippedNonce'
  BY <1>1 DEF NoSkippedNonce, OriginInv, ManagerOrigin, TypeInv, TypeOK
<1> QED BY <1>1, <1>2, <1>3, <1>4 DEF OriginInv, ManagerOrigin, StoreOrigin

LEMMA InitOrigin == Init => OriginInv
BY IdleOrigin DEF Init, OriginInv, ManagerOrigin, StoreOrigin, UsedInfo, GivenOut, NoSkippedNonce

LEMMA NextOrigin == TypeInv /\ OriginInv /\ [Next]_vars => OriginInv'
<1> SUFFICES ASSUME TypeInv, OriginInv, [Next]_vars PROVE OriginInv'
  OBVIOUS
<1>1. ASSUME NEW r \in Requests,
             GetNextNonce(r) \/ ProvideGivenNonce(r) \/ GetNonce(r)
      PROVE  OriginInv'
  BY <1>1, ArrivalOrigin
<1>2. ASSUME NEW r \in Requests, NodeAccepts(r)
      PROVE  OriginInv'
  BY <1>2, SendOrigin DEF Slots
<1>3. ASSUME NEW s \in Slots, Answers(s)
      PROVE  OriginInv'
  BY <1>3, RpcOrigin, SavesOrigin, SendOrigin DEF Answers
<1>4. CASE Crash
  BY <1>4, CrashOrigin
<1>5. CASE Start
  BY <1>5, StartOrigin
<1>6. CASE Tick \/ Mine \/ DropTx
  BY <1>6, EnvironmentOrigin
<1>7. CASE UNCHANGED vars
  BY <1>7 DEF vars, manager, node, OriginInv, ManagerOrigin, StoreOrigin, NoSkippedNonce
<1> QED BY <1>1, <1>2, <1>3, <1>4, <1>5, <1>6, <1>7 DEF Next

LEMMA OriginInvariant == Spec => []OriginInv
<1>1. Spec => []TypeInv
  BY TypeInvariant
<1> QED BY <1>1, InitOrigin, NextOrigin, PTL DEF Spec

(* The leading nonce in the cache is one the account has used or whose     *)
(* transaction the node accepted, with any number of concurrent merges,    *)
(* failed transactions and restarts.                                       *)
THEOREM LeadingSent == Spec => []LeadingWasSent
<1>1. OriginInv => LeadingWasSent
  BY DEF OriginInv, ManagerOrigin, UsedInfo, LeadingWasSent
<1> QED BY <1>1, OriginInvariant, PTL

(* A nonce is given out only if it is 0 or the one before it was mined,    *)
(* accepted by the node, or given out as well.                             *)
THEOREM NoSkipped == Spec => []NoSkippedNonce
<1>1. OriginInv => NoSkippedNonce
  BY DEF OriginInv, ManagerOrigin
<1> QED BY <1>1, OriginInvariant, PTL

-----------------------------------------------------------------------------
(* Requests that do not overlap.  What NonceHistory states of them holds   *)
(* for any clock, any TTLs and any restarts, and for any number of clients *)
(* that take turns, but not once two requests are in flight at the same    *)
(* time: then one of them may merge, give out or write what the other has  *)
(* already replaced.                                                       *)
OneAtATime == \A p, q \in Requests : req[p].pc # "idle" /\ req[q].pc # "idle" => p = q

LeadPcs == {"mergeSave", "commit", "nodeSave"}
PendPcs == {"mergeDrop", "drop", "reserve", "abort"}

\* what is being written is what the manager holds, and a nonce that is
\* given out is above the leading one
Fits(q, lead, pend) ==
  /\ q.pc \in LeadPcs => q.leadSave = lead /\ lead # None
  /\ q.pc \notin LeadPcs => q.leadSave = None
  /\ q.pc \in PendPcs => q.pendSave = pend
  /\ q.pc \notin PendPcs => q.pendSave = None
  /\ q.pc \in {"mergeDrop", "drop", "reserve"} => lead # None
  /\ q.pc = "drop" => \A n \in DOMAIN pend : n > lead.nonce
  /\ q.pc = "reserve" => q.nonce > lead.nonce

\* the leading nonce i outlives every transaction that was reported as sent
Covers(i, A, t) ==
  \A a \in A : /\ a \in NonceInfo /\ i # None
               /\ a.nonce <= i.nonce /\ a.expiry <= i.expiry /\ a.expiry <= t + LocalNonceTTL

AllExpired(p, t) == p = None \/ \A n \in DOMAIN p : p[n] <= t

\* a request that found everything expired when the count was a: nothing of
\* the array is left, and the leading nonce comes from the node
Forgets(q, a, lead, pend, t, m) ==
  /\ a \in Nat
  /\ q.pc = "rpc" => a <= q.count
  /\ q.pc \in {"rpc", "mergeSave"} => AllExpired(pend, t)
  /\ q.pc \in {"mergeDrop", "drop"} => DOMAIN pend = {}
  /\ q.pc \in {"mergeSave", "mergeDrop", "drop"} => lead.nonce + 1 \in a .. m
  /\ q.pc = "reserve" => q.nonce \in a .. m

\* the slots take turns, and init comes before the requests
InTurn ==
  /\ req[Boot].pc # "idle" => mode = "booting"
  /\ mode = "booting" => \A r \in Requests : req[r].pc = "idle"

SlotsFit == \A s \in Slots : Fits(req[s], leading, pending)

\* LevelDB holds what the manager holds, or rejected it
LeadStored == db.leading = leading \/ "leading" \in unsaved

PendStored == db.pending = pending \/ "pending" \in unsaved

Stored ==
  mode # "down" =>
    /\ (\A s \in Slots : req[s].pc \notin LeadPcs) => LeadStored
    /\ (\A s \in Slots : req[s].pc \notin PendPcs) => PendStored

Covered ==
  /\ mode # "down" => Covers(leading, acked, now)
  /\ Covers(db.leading, acked, now)
  /\ \A s \in Slots :
       /\ req[s].pc \in {"rpc", "node"} => acked = {}
       /\ req[s].pc = "commit" => leading.expiry <= now + LocalNonceTTL

Forgotten ==
  \A r \in Requests :
    /\ req[r].pc = "idle" => asOf[r] = None
    /\ asOf[r] # None => Forgets(req[r], asOf[r], leading, pending, now, mined)

HistoryInv == 
  /\ asOf = [r \in Requests |-> asOf[r]]
  /\ InTurn /\ SlotsFit /\ Stored /\ Covered /\ Forgotten

-----------------------------------------------------------------------------
(* Whose turn it is, and what the history makes of a step.                 *)
Basis(r) == IF req[r].pc = "idle" /\ Expired THEN mined ELSE asOf[r]

LEMMA IdleFits ==
  ASSUME NEW q, NEW lead, NEW pend, Fits(q, lead, pend), q.pc = "idle", NEW lead2, NEW pend2
  PROVE  Fits(q, lead2, pend2)
BY DEF Fits, LeadPcs, PendPcs

LEMMA CoversLess ==
  ASSUME NEW i, NEW A, NEW t, Covers(i, A, t), NEW A2 \in SUBSET A
  PROVE  Covers(i, A2, t)
BY DEF Covers

LEMMA Turn ==
  ASSUME OneAtATime, TypeInv, HistoryInv, NEW s \in Slots, req[s].pc # "idle"
  PROVE  /\ \A t \in Slots : t # s => req[t].pc = "idle"
         /\ mode # "down" /\ (s = Boot => mode = "booting") /\ (s # Boot => mode = "ready")
         /\ LeadStored \/ req[s].pc \in LeadPcs
         /\ PendStored \/ req[s].pc \in PendPcs
<1>1. \A t \in Slots : t # s => req[t].pc = "idle"
  BY DEF OneAtATime, HistoryInv, InTurn, Slots
<1>2. mode # "down" /\ (s = Boot => mode = "booting") /\ (s # Boot => mode = "ready")
  BY DEF TypeInv, TypeOK, DownIdle, HistoryInv, InTurn, Slots
<1>3. "idle" \notin LeadPcs /\ "idle" \notin PendPcs
  BY DEF LeadPcs, PendPcs
<1> QED BY <1>1, <1>2, <1>3 DEF HistoryInv, Stored

\* an entry stays in unsaved until it is written
LEMMA LeadKept ==
  ASSUME HistoryNext,
         \/ LeadStored /\ leading' = leading /\ db'.leading = db.leading
         \/ db'.leading = leading'
         \/ \E s \in Slots : SaveFails(s) /\ Written(s) = "leading"
  PROVE  LeadStored'
<1>1. CASE db'.leading = leading'
  BY <1>1 DEF LeadStored
<1>2. CASE db'.leading # leading'
  <2>1. "leading" \in unsaved \/ \E s \in Slots : SaveFails(s) /\ Written(s) = "leading"
    BY <1>2 DEF LeadStored
  <2>2. "leading" \in unsaved \cup {Written(s) : s \in {t \in Slots : SaveFails(t)}}
    BY <2>1
  <2>3. Entries'["leading"] # db'["leading"]
    BY <1>2 DEF Entries
  <2>4. "leading" \in unsaved'
    BY <2>2, <2>3 DEF HistoryNext
  <2> QED BY <2>4 DEF LeadStored
<1> QED BY <1>1, <1>2

LEMMA PendKept ==
  ASSUME HistoryNext,
         \/ PendStored /\ pending' = pending /\ db'.pending = db.pending
         \/ db'.pending = pending'
         \/ \E s \in Slots : SaveFails(s) /\ Written(s) = "pending"
  PROVE  PendStored'
<1>1. CASE db'.pending = pending'
  BY <1>1 DEF PendStored
<1>2. CASE db'.pending # pending'
  <2>1. "pending" \in unsaved \/ \E s \in Slots : SaveFails(s) /\ Written(s) = "pending"
    BY <1>2 DEF PendStored
  <2>2. "pending" \in unsaved \cup {Written(s) : s \in {t \in Slots : SaveFails(t)}}
    BY <2>1
  <2>3. Entries'["pending"] # db'["pending"]
    BY <1>2 DEF Entries
  <2>4. "pending" \in unsaved'
    BY <2>2, <2>3 DEF HistoryNext
  <2> QED BY <2>4 DEF PendStored
<1> QED BY <1>1, <1>2

LEMMA ReturnsAnswers ==
  ASSUME TypeInv, NEW s \in Slots, Returns(s)
  PROVE  /\ req'[s].pc = "idle" /\ mode' = mode /\ req[s].pc # "idle"
         /\ req[s].pc = "commit" => db'.leading = req[s].leadSave
<1>1. req'[s] = Idle /\ mode' = mode /\ req[s].pc # "idle"
  BY DEF Returns, Suspend, TypeInv, TypeOK, manager
<1>2. req[s].pc = "commit" => db'.leading = req[s].leadSave
  BY DEF Returns, LeadingSaved, TypeInv, TypeOK
<1> QED BY <1>1, <1>2 DEF Idle

LEMMA HistoryOf ==
  ASSUME TypeInv, HistoryNext, NEW s \in Slots, NEW q, Suspend(s, q),
         \A t \in Slots : t # s => req[t].pc = "idle"
  PROVE  /\ asOf' = [r \in Requests |-> asOf'[r]]
         /\ \A r \in Requests : req'[r].pc = "idle" => asOf'[r] = None
         /\ s \in Requests /\ q.pc # "idle" => asOf'[s] = Basis(s)
         /\ \A a \in acked' : \/ a \in acked /\ a.expiry > now'
                              \/ /\ s \in Requests /\ req[s].pc = "commit"
                                 /\ a = req[s].leadSave /\ db'.leading = a
<1>1. req'[s] = q
  BY DEF Suspend, TypeInv, TypeOK
<1>2. \A r \in Requests : asOf'[r] = IF req'[r].pc = "idle" THEN None ELSE Basis(r)
  BY DEF HistoryNext, Basis
<1>3. asOf' = [r \in Requests |-> asOf'[r]]
  BY DEF HistoryNext
<1>4. ASSUME NEW a \in acked'
      PROVE  \/ a \in acked /\ a.expiry > now'
             \/ /\ s \in Requests /\ req[s].pc = "commit"
                /\ a = req[s].leadSave /\ db'.leading = a
  <2>1. \/ a \in acked /\ a.expiry > now'
        \/ \E r \in Requests : req[r].pc = "commit" /\ Returns(r) /\ a = req[r].leadSave
    BY <1>4 DEF HistoryNext
  <2> QED BY <2>1, ReturnsAnswers DEF Slots
<1> QED BY <1>1, <1>2, <1>3, <1>4

\* the step of the one slot whose turn it is
LEMMA MoveKeeps ==
  ASSUME TypeInv, HistoryInv, HistoryNext, NEW s \in Slots, NEW q, Suspend(s, q),
         \A t \in Slots : t # s => req[t].pc = "idle",
         mode # "down", s = Boot => mode = "booting", s # Boot => mode = "ready",
         mode' = mode \/ (s = Boot /\ q.pc = "idle" /\ mode' = "ready"),
         now' = now, mined' = mined,
         Fits(q, leading', pending'),
         q.pc \notin LeadPcs => LeadStored',
         q.pc \notin PendPcs => PendStored',
         Covers(leading', acked', now), Covers(db'.leading, acked', now),
         q.pc \in {"rpc", "node"} => acked' = {},
         q.pc = "commit" => leading'.expiry <= now + LocalNonceTTL,
         s \in Requests /\ q.pc # "idle" /\ Basis(s) # None
           => Forgets(q, Basis(s), leading', pending', now, mined)
  PROVE  HistoryInv'
<1>1. req' = [t \in Slots |-> IF t = s THEN q ELSE req[t]]
  BY DEF Suspend, TypeInv, TypeOK
<1>2. Boot \in Slots /\ Requests \subseteq Slots /\ Boot \notin Requests
  BY SlotsAssumption DEF Slots
<1>3. InTurn'
  BY <1>1, <1>2 DEF InTurn
<1>4. SlotsFit'
  BY <1>1, IdleFits DEF HistoryInv, SlotsFit
<1>5. Stored'
  BY <1>1 DEF Stored
<1>6. Covered'
  BY <1>1 DEF Covered
<1>7. Forgotten'
  <2>1. \A r \in Requests : req'[r].pc = "idle" => asOf'[r] = None
    BY HistoryOf
  <2>2. s \in Requests /\ q.pc # "idle" => asOf'[s] = Basis(s)
    BY HistoryOf
  <2>3. ASSUME NEW r \in Requests, asOf'[r] # None
        PROVE  Forgets(req'[r], asOf'[r], leading', pending', now', mined')
    <3>1. r = s /\ q.pc # "idle"
      BY <1>1, <1>2, <2>1, <2>3
    <3> QED BY <1>1, <2>2, <2>3, <3>1
  <2> QED BY <2>1, <2>3 DEF Forgotten
<1>8. asOf' = [r \in Requests |-> asOf'[r]]
  BY HistoryOf
<1> QED BY <1>3, <1>4, <1>5, <1>6, <1>7, <1>8 DEF HistoryInv

-----------------------------------------------------------------------------
(* The segments again, for a request that is alone and found everything    *)
(* expired at the count b, if b is not None.                               *)
Goes(s, b) ==
  \E q :
    /\ Suspend(s, q) /\ leading' = leading
    /\ mode' = mode \/ (s = Boot /\ q.pc = "idle" /\ mode' = "ready")
    /\ q.pc \in {"idle", "rpc", "drop", "reserve"}
    /\ q.pc = "rpc" => ~Fresh
    /\ Fits(q, leading, pending')
    /\ pending' = pending \/ q.pc \in PendPcs
    /\ b # None => Forgets(q, b, leading, pending', now, mined)

NothingSaved(r) == r.leadSave = None /\ r.pendSave = None

LEMMA AskNodeGoes ==
  ASSUME NEW s \in Slots, NEW r, IsRequest(r), NothingSaved(r), ~Fresh, AskNode(s, r),
         NEW b, b # None => b \in Nat /\ b <= mined /\ AllExpired(pending, now)
  PROVE  Goes(s, b)
<1> DEFINE q == [r EXCEPT !.pc = "rpc", !.count = mined, !.asked = now]
<1>1. q.pc = "rpc" /\ q.count = mined /\ q.leadSave = None /\ q.pendSave = None
  BY DEF IsRequest, NothingSaved
<1>2. Suspend(s, q) /\ UNCHANGED <<leading, pending, mode>>
  BY DEF AskNode, manager
<1> HIDE DEF q
<1>3. Fits(q, leading, pending')
  BY <1>1 DEF Fits, LeadPcs, PendPcs
<1>4. b # None => Forgets(q, b, leading, pending', now, mined)
  BY <1>1, <1>2 DEF Forgets
<1> QED BY <1>1, <1>2, <1>3, <1>4 DEF Goes

LEMMA FinishGoes ==
  ASSUME NEW s \in Slots, Finish(s), NEW b, b # None => b \in Nat
  PROVE  Goes(s, b)
<1>1. Idle.pc = "idle" /\ Idle.leadSave = None /\ Idle.pendSave = None
  BY DEF Idle
<1>2. /\ Suspend(s, Idle) /\ UNCHANGED <<leading, pending>>
      /\ mode' = mode \/ (s = Boot /\ mode' = "ready")
  BY DEF Finish
<1>3. Fits(Idle, leading, pending') /\ (b # None => Forgets(Idle, b, leading, pending', now, mined))
  BY <1>1 DEF Fits, LeadPcs, PendPcs, Forgets
<1> QED BY <1>1, <1>2, <1>3 DEF Goes

LEMMA ReserveGoes ==
  ASSUME NEW s \in Slots, NEW r, NEW n, NEW p, Reserve(s, r, n, p), leading # None, n > leading.nonce,
         NEW b, b # None => b \in Nat /\ n \in b .. mined
  PROVE  Goes(s, b)
<1> DEFINE q == [Idle EXCEPT !.pc = "reserve", !.method = r.method, !.nonce = n, !.pendSave = p]
<1>1. q.pc = "reserve" /\ q.nonce = n /\ q.leadSave = None /\ q.pendSave = p
  BY DEF Idle
<1>2. Suspend(s, q) /\ UNCHANGED <<leading, mode>> /\ pending' = p
  BY DEF Reserve
<1> HIDE DEF q
<1>3. Fits(q, leading, pending') /\ (b # None => Forgets(q, b, leading, pending', now, mined))
  BY <1>1, <1>2 DEF Fits, LeadPcs, PendPcs, Forgets
<1>4. q.pc \in PendPcs
  BY <1>1 DEF PendPcs
<1> QED BY <1>1, <1>2, <1>3, <1>4 DEF Goes

LEMMA TakeLeadingGoes ==
  ASSUME TypeInv, NEW s \in Slots, NEW r, TakeLeading(s, r), leading # None,
         NEW b, b # None => b \in Nat /\ leading.nonce + 1 \in b .. mined
  PROVE  Goes(s, b)
<1> DEFINE n == leading.nonce + 1
           p == [m \in {n} |-> r.base + PendingNonceTTL]
<1>1. n > leading.nonce
  BY DEF TypeInv, TypeOK, NonceInfo
<1>2. Reserve(s, r, n, p)
  BY DEF TakeLeading
<1>3. b # None => b \in Nat /\ n \in b .. mined
  OBVIOUS
<1> HIDE DEF n, p
<1> QED BY <1>1, <1>2, <1>3, ReserveGoes

LEMMA SelectGoes ==
  ASSUME TypeInv, NEW s \in Slots, NEW r, IsRequest(r), NothingSaved(r), Select(s, r), leading # None,
         HasPending => \A n \in DOMAIN pending : n > leading.nonce,
         NEW b, b # None => b \in Nat /\ leading.nonce + 1 \in b .. mined /\ ~HasPending
  PROVE  Goes(s, b)
<1>1. CASE HasPending
  <2> DEFINE n == IF Overdue # {} THEN Min(Overdue) ELSE Extended
             p == [m \in DOMAIN pending \cup {n} |->
                     IF m = n THEN now + PendingNonceTTL ELSE pending[m]]
  <2>1. n > leading.nonce
    BY <1>1, SelectedNonce DEF Extended, TypeInv, TypeOK, NonceInfo
  <2>2. Reserve(s, r, n, p)
    BY <1>1 DEF Select
  <2> HIDE DEF n, p
  <2> QED BY <1>1, <2>1, <2>2, ReserveGoes
<1>2. CASE ~HasPending /\ Fresh
  BY <1>2, TakeLeadingGoes DEF Select
<1>3. CASE ~HasPending /\ ~Fresh
  <2> DEFINE q1 == [r EXCEPT !.base = now]
             q == [q1 EXCEPT !.merge = "inner"]
  <2>1. IsRequest(q1) /\ NothingSaved(q1)
    BY UpdateRequest DEF TypeInv, TypeOK, NothingSaved, IsRequest
  <2>2. AskNode(s, q)
    BY <1>3 DEF Select
  <2> HIDE DEF q1
  <2>3. IsRequest(q) /\ NothingSaved(q)
    BY <2>1, UpdateRequest DEF NothingSaved, IsRequest
  <2>4. b # None => b \in Nat /\ b <= mined /\ AllExpired(pending, now)
    BY <1>3 DEF HasPending, AllExpired, TypeInv, TypeOK
  <2> HIDE DEF q
  <2> QED BY <1>3, <2>2, <2>3, <2>4, AskNodeGoes
<1> QED BY <1>1, <1>2, <1>3

\* dropExpiredPendingNonces leaves nothing at or below the leading nonce,
\* and nothing that is expired
LEMMA UnexpiredLeft ==
  ASSUME pending # None, leading # None
  PROVE  \A n \in DOMAIN Unexpired(pending) :
           n \in DOMAIN pending /\ pending[n] > now /\ n > leading.nonce
BY DEF Unexpired, RestrictDomain, Restrict

LEMMA MergeReturnsGoes ==
  ASSUME TypeInv, NEW s \in Slots, NEW r, IsRequest(r), NothingSaved(r), MergeReturns(s, r), leading # None,
         NEW b, b # None => b \in Nat /\ leading.nonce + 1 \in b .. mined /\ ~HasPending
  PROVE  Goes(s, b)
<1>1. CASE r.merge = "inner"
  BY <1>1, TakeLeadingGoes DEF MergeReturns
<1>2. CASE r.merge # "inner" /\ r.method \in {"init", "getNonce"}
  BY <1>2, FinishGoes DEF MergeReturns
<1>3. CASE r.merge # "inner" /\ r.method \notin {"init", "getNonce"} /\ pending = None
  BY <1>3, SelectGoes DEF MergeReturns, HasPending
<1>4. CASE r.merge # "inner" /\ r.method \notin {"init", "getNonce"} /\ pending # None
  <2> DEFINE p == Unexpired(pending)
             q == [r EXCEPT !.pc = "drop", !.pendSave = p]
  <2>1. Suspend(s, q) /\ UNCHANGED <<leading, mode>> /\ pending' = p
    BY <1>4 DEF MergeReturns
  <2>2. \A n \in DOMAIN p : n \in DOMAIN pending /\ n > leading.nonce
    BY <1>4, UnexpiredLeft
  <2>3. q.pc = "drop" /\ q.leadSave = None /\ q.pendSave = p
    BY DEF IsRequest, NothingSaved
  <2> HIDE DEF p, q
  <2>4. Fits(q, leading, pending')
    BY <2>1, <2>2, <2>3 DEF Fits, LeadPcs, PendPcs
  <2>5. b # None => DOMAIN p = {}
    BY <1>4, <2>2 DEF HasPending
  <2>6. b # None => Forgets(q, b, leading, pending', now, mined)
    BY <2>1, <2>3, <2>5 DEF Forgets
  <2>7. q.pc \in PendPcs
    BY <2>3 DEF PendPcs
  <2> QED BY <2>1, <2>3, <2>4, <2>6, <2>7 DEF Goes
<1> QED BY <1>1, <1>2, <1>3, <1>4

LEMMA EnterMergeGoes ==
  ASSUME TypeInv, NEW s \in Slots, NEW r, IsRequest(r), NothingSaved(r), EnterMerge(s, r),
         NEW b, b # None => b \in Nat /\ b <= mined /\ AllExpired(pending, now) /\ ~Fresh
  PROVE  Goes(s, b)
<1>1. CASE Fresh
  BY <1>1, MergeReturnsGoes DEF EnterMerge, Fresh
<1>2. CASE ~Fresh
  BY <1>2, AskNodeGoes DEF EnterMerge
<1> QED BY <1>1, <1>2

\* an expired leading nonce covers nothing that is still to be respected
LEMMA GoesKeeps ==
  ASSUME TypeInv, HistoryInv, HistoryNext, NEW s \in Slots, NEW b, Goes(s, b),
         s \in Requests => b = Basis(s),
         \A t \in Slots : t # s => req[t].pc = "idle",
         mode # "down", s = Boot => mode = "booting", s # Boot => mode = "ready",
         req[s].pc # "commit", now' = now, mined' = mined,
         db'.leading \in {db.leading, leading}, leading' = leading => LeadStored',
         pending' = pending => PendStored'
  PROVE  HistoryInv'
<1>1. PICK q :
        /\ Suspend(s, q) /\ leading' = leading
        /\ mode' = mode \/ (s = Boot /\ q.pc = "idle" /\ mode' = "ready")
        /\ q.pc \in {"idle", "rpc", "drop", "reserve"}
        /\ q.pc = "rpc" => ~Fresh
        /\ Fits(q, leading, pending')
        /\ pending' = pending \/ q.pc \in PendPcs
        /\ b # None => Forgets(q, b, leading, pending', now, mined)
  BY DEF Goes
<1>2. \A a \in acked' : a \in acked /\ a.expiry > now
  BY <1>1, HistoryOf
<1>3. Covers(leading, acked, now) /\ Covers(db.leading, acked, now)
  BY DEF HistoryInv, Covered
<1>4. Covers(leading, acked', now) /\ Covers(db'.leading, acked', now)
  BY <1>2, <1>3 DEF Covers
<1>5. q.pc \in {"rpc", "node"} => acked' = {}
  <2> SUFFICES ASSUME q.pc = "rpc", NEW a \in acked' PROVE FALSE
    BY <1>1
  <2>1. a.expiry <= leading.expiry /\ leading # None /\ a \in NonceInfo /\ a.expiry > now
    BY <1>2, <1>3 DEF Covers
  <2>2. leading.expiry <= now
    BY <1>1, <2>1 DEF Fresh, TypeInv, TypeOK, NonceInfo
  <2> QED BY <2>1, <2>2 DEF TypeInv, TypeOK, NonceInfo
<1> QED BY <1>1, <1>4, <1>5, MoveKeeps

\* a step that leaves the leading nonce alone
LEMMA QuietKeeps ==
  ASSUME OneAtATime, TypeInv, HistoryInv, HistoryNext, NEW s \in Slots, req[s].pc # "idle",
         NEW q, Suspend(s, q), UNCHANGED <<now, mined, leading, mode>>,
         q.pc \notin {"rpc", "node", "commit"}, Fits(q, leading, pending'),
         db'.leading \in {db.leading, leading}, LeadStored',
         q.pc \notin PendPcs => PendStored',
         s \in Requests /\ q.pc # "idle" /\ asOf[s] # None
           => Forgets(q, asOf[s], leading, pending', now, mined)
  PROVE  HistoryInv'
<1>1. /\ \A t \in Slots : t # s => req[t].pc = "idle"
      /\ mode # "down" /\ (s = Boot => mode = "booting") /\ (s # Boot => mode = "ready")
  BY Turn
<1>2. \A a \in acked' :
        \/ a \in acked
        \/ req[s].pc = "commit" /\ a = leading /\ db'.leading = a
  <2>1. req[s].pc = "commit" => req[s].leadSave = leading
    BY DEF HistoryInv, SlotsFit, Fits, LeadPcs
  <2>2. \A a \in acked' :
          \/ a \in acked /\ a.expiry > now'
          \/ /\ s \in Requests /\ req[s].pc = "commit"
             /\ a = req[s].leadSave /\ db'.leading = a
    BY <1>1, HistoryOf
  <2> QED BY <2>1, <2>2
<1>3. Covers(leading, acked', now) /\ Covers(db'.leading, acked', now)
  <2>1. Covers(leading, acked, now) /\ Covers(db.leading, acked, now)
    BY <1>1 DEF HistoryInv, Covered
  <2>2. CASE acked' \subseteq acked
    BY <2>1, <2>2, CoversLess
  <2>3. CASE ~(acked' \subseteq acked)
    <3>1. req[s].pc = "commit" /\ db'.leading = leading /\ acked' \subseteq acked \cup {leading}
      BY <1>2, <2>3
    <3>2. leading.expiry <= now + LocalNonceTTL
      BY <3>1 DEF HistoryInv, Covered
    <3>3. leading \in NonceInfo /\ leading # None
      BY <3>1 DEF HistoryInv, SlotsFit, Fits, LeadPcs, TypeInv, TypeOK
    <3>4. Covers(leading, acked', now)
      BY <2>1, <3>1, <3>2, <3>3 DEF Covers, NonceInfo
    <3> QED BY <3>1, <3>4
  <2> QED BY <2>2, <2>3
<1>4. Basis(s) = asOf[s]
  BY DEF Basis
<1> QED BY <1>1, <1>3, <1>4, MoveKeeps

-----------------------------------------------------------------------------
(* The actions.                                                            *)
\* a request that is answered at once leaves nothing behind
LEMMA AnsweredAtOnce ==
  ASSUME TypeInv, HistoryInv, HistoryNext, NEW r \in Requests,
         GetNextNonce(r) \/ ProvideGivenNonce(r) \/ GetNonce(r), req'[r].pc = "idle"
  PROVE  HistoryInv'
<1>1. r \in Slots /\ r # Boot /\ mode = "ready" /\ req[r].pc = "idle"
      /\ now' = now /\ mined' = mined /\ UNCHANGED db
  BY SlotsAssumption DEF Arrives, Slots, GetNextNonce, ProvideGivenNonce, GetNonce, node
<1>2. \A q : Suspend(r, q) => req' = [t \in Slots |-> IF t = r THEN q ELSE req[t]]
  BY <1>1 DEF Suspend, TypeInv, TypeOK
<1>3. \A q : Suspend(r, q) => q.pc = "idle"
  BY <1>1, <1>2
<1>4. Finish(r)
  <2>1. ASSUME NEW q, IsRequest(q), EnterMerge(r, q) PROVE Finish(r)
    <3>1. ASSUME NEW x, NEW n, NEW p, Reserve(r, x, n, p) PROVE FALSE
      <4> DEFINE y == [Idle EXCEPT !.pc = "reserve", !.method = x.method, !.nonce = n,
                                   !.pendSave = p]
      <4>1. Suspend(r, y) /\ y.pc = "reserve"
        BY <3>1 DEF Reserve, Idle
      <4> HIDE DEF y
      <4> QED BY <1>3, <4>1
    <3>2. ASSUME NEW x, IsRequest(x), AskNode(r, x) PROVE FALSE
      <4> DEFINE y == [x EXCEPT !.pc = "rpc", !.count = mined, !.asked = now]
      <4>1. Suspend(r, y)
        BY <3>2 DEF AskNode
      <4>2. y.pc = "rpc"
        BY <3>2 DEF IsRequest
      <4> HIDE DEF y
      <4> QED BY <1>3, <4>1, <4>2
    <3>3. ASSUME NEW x, TakeLeading(r, x) PROVE FALSE
      BY <3>1, <3>3 DEF TakeLeading
    <3>4. ASSUME Select(r, q) PROVE FALSE
      <4> DEFINE q1 == [q EXCEPT !.base = now]
                 q2 == [q1 EXCEPT !.merge = "inner"]
      <4>1. IsRequest(q1)
        BY <2>1, UpdateRequest DEF TypeInv, TypeOK
      <4>2. IsRequest(q2)
        <5> HIDE DEF q1
        <5> QED BY <4>1, UpdateRequest
      <4>3. ~AskNode(r, q2)
        BY <3>2, <4>2
      <4> QED BY <3>1, <3>3, <3>4, <4>3 DEF Select
    <3>5. ASSUME Suspend(r, [q EXCEPT !.pc = "drop", !.pendSave = Unexpired(pending)]) PROVE FALSE
      <4> DEFINE y == [q EXCEPT !.pc = "drop", !.pendSave = Unexpired(pending)]
      <4>1. Suspend(r, y)
        BY <3>5
      <4>2. y.pc = "drop"
        BY <2>1 DEF IsRequest
      <4> HIDE DEF y
      <4> QED BY <1>3, <4>1, <4>2
    <3> QED BY <2>1, <3>2, <3>3, <3>4, <3>5 DEF EnterMerge, MergeReturns
  <2>2. \A m \in Methods : IsRequest([Idle EXCEPT !.method = m])
    BY IdleIsRequest, UpdateRequest
  <2>3. {"provideNonce", "getNextNonce", "getNonce"} \subseteq Methods
    BY DEF Methods
  <2>4. ASSUME NEW n, Suspend(r, [Idle EXCEPT !.pc = "send", !.method = "provideGiven", !.nonce = n])
        PROVE  FALSE
    <3> DEFINE y == [Idle EXCEPT !.pc = "send", !.method = "provideGiven", !.nonce = n]
    <3>1. Suspend(r, y) /\ y.pc = "send"
      BY <2>4 DEF Idle
    <3> HIDE DEF y
    <3> QED BY <1>3, <3>1
  <2>5. ASSUME Suspend(r, [[Idle EXCEPT !.method = "getNonce"] EXCEPT !.pc = "node", !.count = mined])
        PROVE  FALSE
    <3> DEFINE y == [[Idle EXCEPT !.method = "getNonce"] EXCEPT !.pc = "node", !.count = mined]
    <3>1. Suspend(r, y) /\ y.pc = "node"
      BY <2>5 DEF Idle
    <3> HIDE DEF y
    <3> QED BY <1>3, <3>1
  <2> QED BY <2>1, <2>2, <2>3, <2>4, <2>5 DEF GetNextNonce, GetNonce, ProvideGivenNonce
<1>5. /\ UNCHANGED <<leading, pending, mode>>
      /\ req' = [t \in Slots |-> IF t = r THEN Idle ELSE req[t]]
  BY <1>1, <1>2, <1>4 DEF Finish
<1>6. Idle.pc = "idle" /\ Fits(Idle, leading, pending)
  BY DEF Idle, Fits, LeadPcs, PendPcs
<1>7. Boot \in Slots /\ Requests \subseteq Slots /\ Boot \notin Requests
  BY SlotsAssumption DEF Slots
<1>8. acked' \subseteq acked
  <2>1. \A q \in Requests : req[q].pc = "commit" => req'[q].pc = "commit"
    BY <1>1, <1>5, <1>7
  <2> QED BY <1>7, <2>1, ReturnsAnswers DEF HistoryNext
<1>9. \A q \in Requests : asOf'[q] = asOf[q]
  BY <1>1, <1>5, <1>6, <1>7 DEF HistoryNext, HistoryInv, Forgotten
<1>10. asOf' = [q \in Requests |-> asOf'[q]]
  BY DEF HistoryNext
<1>11. InTurn' /\ SlotsFit' /\ Stored'
  <2>1. (LeadStored => LeadStored') /\ (PendStored => PendStored')
    BY <1>1, <1>5, LeadKept, PendKept
  <2> QED BY <1>1, <1>5, <1>6, <1>7, <2>1 DEF HistoryInv, InTurn, SlotsFit, Stored, LeadPcs, PendPcs
<1>12. Covered'
  <2>1. Covers(leading, acked', now) /\ Covers(db.leading, acked', now)
    BY <1>1, <1>8, CoversLess DEF HistoryInv, Covered
  <2> QED BY <1>1, <1>5, <1>6, <1>8, <2>1 DEF HistoryInv, Covered
<1>13. Forgotten'
  BY <1>1, <1>5, <1>6, <1>7, <1>9 DEF HistoryInv, Forgotten
<1> QED BY <1>10, <1>11, <1>12, <1>13 DEF HistoryInv

LEMMA ArrivalHistory ==
  ASSUME OneAtATime, OneAtATime', TypeInv, HistoryInv, HistoryNext, NEW r \in Requests,
         GetNextNonce(r) \/ ProvideGivenNonce(r) \/ GetNonce(r)
  PROVE  HistoryInv'
<1> SUFFICES ASSUME req'[r].pc # "idle" PROVE HistoryInv'
  BY AnsweredAtOnce
<1>1. r \in Slots /\ r # Boot /\ mode = "ready" /\ req[r].pc = "idle"
      /\ now' = now /\ mined' = mined /\ UNCHANGED db
  BY SlotsAssumption DEF Arrives, Slots, GetNextNonce, ProvideGivenNonce, GetNonce, node
<1>2. \A t \in Slots : req[t].pc = "idle"
  <2>1. PICK q : Suspend(r, q)
    BY DEF GetNextNonce, ProvideGivenNonce, GetNonce, EnterMerge, MergeReturns, Select, TakeLeading,
           Reserve, AskNode, Finish
  <2>2. req' = [t \in Slots |-> IF t = r THEN q ELSE req[t]]
    BY <2>1 DEF Suspend, TypeInv, TypeOK
  <2>3. \A t \in Requests : t = r \/ req[t].pc = "idle"
    BY <2>2 DEF OneAtATime, Slots
  <2> QED BY <1>1, <2>3 DEF HistoryInv, InTurn, Slots
<1>3. (leading' = leading => LeadStored') /\ (pending' = pending => PendStored')
  <2>1. LeadStored /\ PendStored
    BY <1>1, <1>2 DEF HistoryInv, Stored, LeadPcs, PendPcs
  <2> QED BY <1>1, <2>1, LeadKept, PendKept
<1>4. Basis(r) # None => Basis(r) = mined /\ Expired
  BY <1>1 DEF Basis, HistoryInv, Forgotten
<1>5. mined \in Nat /\ now \in Nat /\ leading \in NonceInfo \cup {None}
  BY DEF TypeInv, TypeOK
<1>6. Expired => AllExpired(pending, now) /\ ~Fresh
  BY <1>5 DEF Expired, AllExpired, Fresh, NonceInfo
<1>7. \A m \in Methods : LET q == [Idle EXCEPT !.method = m] IN IsRequest(q) /\ NothingSaved(q)
  BY IdleIsRequest, UpdateRequest DEF Idle, NothingSaved
<1>8. {"provideNonce", "getNextNonce", "getNonce"} \subseteq Methods
  BY DEF Methods
<1>9. ASSUME NEW m \in Methods, EnterMerge(r, [Idle EXCEPT !.method = m])
      PROVE  HistoryInv'
  <2> DEFINE q == [Idle EXCEPT !.method = m]
  <2>1. IsRequest(q) /\ NothingSaved(q) /\ EnterMerge(r, q)
    BY <1>7, <1>9
  <2> HIDE DEF q
  <2>2. Goes(r, Basis(r))
    BY <1>1, <1>4, <1>5, <1>6, <2>1, EnterMergeGoes
  <2> QED BY <1>1, <1>2, <1>3, <2>2, GoesKeeps
<1>10. acked' \subseteq acked
  <2>1. ASSUME NEW q, Suspend(r, q) PROVE acked' \subseteq acked
    BY <1>1, <1>2, <2>1, HistoryOf
  <2>2. \E q : Suspend(r, q)
    BY DEF GetNextNonce, ProvideGivenNonce, GetNonce, EnterMerge, MergeReturns, Select, TakeLeading,
           Reserve, AskNode, Finish
  <2> QED BY <2>1, <2>2
<1>11. /\ Covers(leading, acked, now) /\ Covers(leading, acked', now)
       /\ Covers(db'.leading, acked', now)
  BY <1>1, <1>10, CoversLess DEF HistoryInv, Covered
<1>12. CASE GetNextNonce(r)
  BY <1>8, <1>9, <1>12 DEF GetNextNonce
<1>13. CASE ProvideGivenNonce(r)
  <2>1. PICK n \in GivenNonces :
          Suspend(r, [Idle EXCEPT !.pc = "send", !.method = "provideGiven", !.nonce = n])
    BY <1>13 DEF ProvideGivenNonce
  <2> DEFINE q == [Idle EXCEPT !.pc = "send", !.method = "provideGiven", !.nonce = n]
  <2>2. q.pc = "send" /\ q.leadSave = None /\ q.pendSave = None
    BY DEF Idle
  <2>3. Suspend(r, q) /\ UNCHANGED <<leading, pending, mode>>
    BY <1>13, <2>1 DEF ProvideGivenNonce, manager
  <2> HIDE DEF q
  <2>4. Fits(q, leading', pending')
    BY <2>2 DEF Fits, LeadPcs, PendPcs
  <2>5. Basis(r) # None => Forgets(q, Basis(r), leading', pending', now, mined)
    BY <1>4, <1>5, <2>2 DEF Forgets
  <2> QED BY <1>1, <1>2, <1>3, <1>11, <2>2, <2>3, <2>4, <2>5, MoveKeeps
<1>14. CASE GetNonce(r) /\ leading # None
  BY <1>8, <1>9, <1>14 DEF GetNonce
<1>15. CASE GetNonce(r) /\ leading = None
  <2> DEFINE q == [[Idle EXCEPT !.method = "getNonce"] EXCEPT !.pc = "node", !.count = mined]
  <2>1. q.pc = "node" /\ q.leadSave = None /\ q.pendSave = None
    BY DEF Idle
  <2>2. Suspend(r, q) /\ UNCHANGED <<leading, pending, mode>>
    BY <1>15 DEF GetNonce, manager
  <2> HIDE DEF q
  <2>3. Fits(q, leading', pending')
    BY <2>1 DEF Fits, LeadPcs, PendPcs
  <2>4. acked' = {}
    BY <1>10, <1>11, <1>15 DEF Covers
  <2>5. Basis(r) = None
    BY <1>4, <1>15 DEF Expired
  <2> QED BY <1>1, <1>2, <1>3, <1>11, <2>1, <2>2, <2>3, <2>4, <2>5, MoveKeeps
<1> QED BY <1>12, <1>13, <1>14, <1>15

LEMMA RpcHistory ==
  ASSUME OneAtATime, TypeInv, HistoryInv, HistoryNext, NEW s \in Slots,
         MergeNonceFromEVMNode(s) \/ GetNonceFromNode(s) \/ RpcFails(s)
  PROVE  HistoryInv'
<1>1. req[s].pc \in {"rpc", "node"}
  BY DEF MergeNonceFromEVMNode, GetNonceFromNode, RpcFails
<1>2. /\ \A t \in Slots : t # s => req[t].pc = "idle"
      /\ mode # "down" /\ (s = Boot => mode = "booting") /\ (s # Boot => mode = "ready")
      /\ LeadStored /\ PendStored
  BY <1>1, Turn DEF LeadPcs, PendPcs
<1>3. IsRequest(req[s]) /\ mined \in Nat /\ now \in Nat
  BY DEF TypeInv, TypeOK
<1>4. req[s].leadSave = None /\ req[s].pendSave = None
  BY <1>1 DEF HistoryInv, SlotsFit, Fits, LeadPcs, PendPcs
<1>5. s \in Requests /\ asOf[s] # None => Forgets(req[s], asOf[s], leading, pending, now, mined)
  BY DEF HistoryInv, Forgotten
<1>6. acked = {}
  <2>1. \A t \in Slots : req[t].pc \in {"rpc", "node"} => acked = {}
    BY DEF HistoryInv, Covered
  <2> QED BY <1>1, <2>1
<1>7. Basis(s) = asOf[s]
  BY <1>1 DEF Basis
<1>8. ASSUME NEW r, NEW n \in Nat \cup {-1}, NEW e \in Nat, SetLeading(s, r, n, e),
             r = [r EXCEPT !.leadSave = r.leadSave], r.pc \in {"mergeSave", "nodeSave"},
             r.pendSave = None,
             r.pc = "mergeSave" /\ s \in Requests /\ asOf[s] # None
               => AllExpired(pending, now) /\ n + 1 \in asOf[s] .. mined
      PROVE  HistoryInv'
  <2> DEFINE info == [nonce |-> n, expiry |-> e]
             q == [r EXCEPT !.leadSave = info]
  <2>1. Suspend(s, q) /\ leading' = info /\ UNCHANGED <<now, pending, mode, db>> /\ mined' = mined
    BY <1>8 DEF SetLeading, node
  <2>2. info # None /\ info.nonce = n
    BY NoneAssumption DEF NonceInfo
  <2> HIDE DEF info
  <2>3. q.pc = r.pc /\ q.pendSave = None /\ q.leadSave = info
    BY <1>8
  <2> HIDE DEF q
  <2>4. Fits(q, leading', pending')
    BY <1>8, <2>1, <2>2, <2>3 DEF Fits, LeadPcs, PendPcs
  <2>5. acked' = {}
    BY <1>1, <1>2, <1>6, <2>1, HistoryOf
  <2>6. Covers(leading', acked', now) /\ Covers(db'.leading, acked', now)
    BY <2>5 DEF Covers
  <2>7. s \in Requests /\ Basis(s) # None => Forgets(q, Basis(s), leading', pending', now, mined)
    BY <1>5, <1>7, <1>8, <2>1, <2>2, <2>3 DEF Forgets
  <2>8. q.pc \in LeadPcs /\ q.pc # "commit" /\ q.pc # "idle" /\ q.pc \notin {"rpc", "node"}
    BY <1>8, <2>3 DEF LeadPcs
  <2>9. PendStored'
    BY <1>2, <2>1, PendKept
  <2> QED BY <1>2, <2>1, <2>4, <2>5, <2>6, <2>7, <2>8, <2>9, MoveKeeps
<1>9. CASE MergeNonceFromEVMNode(s)
  <2> DEFINE r == [req[s] EXCEPT !.pc = "mergeSave", !.count = 0, !.asked = 0]
  <2>1. PICK c \in req[s].count .. mined : SetLeading(s, r, c - 1, req[s].asked + LocalNonceTTL)
    BY <1>9 DEF MergeNonceFromEVMNode
  <2>2. c - 1 \in Nat \cup {-1} /\ c \in Nat /\ req[s].asked + LocalNonceTTL \in Nat
    BY <1>3, TTLAssumption DEF IsRequest
  <2>3. r.pc = "mergeSave" /\ r.pendSave = None /\ r = [r EXCEPT !.leadSave = r.leadSave]
    BY <1>3, <1>4 DEF IsRequest
  <2>4. s \in Requests /\ asOf[s] # None => AllExpired(pending, now) /\ (c - 1) + 1 \in asOf[s] .. mined
    BY <1>3, <1>5, <1>9, <2>2 DEF Forgets, MergeNonceFromEVMNode, IsRequest
  <2> HIDE DEF r
  <2> QED BY <1>8, <2>1, <2>2, <2>3, <2>4
<1>10. CASE GetNonceFromNode(s)
  <2> DEFINE r == [Idle EXCEPT !.pc = "nodeSave"]
  <2>1. PICK c \in req[s].count .. mined : SetLeading(s, r, c - 1, now + PendingNonceTTL)
    BY <1>10 DEF GetNonceFromNode
  <2>2. c - 1 \in Nat \cup {-1} /\ now + PendingNonceTTL \in Nat
    BY <1>3, TTLAssumption DEF IsRequest
  <2>3. r.pc = "nodeSave" /\ r.pendSave = None /\ r = [r EXCEPT !.leadSave = r.leadSave]
    BY DEF Idle
  <2> HIDE DEF r
  <2> QED BY <1>8, <2>1, <2>2, <2>3
<1>11. CASE RpcFails(s)
  <2>1. Suspend(s, Idle) /\ UNCHANGED <<now, leading, pending, mode, db>> /\ mined' = mined
    BY <1>11 DEF RpcFails, manager, node
  <2>2. Idle.pc = "idle" /\ Fits(Idle, leading, pending)
    BY DEF Idle, Fits, LeadPcs, PendPcs
  <2>3. LeadStored' /\ PendStored'
    BY <1>2, <2>1, LeadKept, PendKept
  <2> QED BY <1>1, <1>2, <2>1, <2>2, <2>3, QuietKeeps
<1> QED BY <1>9, <1>10, <1>11

LEMMA SavesHistory ==
  ASSUME OneAtATime, TypeInv, HistoryInv, HistoryNext, NEW s \in Slots,
         MergeSaved(s) \/ MergeDropped(s) \/ DropSaved(s)
  PROVE  HistoryInv'
<1> DEFINE r == req[s]
<1>1. r.pc \in {"mergeSave", "mergeDrop", "drop"}
  BY DEF MergeSaved, MergeDropped, DropSaved
<1>2. /\ \A t \in Slots : t # s => req[t].pc = "idle"
      /\ mode # "down" /\ (s = Boot => mode = "booting") /\ (s # Boot => mode = "ready")
      /\ LeadStored \/ r.pc = "mergeSave"
      /\ PendStored \/ r.pc \in {"mergeDrop", "drop"}
  BY <1>1, Turn DEF LeadPcs, PendPcs
<1>3. IsRequest(r) /\ mined \in Nat /\ now \in Nat /\ (pending # None => IsPending(pending))
  BY DEF TypeInv, TypeOK
<1>4. /\ leading # None
      /\ r.pc = "mergeSave" => r.leadSave = leading /\ r.pendSave = None
      /\ r.pc \in {"mergeDrop", "drop"} => r.pendSave = pending /\ r.leadSave = None
      /\ r.pc = "drop" => \A n \in DOMAIN pending : n > leading.nonce
  BY <1>1 DEF HistoryInv, SlotsFit, Fits, LeadPcs, PendPcs
<1>5. s \in Requests /\ asOf[s] # None => Forgets(r, asOf[s], leading, pending, now, mined)
  BY DEF HistoryInv, Forgotten
<1>6. now' = now /\ mined' = mined /\ db = [leading |-> db.leading, pending |-> db.pending]
  BY DEF MergeSaved, MergeDropped, DropSaved, LeadingSaved, PendingSaved, node, TypeInv, TypeOK
<1> DEFINE b == IF s \in Requests THEN asOf[s] ELSE None
           rl == [r EXCEPT !.leadSave = None]
           rp == [r EXCEPT !.pendSave = None]
<1>7. IsRequest(rl) /\ IsRequest(rp) /\ rl.pendSave = r.pendSave /\ rp.leadSave = r.leadSave
      /\ rl.leadSave = None /\ rp.pendSave = None
  <2>1. None \in NonceInfo \cup {None}
    OBVIOUS
  <2> HIDE DEF r
  <2> QED BY <1>3 DEF IsRequest
<1>8. s \in Requests => b = Basis(s)
  BY <1>1 DEF Basis
<1>9. ASSUME Goes(s, b), db'.leading \in {db.leading, leading},
             leading' = leading => LeadStored', pending' = pending => PendStored'
      PROVE  HistoryInv'
  <2> HIDE DEF b
  <2> QED BY <1>1, <1>2, <1>6, <1>8, <1>9, GoesKeeps
<1>10. b # None => b \in Nat /\ leading.nonce + 1 \in b .. mined
                   /\ (r.pc = "mergeSave" => AllExpired(pending, now))
                   /\ (r.pc \in {"mergeDrop", "drop"} => ~HasPending)
  BY <1>1, <1>5 DEF Forgets, HasPending
<1> HIDE DEF rl, rp
<1>11. CASE MergeSaved(s) /\ pending = None
  <2>1. db'.leading = leading /\ db'.pending = db.pending /\ MergeReturns(s, rl)
    BY <1>4, <1>6, <1>11 DEF MergeSaved, LeadingSaved, rl
  <2>2. b # None => b \in Nat /\ leading.nonce + 1 \in b .. mined /\ ~HasPending
    BY <1>10, <1>11 DEF HasPending
  <2>3. NothingSaved(rl)
    BY <1>4, <1>7, <1>11 DEF NothingSaved, MergeSaved
  <2> HIDE DEF b, r
  <2>4. Goes(s, b)
    BY <1>4, <1>7, <2>1, <2>2, <2>3, MergeReturnsGoes
  <2>5. (leading' = leading => LeadStored') /\ (pending' = pending => PendStored')
    BY <1>2, <1>11, <2>1, LeadKept, PendKept DEF MergeSaved, r
  <2> QED BY <1>9, <2>1, <2>4, <2>5
<1>12. CASE MergeSaved(s) /\ pending # None
  <2> DEFINE p == Unexpired(pending)
             q == [rl EXCEPT !.pc = "mergeDrop", !.pendSave = p]
  <2>1. /\ Suspend(s, q) /\ UNCHANGED <<leading, mode>> /\ pending' = p
        /\ db'.leading = leading
    BY <1>4, <1>6, <1>12 DEF MergeSaved, LeadingSaved, rl
  <2>2. q.pc = "mergeDrop" /\ q.pendSave = p /\ q.leadSave = None
    BY <1>7 DEF IsRequest
  <2>3. \A n \in DOMAIN p : n \in DOMAIN pending /\ pending[n] > now
    BY <1>4, <1>12, UnexpiredLeft
  <2> HIDE DEF p, q
  <2>4. Fits(q, leading, pending')
    BY <1>4, <2>1, <2>2 DEF Fits, LeadPcs, PendPcs
  <2>5. s \in Requests /\ asOf[s] # None => DOMAIN p = {}
    <3> SUFFICES ASSUME s \in Requests, asOf[s] # None, NEW n \in DOMAIN p PROVE FALSE
      OBVIOUS
    <3>1. n \in DOMAIN pending /\ pending[n] > now /\ pending[n] <= now
      BY <1>10, <1>12, <2>3 DEF AllExpired, MergeSaved
    <3> QED BY <1>3, <1>12, <3>1 DEF IsPending
  <2>6. s \in Requests /\ asOf[s] # None => Forgets(q, asOf[s], leading, pending', now, mined)
    BY <1>10, <2>1, <2>2, <2>5 DEF Forgets
  <2>7. q.pc \in PendPcs /\ q.pc \notin {"rpc", "node", "commit"} /\ req[s].pc # "idle"
    BY <1>1, <2>2 DEF PendPcs
  <2>8. LeadStored'
    BY <2>1, LeadKept
  <2> HIDE DEF r, b
  <2> QED BY <1>6, <2>1, <2>4, <2>6, <2>7, <2>8, QuietKeeps
<1>13. CASE MergeDropped(s)
  <2>1. db'.leading = db.leading /\ db'.pending = pending /\ MergeReturns(s, rp)
    BY <1>4, <1>6, <1>13 DEF MergeDropped, PendingSaved, rp
  <2>2. b # None => b \in Nat /\ leading.nonce + 1 \in b .. mined /\ ~HasPending
    BY <1>10, <1>13 DEF MergeDropped
  <2>3. NothingSaved(rp)
    BY <1>4, <1>7, <1>13 DEF NothingSaved, MergeDropped
  <2> HIDE DEF b, r
  <2>4. Goes(s, b)
    BY <1>4, <1>7, <2>1, <2>2, <2>3, MergeReturnsGoes
  <2>5. (leading' = leading => LeadStored') /\ (pending' = pending => PendStored')
    BY <1>2, <1>13, <2>1, LeadKept, PendKept DEF MergeDropped, r
  <2> QED BY <1>9, <2>1, <2>4, <2>5
<1>14. CASE DropSaved(s)
  <2>1. db'.leading = db.leading /\ db'.pending = pending /\ Select(s, rp) /\ r.pc = "drop"
    BY <1>4, <1>6, <1>14 DEF DropSaved, PendingSaved, rp
  <2>2. b # None => b \in Nat /\ leading.nonce + 1 \in b .. mined /\ ~HasPending
    BY <1>10, <2>1
  <2>3. NothingSaved(rp)
    BY <1>4, <1>7, <2>1 DEF NothingSaved
  <2>4. HasPending => \A n \in DOMAIN pending : n > leading.nonce
    BY <1>4, <2>1
  <2> HIDE DEF b, r
  <2>5. Goes(s, b)
    BY <1>4, <1>7, <2>1, <2>2, <2>3, <2>4, SelectGoes
  <2>6. (leading' = leading => LeadStored') /\ (pending' = pending => PendStored')
    BY <1>2, <1>14, <2>1, LeadKept, PendKept DEF DropSaved, r
  <2> QED BY <1>9, <2>1, <2>5, <2>6
<1> QED BY <1>11, <1>12, <1>13, <1>14

LEMMA ReturnsHistory ==
  ASSUME OneAtATime, TypeInv, HistoryInv, HistoryNext, NEW s \in Slots,
         Reserved(s) \/ Returns(s)
  PROVE  HistoryInv'
<1> DEFINE r == req[s]
<1>1. r.pc \in {"reserve", "commit", "nodeSave", "abort"}
  BY DEF Reserved, Returns
<1>2. /\ \A t \in Slots : t # s => req[t].pc = "idle"
      /\ mode # "down" /\ (s = Boot => mode = "booting") /\ (s # Boot => mode = "ready")
      /\ LeadStored \/ r.pc \in {"commit", "nodeSave"}
      /\ PendStored \/ r.pc \in {"reserve", "abort"}
  BY <1>1, Turn DEF LeadPcs, PendPcs
<1>3. db = [leading |-> db.leading, pending |-> db.pending]
  BY DEF TypeInv, TypeOK
<1>4. /\ r.pc \in {"commit", "nodeSave"} => r.leadSave = leading /\ leading # None
      /\ r.pc \in {"reserve", "abort"} => r.pendSave = pending
  BY <1>1 DEF HistoryInv, SlotsFit, Fits, LeadPcs, PendPcs
<1>5. now' = now /\ mined' = mined /\ UNCHANGED <<leading, pending, mode>>
  BY DEF Reserved, Returns, LeadingSaved, PendingSaved, node, manager
<1>6. db'.leading \in {db.leading, leading} /\ LeadStored' /\ PendStored'
  <2>1. \/ db'.leading = leading /\ db'.pending = db.pending /\ r.pc \in {"commit", "nodeSave"}
        \/ db'.leading = db.leading /\ db'.pending = pending /\ r.pc \in {"reserve", "abort"}
    BY <1>1, <1>3, <1>4 DEF Reserved, Returns, LeadingSaved, PendingSaved
  <2> QED BY <1>2, <1>5, <2>1, LeadKept, PendKept
<1>7. s \in Requests /\ asOf[s] # None => asOf[s] \in Nat
  BY DEF HistoryInv, Forgotten, Forgets
<1> DEFINE go == [Idle EXCEPT !.pc = "send", !.method = "provideNonce", !.nonce = r.nonce]
<1>8. PICK q \in {Idle, go} : Suspend(s, q)
  BY DEF Reserved, Returns
<1>9. q.pc \in {"idle", "send"} /\ q.leadSave = None /\ q.pendSave = None
  <2> HIDE DEF r
  <2>1. Idle.pc = "idle" /\ Idle.leadSave = None /\ Idle.pendSave = None
    BY DEF Idle
  <2>2. go.pc = "send" /\ go.leadSave = None /\ go.pendSave = None
    BY DEF Idle
  <2> HIDE DEF go
  <2> QED BY <1>8, <2>1, <2>2
<1> HIDE DEF go
<1>10. Fits(q, leading, pending')
  BY <1>9 DEF Fits, LeadPcs, PendPcs
<1>11. s \in Requests /\ asOf[s] # None => Forgets(q, asOf[s], leading, pending', now, mined)
  BY <1>7, <1>9 DEF Forgets
<1> QED BY <1>1, <1>5, <1>6, <1>8, <1>9, <1>10, <1>11, QuietKeeps

LEMMA SendHistory ==
  ASSUME OneAtATime, TypeInv, HistoryInv, HistoryNext, NEW s \in Slots,
         NodeAccepts(s) \/ CommitNonce(s) \/ SendFails(s) \/ SaveFails(s)
  PROVE  HistoryInv'
<1> DEFINE r == req[s]
<1>1. r.pc \in {"send", "sent"} \/ SaveFails(s)
  BY DEF NodeAccepts, CommitNonce, SendFails
<1>2. /\ \A t \in Slots : t # s => req[t].pc = "idle"
      /\ mode # "down" /\ (s = Boot => mode = "booting") /\ (s # Boot => mode = "ready")
      /\ r.pc # "idle"
      /\ LeadStored \/ (SaveFails(s) /\ Written(s) = "leading")
      /\ PendStored \/ (SaveFails(s) /\ Written(s) = "pending")
  <2>1. r.pc # "idle"
    BY <1>1 DEF SaveFails, Writes
  <2>2. /\ \A t \in Slots : t # s => req[t].pc = "idle"
        /\ mode # "down" /\ (s = Boot => mode = "booting") /\ (s # Boot => mode = "ready")
        /\ LeadStored \/ r.pc \in LeadPcs
        /\ PendStored \/ r.pc \in PendPcs
    BY <2>1, Turn
  <2>3. r.pc \in LeadPcs => SaveFails(s) /\ Written(s) = "leading"
    BY <1>1 DEF LeadPcs, Written
  <2>4. r.pc \in PendPcs => SaveFails(s) /\ Written(s) = "pending"
    BY <1>1 DEF PendPcs, Written
  <2> QED BY <2>1, <2>2, <2>3, <2>4
<1>3. r.pc \in {"send", "sent"} => r.leadSave = None /\ r.pendSave = None
  BY <1>1 DEF HistoryInv, SlotsFit, Fits, LeadPcs, PendPcs
<1>4. s \in Requests /\ asOf[s] # None => asOf[s] \in Nat
  BY DEF HistoryInv, Forgotten, Forgets
<1>5. IsRequest(r) /\ now \in Nat /\ leading \in NonceInfo \cup {None}
  BY DEF TypeInv, TypeOK
<1>10. leading' = leading /\ db' = db => LeadStored'
  BY <1>2, LeadKept
<1>11. pending' = pending /\ db' = db => PendStored'
  BY <1>2, PendKept
<1>6. CASE NodeAccepts(s)
  <2> DEFINE q == [r EXCEPT !.pc = "sent"]
  <2>1. Suspend(s, q) /\ UNCHANGED <<now, mined, leading, pending, mode, db>>
    BY <1>6 DEF NodeAccepts, manager
  <2>2. q.pc = "sent" /\ q.leadSave = None /\ q.pendSave = None
    BY <1>3, <1>5, <1>6 DEF IsRequest, NodeAccepts
  <2> HIDE DEF q
  <2>3. Fits(q, leading, pending')
    BY <2>2 DEF Fits, LeadPcs, PendPcs
  <2>4. s \in Requests /\ asOf[s] # None => Forgets(q, asOf[s], leading, pending', now, mined)
    BY <1>4, <2>2 DEF Forgets
  <2> QED BY <1>2, <1>10, <1>11, <2>1, <2>2, <2>3, <2>4, QuietKeeps
<1>7. CASE Abort(s)
  <2>1. UNCHANGED <<now, mined, leading, mode, db>>
    BY <1>7 DEF Abort, node
  <2>2. CASE pending = None
    <3>1. Suspend(s, Idle) /\ UNCHANGED pending
      BY <1>7, <2>2 DEF Abort
    <3>2. Idle.pc = "idle" /\ Fits(Idle, leading, pending')
      BY DEF Idle, Fits, LeadPcs, PendPcs
    <3> QED BY <1>2, <1>10, <1>11, <2>1, <3>1, <3>2, QuietKeeps
  <2>3. CASE pending # None
    <3>1. PICK kept : pending' = kept /\ Suspend(s, [Idle EXCEPT !.pc = "abort", !.pendSave = kept])
      BY <1>7, <2>3 DEF Abort
    <3> DEFINE q == [Idle EXCEPT !.pc = "abort", !.pendSave = kept]
    <3>2. q.pc = "abort" /\ q.leadSave = None /\ q.pendSave = kept
      BY DEF Idle
    <3>3. Suspend(s, q)
      BY <3>1
    <3> HIDE DEF q
    <3>4. Fits(q, leading, pending') /\ q.pc \in PendPcs
      BY <3>1, <3>2 DEF Fits, LeadPcs, PendPcs
    <3>5. s \in Requests /\ asOf[s] # None => Forgets(q, asOf[s], leading, pending', now, mined)
      BY <1>4, <3>2 DEF Forgets
    <3> QED BY <1>2, <1>10, <2>1, <3>2, <3>3, <3>4, <3>5, QuietKeeps
  <2> QED BY <2>2, <2>3
<1>8. CASE CommitNonce(s) /\ (leading = None \/ r.nonce > leading.nonce)
  <2> DEFINE info == [nonce |-> r.nonce, expiry |-> now + LocalNonceTTL]
             q == [[Idle EXCEPT !.pc = "commit", !.nonce = r.nonce] EXCEPT !.leadSave = info]
  <2>1. Suspend(s, q) /\ leading' = info /\ UNCHANGED <<now, pending, mode, db>> /\ mined' = mined
    BY <1>8 DEF CommitNonce, SetLeading, node
  <2>2. info \in NonceInfo /\ info # None /\ info.nonce = r.nonce /\ info.expiry = now + LocalNonceTTL
    BY <1>5, NoneAssumption, TTLAssumption DEF NonceInfo, IsRequest
  <2> HIDE DEF info
  <2>3. q.pc = "commit" /\ q.leadSave = info /\ q.pendSave = None
    BY DEF Idle
  <2> HIDE DEF q
  <2>4. Fits(q, leading', pending')
    BY <2>1, <2>2, <2>3 DEF Fits, LeadPcs, PendPcs
  <2>5. acked' \subseteq acked
    BY <1>2, <1>8, <2>1, HistoryOf DEF CommitNonce
  <2>6. Covers(leading, acked, now) /\ Covers(db.leading, acked, now)
    BY <1>2 DEF HistoryInv, Covered
  <2>7. Covers(db'.leading, acked', now)
    BY <2>1, <2>5, <2>6, CoversLess
  <2>8. Covers(leading', acked', now)
    <3> HIDE DEF r
    <3> SUFFICES ASSUME NEW a \in acked
                 PROVE  /\ a \in NonceInfo /\ info # None
                        /\ a.nonce <= info.nonce /\ a.expiry <= info.expiry
                        /\ a.expiry <= now + LocalNonceTTL
      BY <2>1, <2>5 DEF Covers
    <3>1. a \in NonceInfo /\ leading # None /\ a.nonce <= leading.nonce /\ a.expiry <= now + LocalNonceTTL
      BY <2>6 DEF Covers
    <3>2. r.nonce > leading.nonce /\ leading \in NonceInfo /\ r.nonce \in Nat
      BY <1>5, <1>8, <3>1 DEF IsRequest
    <3>3. a.nonce <= r.nonce
      BY <3>1, <3>2 DEF NonceInfo
    <3> QED BY <2>2, <3>1, <3>3
  <2>9. Basis(s) = asOf[s]
    BY <1>2 DEF Basis
  <2>10. s \in Requests /\ asOf[s] # None => Forgets(q, asOf[s], leading', pending', now, mined)
    BY <1>4, <2>3 DEF Forgets
  <2>11. q.pc \in LeadPcs /\ leading'.expiry <= now + LocalNonceTTL
    BY <1>5, <2>1, <2>2, <2>3, TTLAssumption DEF LeadPcs
  <2>12. PendStored'
    BY <1>11, <2>1
  <2> QED BY <1>2, <2>1, <2>3, <2>4, <2>7, <2>8, <2>9, <2>10, <2>11, <2>12, MoveKeeps
<1>9. CASE SaveFails(s) /\ r.pc # "commit"
  <2>1. Suspend(s, Idle) /\ UNCHANGED <<now, mined, leading, pending, mode, db>>
    BY <1>9 DEF SaveFails, manager, node
  <2>2. Idle.pc = "idle" /\ Fits(Idle, leading, pending')
    BY DEF Idle, Fits, LeadPcs, PendPcs
  <2> QED BY <1>2, <1>10, <1>11, <2>1, <2>2, QuietKeeps
<1> QED BY <1>6, <1>7, <1>8, <1>9 DEF CommitNonce, SendFails, SaveFails

LEMMA CrashHistory ==
  ASSUME OneAtATime, TypeInv, HistoryInv, HistoryNext, Crash
  PROVE  HistoryInv'
<1>1. /\ mode # "down" /\ mode' = "down" /\ req' = [s \in Slots |-> Idle] /\ now' = now
      /\ db'.leading = db.leading
         \/ \E s \in Slots : req[s].leadSave # None /\ db'.leading = req[s].leadSave
  <2>1. db' \in [leading : {db.leading} \cup ({req[s].leadSave : s \in Slots} \ {None}),
                 pending : {db.pending} \cup ({req[s].pendSave : s \in Slots} \ {None})]
    BY DEF Crash
  <2>2. db'.leading \in {db.leading} \cup ({req[s].leadSave : s \in Slots} \ {None})
    BY <2>1
  <2> QED BY <2>2 DEF Crash
<1>2. \A s \in Slots : req'[s].pc = "idle" /\ Fits(req'[s], leading', pending')
  BY <1>1 DEF Idle, Fits, LeadPcs, PendPcs
<1>3. db'.leading \in {db.leading, leading}
  BY <1>1 DEF HistoryInv, SlotsFit, Fits
<1>4. acked' \subseteq acked
  BY <1>1, ReturnsAnswers DEF HistoryNext, Slots
<1>5. Covers(db'.leading, acked', now)
  BY <1>1, <1>3, <1>4, CoversLess DEF HistoryInv, Covered
<1>6. asOf' = [r \in Requests |-> asOf'[r]] /\ \A r \in Requests : asOf'[r] = None
  BY <1>2 DEF HistoryNext, Slots
<1>7. Boot \in Slots /\ Requests \subseteq Slots
  BY DEF Slots
<1> QED BY <1>1, <1>2, <1>5, <1>6, <1>7 DEF HistoryInv, InTurn, SlotsFit, Stored, Covered, Forgotten

LEMMA StartHistory ==
  ASSUME OneAtATime, TypeInv, HistoryInv, HistoryNext, Start
  PROVE  HistoryInv'
<1>1. mode = "down" /\ mode' \in {"ready", "booting"} /\ now' = now /\ UNCHANGED db
      /\ leading' = db.leading /\ pending' = db.pending
  BY DEF Start
<1>2. \A s \in Slots : req[s].pc = "idle" /\ Fits(req[s], leading', pending')
  BY <1>1, IdleFits DEF TypeInv, DownIdle, HistoryInv, SlotsFit
<1>3. Boot \in Slots /\ Requests \subseteq Slots /\ Boot \notin Requests
  BY SlotsAssumption DEF Slots
<1> DEFINE q == [Idle EXCEPT !.pc = "rpc", !.method = "init", !.count = mined, !.asked = now]
<1>4. \/ mode' = "ready" /\ req' = req
      \/ /\ mode' = "booting" /\ req' = [s \in Slots |-> IF s = Boot THEN q ELSE req[s]]
         /\ db.leading # None /\ db.leading.expiry <= now
  BY <1>3 DEF Start, Suspend, TypeInv, TypeOK
<1>5. q.pc = "rpc" /\ q.leadSave = None /\ q.pendSave = None
  BY DEF Idle
<1> HIDE DEF q
<1>6. Fits(q, leading', pending')
  BY <1>5 DEF Fits, LeadPcs, PendPcs
<1>7. \A r \in Requests : req'[r] = req[r] /\ asOf'[r] = None
  BY <1>2, <1>3, <1>4 DEF HistoryNext
<1>8. \A a \in acked' : a \in acked /\ a.expiry > now
  BY <1>1, <1>2, <1>3, ReturnsAnswers DEF HistoryNext
<1>9. Covers(db.leading, acked, now) /\ Covers(db.leading, acked', now)
  BY <1>8, CoversLess DEF HistoryInv, Covered
<1>10. req' # req => acked' = {}
  <2> SUFFICES ASSUME NEW a \in acked', db.leading # None, db.leading.expiry <= now PROVE FALSE
    BY <1>4
  <2>1. a.expiry <= db.leading.expiry /\ a \in NonceInfo /\ a.expiry > now
    BY <1>8, <1>9 DEF Covers
  <2> QED BY <2>1 DEF TypeInv, TypeOK, NonceInfo
<1>11. InTurn'
  BY <1>2, <1>3, <1>4 DEF InTurn
<1>12. SlotsFit'
  BY <1>2, <1>4, <1>6 DEF SlotsFit
<1>13. Stored'
  BY <1>1, LeadKept, PendKept DEF Stored
<1>14. \A s \in Slots : (req'[s].pc \in {"rpc", "node"} => acked' = {}) /\ req'[s].pc # "commit"
  BY <1>2, <1>4, <1>5, <1>10
<1>15. Covered'
  BY <1>1, <1>9, <1>14 DEF Covered
<1>16. Forgotten' /\ asOf' = [r \in Requests |-> asOf'[r]]
  BY <1>7 DEF Forgotten, HistoryNext
<1> QED BY <1>11, <1>12, <1>13, <1>15, <1>16 DEF HistoryInv

\* the clock and the chain only move on
LEMMA EnvironmentHistory ==
  ASSUME OneAtATime, TypeInv, HistoryInv, HistoryNext, UNCHANGED <<manager, req, db>>,
         now' \in Nat, now <= now', mined' \in Nat, mined <= mined'
  PROVE  HistoryInv'
<1>1. UNCHANGED <<leading, pending, mode>> /\ now \in Nat /\ mined \in Nat
      /\ leading \in NonceInfo \cup {None} /\ (pending # None => IsPending(pending))
  BY DEF manager, TypeInv, TypeOK
<1>2. acked' \subseteq acked
  BY ReturnsAnswers DEF HistoryNext, Slots
<1>3. \A i \in NonceInfo \cup {None} : Covers(i, acked, now) => Covers(i, acked', now')
  <2> SUFFICES ASSUME NEW i, Covers(i, acked, now) PROVE Covers(i, acked', now')
    OBVIOUS
  <2> SUFFICES ASSUME NEW a \in acked' PROVE a.expiry <= now' + LocalNonceTTL
    BY <1>2 DEF Covers
  <2>1. a.expiry <= now + LocalNonceTTL /\ a.expiry \in Nat
    BY <1>2 DEF Covers, NonceInfo
  <2> QED BY <1>1, <2>1, TTLAssumption
<1>4. db.leading \in NonceInfo \cup {None}
  BY DEF TypeInv, TypeOK
<1>5. \A s \in Slots : req[s].pc = "commit" => leading.expiry <= now' + LocalNonceTTL
  <2> SUFFICES ASSUME NEW s \in Slots, req[s].pc = "commit" PROVE leading.expiry <= now' + LocalNonceTTL
    OBVIOUS
  <2>1. leading.expiry <= now + LocalNonceTTL
    <3>1. \A t \in Slots : req[t].pc = "commit" => leading.expiry <= now + LocalNonceTTL
      BY DEF HistoryInv, Covered
    <3> QED BY <3>1
  <2>2. leading # None
    BY DEF HistoryInv, SlotsFit, Fits, LeadPcs
  <2>3. leading.expiry \in Nat
    BY <1>1, <2>2 DEF NonceInfo
  <2> QED BY <1>1, <2>1, <2>3, TTLAssumption
<1>6. \A s \in Slots : req[s].pc \in {"rpc", "node"} => acked' = {}
  <2>1. \A s \in Slots : req[s].pc \in {"rpc", "node"} => acked = {}
    BY DEF HistoryInv, Covered
  <2> QED BY <1>2, <2>1
<1>7. Covered'
  BY <1>1, <1>3, <1>4, <1>5, <1>6 DEF Covered, HistoryInv
<1>8. \A r \in Requests : asOf'[r] = asOf[r]
  BY DEF HistoryNext, HistoryInv, Forgotten
<1>9. ASSUME NEW r \in Requests, asOf[r] # None
      PROVE  Forgets(req[r], asOf[r], leading, pending, now', mined')
  <2>1. Forgets(req[r], asOf[r], leading, pending, now, mined) /\ asOf[r] \in Nat
    BY <1>9 DEF HistoryInv, Forgotten, Forgets
  <2>2. AllExpired(pending, now) => AllExpired(pending, now')
    BY <1>1 DEF AllExpired, IsPending
  <2>3. \A n : n \in asOf[r] .. mined => n \in asOf[r] .. mined'
    BY <1>1, <2>1
  <2> QED BY <2>1, <2>2, <2>3 DEF Forgets
<1>10. Forgotten'
  BY <1>1, <1>8, <1>9 DEF Forgotten, HistoryInv
<1>11. asOf' = [r \in Requests |-> asOf'[r]]
  BY DEF HistoryNext
<1>12. (LeadStored => LeadStored') /\ (PendStored => PendStored')
  BY <1>1, LeadKept, PendKept
<1> QED BY <1>1, <1>7, <1>10, <1>11, <1>12 DEF HistoryInv, InTurn, SlotsFit, Stored

LEMMA InitHistory == HistoryInit => HistoryInv
<1> SUFFICES ASSUME HistoryInit PROVE HistoryInv
  OBVIOUS
<1>1. /\ mode = "down" /\ acked = {} /\ asOf = [r \in Requests |-> None]
      /\ \A s \in Slots : req[s] = Idle
  BY DEF HistoryInit, Init
<1>2. Idle.pc = "idle" /\ Idle.leadSave = None /\ Idle.pendSave = None
  BY DEF Idle
<1>3. \A s \in Slots : req[s].pc = "idle" /\ Fits(req[s], leading, pending)
  BY <1>1, <1>2 DEF Fits, LeadPcs, PendPcs
<1>4. Boot \in Slots /\ Requests \subseteq Slots
  BY DEF Slots
<1>5. Covered
  BY <1>1, <1>3 DEF Covered, Covers
<1> QED BY <1>1, <1>3, <1>4, <1>5 DEF HistoryInv, InTurn, SlotsFit, Stored, Forgotten

LEMMA NextHistory ==
  ASSUME OneAtATime, OneAtATime', TypeInv, HistoryInv, [HistoryNext]_historyVars
  PROVE  HistoryInv'
<1>1. CASE HistoryNext
  <2>1. Next
    BY <1>1 DEF HistoryNext
  <2>2. ASSUME NEW r \in Requests, GetNextNonce(r) \/ ProvideGivenNonce(r) \/ GetNonce(r) \/ NodeAccepts(r)
        PROVE  HistoryInv'
    BY <1>1, <2>2, ArrivalHistory, SendHistory DEF Slots
  <2>3. ASSUME NEW s \in Slots, Answers(s) PROVE HistoryInv'
    BY <1>1, <2>3, RpcHistory, SavesHistory, ReturnsHistory, SendHistory DEF Answers
  <2>4. CASE Tick \/ Mine \/ DropTx
    <3>1. /\ UNCHANGED <<manager, req, db>>
          /\ now' \in Nat /\ now <= now' /\ mined' \in Nat /\ mined <= mined'
      BY <2>4 DEF Tick, Mine, DropTx, node, TypeInv, TypeOK
    <3> QED BY <1>1, <3>1, EnvironmentHistory
  <2> QED BY <1>1, <2>1, <2>2, <2>3, <2>4, CrashHistory, StartHistory DEF Next
<1>2. CASE UNCHANGED historyVars
  BY <1>2 DEF historyVars, vars, manager, node, HistoryInv, InTurn, SlotsFit, Stored,
                  LeadStored, PendStored, Covered, Forgotten
<1> QED BY <1>1, <1>2

LEMMA HistoryInvariant == HistorySpec /\ []OneAtATime => [](TypeInv /\ HistoryInv)
<1>1. HistoryInit => TypeInv /\ HistoryInv
  BY InitType, InitHistory DEF HistoryInit
<1>2. TypeInv /\ HistoryInv /\ OneAtATime /\ OneAtATime' /\ [HistoryNext]_historyVars
        => (TypeInv /\ HistoryInv)'
  <2> SUFFICES ASSUME TypeInv, HistoryInv, OneAtATime, OneAtATime', [HistoryNext]_historyVars
               PROVE  TypeInv' /\ HistoryInv'
    OBVIOUS
  <2>1. [Next]_vars
    BY DEF HistoryNext, historyVars
  <2> QED BY <2>1, NextType, NextHistory
<1> QED BY <1>1, <1>2, PTL DEF HistorySpec

(* provideNonce: as long as requests do not overlap, the nonce of a        *)
(* transaction that was reported as sent is not given out again before its *)
(* localNonceTTL has passed, for any TTLs and whatever restarts come       *)
(* between.                                                                *)
THEOREM NotReusedEarly == HistorySpec /\ []OneAtATime => []NoEarlyReuse
<1>1. TypeInv /\ HistoryInv => NoEarlyReuse
  <2> SUFFICES ASSUME TypeInv, HistoryInv, NEW r \in Requests, req[r].pc = "reserve", NEW a \in acked
               PROVE  a.nonce # req[r].nonce
    BY DEF NoEarlyReuse
  <2>1. r \in Slots /\ mode # "down"
    BY DEF Slots, TypeInv, DownIdle
  <2>2. req[r].nonce > leading.nonce /\ leading # None
    BY <2>1 DEF HistoryInv, SlotsFit, Fits
  <2>3. a \in NonceInfo /\ a.nonce <= leading.nonce
    BY <2>1 DEF HistoryInv, Covered, Covers
  <2>4. leading \in NonceInfo /\ req[r].nonce \in Nat
    BY <2>1, <2>2 DEF TypeInv, TypeOK, IsRequest
  <2> QED BY <2>2, <2>3, <2>4 DEF NonceInfo
<1> QED BY <1>1, HistoryInvariant, PTL

(* getNextNonce: a request that finds every nonce expired and no other in  *)
(* flight is given the count of the node, as the node had it at some       *)
(* moment since the request came.                                          *)
THEOREM ExpiredForgotten == HistorySpec /\ []OneAtATime => []ExpiredCacheForgotten
<1>1. HistoryInv => ExpiredCacheForgotten
  BY DEF HistoryInv, Forgotten, Forgets, ExpiredCacheForgotten
<1> QED BY <1>1, HistoryInvariant, PTL

(* Between requests that do not overlap, LevelDB differs from what the     *)
(* manager holds only in an entry whose write it rejected and that was not *)
(* written since: a restart loses nothing else.                            *)
THEOREM DurableBetween == HistorySpec /\ []OneAtATime => []DurableAtRest
<1>1. HistoryInv => DurableAtRest
  BY DEF HistoryInv, Stored, LeadStored, PendStored, Entries, DurableAtRest, LeadPcs, PendPcs
<1> QED BY <1>1, HistoryInvariant, PTL
=============================================================================
