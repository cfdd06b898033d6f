------------------------ MODULE PendingNonces_proofs ------------------------
(***************************************************************************)
(* The array of pending nonces: it is sorted, and each operation on it is  *)
(* the one that EVMNonceManager does on a function, for any clock, TTL and *)
(* number of nonces.                                                       *)
(***************************************************************************)
EXTENDS PendingNonces, WellFoundedInduction, TLAPS

-----------------------------------------------------------------------------
(* The loop of Keep                                                        *)

Increasing(a) == \A i, j \in 1 .. Len(a) : i < j => a[i].nonce < a[j].nonce

IsArray(a) == a \in Seq(Entries) /\ Increasing(a)

LEMMA EntriesOf ==
  ASSUME NEW a, IsArray(a)
  PROVE  /\ Len(a) \in Nat /\ DOMAIN a = 1 .. Len(a)
         /\ \A i \in 1 .. Len(a) : a[i] \in Entries /\ a[i].nonce \in Nat /\ a[i].expiry \in Nat
<1>1. Len(a) \in Nat /\ DOMAIN a = 1 .. Len(a) /\ \A i \in 1 .. Len(a) : a[i] \in Entries
  BY DEF IsArray
<1>2. \A e \in Entries : e.nonce \in Nat /\ e.expiry \in Nat
  BY DEF Entries
<1> QED BY <1>1, <1>2

(* Every nonempty set of naturals has a smallest element.                  *)
LEMMA SmallestExists ==
  ASSUME NEW S \in SUBSET Nat, S # {}
  PROVE  \E x \in S : \A y \in S : x <= y
<1> DEFINE Less == OpToRel(<, Nat)
<1>1. \A x, y \in Nat : y < x => <<y, x>> \in Less
  BY Zenon DEF OpToRel
<1>2. IsWellFoundedOn(Less, Nat)
  BY NatLessThanWellFounded
<1> HIDE DEF Less
<1>3. PICK x \in S : \A y \in S : ~ (<<y, x>> \in Less)
  BY <1>2, WFMin, Zenon
<1>4. \A y \in S : ~(y < x)
  BY <1>1, <1>3
<1> QED BY <1>4

\* k[i] is what the loop has pushed after i entries of a
IsLoop(k, a, S, n) ==
  /\ k[0] = <<>>
  /\ \A i \in 1 .. n : k[i] = IF a[i] \in S THEN Append(k[i - 1], a[i]) ELSE k[i - 1]

(* The loop can be run to its end.                                         *)
LEMMA LoopEnds ==
  ASSUME NEW a, NEW S, NEW N \in Nat
  PROVE  \E k : k = [i \in 0 .. N |-> k[i]] /\ IsLoop(k, a, S, N)
<1> DEFINE Runs(n) == \E k : k = [i \in 0 .. n |-> k[i]] /\ IsLoop(k, a, S, n)
           Bad == {n \in Nat : ~Runs(n)}
<1>1. Bad = {}
  <2> SUFFICES ASSUME Bad # {} PROVE FALSE
    OBVIOUS
  <2>1. PICK n \in Bad : \A m \in Bad : n <= m
    BY SmallestExists
  <2>2. CASE n = 0
    <3> DEFINE k == [i \in 0 .. 0 |-> <<>>]
    <3>1. k = [i \in 0 .. 0 |-> k[i]] /\ IsLoop(k, a, S, 0)
      BY DEF IsLoop
    <3> QED BY <2>1, <2>2, <3>1
  <2>3. CASE n # 0
    <3>1. n - 1 \in Nat /\ Runs(n - 1)
      BY <2>1, <2>3
    <3>2. PICK k : k = [i \in 0 .. n - 1 |-> k[i]] /\ IsLoop(k, a, S, n - 1)
      BY <3>1
    <3> DEFINE l == [i \in 0 .. n |-> IF i < n THEN k[i]
                                      ELSE IF a[n] \in S THEN Append(k[n - 1], a[n]) ELSE k[n - 1]]
    <3>3. l = [i \in 0 .. n |-> l[i]] /\ l[0] = <<>>
      BY <2>1, <2>3, <3>2 DEF IsLoop
    <3>4. ASSUME NEW i \in 1 .. n
          PROVE  l[i] = IF a[i] \in S THEN Append(l[i - 1], a[i]) ELSE l[i - 1]
      <4>1. l[i - 1] = k[i - 1] /\ i - 1 \in 0 .. n
        BY <2>1
      <4>2. CASE i = n
        BY <2>1, <4>1, <4>2
      <4>3. CASE i < n
        <5>1. i \in 1 .. n - 1 /\ l[i] = k[i]
          BY <2>1, <4>3
        <5> HIDE DEF l
        <5> QED BY <3>2, <4>1, <5>1 DEF IsLoop
      <4> QED BY <2>1, <4>2, <4>3
    <3> HIDE DEF l
    <3>5. IsLoop(l, a, S, n)
      BY <3>3, <3>4 DEF IsLoop
    <3>6. Runs(n)
      BY <3>3, <3>5
    <3> QED BY <2>1, <3>6
  <2> QED BY <2>2, <2>3
<1> QED BY <1>1

\* b has the entries of S among the first n of a, in their order
Keeps(b, a, S, n) ==
  /\ IsArray(b)
  /\ \A i \in 1 .. Len(b) : b[i] \in S /\ \E j \in 1 .. n : b[i] = a[j]
  /\ \A j \in 1 .. n : a[j] \in S => \E i \in 1 .. Len(b) : b[i] = a[j]

(* An array with a larger nonce at its end is sorted as before.            *)
LEMMA AppendOK ==
  ASSUME NEW b, IsArray(b), NEW e \in Entries, \A i \in 1 .. Len(b) : b[i].nonce < e.nonce
  PROVE  /\ IsArray(Append(b, e)) /\ Len(Append(b, e)) = Len(b) + 1
         /\ \A i \in 1 .. Len(b) : Append(b, e)[i] = b[i]
         /\ Append(b, e)[Len(b) + 1] = e
<1> DEFINE c == Append(b, e)
<1>1. /\ c \in Seq(Entries) /\ Len(c) = Len(b) + 1 /\ Len(b) \in Nat
      /\ \A i \in 1 .. Len(b) : c[i] = b[i]
      /\ c[Len(b) + 1] = e
  BY DEF IsArray
<1> HIDE DEF c
<1>2. ASSUME NEW i \in 1 .. Len(c), NEW j \in 1 .. Len(c), i < j
      PROVE  c[i].nonce < c[j].nonce
  <2>1. i \in 1 .. Len(b)
    BY <1>1, <1>2
  <2>2. CASE j = Len(b) + 1
    BY <1>1, <2>1, <2>2
  <2>3. CASE j \in 1 .. Len(b)
    BY <1>1, <1>2, <2>1, <2>3 DEF IsArray, Increasing
  <2> QED BY <1>1, <2>2, <2>3
<1>3. IsArray(c)
  BY <1>1, <1>2 DEF IsArray, Increasing
<1> QED BY <1>1, <1>3 DEF c

(* What the loop has pushed is right at every turn.                        *)
LEMMA LoopKeeps ==
  ASSUME NEW a, IsArray(a), NEW S, NEW k, IsLoop(k, a, S, Len(a))
  PROVE  Keeps(k[Len(a)], a, S, Len(a))
<1> DEFINE Bad == {n \in 0 .. Len(a) : ~Keeps(k[n], a, S, n)}
<1>0. Len(a) \in Nat /\ \A i \in 1 .. Len(a) : a[i] \in Entries
  BY DEF IsArray
<1>1. Bad = {}
  <2> SUFFICES ASSUME Bad # {} PROVE FALSE
    OBVIOUS
  <2>0. Bad \in SUBSET Nat
    BY <1>0
  <2>1. PICK n \in Bad : \A m \in Bad : n <= m
    <3> HIDE DEF Bad
    <3> QED BY <2>0, SmallestExists
  <2>2. n # 0
    <3> SUFFICES ASSUME n = 0 PROVE FALSE
      OBVIOUS
    <3>1. Keeps(<<>>, a, S, 0)
      BY DEF Keeps, IsArray, Increasing
    <3> QED BY <2>1, <3>1 DEF IsLoop
  <2>3. n \in 1 .. Len(a) /\ n - 1 \in 0 .. Len(a)
    BY <1>0, <2>1, <2>2
  <2> DEFINE b == k[n - 1]
  <2>4. Keeps(b, a, S, n - 1)
    BY <2>1, <2>3
  <2>5. k[n] = IF a[n] \in S THEN Append(b, a[n]) ELSE b
    BY <2>3 DEF IsLoop
  <2> HIDE DEF b
  <2>6. CASE a[n] \notin S
    <3>1. Keeps(b, a, S, n)
      BY <2>3, <2>4, <2>6 DEF Keeps
    <3> QED BY <2>1, <2>5, <2>6, <3>1
  <2>7. CASE a[n] \in S
    <3>1. \A i \in 1 .. Len(b) : b[i].nonce < a[n].nonce
      <4> SUFFICES ASSUME NEW i \in 1 .. Len(b) PROVE b[i].nonce < a[n].nonce
        OBVIOUS
      <4>1. PICK j \in 1 .. n - 1 : b[i] = a[j]
        BY <2>4 DEF Keeps
      <4>2. j \in 1 .. Len(a) /\ j < n
        BY <1>0, <2>3
      <4> QED BY <2>3, <4>1, <4>2 DEF IsArray, Increasing
    <3> DEFINE c == Append(b, a[n])
    <3>2. /\ IsArray(c) /\ Len(c) = Len(b) + 1 /\ Len(b) \in Nat
          /\ \A i \in 1 .. Len(b) : c[i] = b[i]
          /\ c[Len(b) + 1] = a[n]
      <4>1. IsArray(b) /\ Len(b) \in Nat
        BY <2>4 DEF Keeps, IsArray
      <4> QED BY <1>0, <2>3, <3>1, <4>1, AppendOK
    <3> HIDE DEF c
    <3>3. ASSUME NEW i \in 1 .. Len(c) PROVE c[i] \in S /\ \E j \in 1 .. n : c[i] = a[j]
      <4>1. CASE i = Len(b) + 1
        BY <2>3, <2>7, <3>2, <4>1
      <4>2. CASE i \in 1 .. Len(b)
        <5>1. c[i] = b[i] /\ b[i] \in S
          BY <2>4, <3>2, <4>2 DEF Keeps
        <5>2. PICK j \in 1 .. n - 1 : b[i] = a[j]
          BY <2>4, <4>2 DEF Keeps
        <5>3. j \in 1 .. n
          BY <2>3
        <5> QED BY <5>1, <5>2, <5>3
      <4> QED BY <3>2, <4>1, <4>2
    <3>4. ASSUME NEW j \in 1 .. n, a[j] \in S PROVE \E i \in 1 .. Len(c) : c[i] = a[j]
      <4>1. CASE j = n
        <5>1. Len(b) + 1 \in 1 .. Len(c)
          BY <3>2
        <5> QED BY <3>2, <4>1, <5>1
      <4>2. CASE j # n
        <5>1. j \in 1 .. n - 1
          BY <2>3, <4>2
        <5>2. PICK i \in 1 .. Len(b) : b[i] = a[j]
          BY <2>4, <3>4, <5>1 DEF Keeps
        <5>3. i \in 1 .. Len(c) /\ c[i] = b[i]
          BY <3>2
        <5> QED BY <5>2, <5>3
      <4> QED BY <4>1, <4>2
    <3>5. Keeps(c, a, S, n)
      BY <3>2, <3>3, <3>4 DEF Keeps
    <3> QED BY <2>1, <2>5, <2>7, <3>5 DEF c
  <2> QED BY <2>6, <2>7
<1> QED BY <1>0, <1>1

(* What a loop over the array leaves is sorted, and is what it should keep.*)
LEMMA KeepOK ==
  ASSUME NEW a, IsArray(a), NEW S
  PROVE  Keeps(Keep(a, S), a, S, Len(a))
<1>0. Len(a) \in Nat
  BY DEF IsArray
<1> DEFINE Turns(k) == [i \in 0 .. Len(a) |->
                          IF i = 0 THEN <<>>
                          ELSE IF a[i] \in S THEN Append(k[i - 1], a[i]) ELSE k[i - 1]]
           kept == CHOOSE k : k = Turns(k)
<1>1. \E k : k = Turns(k)
  <2>1. PICK k : k = [i \in 0 .. Len(a) |-> k[i]] /\ IsLoop(k, a, S, Len(a))
    BY <1>0, LoopEnds
  <2>2. \A i \in 0 .. Len(a) : k[i] = Turns(k)[i]
    BY <1>0, <2>1 DEF IsLoop
  <2>3. k = Turns(k)
    BY <2>1, <2>2
  <2> QED BY <2>3
<1>2. kept = Turns(kept)
  BY <1>1
<1>3. Keep(a, S) = kept[Len(a)]
  BY DEF Keep
<1> HIDE DEF kept
<1>4. IsLoop(kept, a, S, Len(a))
  <2>1. \A i \in 0 .. Len(a) : kept[i] = Turns(kept)[i]
    BY <1>2
  <2> QED BY <1>0, <2>1 DEF IsLoop
<1> QED BY <1>3, <1>4, LoopKeeps

-----------------------------------------------------------------------------
(* The array is sorted, and so is what LevelDB holds                       *)

ArrayInv ==
  /\ now \in Nat /\ leading \in (-1 .. MaxNonce) \cup {Undefined}
  /\ nonces = Undefined \/ IsArray(nonces)
  /\ \/ saved = Undefined /\ text = Undefined
     \/ IsArray(saved) /\ text = SavePendingNonces(saved)

LEMMA NoArray == ~IsArray(Undefined) /\ \A a : IsArray(a) => SavePendingNonces(a) # Undefined
<1>1. ~IsArray(Undefined)
  BY UndefinedAssumption DEF IsArray
<1>2. ASSUME NEW a, IsArray(a) PROVE SavePendingNonces(a) # Undefined
  <2>1. a \in Seq(Entries \cup {EmptyField}) /\ <<EmptyField>> \in Seq(Entries \cup {EmptyField})
    BY <1>2 DEF IsArray
  <2> QED BY <2>1, UndefinedAssumption DEF SavePendingNonces
<1> QED BY <1>1, <1>2

(* The field before the first comma is the one that is taken off again.    *)
LEMMA TextReadBack == ASSUME NEW a, IsArray(a) PROVE GetPendingNonces(SavePendingNonces(a)) = a
BY DEF IsArray, GetPendingNonces, SavePendingNonces

LEMMA StoreKeeps ==
  ASSUME ArrayInv, NEW a, IsArray(a), Store(a), UNCHANGED <<now, leading>>
  PROVE  ArrayInv'
BY DEF ArrayInv, Store

\* the first overdue entry, or 0
LEMMA FirstOverdueIs ==
  ASSUME IsArray(nonces), now \in Nat
  PROVE  \/ /\ FirstOverdue = 0
            /\ \A i \in 1 .. Len(nonces) : now <= nonces[i].expiry
         \/ /\ FirstOverdue \in 1 .. Len(nonces) /\ now > nonces[FirstOverdue].expiry
            /\ \A i \in 1 .. Len(nonces) : now > nonces[i].expiry => FirstOverdue <= i
<1> DEFINE I == {i \in 1 .. Len(nonces) : now > nonces[i].expiry}
<1>1. FirstOverdue = IF I # {} THEN Min(I) ELSE 0
  BY DEF FirstOverdue, SelectInSeq
<1>2. I \in SUBSET Nat /\ \A i \in 1 .. Len(nonces) : nonces[i].expiry \in Nat
  BY EntriesOf
<1>3. CASE I = {}
  BY <1>1, <1>2, <1>3
<1>4. CASE I # {}
  <2>1. \E x \in I : \A y \in I : x <= y
    <3> HIDE DEF I
    <3> QED BY <1>2, <1>4, SmallestExists
  <2>2. Min(I) \in I /\ \A y \in I : Min(I) <= y
    BY <2>1 DEF Min
  <2> QED BY <1>1, <1>4, <2>2
<1> QED BY <1>3, <1>4

\* a new expiry changes no nonce
LEMMA RenewOK ==
  ASSUME NEW a, IsArray(a), NEW i \in 1 .. Len(a), NEW e \in Nat
  PROVE  LET b == [a EXCEPT ![i].expiry = e]
         IN  /\ IsArray(b) /\ Len(b) = Len(a)
             /\ \A j \in 1 .. Len(a) : /\ b[j].nonce = a[j].nonce
                                      /\ b[j].expiry = IF j = i THEN e ELSE a[j].expiry
<1> DEFINE x == [a[i] EXCEPT !.expiry = e]
           b == [a EXCEPT ![i] = x]
<1>1. a[i] \in Entries /\ \A j \in 1 .. Len(a) : a[j] \in Entries
  BY DEF IsArray
<1>2. x \in Entries /\ x.nonce = a[i].nonce /\ x.expiry = e
  BY <1>1 DEF Entries
<1> HIDE DEF x
<1>3. b \in Seq(Entries) /\ Len(b) = Len(a) /\ \A j \in 1 .. Len(a) : b[j] = IF j = i THEN x ELSE a[j]
  BY <1>1, <1>2 DEF IsArray
<1> HIDE DEF b
<1>4. \A j \in 1 .. Len(a) : /\ b[j].nonce = a[j].nonce
                            /\ b[j].expiry = IF j = i THEN e ELSE a[j].expiry
  BY <1>2, <1>3
<1>5. IsArray(b)
  BY <1>3, <1>4 DEF IsArray, Increasing
<1> QED BY <1>3, <1>4, <1>5 DEF b, x

\* what getNextNonce makes of the array, in its two cases
LEMMA NextNonceIs ==
  ASSUME ArrayInv, GetNextNonce
  PROVE  /\ IsArray(nonces) /\ Len(nonces) \in Nat \ {0} /\ UNCHANGED <<now, leading>>
         /\ IsArray(nonces') /\ Store(nonces')
         /\ \/ FirstOverdue \in 1 .. Len(nonces) /\ nonces' = [nonces EXCEPT ![FirstOverdue].expiry = now + PendingNonceTTL]
            \/ LET next == nonces[Len(nonces)].nonce + 1
               IN  FirstOverdue = 0 /\ nonces' = Append(nonces, NonceInfo(next, now + PendingNonceTTL))
<1>1. IsArray(nonces) /\ nonces # <<>> /\ now \in Nat /\ UNCHANGED <<now, leading>>
  BY DEF ArrayInv, GetNextNonce
<1>2. Len(nonces) \in Nat \ {0} /\ now + PendingNonceTTL \in Nat
  BY <1>1, BoundAssumption DEF IsArray
<1>3. CASE FirstOverdue # 0
  <2> DEFINE b == [nonces EXCEPT ![FirstOverdue].expiry = now + PendingNonceTTL]
  <2>1. FirstOverdue \in 1 .. Len(nonces)
    BY <1>1, <1>3, FirstOverdueIs
  <2>2. Store(b)
    BY <1>3 DEF GetNextNonce
  <2>3. IsArray(b)
    BY <1>1, <1>2, <2>1, RenewOK
  <2>4. nonces' = b
    BY <2>2 DEF Store
  <2> HIDE DEF b
  <2>5. IsArray(nonces') /\ Store(nonces')
    BY <2>2, <2>3, <2>4
  <2> QED BY <1>1, <1>2, <2>1, <2>4, <2>5 DEF b
<1>4. CASE FirstOverdue = 0
  <2> DEFINE next == nonces[Len(nonces)].nonce + 1
             e == NonceInfo(next, now + PendingNonceTTL)
             b == Append(nonces, e)
  <2>1. Store(b)
    BY <1>4 DEF GetNextNonce, Last
  <2>2. e \in Entries /\ \A i \in 1 .. Len(nonces) : nonces[i].nonce < e.nonce
    <3>1. \A i \in 1 .. Len(nonces) : nonces[i].nonce \in Nat
      BY <1>1, EntriesOf
    <3>2. Len(nonces) \in 1 .. Len(nonces)
      BY <1>2
    <3>3. next \in Nat /\ e.nonce = next
      BY <3>1, <3>2 DEF NonceInfo
    <3>4. ASSUME NEW i \in 1 .. Len(nonces) PROVE nonces[i].nonce <= nonces[Len(nonces)].nonce
      <4>1. CASE i = Len(nonces)
        BY <3>1, <4>1
      <4>2. CASE i < Len(nonces)
        BY <1>1, <3>1, <3>2, <4>2 DEF IsArray, Increasing
      <4> QED BY <1>2, <4>1, <4>2
    <3>5. e \in Entries
      BY <1>2, <3>3 DEF NonceInfo, Entries
    <3> QED BY <3>1, <3>2, <3>3, <3>4, <3>5
  <2>3. IsArray(b)
    <3> HIDE DEF e
    <3> QED BY <1>1, <2>2, AppendOK
  <2>4. nonces' = b
    BY <2>1 DEF Store
  <2> HIDE DEF b
  <2>5. IsArray(nonces') /\ Store(nonces')
    BY <2>1, <2>3, <2>4
  <2> QED BY <1>1, <1>2, <1>4, <2>4, <2>5 DEF b
<1> QED BY <1>3, <1>4

LEMMA ArrayKept ==
  ASSUME ArrayInv, [ArrayNext]_arrayVars
  PROVE  ArrayInv'
<1>1. CASE DropExpiredPendingNonces
  <2>1. PICK S : Store(Keep(nonces, S)) /\ IsArray(nonces) /\ UNCHANGED <<now, leading>>
    BY <1>1 DEF DropExpiredPendingNonces, ArrayInv
  <2> QED BY <2>1, KeepOK, StoreKeeps DEF Keeps
<1>2. CASE GetNextNonce
  BY <1>2, NextNonceIs, StoreKeeps
<1>3. CASE StartPending
  <2>1. PICK base \in 0 .. now : Store(<<NonceInfo(leading + 1, base + PendingNonceTTL)>>)
    BY <1>3 DEF StartPending
  <2> DEFINE e == NonceInfo(leading + 1, base + PendingNonceTTL)
  <2>2. e \in Entries
    BY <1>3, BoundAssumption DEF StartPending, ArrayInv, NonceInfo, Entries
  <2> HIDE DEF e
  <2>3. IsArray(<<e>>)
    BY <2>2 DEF IsArray, Increasing
  <2>4. Store(<<e>>) /\ UNCHANGED <<now, leading>>
    BY <1>3, <2>1 DEF StartPending, e
  <2> QED BY <2>3, <2>4, StoreKeeps
<1>4. CASE ForgetFrom
  <2>1. PICK S : Store(Keep(nonces, S)) /\ IsArray(nonces) /\ UNCHANGED <<now, leading>>
    BY <1>4 DEF ForgetFrom, ArrayInv
  <2> QED BY <2>1, KeepOK, StoreKeeps DEF Keeps
<1>5. CASE Load
  BY <1>5, NoArray, TextReadBack DEF Load, ArrayInv
<1>6. CASE SetLeading
  BY <1>6 DEF SetLeading, ArrayInv
<1>7. CASE Tick
  BY <1>7 DEF Tick, ArrayInv
<1>8. CASE UNCHANGED arrayVars
  BY <1>8 DEF arrayVars, ArrayInv
<1> QED BY <1>1, <1>2, <1>3, <1>4, <1>5, <1>6, <1>7, <1>8 DEF ArrayNext

LEMMA ArrayInvariant == ArraySpec => []ArrayInv
<1>1. ArrayInit => ArrayInv
  BY DEF ArrayInit, ArrayInv
<1> QED BY <1>1, ArrayKept, PTL DEF ArraySpec

(* The nonces of the array never repeat or go down, whatever the requests  *)
(* do to it and whichever writes a restart loses: so its last entry plus   *)
(* one is a nonce that is not in it.                                       *)
THEOREM ArrayIncreases == ArraySpec => []NoncesIncrease
<1>1. ArrayInv => NoncesIncrease
  <2> SUFFICES ASSUME ArrayInv, nonces # Undefined PROVE NoncesIncrease
    BY DEF NoncesIncrease
  <2>1. nonces \in Seq(Entries) /\ Increasing(nonces)
    BY DEF ArrayInv, IsArray
  <2> QED BY <2>1 DEF NoncesIncrease, Increasing
<1> QED BY <1>1, ArrayInvariant, PTL

-----------------------------------------------------------------------------
(* The operations on the array are those on the function                   *)

LEMMA AsFunctionIs ==
  ASSUME NEW a, IsArray(a)
  PROVE  /\ AsFunction(a) = [n \in DOMAIN AsFunction(a) |-> AsFunction(a)[n]]
         /\ DOMAIN AsFunction(a) = {a[i].nonce : i \in 1 .. Len(a)}
         /\ \A i \in 1 .. Len(a) : AsFunction(a)[a[i].nonce] = a[i].expiry
<1>1. a # Undefined /\ DOMAIN a = 1 .. Len(a)
  BY NoArray, EntriesOf
<1> DEFINE at(n) == CHOOSE i \in 1 .. Len(a) : a[i].nonce = n
           f == [n \in {a[i].nonce : i \in 1 .. Len(a)} |-> a[at(n)].expiry]
<1>2. AsFunction(a) = f
  BY <1>1 DEF AsFunction
<1>3. ASSUME NEW i \in 1 .. Len(a) PROVE at(a[i].nonce) = i
  <2>1. \A j \in 1 .. Len(a) : a[j].nonce = a[i].nonce => j = i
    <3> SUFFICES ASSUME NEW j \in 1 .. Len(a), a[j].nonce = a[i].nonce, j # i PROVE FALSE
      OBVIOUS
    <3>1. a[j].nonce < a[i].nonce \/ a[i].nonce < a[j].nonce
      BY EntriesOf DEF IsArray, Increasing
    <3> QED BY <3>1, EntriesOf
  <2> QED BY <2>1
<1> HIDE DEF at
<1> QED BY <1>2, <1>3

\* S picks the entries of a whose nonces are in D
Picks(S, a, D) == \A i \in 1 .. Len(a) : a[i] \in S <=> a[i].nonce \in D

(* The array that b keeps of a is, as a function, a restricted to S.       *)
LEMMA KeptAsFunction ==
  ASSUME NEW a, IsArray(a), NEW S, NEW b, Keeps(b, a, S, Len(a)), NEW D, Picks(S, a, D)
  PROVE  /\ DOMAIN AsFunction(b) = DOMAIN AsFunction(a) \cap D
         /\ \A n \in DOMAIN AsFunction(b) : AsFunction(b)[n] = AsFunction(a)[n]
         /\ AsFunction(b) = [n \in DOMAIN AsFunction(b) |-> AsFunction(b)[n]]
<1> DEFINE f == AsFunction(a)
           g == AsFunction(b)
<1>1. /\ DOMAIN f = {a[i].nonce : i \in 1 .. Len(a)}
      /\ \A i \in 1 .. Len(a) : f[a[i].nonce] = a[i].expiry
  BY AsFunctionIs
<1>2. /\ DOMAIN g = {b[i].nonce : i \in 1 .. Len(b)}
      /\ \A i \in 1 .. Len(b) : g[b[i].nonce] = b[i].expiry
      /\ g = [n \in DOMAIN g |-> g[n]]
  BY AsFunctionIs DEF Keeps
<1> HIDE DEF f, g
<1>3. ASSUME NEW n \in DOMAIN g PROVE n \in DOMAIN f /\ n \in D /\ g[n] = f[n]
  <2>1. PICK i \in 1 .. Len(b) : n = b[i].nonce
    BY <1>2
  <2>2. PICK j \in 1 .. Len(a) : b[i] = a[j] /\ a[j] \in S
    BY DEF Keeps
  <2> QED BY <1>1, <1>2, <2>1, <2>2 DEF Picks
<1>4. ASSUME NEW n \in DOMAIN f, n \in D PROVE n \in DOMAIN g
  <2>1. PICK j \in 1 .. Len(a) : n = a[j].nonce
    BY <1>1
  <2>2. PICK i \in 1 .. Len(b) : b[i] = a[j]
    BY <1>4, <2>1 DEF Keeps, Picks
  <2> QED BY <1>2, <2>1, <2>2
<1>5. DOMAIN g = DOMAIN f \cap D
  BY <1>3, <1>4
<1> QED BY <1>2, <1>3, <1>5 DEF f, g

LEMMA DropMatches ==
  ASSUME ArrayInv, DropExpiredPendingNonces
  PROVE  AsFunction(nonces') = Manager!Unexpired(AsFunction(nonces))
<1> DEFINE S == {p \in ToSet(nonces) : p.expiry > now /\ (leading = Undefined \/ p.nonce > leading)}
           f == AsFunction(nonces)
           D == {n \in DOMAIN f : f[n] > now /\ (leading = Undefined \/ n > leading)}
<1>1. IsArray(nonces) /\ nonces' = Keep(nonces, S)
  BY DEF DropExpiredPendingNonces, Store, ArrayInv
<1>2. Keeps(Keep(nonces, S), nonces, S, Len(nonces))
  BY <1>1, KeepOK
<1>3. ASSUME NEW i \in 1 .. Len(nonces) PROVE nonces[i] \in S <=> nonces[i].nonce \in D
  <2>1. nonces[i] \in ToSet(nonces)
    BY <1>1, EntriesOf DEF ToSet
  <2>2. nonces[i].nonce \in DOMAIN f /\ f[nonces[i].nonce] = nonces[i].expiry
    BY <1>1, AsFunctionIs
  <2> HIDE DEF f
  <2> QED BY <2>1, <2>2
<1> HIDE DEF S
<1> DEFINE g == AsFunction(Keep(nonces, S))
<1>4. /\ DOMAIN g = DOMAIN f \cap D
      /\ \A n \in DOMAIN g : g[n] = f[n]
      /\ g = [n \in DOMAIN g |-> g[n]]
  <2> HIDE DEF D
  <2>1. Picks(S, nonces, D)
    BY <1>3 DEF Picks
  <2> QED BY <1>1, <1>2, <2>1, KeptAsFunction
<1> DEFINE lead == IF leading = Undefined THEN Undefined ELSE NonceInfo(leading, 0)
           E == {n \in DOMAIN f : f[n] > now /\ (lead # Undefined => n > lead.nonce)}
<1>5. D = E
  <2>1. leading # Undefined => lead # Undefined /\ lead.nonce = leading
    BY UndefinedAssumption DEF ArrayInv, NonceInfo
  <2>2. leading = Undefined => lead = Undefined
    OBVIOUS
  <2> HIDE DEF lead, f
  <2> QED BY <2>1, <2>2
<1>6. Manager!Unexpired(f) = [n \in E |-> f[n]]
  BY DEF Manager!Unexpired, Manager!RestrictDomain, Manager!Restrict
<1>7. AsFunction(nonces') = g
  BY <1>1
<1>8. E \subseteq DOMAIN f
  OBVIOUS
<1> HIDE DEF f, g, D, E
<1>9. g = [n \in E |-> f[n]]
  BY <1>4, <1>5, <1>8
<1> QED BY <1>6, <1>7, <1>9 DEF f

\* what getNextNonce makes of the function: one entry is new or renewed
Entered(f, n) ==
  [m \in DOMAIN f \cup {n} |-> IF m = n THEN now + PendingNonceTTL ELSE f[m]]

LEMMA GetNextNonceMatches ==
  ASSUME ArrayInv, GetNextNonce
  PROVE  LET n == IF Manager!Overdue # {} THEN Manager!Min(Manager!Overdue) ELSE Manager!Extended
         IN  AsFunction(nonces') = Entered(AsFunction(nonces), n)
<1> DEFINE f == AsFunction(nonces)
           g == AsFunction(nonces')
           N == Len(nonces)
           i == FirstOverdue
           e == now + PendingNonceTTL
           O == {m \in DOMAIN f : now > f[m]}
<1>1. /\ IsArray(nonces) /\ N \in Nat \ {0} /\ IsArray(nonces') /\ now \in Nat /\ e \in Nat
      /\ \A j \in 1 .. N : nonces[j].nonce \in Nat /\ nonces[j].expiry \in Nat
  BY NextNonceIs, EntriesOf, BoundAssumption DEF ArrayInv
<1>2. /\ DOMAIN f = {nonces[j].nonce : j \in 1 .. N}
      /\ \A j \in 1 .. N : f[nonces[j].nonce] = nonces[j].expiry
  BY <1>1, AsFunctionIs
<1>3. /\ DOMAIN g = {nonces'[j].nonce : j \in 1 .. Len(nonces')}
      /\ \A j \in 1 .. Len(nonces') : g[nonces'[j].nonce] = nonces'[j].expiry
      /\ g = [m \in DOMAIN g |-> g[m]]
  BY <1>1, AsFunctionIs
<1>4. \A j, k \in 1 .. N : j < k => nonces[j].nonce < nonces[k].nonce
  BY <1>1 DEF IsArray, Increasing
<1>5. /\ Manager!Overdue = O
      /\ Manager!Min(O) = CHOOSE x \in O : \A y \in O : x <= y
      /\ Manager!Extended = (CHOOSE x \in DOMAIN f : \A y \in DOMAIN f : x >= y) + 1
  BY DEF Manager!Overdue, Manager!Min, Manager!Extended, Manager!Max
<1> HIDE DEF f, g
<1>6. CASE i \in 1 .. N /\ nonces' = [nonces EXCEPT ![i].expiry = e]
  <2> DEFINE n == nonces[i].nonce
  <2>1. now > nonces[i].expiry /\ \A j \in 1 .. N : now > nonces[j].expiry => i <= j
    BY <1>1, <1>6, FirstOverdueIs
  <2>2. n \in O
    BY <1>2, <1>6, <2>1
  <2>3. \A y \in O : n <= y
    <3> SUFFICES ASSUME NEW y \in O PROVE n <= y
      OBVIOUS
    <3>1. PICK j \in 1 .. N : y = nonces[j].nonce
      BY <1>2
    <3>2. i <= j
      BY <1>2, <2>1, <3>1
    <3>3. i = j \/ i < j
      BY <1>1, <1>6, <3>2
    <3> QED BY <1>1, <1>4, <1>6, <3>1, <3>3
  <2>4. Manager!Min(O) = n
    <3>1. \A x \in O : x \in Nat
      BY <1>1, <1>2
    <3> HIDE DEF O, n
    <3>2. \A x \in O : (\A y \in O : x <= y) => x = n
      BY <2>2, <2>3, <3>1
    <3> QED BY <1>5, <2>2, <2>3, <3>2
  <2>5. /\ Len(nonces') = N
        /\ \A j \in 1 .. N : /\ nonces'[j].nonce = nonces[j].nonce
                            /\ nonces'[j].expiry = IF j = i THEN e ELSE nonces[j].expiry
    BY <1>1, <1>6, RenewOK
  <2>6. DOMAIN g = DOMAIN f \cup {n}
    BY <1>2, <1>3, <1>6, <2>5
  <2>7. ASSUME NEW m \in DOMAIN g PROVE g[m] = IF m = n THEN e ELSE f[m]
    <3>1. PICK j \in 1 .. N : m = nonces[j].nonce
      BY <1>3, <2>5
    <3>2. m = n <=> j = i
      BY <1>1, <1>4, <1>6, <3>1
    <3>3. g[m] = nonces'[j].expiry /\ f[m] = nonces[j].expiry
      BY <1>2, <1>3, <2>5, <3>1
    <3> QED BY <2>5, <3>2, <3>3
  <2>8. g = Entered(f, n)
    <3> HIDE DEF n
    <3> QED BY <1>3, <2>6, <2>7 DEF Entered
  <2> QED BY <1>5, <2>2, <2>4, <2>8 DEF f, g
<1>7. CASE i = 0 /\ nonces' = Append(nonces, NonceInfo(nonces[N].nonce + 1, e))
  <2> DEFINE n == nonces[N].nonce + 1
  <2>1. O = {}
    <3>1. \A j \in 1 .. N : now <= nonces[j].expiry
      BY <1>1, <1>7, FirstOverdueIs
    <3> QED BY <1>1, <1>2, <3>1
  <2>2. N \in 1 .. N /\ \A j \in 1 .. N : nonces[j].nonce <= nonces[N].nonce
    BY <1>1, <1>4
  <2>3. Manager!Extended = n
    <3> DEFINE F == DOMAIN f
               l == nonces[N].nonce
    <3>1. l \in F /\ (\A y \in F : l >= y) /\ \A x \in F : x \in Nat
      BY <1>1, <1>2, <2>2
    <3>2. Manager!Extended = (CHOOSE x \in F : \A y \in F : x >= y) + 1 /\ n = l + 1
      BY <1>5
    <3> HIDE DEF F, l, n
    <3>3. \A x \in F : (\A y \in F : x >= y) => x = l
      BY <3>1
    <3>4. (CHOOSE x \in F : \A y \in F : x >= y) = l
      BY <3>1, <3>3
    <3> QED BY <3>2, <3>4
  <2>4. /\ Len(nonces') = N + 1
        /\ \A j \in 1 .. N : nonces'[j] = nonces[j]
        /\ nonces'[N + 1].nonce = n /\ nonces'[N + 1].expiry = e
    <3> DEFINE x == NonceInfo(n, e)
    <3>1. x.nonce = n /\ x.expiry = e /\ nonces' = Append(nonces, x)
      BY <1>7 DEF NonceInfo
    <3>2. x \in Entries
      BY <1>1, <2>2 DEF NonceInfo, Entries
    <3> HIDE DEF x, n
    <3> QED BY <1>1, <3>1, <3>2 DEF IsArray
  <2>5. n \notin DOMAIN f
    BY <1>1, <1>2, <2>2
  <2> HIDE DEF n
  <2>6. \A j \in 1 .. N + 1 : j \in 1 .. N \/ j = N + 1
    BY <1>1
  <2>7. 1 .. N \subseteq 1 .. N + 1 /\ N + 1 \in 1 .. N + 1
    BY <1>1
  <2>8. DOMAIN g = DOMAIN f \cup {n}
    BY <1>2, <1>3, <2>4, <2>6, <2>7
  <2>9. ASSUME NEW m \in DOMAIN g PROVE g[m] = IF m = n THEN e ELSE f[m]
    <3>1. CASE m = n
      BY <1>3, <2>4, <2>7, <3>1
    <3>2. CASE m # n
      <4>1. PICK j \in 1 .. N : m = nonces[j].nonce
        BY <1>2, <2>8, <3>2
      <4>2. f[m] = nonces[j].expiry
        BY <1>2, <4>1
      <4>3. nonces'[j] = nonces[j] /\ j \in 1 .. Len(nonces')
        BY <2>4, <2>7, <4>1
      <4>4. g[nonces'[j].nonce] = nonces'[j].expiry
        BY <1>3, <4>3
      <4>5. g[m] = f[m]
        BY <4>1, <4>2, <4>3, <4>4
      <4> QED BY <3>2, <4>5
    <3> QED BY <3>1, <3>2
  <2>10. g = Entered(f, n)
    BY <1>3, <2>8, <2>9 DEF Entered
  <2> QED BY <1>5, <2>1, <2>3, <2>10 DEF f, g
<1> QED BY <1>6, <1>7, NextNonceIs

(* EVMNonceManager's function stands for the array: dropping what expired  *)
(* and giving out a nonce do the same to both, for any array they can meet,*)
(* and what a restart loads is what was stored last.                       *)
THEOREM StepsAreTheManagers == ArraySpec => StepsMatch
<1>1. ArrayInv /\ Load => nonces' = saved
  BY NoArray, TextReadBack DEF Load, ArrayInv
<1>2. ArrayInv /\ [ArrayNext]_arrayVars =>
        [/\ DropExpiredPendingNonces =>
              AsFunction(nonces') = Manager!Unexpired(AsFunction(nonces))
         /\ GetNextNonce =>
              LET n == IF Manager!Overdue # {} THEN Manager!Min(Manager!Overdue)
                       ELSE Manager!Extended
              IN  AsFunction(nonces') = [m \in DOMAIN AsFunction(nonces) \cup {n} |->
                     IF m = n THEN now + PendingNonceTTL ELSE AsFunction(nonces)[m]]
         /\ Load => nonces' = saved]_arrayVars
  BY <1>1, DropMatches, GetNextNonceMatches DEF Entered
<1> QED BY <1>2, ArrayInvariant, PTL DEF ArraySpec, StepsMatch
=============================================================================
