--------------------------- MODULE GatewayState_proofs ---------------------------
(***************************************************************************)
(* The three things the Gateway keeps on disk, each by an invariant of its *)
(* own.  For any set of owners, no close closes the database under another *)
(* owner and none leaves it open without one; for any number of requests,  *)
(* a wallet that was added stays and a list of wallets is right; through   *)
(* updates, failed writes, merges and restarts, settings are kept.         *)
(***************************************************************************)
EXTENDS GatewayState, TLAPS

Wrapper == shared["EvmTxStorage"]
Local == shared["LocalStorage"]

SharedEntries == [object : Owners \cup {None}, owners : SUBSET Owners]
NotClosing(d) == level[d] \notin {"closing", "open to close"}

\* An owner that is open is counted for the registered wrapper, the wrapper
\* for the registered database, and a registered database is not on its way
\* to be closed.
Registered ==
  /\ \A o \in Owners : stage[o] = "open" => o \in Wrapper.owners /\ storage[o] = Wrapper.object
  /\ Wrapper.object # None =>
       /\ stage[Wrapper.object] # "new"
       /\ Wrapper.object \in Local.owners /\ database[Wrapper.object] = Local.object
  /\ Local.object # None => NotClosing(Local.object)

StorageInv ==
  /\ shared \in [Classes -> SharedEntries]
  /\ \A k \in Classes : shared[k].object = None <=> shared[k].owners = {}
  /\ storage \in [Owners -> Owners \cup {None}] /\ database \in [Owners -> Owners \cup {None}]
  /\ stage \in [Owners -> {"new", "open", "wrapper", "database", "closed"}]
  /\ level = [o \in Owners |-> level[o]]
  /\ Registered

LEMMA StorageInitial == StorageInit => StorageInv
<1> SUFFICES ASSUME StorageInit PROVE StorageInv
  OBVIOUS
<1>1. Unowned \in SharedEntries /\ Unowned.object = None /\ Unowned.owners = {}
  BY DEF Unowned, SharedEntries
<1>2. Wrapper = Unowned /\ Local = Unowned
  BY DEF StorageInit, Wrapper, Local, Classes
<1> QED BY <1>1, <1>2 DEF StorageInit, StorageInv, Registered, Classes

\* what getInstance and close do to an entry, for any entry
LEMMA GetInstanceOK ==
  ASSUME NEW e \in SharedEntries, e.object = None <=> e.owners = {}, NEW o \in Owners
  PROVE  LET f == GetInstance(e, o, o) IN
         /\ f \in SharedEntries /\ f.object # None /\ f.owners = e.owners \cup {o}
         /\ f.object = IF e.object = None THEN o ELSE e.object
  BY StorageAssumption DEF GetInstance, SharedEntries

LEMMA ReleaseOK ==
  ASSUME NEW e \in SharedEntries, e.object = None <=> e.owners = {}, NEW o
  PROVE  LET f == Release(e, o) IN
         /\ f \in SharedEntries /\ (f.object = None <=> f.owners = {})
         /\ f.owners = e.owners \ {o}
         /\ f.owners # {} => f.object = e.object
  BY DEF Release, SharedEntries, Unowned

LEMMA ObtainKeeps ==
  ASSUME StorageInv, NEW o \in Owners, Obtain(o)
  PROVE  StorageInv'
<1> DEFINE isNew == Wrapper.object = None
           w == GetInstance(Wrapper, o, o)
           l == IF isNew THEN GetInstance(Local, o, o) ELSE Local
<1>1. /\ stage[o] = "new" /\ stage' = [stage EXCEPT ![o] = "open"]
      /\ shared' = [EvmTxStorage |-> w, LocalStorage |-> l]
      /\ storage' = [storage EXCEPT ![o] = w.object]
      /\ database' = [database EXCEPT ![o] = IF isNew THEN l.object ELSE None]
      /\ level' = IF l.object = o THEN [level EXCEPT ![o] = "opening"] ELSE level
  BY DEF Obtain, Wrapper, Local
<1>2. /\ Wrapper \in SharedEntries /\ Local \in SharedEntries
      /\ (Wrapper.object = None <=> Wrapper.owners = {}) /\ (Local.object = None <=> Local.owners = {})
  BY DEF StorageInv, Wrapper, Local, Classes
<1>3. /\ w \in SharedEntries /\ w.object # None /\ w.owners = Wrapper.owners \cup {o}
      /\ w.object = IF isNew THEN o ELSE Wrapper.object
  BY <1>2, GetInstanceOK
<1>4. /\ l \in SharedEntries /\ (l.object = None <=> l.owners = {}) /\ Local.owners \subseteq l.owners
      /\ l.object = IF isNew /\ Local.object = None THEN o ELSE Local.object
      /\ isNew => o \in l.owners
  BY <1>2, GetInstanceOK, StorageAssumption
<1> HIDE DEF w, l
<1>5. Wrapper' = w /\ Local' = l
  BY <1>1 DEF Wrapper, Local
<1>6. shared' \in [Classes -> SharedEntries] /\ \A k \in Classes : shared'[k].object = None <=> shared'[k].owners = {}
  BY <1>1, <1>3, <1>4 DEF Classes
<1>7. \A p \in Owners : stage'[p] = "open" => p \in w.owners /\ storage'[p] = w.object
  BY <1>1, <1>2, <1>3 DEF StorageInv, Registered
<1>8. /\ stage'[w.object] # "new" /\ w.object \in l.owners /\ database'[w.object] = l.object
  BY <1>1, <1>2, <1>3, <1>4 DEF StorageInv, Registered, SharedEntries
<1>9. l.object # None => level'[l.object] \notin {"closing", "open to close"}
  BY <1>1, <1>4 DEF StorageInv, Registered, NotClosing
<1>10. /\ storage' \in [Owners -> Owners \cup {None}] /\ database' \in [Owners -> Owners \cup {None}]
       /\ stage' \in [Owners -> {"new", "open", "wrapper", "database", "closed"}]
       /\ level' = [p \in Owners |-> level'[p]]
  BY <1>1, <1>3, <1>4 DEF StorageInv, SharedEntries
<1> QED BY <1>5, <1>6, <1>7, <1>8, <1>9, <1>10 DEF StorageInv, Registered, NotClosing

\* the last owner that closes ends the entry, whoever owns the database still
LEMMA CloseKeeps ==
  ASSUME StorageInv, NEW o \in Owners, Close(o)
  PROVE  StorageInv'
<1> DEFINE w == Release(Wrapper, o)
<1>1. /\ stage' = [stage EXCEPT ![o] = "wrapper"] /\ UNCHANGED <<storage, database, level>>
      /\ shared' = [shared EXCEPT !["EvmTxStorage"] = w]
  BY DEF Close, Wrapper
<1>2. Wrapper \in SharedEntries /\ (Wrapper.object = None <=> Wrapper.owners = {})
  BY DEF StorageInv, Wrapper, Classes
<1>3. /\ w \in SharedEntries /\ (w.object = None <=> w.owners = {})
      /\ w.owners = Wrapper.owners \ {o} /\ (w.owners # {} => w.object = Wrapper.object)
  BY <1>2, ReleaseOK
<1> HIDE DEF w
<1>4. Wrapper' = w /\ Local' = Local
  BY <1>1 DEF Wrapper, Local, StorageInv, Classes
<1>5. shared' \in [Classes -> SharedEntries] /\ \A k \in Classes : shared'[k].object = None <=> shared'[k].owners = {}
  BY <1>1, <1>3 DEF StorageInv, Classes
<1>6. \A p \in Owners : stage'[p] = "open" => p \in w.owners /\ storage'[p] = w.object
  BY <1>1, <1>3 DEF StorageInv, Registered
<1>7. w.object # None =>
        stage'[w.object] # "new" /\ w.object \in Local.owners /\ database'[w.object] = Local.object
  BY <1>1, <1>3 DEF StorageInv, Registered
<1>8. stage' \in [Owners -> {"new", "open", "wrapper", "database", "closed"}]
  BY <1>1 DEF StorageInv
<1> QED BY <1>1, <1>4, <1>5, <1>6, <1>7, <1>8 DEF StorageInv, Registered, NotClosing

\* the wrapper's hold on the database ends only when no wrapper is registered
LEMMA CloseWrapperKeeps ==
  ASSUME StorageInv, NEW o \in Owners, CloseWrapper(o)
  PROVE  StorageInv'
<1>1. stage[o] = "wrapper" /\ UNCHANGED <<storage, database, level>>
  BY DEF CloseWrapper
<1>2. /\ Local \in SharedEntries /\ (Local.object = None <=> Local.owners = {})
      /\ Wrapper.object = None <=> Wrapper.owners = {}
  BY DEF StorageInv, Wrapper, Local, Classes
<1>3. CASE Wrapper.owners = {}
  <2> DEFINE l == Release(Local, storage[o])
  <2>1. /\ stage' = [stage EXCEPT ![o] = "database"]
        /\ shared' = [shared EXCEPT !["LocalStorage"] = l]
    BY <1>3 DEF CloseWrapper, Wrapper, Local
  <2>2. /\ l \in SharedEntries /\ (l.object = None <=> l.owners = {})
        /\ l.owners # {} => l.object = Local.object
    BY <1>2, ReleaseOK
  <2> HIDE DEF l
  <2>3. Wrapper' = Wrapper /\ Local' = l
    BY <2>1 DEF Wrapper, Local, StorageInv, Classes
  <2>4. shared' \in [Classes -> SharedEntries] /\ \A k \in Classes : shared'[k].object = None <=> shared'[k].owners = {}
    BY <2>1, <2>2 DEF StorageInv, Classes
  <2>5. stage' \in [Owners -> {"new", "open", "wrapper", "database", "closed"}]
        /\ \A p \in Owners : stage'[p] # "open"
    BY <1>3, <2>1 DEF StorageInv, Registered
  <2>6. l.object # None => NotClosing(l.object)
    BY <2>2 DEF StorageInv, Registered
  <2> QED BY <1>1, <1>2, <1>3, <2>3, <2>4, <2>5, <2>6 DEF StorageInv, Registered, NotClosing
<1>4. CASE Wrapper.owners # {}
  <2>1. stage' = [stage EXCEPT ![o] = "closed"] /\ UNCHANGED shared
    BY <1>4 DEF CloseWrapper, Wrapper
  <2>2. stage' \in [Owners -> {"new", "open", "wrapper", "database", "closed"}]
        /\ \A p \in Owners : (stage'[p] = "open" => stage[p] = "open") /\ (stage'[p] = "new" => stage[p] = "new")
    BY <1>1, <2>1 DEF StorageInv
  <2>3. Wrapper \in SharedEntries
    BY DEF StorageInv, Wrapper, Classes
  <2> QED BY <1>1, <2>1, <2>2, <2>3 DEF StorageInv, Registered, NotClosing, Wrapper, Local, SharedEntries
<1> QED BY <1>3, <1>4

\* a database is closed only when none is registered
LEMMA CloseDatabaseKeeps ==
  ASSUME StorageInv, NEW o \in Owners, CloseDatabase(o)
  PROVE  StorageInv'
<1>1. /\ stage[o] = "database" /\ stage' = [stage EXCEPT ![o] = "closed"]
      /\ UNCHANGED <<shared, storage, database>>
  BY DEF CloseDatabase
<1>2. Local.object # None => level' = level
  BY DEF CloseDatabase, StorageInv, Local, Classes
<1>3. level' = [p \in Owners |-> level'[p]]
  BY DEF CloseDatabase, StorageInv
<1>4. stage' \in [Owners -> {"new", "open", "wrapper", "database", "closed"}]
      /\ \A p \in Owners : (stage'[p] = "open" => stage[p] = "open") /\ (stage'[p] = "new" => stage[p] = "new")
  BY <1>1 DEF StorageInv
<1>5. Wrapper \in SharedEntries
  BY DEF StorageInv, Wrapper, Classes
<1> QED BY <1>1, <1>2, <1>3, <1>4, <1>5 DEF StorageInv, Registered, NotClosing, Wrapper, Local, SharedEntries

\* Level itself, and the calls that wait for it
LEMMA LevelKeeps ==
  ASSUME StorageInv, NEW o \in Owners,
         Opened(o) \/ Closed(o) \/ Save(o) \/ AssertDbOpen(o) \/ Put(o)
  PROVE  StorageInv'
<1>1. UNCHANGED <<shared, storage, database, stage>>
  BY DEF Opened, Closed, Save, AssertDbOpen, Put
<1>2. /\ level' = [p \in Owners |-> level'[p]]
      /\ \A d \in Owners : NotClosing(d) => NotClosing(d)'
  BY DEF Opened, Closed, Save, AssertDbOpen, Put, NotClosing, StorageInv
<1>3. Local \in SharedEntries
  BY DEF StorageInv, Local, Classes
<1> QED BY <1>1, <1>2, <1>3 DEF StorageInv, Registered, Wrapper, Local, SharedEntries

LEMMA StorageInvariant == Spec => []StorageInv
<1>1. Init => StorageInv
  BY StorageInitial DEF Init
<1>2. StorageInv /\ [Next]_stateVars => StorageInv'
  <2> SUFFICES ASSUME StorageInv, [Next]_stateVars PROVE StorageInv'
    OBVIOUS
  <2>1. CASE StorageNext
    BY <2>1, ObtainKeeps, CloseKeeps, CloseWrapperKeeps, CloseDatabaseKeeps, LevelKeeps DEF StorageNext
  <2>2. CASE UNCHANGED storageVars
    BY <2>2 DEF storageVars, StorageInv, Registered, NotClosing, Wrapper, Local
  <2> QED BY <2>1, <2>2 DEF Next, stateVars
<1> QED BY <1>1, <1>2, PTL DEF Spec

(* refcounting-closeable.ts: "shared instances would not be closed         *)
(* prematurely".  An owner's database is neither closing nor going to be   *)
(* closed as soon as it is open, however many owners come and go.          *)
THEOREM OwnedOpen == Spec => []OwnedStaysOpen
<1>1. StorageInv => OwnedStaysOpen
  <2> SUFFICES ASSUME StorageInv, NEW o \in Owners, stage[o] = "open"
               PROVE  level[Database(o)] \notin {"closing", "open to close"}
    BY DEF OwnedStaysOpen
  <2>1. storage[o] = Wrapper.object /\ Wrapper.object # None
    BY DEF StorageInv, Registered, Wrapper, Classes
  <2>2. Database(o) = Local.object /\ Local.object # None
    BY <2>1 DEF Database, StorageInv, Registered, Local, Classes
  <2> QED BY <2>2 DEF StorageInv, Registered, NotClosing
<1> QED BY <1>1, StorageInvariant, PTL

-----------------------------------------------------------------------------
(* A database without owners                                               *)

Active(o) == stage[o] \in {"open", "wrapper", "database"}

\* As long as nobody asks for the path during a close and no late save
\* reopens the database, the owners that are there have one wrapper, the
\* database is theirs, and who closes it is the last one.
OneWrapper ==
  /\ \A o, p \in Owners : Active(o) /\ Active(p) => storage[o] = storage[p]
  /\ \A d \in Owners : level[d] \in {"opening", "open"} => \E o \in Owners : Active(o) /\ Database(o) = d
  /\ \A x \in Local.owners : \E o \in Owners : Active(o) /\ storage[o] = x
  /\ \A o \in Owners : stage[o] = "database" => Local.owners = {}

WrapperInv ==
  /\ \A o \in Wrapper.owners : stage[o] = "open"
  /\ Local.object # None => stage[Local.object] # "new"
  /\ ~tangled => OneWrapper

LEMMA EntriesOK ==
  ASSUME StorageInv
  PROVE  /\ Wrapper \in SharedEntries /\ Local \in SharedEntries
         /\ Wrapper.object = None <=> Wrapper.owners = {}
         /\ Local.object = None <=> Local.owners = {}
  BY DEF StorageInv, Wrapper, Local, Classes

LEMMA ObtainKeepsOne ==
  ASSUME StorageInv, WrapperInv, NEW o \in Owners, Obtain(o)
  PROVE  WrapperInv'
<1> DEFINE isNew == Wrapper.object = None
           w == GetInstance(Wrapper, o, o)
           l == IF isNew THEN GetInstance(Local, o, o) ELSE Local
<1>1. /\ stage[o] = "new" /\ stage' = [stage EXCEPT ![o] = "open"]
      /\ shared' = [EvmTxStorage |-> w, LocalStorage |-> l]
      /\ storage' = [storage EXCEPT ![o] = w.object]
      /\ database' = [database EXCEPT ![o] = IF isNew THEN l.object ELSE None]
      /\ level' = IF l.object = o THEN [level EXCEPT ![o] = "opening"] ELSE level
      /\ ~tangled' => ~tangled /\ \A p \in Owners : stage[p] \notin {"wrapper", "database"}
  BY DEF Obtain, Wrapper, Local
<1>2. /\ w.owners = Wrapper.owners \cup {o} /\ w.object = IF isNew THEN o ELSE Wrapper.object
      /\ isNew => l.owners = Local.owners \cup {o} /\ l.object = IF Local.object = None THEN o ELSE Local.object
  BY EntriesOK, GetInstanceOK
<1>3. ~isNew => l = Local
  OBVIOUS
<1> HIDE DEF w, l
<1>4. Wrapper' = w /\ Local' = l
  BY <1>1 DEF Wrapper, Local
<1>5. stage'[o] = "open" /\ \A p \in Owners : p # o => stage'[p] = stage[p] /\ storage'[p] = storage[p]
  BY <1>1 DEF StorageInv
<1>6. storage'[o] = w.object
  BY <1>1 DEF StorageInv
<1>7. \A p \in w.owners : stage'[p] = "open"
  BY <1>1, <1>2 DEF WrapperInv, StorageInv
<1>8. l.object # None => stage'[l.object] # "new"
  BY <1>2, <1>3, <1>1, EntriesOK DEF WrapperInv, StorageInv, SharedEntries
<1>9. ASSUME ~tangled' PROVE OneWrapper'
  <2>1. ~tangled /\ OneWrapper /\ \A p \in Owners : Active(p) => stage[p] = "open"
    BY <1>1, <1>9 DEF WrapperInv, Active
  <2>2. \A p \in Owners : Active(p)' => p = o \/ stage[p] = "open"
    BY <1>5, <2>1 DEF Active
  <2>3. \A p \in Owners : Active(p) => Active(p)' /\ p # o
    BY <1>1, <1>5, <2>1 DEF Active
  <2>4. Active(o)' /\ \A p \in Owners : stage'[p] # "database"
    BY <1>1, <1>5, <1>9 DEF Active
  <2>5. CASE isNew
    <3>1. \A p \in Owners : stage[p] # "open"
      BY <2>5, EntriesOK DEF StorageInv, Registered
    <3>2. Local.owners = {} /\ \A d \in Owners : level[d] \notin {"opening", "open"}
      BY <2>1, <3>1 DEF OneWrapper
    <3>3. Local.object = None
      BY <3>2, EntriesOK
    <3>4. l.owners = {o} /\ l.object = o /\ w.object = o
      BY <1>2, <2>5, <3>2, <3>3
    <3>5. storage'[o] = o /\ database'[o] = o
      BY <1>1, <1>6, <2>5, <3>4 DEF StorageInv
    <3>6. \A d \in Owners : level'[d] \in {"opening", "open"} => d = o
      BY <1>1, <3>2, <3>4 DEF StorageInv
    <3> QED BY <1>4, <2>2, <2>4, <3>1, <3>4, <3>5, <3>6 DEF OneWrapper, Database
  <2>6. CASE ~isNew
    <3>1. l = Local /\ w.object = Wrapper.object
      BY <1>2, <1>3, <2>6
    <3>2. \A p \in Owners : Active(p)' => storage'[p] = Wrapper.object
      BY <1>5, <1>6, <2>2, <3>1 DEF StorageInv, Registered
    <3>3. Local.object # o
      BY <1>1, StorageAssumption DEF WrapperInv
    <3>4. level' = level
      BY <1>1, <3>1, <3>3
    <3>5. \A p \in Owners : Active(p) => storage'[p] = storage[p] /\ Database(p)' = Database(p)
      <4> SUFFICES ASSUME NEW p \in Owners, Active(p)
                   PROVE  storage'[p] = storage[p] /\ Database(p)' = Database(p)
        OBVIOUS
      <4>1. storage'[p] = storage[p] /\ storage[p] = Wrapper.object
        BY <1>5, <2>1, <2>3 DEF StorageInv, Registered
      <4>2. Wrapper.object # o /\ Wrapper.object \in Owners
        BY <1>1, <2>6, EntriesOK DEF StorageInv, Registered, SharedEntries
      <4>3. database'[Wrapper.object] = database[Wrapper.object]
        BY <1>1, <4>2 DEF StorageInv
      <4> QED BY <4>1, <4>3 DEF Database
    <3> QED BY <1>4, <2>1, <2>3, <2>4, <3>1, <3>2, <3>4, <3>5 DEF OneWrapper
  <2> QED BY <2>5, <2>6
<1> QED BY <1>4, <1>7, <1>8, <1>9 DEF WrapperInv

LEMMA CloseKeepsOne ==
  ASSUME StorageInv, WrapperInv, NEW o \in Owners, Close(o)
  PROVE  WrapperInv'
<1> DEFINE w == Release(Wrapper, o)
<1>1. /\ stage[o] = "open" /\ stage' = [stage EXCEPT ![o] = "wrapper"]
      /\ UNCHANGED <<storage, database, level, tangled>>
      /\ shared' = [shared EXCEPT !["EvmTxStorage"] = w]
  BY DEF Close, Wrapper
<1>2. w.owners = Wrapper.owners \ {o}
  BY EntriesOK, ReleaseOK
<1> HIDE DEF w
<1>3. Wrapper' = w /\ Local' = Local
  BY <1>1 DEF Wrapper, Local, StorageInv, Classes
<1>4. \A p \in Owners : /\ Active(p)' <=> Active(p)
                        /\ stage'[p] \in {"new", "database"} => stage'[p] = stage[p]
                        /\ p # o => stage'[p] = stage[p]
  BY <1>1 DEF StorageInv, Active
<1>5. Wrapper.owners \subseteq Owners /\ Local.object \in Owners \cup {None}
  BY EntriesOK DEF SharedEntries
<1> QED BY <1>1, <1>2, <1>3, <1>4, <1>5 DEF WrapperInv, OneWrapper, Database

LEMMA CloseWrapperKeepsOne ==
  ASSUME StorageInv, WrapperInv, NEW o \in Owners, CloseWrapper(o)
  PROVE  WrapperInv'
<1>1. stage[o] = "wrapper" /\ UNCHANGED <<storage, database, level, tangled>>
  BY DEF CloseWrapper
<1>2. Wrapper \in SharedEntries /\ Local \in SharedEntries
  BY EntriesOK
<1>3. CASE Wrapper.owners = {}
  <2> DEFINE l == Release(Local, storage[o])
  <2>1. /\ stage' = [stage EXCEPT ![o] = "database"]
        /\ shared' = [shared EXCEPT !["LocalStorage"] = l]
    BY <1>3 DEF CloseWrapper, Wrapper, Local
  <2>2. /\ l.owners = Local.owners \ {storage[o]} /\ (l.object = None <=> l.owners = {})
        /\ l.owners # {} => l.object = Local.object
    BY EntriesOK, ReleaseOK
  <2> HIDE DEF l
  <2>3. Wrapper' = Wrapper /\ Local' = l
    BY <2>1 DEF Wrapper, Local, StorageInv, Classes
  <2>4. \A p \in Owners : /\ Active(p)' <=> Active(p)
                          /\ stage'[p] = "new" => stage[p] = "new"
    BY <1>1, <2>1 DEF StorageInv, Active
  <2>5. ~tangled => l.owners = {}
    BY <1>1, <2>2 DEF WrapperInv, OneWrapper, Active
  <2> QED BY <1>1, <1>2, <1>3, <2>2, <2>3, <2>4, <2>5 DEF WrapperInv, OneWrapper, Database, SharedEntries
<1>4. CASE Wrapper.owners # {}
  <2>1. stage' = [stage EXCEPT ![o] = "closed"] /\ UNCHANGED shared
    BY <1>4 DEF CloseWrapper, Wrapper
  <2>2. PICK p \in Owners : stage[p] = "open"
    BY <1>2, <1>4 DEF WrapperInv, SharedEntries
  <2>3. /\ \A q \in Owners : /\ Active(q)' => Active(q)
                             /\ stage'[q] \in {"new", "database"} => stage[q] = stage'[q]
                             /\ q # o => stage'[q] = stage[q] /\ (Active(q) => Active(q)')
        /\ Active(p) /\ Active(p)' /\ Active(o)
    BY <1>1, <2>1, <2>2 DEF StorageInv, Active
  <2>4. ~tangled => storage[p] = storage[o] /\ Database(p) = Database(o)
    BY <2>3 DEF WrapperInv, OneWrapper, Database
  <2>5. Wrapper' = Wrapper /\ Local' = Local
    BY <2>1 DEF Wrapper, Local
  <2>6. ASSUME ~tangled PROVE OneWrapper'
    <3>1. \A q \in Owners : Database(q)' = Database(q) /\ storage'[q] = storage[q]
      BY <1>1 DEF Database
    <3> QED BY <1>1, <2>3, <2>4, <2>5, <2>6, <3>1 DEF WrapperInv, OneWrapper
  <2>7. o \notin Wrapper.owners
    BY <1>1 DEF WrapperInv
  <2> QED BY <1>1, <1>2, <2>3, <2>5, <2>6, <2>7 DEF WrapperInv, SharedEntries
<1> QED BY <1>3, <1>4

LEMMA CloseDatabaseKeepsOne ==
  ASSUME StorageInv, WrapperInv, NEW o \in Owners, CloseDatabase(o)
  PROVE  WrapperInv'
<1>1. /\ stage[o] = "database" /\ stage' = [stage EXCEPT ![o] = "closed"]
      /\ UNCHANGED <<shared, storage, database, tangled>>
  BY DEF CloseDatabase
<1>2. Wrapper' = Wrapper /\ Local' = Local /\ Wrapper \in SharedEntries /\ Local \in SharedEntries
  BY <1>1, EntriesOK DEF Wrapper, Local
<1>3. \A q \in Owners : /\ Active(q)' => Active(q)
                        /\ stage'[q] \in {"new", "database"} => stage[q] = stage'[q]
                        /\ q # o => stage'[q] = stage[q] /\ (Active(q) => Active(q)')
  BY <1>1 DEF StorageInv, Active
<1>4. o \notin Wrapper.owners
  BY <1>1 DEF WrapperInv
<1>5. ASSUME ~tangled PROVE OneWrapper'
  <2>1. Local.owners = {}
    BY <1>1, <1>5 DEF WrapperInv, OneWrapper
  <2>2. level' = [level EXCEPT ![Database(o)] =
                    CASE @ = "open" -> "closing" [] @ = "opening" -> "open to close" [] OTHER -> @]
    BY <2>1 DEF CloseDatabase, Local
  <2>3. \A d \in Owners : level'[d] \in {"opening", "open"} => level[d] = level'[d] /\ d # Database(o)
    BY <2>2 DEF StorageInv
  <2>4. \A q \in Owners : Database(q)' = Database(q) /\ storage'[q] = storage[q]
    BY <1>1 DEF Database
  <2> QED BY <1>2, <1>3, <1>5, <2>1, <2>3, <2>4 DEF WrapperInv, OneWrapper
<1> QED BY <1>1, <1>2, <1>3, <1>4, <1>5 DEF WrapperInv, SharedEntries

LEMMA LevelKeepsOne ==
  ASSUME StorageInv, WrapperInv, NEW o \in Owners,
         Opened(o) \/ Closed(o) \/ Save(o) \/ AssertDbOpen(o) \/ Put(o)
  PROVE  WrapperInv'
<1>1. UNCHANGED <<shared, storage, database, stage>> /\ (tangled => tangled')
  <2>1. UNCHANGED <<shared, storage, database, stage>>
    BY DEF Opened, Closed, Save, AssertDbOpen, Put
  <2>2. CASE AssertDbOpen(o)
    <3>1. tangled' = (tangled \/ (level[Database(o)] = "closed" /\ stage[o] # "open"))
      BY <2>2 DEF AssertDbOpen
    <3> QED BY <2>1, <3>1, Zenon
  <2>3. CASE UNCHANGED tangled
    BY <2>1, <2>3
  <2> QED BY <2>2, <2>3 DEF Opened, Closed, Save, Put
<1>2. Wrapper' = Wrapper /\ Local' = Local /\ \A q \in Owners : Database(q)' = Database(q) /\ (Active(q)' <=> Active(q))
  BY <1>1 DEF Wrapper, Local, Database, Active
<1>3. ASSUME ~tangled', NEW d \in Owners, level'[d] \in {"opening", "open"}
      PROVE  level[d] \in {"opening", "open"} \/ \E q \in Owners : Active(q) /\ Database(q) = d
  <2>1. CASE AssertDbOpen(o)
    BY <1>3, <2>1 DEF AssertDbOpen, StorageInv, Active
  <2>2. CASE Opened(o)
    BY <1>3, <2>2 DEF Opened, StorageInv
  <2>3. CASE Closed(o) \/ Save(o) \/ Put(o)
    BY <1>3, <2>3 DEF Closed, Save, Put, StorageInv
  <2> QED BY <2>1, <2>2, <2>3
<1> QED BY <1>1, <1>2, <1>3 DEF WrapperInv, OneWrapper

LEMMA WrapperInvariant == Spec => []WrapperInv
<1>1. Init => WrapperInv
  <2> SUFFICES ASSUME Init PROVE WrapperInv
    OBVIOUS
  <2>1. Wrapper = Unowned /\ Local = Unowned /\ Unowned.object = None /\ Unowned.owners = {}
    BY DEF Init, StorageInit, Wrapper, Local, Classes, Unowned
  <2>2. \A o \in Owners : stage[o] = "new" /\ level[o] = "none"
    BY DEF Init, StorageInit
  <2> QED BY <2>1, <2>2 DEF WrapperInv, OneWrapper, Active
<1>2. StorageInv /\ WrapperInv /\ [Next]_stateVars => WrapperInv'
  <2> SUFFICES ASSUME StorageInv, WrapperInv, [Next]_stateVars PROVE WrapperInv'
    OBVIOUS
  <2>1. CASE StorageNext
    BY <2>1, ObtainKeepsOne, CloseKeepsOne, CloseWrapperKeepsOne, CloseDatabaseKeepsOne, LevelKeepsOne
    DEF StorageNext
  <2>2. CASE UNCHANGED storageVars
    BY <2>2 DEF storageVars, WrapperInv, OneWrapper, Wrapper, Local, Active, Database
  <2> QED BY <2>1, <2>2 DEF Next, stateVars
<1> QED BY <1>1, <1>2, StorageInvariant, PTL DEF Spec

(* When the last owner has closed, the database is closed, and an owner    *)
(* never waits for a lock that stays: for any set of owners whose closes   *)
(* and saves nobody crosses, no database is open that nobody owns.         *)
THEOREM OpenOwned == Spec => []OpenIsOwned
<1>1. WrapperInv => OpenIsOwned
  <2> SUFFICES ASSUME WrapperInv, ~tangled, NEW d \in Owners, level[d] \in {"opening", "open"}
               PROVE  /\ \E o \in Owners : stage[o] \notin {"new", "closed"} /\ Database(o) = d
                      /\ \A o \in Owners : stage[o] = "open" => Database(o) = d
    BY DEF OpenIsOwned
  <2>1. PICK o \in Owners : Active(o) /\ Database(o) = d
    BY DEF WrapperInv, OneWrapper
  <2>2. \A p \in Owners : stage[p] = "open" => Database(p) = Database(o)
    BY <2>1 DEF WrapperInv, OneWrapper, Active, Database
  <2> QED BY <2>1, <2>2 DEF Active
<1> QED BY <1>1, WrapperInvariant, PTL

-----------------------------------------------------------------------------
(* The key files of the wallets                                            *)

ChainSets == SUBSET WalletChains
Requests == [op : {"none", "add", "remove", "list", "use"}, chain : WalletChains,
             step : {"idle", "encrypt", "open", "write", "write unlinked", "unlink",
                     "directories", "files", "read", "decrypt", "usable", "unusable"},
             todo : ChainSets, found : ChainSets, sure : ChainSets, never : ChainSets]

Writer(q) == q.op \in {"add", "remove"}

\* What a request counts on: an add or a remove that is alone on its chain finds
\* the file as it left it, a list or a use what was kept and gone all the time.
AddFits(q, d, f) ==
  /\ q.op = "add" => q.step \in {"encrypt", "open", "write", "write unlinked"}
  /\ q.op = "add" /\ q.step # "encrypt" => q.chain \in d
  /\ q.op = "add" /\ q.chain \in q.sure =>
       (q.step = "write" => f[q.chain] = "part") /\ q.step # "write unlinked"
  /\ Writer(q) => q.sure \subseteq {q.chain}

ReadFits(q, k, g) ==
  /\ q.op \in {"list", "use"} => q.sure \subseteq k /\ q.never \subseteq g
  /\ q.op = "use" /\ q.step = "unusable" => q.chain \notin q.sure
  /\ q.op = "list" /\ q.step = "directories" => q.found = {}
  /\ q.op = "list" /\ q.step = "files" =>
       q.sure \subseteq q.found \cup q.todo /\ q.never \cap q.found = {}

WalletTypeOK ==
  /\ request \in [Clients -> Requests]
  /\ file \in [WalletChains -> {"none", "part", "whole"}]
  /\ kept \in ChainSets /\ gone \in ChainSets /\ directory \in ChainSets

\* a writer whose outcome is sure is alone on its chain
Alone ==
  \A r, s \in Clients :
    r # s /\ Writer(request[r]) /\ Writer(request[s]) /\ request[r].chain = request[s].chain
      => request[r].chain \notin request[r].sure

WalletInv ==
  /\ WalletTypeOK
  /\ \A c \in kept : file[c] = "whole" /\ c \in directory /\ ~Writes(c)
  /\ \A c \in gone : file[c] = "none" /\ ~Writes(c)
  /\ Alone
  /\ \A r \in Clients : /\ request[r].step = "idle" => request[r].op = "none"
                        /\ AddFits(request[r], directory, file) /\ ReadFits(request[r], kept, gone)

LEMMA QuietOK == Quiet \in Requests /\ Quiet.op = "none" /\ Quiet.step = "idle"
  BY DEF Quiet, Requests, WalletChains, ChainSets

LEMMA ChangesKeep ==
  ASSUME WalletInv, NEW r \in Clients, NEW c \in WalletChains, request[r].step = "idle",
         NEW op, NEW step, Changes(r, op, c, step), UNCHANGED <<directory, file>>,
         \/ op = "add" /\ step = "encrypt"
         \/ op = "remove" /\ step = "unlink"
  PROVE  WalletInv'
<1> DEFINE alone == IF Writes(c) THEN {} ELSE {c}
           new == [Quiet EXCEPT !.op = op, !.chain = c, !.step = step, !.sure = alone]
           other(s) == [request[s] EXCEPT !.sure = @ \ {c}, !.never = @ \ {c}]
<1>1. /\ kept' = kept \ {c} /\ gone' = gone \ {c} /\ file' = file /\ directory' = directory
      /\ request' = [s \in Clients |-> IF s = r THEN new ELSE other(s)]
  BY DEF Changes
<1>2. /\ new \in Requests /\ new.op = op /\ new.step = step /\ new.chain = c /\ new.sure = alone
  BY DEF Quiet, Requests, ChainSets
<1>3. ASSUME NEW s \in Clients
      PROVE  LET q == request[s] IN
             /\ other(s) \in Requests /\ other(s).op = q.op /\ other(s).step = q.step /\ other(s).chain = q.chain
             /\ other(s).sure = q.sure \ {c} /\ other(s).never = q.never \ {c}
             /\ other(s).found = q.found /\ other(s).todo = q.todo
  BY DEF WalletInv, WalletTypeOK, Requests, ChainSets
<1>4. alone \subseteq {c} /\ (c \in alone => \A s \in Clients : ~(Writer(request[s]) /\ request[s].chain = c))
  BY DEF Writes, Writer
<1>5. request[r].op = "none"
  BY DEF WalletInv
<1> HIDE DEF new, other, alone
<1>6. WalletTypeOK'
  BY <1>1, <1>2, <1>3 DEF WalletInv, WalletTypeOK, ChainSets
<1>7. request'[r] = new /\ \A s \in Clients : s # r => request'[s] = other(s)
  BY <1>1
<1>8. \A d \in kept' \cup gone' : ~Writes(d)'
  <2> SUFFICES ASSUME NEW d \in kept' \cup gone', NEW s \in Clients,
                      request'[s].op \in {"add", "remove"}, request'[s].chain = d
               PROVE  FALSE
    BY DEF Writes
  <2>1. d # c /\ d \in kept \cup gone
    BY <1>1
  <2>2. s # r
    BY <1>2, <1>7, <2>1
  <2> QED BY <1>3, <1>7, <2>1, <2>2 DEF WalletInv, Writes
<1>9. Alone'
  <2> SUFFICES ASSUME NEW s \in Clients, NEW t \in Clients, s # t, Writer(request'[s]), Writer(request'[t]),
                      request'[s].chain = request'[t].chain, request'[s].chain \in request'[s].sure
               PROVE  FALSE
    BY DEF Alone, Writer
  <2>1. CASE s = r
    BY <1>2, <1>3, <1>4, <1>7, <2>1 DEF Writer
  <2>2. CASE s # r /\ t = r
    BY <1>2, <1>3, <1>7, <2>2
  <2>3. CASE s # r /\ t # r
    BY <1>3, <1>7, <2>3 DEF WalletInv, Alone, Writer
  <2> QED BY <2>1, <2>2, <2>3
<1>10. ASSUME NEW s \in Clients
       PROVE  /\ request'[s].step = "idle" => request'[s].op = "none"
              /\ AddFits(request'[s], directory', file') /\ ReadFits(request'[s], kept', gone')
  <2>1. CASE s = r
    BY <1>1, <1>2, <1>4, <1>7, <2>1 DEF AddFits, ReadFits, Writer
  <2>2. CASE s # r
    <3>1. /\ request[s].step = "idle" => request[s].op = "none"
          /\ AddFits(request[s], directory, file) /\ ReadFits(request[s], kept, gone)
      BY DEF WalletInv
    <3> QED BY <1>1, <1>3, <1>7, <2>2, <3>1 DEF AddFits, ReadFits, Writer
  <2> QED BY <2>1, <2>2
<1> QED BY <1>1, <1>6, <1>8, <1>9, <1>10 DEF WalletInv

\* steps that change one request, keep what it waits for and what is written
LEMMA OneRequestKeeps ==
  ASSUME WalletInv, NEW r \in Clients, NEW q \in Requests,
         request' = [request EXCEPT ![r] = q], UNCHANGED <<file, kept, gone>>,
         directory \subseteq directory', directory' \in ChainSets,
         q.step = "idle" => q.op = "none",
         Writer(q) => /\ Writer(request[r]) /\ q.chain = request[r].chain
                      /\ q.sure \subseteq request[r].sure,
         AddFits(q, directory', file), ReadFits(q, kept, gone)
  PROVE  WalletInv'
<1>1. request'[r] = q /\ \A s \in Clients : s # r => request'[s] = request[s]
  BY DEF WalletInv, WalletTypeOK
<1>2. WalletTypeOK'
  BY DEF WalletInv, WalletTypeOK
<1>3. \A d \in WalletChains : Writes(d)' => Writes(d)
  BY <1>1 DEF Writes, Writer
<1>4. Alone'
  BY <1>1 DEF WalletInv, Alone, Writer
<1>5. ASSUME NEW s \in Clients
      PROVE  /\ request'[s].step = "idle" => request'[s].op = "none"
             /\ AddFits(request'[s], directory', file') /\ ReadFits(request'[s], kept', gone')
  <2>1. CASE s = r
    BY <1>1, <2>1
  <2>2. CASE s # r
    <3>1. /\ request'[s] = request[s]
          /\ request[s].step = "idle" => request[s].op = "none"
          /\ AddFits(request[s], directory, file) /\ ReadFits(request[s], kept, gone)
      BY <1>1, <2>2 DEF WalletInv
    <3> QED BY <3>1 DEF AddFits, ReadFits
  <2> QED BY <2>1, <2>2
<1> QED BY <1>2, <1>3, <1>4, <1>5 DEF WalletInv, WalletTypeOK, ChainSets

LEMMA AddKeeps ==
  ASSUME WalletInv, NEW r \in Clients, AddRefused(r) \/ MakeDirectory(r)
  PROVE  WalletInv'
<1>1. request[r] \in Requests /\ AddFits(request[r], directory, file) /\ request[r].op = "add"
      /\ directory \in ChainSets /\ r \in DOMAIN request
  BY DEF WalletInv, WalletTypeOK, AddRefused, MakeDirectory, At
<1>2. CASE AddRefused(r)
  <2>1. request' = [request EXCEPT ![r] = Quiet] /\ UNCHANGED <<directory, file, kept, gone>>
    BY <1>2 DEF AddRefused
  <2>2. AddFits(Quiet, directory', file) /\ ReadFits(Quiet, kept, gone) /\ ~Writer(Quiet)
    BY QuietOK DEF AddFits, ReadFits, Writer
  <2> QED BY <1>1, <2>1, <2>2, QuietOK, OneRequestKeeps
<1>3. CASE MakeDirectory(r)
  <2> DEFINE q == [request[r] EXCEPT !.step = "open"]
  <2>1. /\ request' = [request EXCEPT ![r] = q] /\ UNCHANGED <<file, kept, gone>>
        /\ directory' = directory \cup {request[r].chain}
    BY <1>3 DEF MakeDirectory
  <2>2. /\ q \in Requests /\ q.op = "add" /\ q.step = "open"
        /\ q.chain = request[r].chain /\ q.sure = request[r].sure
    BY <1>1 DEF Requests
  <2> HIDE DEF q
  <2>3. directory \subseteq directory' /\ directory' \in ChainSets
    BY <1>1, <2>1 DEF Requests, ChainSets
  <2>4. AddFits(q, directory', file)
    BY <1>1, <2>1, <2>2 DEF AddFits, Writer
  <2>5. ReadFits(q, kept, gone)
    BY <2>2 DEF ReadFits
  <2> QED BY <1>1, <2>1, <2>2, <2>3, <2>4, <2>5, OneRequestKeeps DEF Writer
<1> QED BY <1>2, <1>3

\* another request's view of a file that a writer of its chain changes
LEMMA OpenFileKeeps ==
  ASSUME WalletInv, NEW r \in Clients, OpenFile(r)
  PROVE  WalletInv'
<1>0. PICK c \in WalletChains, sure \in ChainSets : request[r].chain = c /\ request[r].sure = sure
  BY DEF WalletInv, WalletTypeOK, Requests
<1> DEFINE q == [request[r] EXCEPT !.step = "write"]
<1>1. /\ request' = [request EXCEPT ![r] = q] /\ file' = [file EXCEPT ![c] = "part"]
      /\ UNCHANGED <<directory, kept, gone>> /\ request[r].op = "add" /\ request[r].step = "open"
  BY <1>0 DEF OpenFile, At
<1>2. request[r] \in Requests /\ c \in WalletChains /\ Writer(request[r])
  BY <1>1 DEF WalletInv, WalletTypeOK, Requests, Writer
<1>3. /\ q \in Requests /\ q.op = "add" /\ q.step = "write" /\ q.chain = c /\ q.sure = sure
  BY <1>0, <1>1, <1>2 DEF Requests
<1> HIDE DEF q
<1>4. request'[r] = q /\ \A s \in Clients : s # r => request'[s] = request[s]
  BY <1>1 DEF WalletInv, WalletTypeOK
<1>5. file'[c] = "part" /\ \A d \in WalletChains : d # c => file'[d] = file[d]
  BY <1>1, <1>2 DEF WalletInv, WalletTypeOK
<1>6. WalletTypeOK'
  BY <1>1, <1>2, <1>3 DEF WalletInv, WalletTypeOK
<1>7. \A d \in WalletChains : Writes(d)' => Writes(d)
  BY <1>0, <1>1, <1>3, <1>4 DEF Writes
<1>8. c \notin kept /\ c \notin gone
  BY <1>0, <1>1 DEF WalletInv, Writes
<1>9. Alone'
  BY <1>0, <1>2, <1>3, <1>4 DEF WalletInv, Alone, Writer
<1>10. ASSUME NEW s \in Clients
       PROVE  /\ request'[s].step = "idle" => request'[s].op = "none"
              /\ AddFits(request'[s], directory', file') /\ ReadFits(request'[s], kept', gone')
  <2>1. CASE s = r
    <3>1. AddFits(request[r], directory, file)
      BY DEF WalletInv
    <3>2. AddFits(q, directory, file')
      BY <1>0, <1>1, <1>2, <1>3, <1>5, <3>1 DEF AddFits, Writer
    <3>3. ReadFits(q, kept, gone)
      BY <1>3 DEF ReadFits
    <3> QED BY <1>0, <1>1, <1>3, <1>4, <1>5, <2>1, <3>2, <3>3
  <2>2. CASE s # r
    <3>1. /\ request[s].step = "idle" => request[s].op = "none"
          /\ AddFits(request[s], directory, file) /\ ReadFits(request[s], kept, gone)
      BY DEF WalletInv
    <3>2. request[s].op = "add" /\ request[s].chain \in request[s].sure => request[s].chain # c
      BY <1>0, <1>2, <2>2 DEF WalletInv, Alone, Writer
    <3>3. request[s].chain \in WalletChains
      BY DEF WalletInv, WalletTypeOK, Requests
    <3>4. AddFits(request[s], directory, file')
      BY <1>5, <3>1, <3>2, <3>3 DEF AddFits
    <3> QED BY <1>1, <1>4, <2>2, <3>1, <3>4
  <2> QED BY <2>1, <2>2
<1> QED BY <1>1, <1>5, <1>6, <1>7, <1>8, <1>9, <1>10 DEF WalletInv, WalletTypeOK, ChainSets

LEMMA AddedKeeps ==
  ASSUME WalletInv, NEW r \in Clients, Added(r)
  PROVE  WalletInv'
<1>0. PICK c \in WalletChains, sure \in ChainSets : request[r].chain = c /\ request[r].sure = sure
  BY DEF WalletInv, WalletTypeOK, Requests
<1>1. /\ request' = [request EXCEPT ![r] = Quiet] /\ kept' = kept \cup sure
      /\ file' = IF request[r].step = "write" THEN [file EXCEPT ![c] = "whole"] ELSE file
      /\ UNCHANGED <<directory, gone>> /\ request[r].op = "add"
      /\ request[r].step \in {"write", "write unlinked"}
  BY <1>0 DEF Added, At
<1>2. request[r] \in Requests /\ c \in WalletChains /\ Writer(request[r]) /\ sure \subseteq {c}
      /\ c \in directory /\ (c \in sure => request[r].step = "write")
  BY <1>0, <1>1 DEF WalletInv, WalletTypeOK, Requests, Writer, AddFits
<1>3. request'[r] = Quiet /\ \A s \in Clients : s # r => request'[s] = request[s]
  BY <1>1 DEF WalletInv, WalletTypeOK
<1>4. /\ \A d \in WalletChains : d # c => file'[d] = file[d]
      /\ c \in sure => file'[c] = "whole"
  BY <1>1, <1>2 DEF WalletInv, WalletTypeOK
<1>5. WalletTypeOK'
  BY <1>1, <1>2, QuietOK DEF WalletInv, WalletTypeOK, ChainSets
<1>6. \A d \in WalletChains : Writes(d)' => Writes(d)
  BY <1>0, <1>3, QuietOK DEF Writes
<1>7. c \notin kept /\ c \notin gone
  BY <1>0, <1>1 DEF WalletInv, Writes
<1>8. c \in sure => ~Writes(c)'
  BY <1>0, <1>2, <1>3, QuietOK DEF WalletInv, Alone, Writes, Writer
<1>9. Alone'
  BY <1>0, <1>3, QuietOK DEF WalletInv, Alone, Writer
<1>10. ASSUME NEW s \in Clients
       PROVE  /\ request'[s].step = "idle" => request'[s].op = "none"
              /\ AddFits(request'[s], directory', file') /\ ReadFits(request'[s], kept', gone')
  <2>1. CASE s = r
    BY <1>3, <2>1, QuietOK DEF AddFits, ReadFits, Writer
  <2>2. CASE s # r
    <3>1. /\ request[s].step = "idle" => request[s].op = "none"
          /\ AddFits(request[s], directory, file) /\ ReadFits(request[s], kept, gone)
      BY DEF WalletInv
    <3>2. request[s].op = "add" /\ request[s].chain \in request[s].sure => request[s].chain # c
      BY <1>0, <1>2, <2>2 DEF WalletInv, Alone, Writer
    <3>3. request[s].chain \in WalletChains
      BY DEF WalletInv, WalletTypeOK, Requests
    <3>4. AddFits(request[s], directory, file')
      BY <1>4, <3>1, <3>2, <3>3 DEF AddFits
    <3>5. ReadFits(request[s], kept', gone)
      BY <1>1, <3>1 DEF ReadFits
    <3> QED BY <1>1, <1>3, <2>2, <3>1, <3>4, <3>5
  <2> QED BY <2>1, <2>2
<1>11. \A d \in kept' : file'[d] = "whole" /\ d \in directory /\ ~Writes(d)'
  BY <1>1, <1>2, <1>4, <1>6, <1>7, <1>8 DEF WalletInv, WalletTypeOK, ChainSets
<1>12. \A d \in gone : file'[d] = "none" /\ ~Writes(d)'
  BY <1>4, <1>6, <1>7 DEF WalletInv, WalletTypeOK, ChainSets
<1> QED BY <1>1, <1>5, <1>9, <1>10, <1>11, <1>12 DEF WalletInv

LEMMA RemoveWalletKeeps ==
  ASSUME WalletInv, NEW r \in Clients, RemoveWallet(r)
  PROVE  WalletInv'
<1>0. PICK c \in WalletChains, sure \in ChainSets : request[r].chain = c /\ request[r].sure = sure
  BY DEF WalletInv, WalletTypeOK, Requests
<1> DEFINE cut(s) == IF At(s, "add", "write") /\ request[s].chain = c
                     THEN [request[s] EXCEPT !.step = "write unlinked"] ELSE request[s]
<1>1. /\ request' = [s \in Clients |-> IF s = r THEN Quiet ELSE cut(s)]
      /\ gone' = gone \cup sure /\ file' = [file EXCEPT ![c] = "none"]
      /\ UNCHANGED <<directory, kept>> /\ request[r].op = "remove"
  BY <1>0 DEF RemoveWallet, At
<1>2. request[r] \in Requests /\ c \in WalletChains /\ Writer(request[r]) /\ sure \subseteq {c}
  BY <1>0, <1>1 DEF WalletInv, WalletTypeOK, Requests, Writer, AddFits
<1>3. ASSUME NEW s \in Clients
      PROVE  LET p == request[s] IN
             /\ cut(s) \in Requests /\ cut(s).op = p.op /\ cut(s).chain = p.chain /\ cut(s).sure = p.sure
             /\ \/ cut(s) = p
                \/ p.op = "add" /\ p.chain = c /\ p.step = "write" /\ cut(s).step = "write unlinked"
  BY DEF WalletInv, WalletTypeOK, Requests, At
<1> HIDE DEF cut
<1>4. request'[r] = Quiet /\ \A s \in Clients : s # r => request'[s] = cut(s)
  BY <1>1
<1>5. file'[c] = "none" /\ \A d \in WalletChains : d # c => file'[d] = file[d]
  BY <1>1, <1>2 DEF WalletInv, WalletTypeOK
<1>6. WalletTypeOK'
  <2>1. request' \in [Clients -> Requests]
    BY <1>1, <1>3, QuietOK
  <2>2. file' \in [WalletChains -> {"none", "part", "whole"}]
    BY <1>1, <1>2 DEF WalletInv, WalletTypeOK
  <2> QED BY <1>1, <1>2, <2>1, <2>2 DEF WalletInv, WalletTypeOK, ChainSets
<1>7. \A d \in WalletChains : Writes(d)' => Writes(d)
  <2> SUFFICES ASSUME NEW d \in WalletChains, NEW s \in Clients,
                      request'[s].op \in {"add", "remove"}, request'[s].chain = d
               PROVE  request[s].op \in {"add", "remove"} /\ request[s].chain = d
    BY DEF Writes
  <2>1. s # r
    BY <1>4, QuietOK
  <2> QED BY <1>3, <1>4, <2>1
<1>8. ASSUME NEW s \in Clients, Writer(request'[s])
       PROVE  /\ s # r /\ Writer(request[s]) /\ request'[s].chain = request[s].chain
              /\ request'[s].sure = request[s].sure
  <2>1. request'[r].op = "none"
    BY <1>4, QuietOK
  <2>2. s # r
    BY <1>8, <2>1 DEF Writer
  <2>3. request'[s] = cut(s)
    BY <1>4, <2>2
  <2> QED BY <1>3, <1>8, <2>2, <2>3 DEF Writer
<1>9. c \notin kept
  BY <1>0, <1>1 DEF WalletInv, Writes
<1>10. c \in sure => ~Writes(c)'
  BY <1>0, <1>2, <1>8 DEF WalletInv, Alone, Writes, Writer
<1>11. Alone'
  BY <1>8 DEF WalletInv, Alone
<1>12. ASSUME NEW s \in Clients
       PROVE  /\ request'[s].step = "idle" => request'[s].op = "none"
              /\ AddFits(request'[s], directory', file') /\ ReadFits(request'[s], kept', gone')
  <2>1. CASE s = r
    BY <1>4, <2>1, QuietOK DEF AddFits, ReadFits, Writer
  <2>2. CASE s # r
    <3>1. /\ request[s].step = "idle" => request[s].op = "none"
          /\ AddFits(request[s], directory, file) /\ ReadFits(request[s], kept, gone)
      BY DEF WalletInv
    <3>2. request[s].op = "add" /\ request[s].chain \in request[s].sure => request[s].chain # c
      BY <1>0, <1>2, <2>2 DEF WalletInv, Alone, Writer
    <3>3. request[s].chain \in WalletChains
      BY DEF WalletInv, WalletTypeOK, Requests
    <3>4. AddFits(cut(s), directory, file')
      BY <1>3, <1>5, <3>1, <3>2, <3>3 DEF AddFits, Writer
    <3>5. ReadFits(cut(s), kept, gone')
      BY <1>1, <1>3, <3>1 DEF ReadFits
    <3> QED BY <1>1, <1>3, <1>4, <2>2, <3>1, <3>4, <3>5
  <2> QED BY <2>1, <2>2
<1>13. \A d \in kept : file'[d] = "whole" /\ d \in directory /\ ~Writes(d)'
  BY <1>5, <1>7, <1>9 DEF WalletInv, WalletTypeOK, ChainSets
<1>14. \A d \in gone' : file'[d] = "none" /\ ~Writes(d)'
  BY <1>1, <1>2, <1>5, <1>7, <1>10 DEF WalletInv, WalletTypeOK, ChainSets
<1> QED BY <1>1, <1>6, <1>11, <1>12, <1>13, <1>14 DEF WalletInv

LEMMA ListKeeps ==
  ASSUME WalletInv, NEW r \in Clients, BeginList(r) \/ ListChains(r) \/ ListFiles(r)
  PROVE  WalletInv'
<1>1. /\ request[r] \in Requests /\ ReadFits(request[r], kept, gone)
      /\ kept \in ChainSets /\ gone \in ChainSets /\ directory \in ChainSets
      /\ \A c \in kept : file[c] = "whole" /\ c \in directory
      /\ \A c \in gone : file[c] = "none"
  BY DEF WalletInv, WalletTypeOK
<1>2. CASE BeginList(r)
  <2> DEFINE q == [Quiet EXCEPT !.op = "list", !.chain = "ethereum", !.step = "directories",
                                !.sure = kept, !.never = gone]
  <2>1. request' = [request EXCEPT ![r] = q] /\ UNCHANGED <<directory, file, kept, gone>>
    BY <1>2 DEF BeginList, Asks
  <2>2. /\ q \in Requests /\ q.op = "list" /\ q.step = "directories" /\ q.found = {}
        /\ q.sure = kept /\ q.never = gone
    BY <1>1 DEF Requests, Quiet, ChainSets, WalletChains
  <2> HIDE DEF q
  <2>3. AddFits(q, directory', file) /\ ReadFits(q, kept, gone) /\ ~Writer(q)
    BY <2>2 DEF AddFits, ReadFits, Writer
  <2> QED BY <1>1, <2>1, <2>2, <2>3, OneRequestKeeps
<1>3. CASE ListChains(r)
  <2> DEFINE q == [request[r] EXCEPT !.step = "files", !.todo = directory]
  <2>1. /\ request' = [request EXCEPT ![r] = q] /\ UNCHANGED <<directory, file, kept, gone>>
        /\ request[r].op = "list" /\ request[r].step = "directories"
    <3>1. request' = [request EXCEPT ![r].step = "files", ![r].todo = directory]
      BY <1>3 DEF ListChains
    <3> QED BY <1>3, <3>1 DEF ListChains, At, WalletInv, WalletTypeOK
  <2>2. /\ q \in Requests /\ q.op = "list" /\ q.step = "files" /\ q.todo = directory
        /\ q.found = request[r].found /\ q.sure = request[r].sure /\ q.never = request[r].never
    BY <1>1, <2>1 DEF Requests, ChainSets
  <2> HIDE DEF q
  <2>3. AddFits(q, directory', file) /\ ReadFits(q, kept, gone) /\ ~Writer(q)
    BY <1>1, <2>1, <2>2 DEF AddFits, ReadFits, Writer
  <2> QED BY <1>1, <2>1, <2>2, <2>3, OneRequestKeeps
<1>4. CASE ListFiles(r)
  <2>1. PICK c \in request[r].todo :
          request' = [request EXCEPT ![r].todo = @ \ {c},
                                     ![r].found = IF file[c] = "none" THEN @ ELSE @ \cup {c}]
    BY <1>4 DEF ListFiles
  <2> DEFINE found == IF file[c] = "none" THEN request[r].found ELSE request[r].found \cup {c}
             q == [request[r] EXCEPT !.todo = @ \ {c}, !.found = found]
  <2>2. /\ request' = [request EXCEPT ![r] = q] /\ UNCHANGED <<directory, file, kept, gone>>
        /\ request[r].op = "list" /\ request[r].step = "files"
    BY <1>4, <2>1 DEF ListFiles, At, WalletInv, WalletTypeOK
  <2>3. /\ q \in Requests /\ q.op = "list" /\ q.step = "files" /\ q.todo = request[r].todo \ {c}
        /\ q.found = found
        /\ q.sure = request[r].sure /\ q.never = request[r].never
    <3>1. found \in ChainSets
      BY <1>1 DEF Requests, ChainSets
    <3> HIDE DEF found
    <3> QED BY <1>1, <2>2, <3>1 DEF Requests, ChainSets
  <2> HIDE DEF q
  <2>4. AddFits(q, directory', file) /\ ReadFits(q, kept, gone) /\ ~Writer(q)
    BY <1>1, <2>2, <2>3 DEF AddFits, ReadFits, Writer
  <2> QED BY <1>1, <2>2, <2>3, <2>4, OneRequestKeeps
<1> QED BY <1>2, <1>3, <1>4

LEMMA UseKeeps ==
  ASSUME WalletInv, NEW r \in Clients, BeginUse(r) \/ GetWallet(r) \/ Decrypt(r) \/ WalletAnswered(r)
  PROVE  WalletInv'
<1>1. /\ request[r] \in Requests /\ ReadFits(request[r], kept, gone)
      /\ kept \in ChainSets /\ gone \in ChainSets /\ directory \in ChainSets
      /\ \A c \in kept : file[c] = "whole"
  BY DEF WalletInv, WalletTypeOK
<1>2. CASE BeginUse(r)
  <2>1. PICK c \in WalletChains : Asks(r, "use", c, "read")
    BY <1>2 DEF BeginUse
  <2> DEFINE q == [Quiet EXCEPT !.op = "use", !.chain = c, !.step = "read",
                                !.sure = kept, !.never = gone]
  <2>2. request' = [request EXCEPT ![r] = q] /\ UNCHANGED <<directory, file, kept, gone>>
    BY <1>2, <2>1 DEF BeginUse, Asks
  <2>3. /\ q \in Requests /\ q.op = "use" /\ q.step = "read" /\ q.sure = kept /\ q.never = gone
    BY <1>1 DEF Requests, Quiet, ChainSets
  <2> HIDE DEF q
  <2>4. AddFits(q, directory', file) /\ ReadFits(q, kept, gone) /\ ~Writer(q)
    BY <2>3 DEF AddFits, ReadFits, Writer
  <2> QED BY <1>1, <2>2, <2>3, <2>4, OneRequestKeeps
<1>3. CASE GetWallet(r)
  <2>1. PICK step \in {"usable", "decrypt", "unusable"} :
          /\ request' = [request EXCEPT ![r].step = step]
          /\ step = "unusable" => file[request[r].chain] # "whole"
    BY <1>3, Zenon DEF GetWallet
  <2> DEFINE q == [request[r] EXCEPT !.step = step]
  <2>2. /\ request' = [request EXCEPT ![r] = q] /\ UNCHANGED <<directory, file, kept, gone>>
        /\ request[r].op = "use"
    BY <1>3, <2>1 DEF GetWallet, At
  <2>3. /\ q \in Requests /\ q.op = "use" /\ q.step = step /\ q.chain = request[r].chain
        /\ q.sure = request[r].sure /\ q.never = request[r].never
    BY <1>1, <2>2 DEF Requests
  <2> HIDE DEF q
  <2>4. AddFits(q, directory', file) /\ ReadFits(q, kept, gone) /\ ~Writer(q)
    BY <1>1, <2>1, <2>2, <2>3 DEF AddFits, ReadFits, Writer
  <2> QED BY <1>1, <2>2, <2>3, <2>4, OneRequestKeeps
<1>4. CASE Decrypt(r)
  <2> DEFINE q == [request[r] EXCEPT !.step = "usable"]
  <2>1. /\ request' = [request EXCEPT ![r] = q] /\ UNCHANGED <<directory, file, kept, gone>>
        /\ request[r].op = "use"
    BY <1>4 DEF Decrypt, At
  <2>2. /\ q \in Requests /\ q.op = "use" /\ q.step = "usable" /\ q.chain = request[r].chain
        /\ q.sure = request[r].sure /\ q.never = request[r].never
    BY <1>1, <2>1 DEF Requests
  <2> HIDE DEF q
  <2>3. AddFits(q, directory', file) /\ ReadFits(q, kept, gone) /\ ~Writer(q)
    BY <1>1, <2>1, <2>2 DEF AddFits, ReadFits, Writer
  <2> QED BY <1>1, <2>1, <2>2, <2>3, OneRequestKeeps
<1>5. CASE WalletAnswered(r)
  <2>1. request' = [request EXCEPT ![r] = Quiet] /\ UNCHANGED <<directory, file, kept, gone>>
    BY <1>5 DEF WalletAnswered
  <2>2. AddFits(Quiet, directory', file) /\ ReadFits(Quiet, kept, gone) /\ ~Writer(Quiet)
    BY QuietOK DEF AddFits, ReadFits, Writer
  <2> QED BY <1>1, <2>1, <2>2, QuietOK, OneRequestKeeps
<1> QED BY <1>2, <1>3, <1>4, <1>5

LEMMA WalletQuietOK ==
  ASSUME WalletTypeOK', \A r \in Clients : request'[r] = Quiet,
         \A c \in kept' : file'[c] = "whole" /\ c \in directory',
         \A c \in gone' : file'[c] = "none"
  PROVE  WalletInv'
<1>1. \A r \in Clients : AddFits(request'[r], directory', file') /\ ReadFits(request'[r], kept', gone')
  BY QuietOK DEF AddFits, ReadFits, Writer
<1>2. \A c : ~Writes(c)'
  BY QuietOK DEF Writes
<1> QED BY <1>1, <1>2, QuietOK DEF WalletInv, Alone, Writer

LEMMA WalletKeeps ==
  ASSUME WalletInv, WalletNext
  PROVE  WalletInv'
<1>1. ASSUME NEW r \in Clients, BeginAdd(r) \/ BeginRemove(r) PROVE WalletInv'
  BY <1>1, ChangesKeep DEF BeginAdd, BeginRemove
<1>2. CASE WalletCrash
  <2>1. request' = [r \in Clients |-> Quiet] /\ UNCHANGED <<directory, file, kept, gone>>
    BY <1>2 DEF WalletCrash
  <2> QED BY <2>1, QuietOK, WalletQuietOK DEF WalletInv, WalletTypeOK
<1> QED BY <1>1, <1>2, AddKeeps, OpenFileKeeps, AddedKeeps, RemoveWalletKeeps, ListKeeps, UseKeeps
        DEF WalletNext

LEMMA WalletInvariant == Spec => []WalletInv
<1>1. Init => WalletInv
  <2> SUFFICES ASSUME WalletInit PROVE WalletInv
    BY DEF Init
  <2>1. \A r \in Clients : request[r] = Quiet
    BY DEF WalletInit
  <2>2. WalletTypeOK
    BY QuietOK DEF WalletInit, WalletTypeOK, ChainSets
  <2>3. \A r \in Clients : AddFits(request[r], directory, file) /\ ReadFits(request[r], kept, gone)
    BY <2>1, QuietOK DEF AddFits, ReadFits, Writer
  <2> QED BY <2>1, <2>2, <2>3, QuietOK DEF WalletInit, WalletInv, Alone, Writer
<1>2. WalletInv /\ [Next]_stateVars => WalletInv'
  <2> SUFFICES ASSUME WalletInv, [Next]_stateVars PROVE WalletInv'
    OBVIOUS
  <2>1. CASE WalletNext
    BY <2>1, WalletKeeps
  <2>2. CASE UNCHANGED walletVars
    BY <2>2 DEF walletVars, WalletInv, WalletTypeOK, Alone, Writes
  <2> QED BY <2>1, <2>2 DEF Next, stateVars
<1> QED BY <1>1, <1>2, PTL DEF Spec

(* A wallet whose addition was acknowledged has its whole key on disk, and *)
(* nobody is refused its use, whatever requests and crashes there are,     *)
(* until its next add or remove begins: for any number of requests.        *)
THEOREM AddedWalletStays == Spec => []AddedWalletKept
<1>1. WalletInv => AddedWalletKept
  BY DEF WalletInv, AddedWalletKept, At, ReadFits
<1> QED BY <1>1, WalletInvariant, PTL

(* A list of wallets, read directory by directory while others are added   *)
(* and removed, has every wallet that was there all the time and none that *)
(* never was: for any number of requests at a time.                        *)
THEOREM WalletListIsRight == Spec => []ListIsRight
<1>1. WalletInv => ListIsRight
  BY DEF WalletInv, ListIsRight, Listed, At, ReadFits
<1> QED BY <1>1, WalletInvariant, PTL

-----------------------------------------------------------------------------
(* The configuration                                                       *)

Configurations(v) == [Settings(v) -> Good]

\* what was acknowledged is what c says
Says(c) == \A s \in DOMAIN acknowledged : s \in DOMAIN c /\ c[s] = acknowledged[s]

\* Until a write is cut short, the file says what was acknowledged whether or
\* not the process is up: a restart finds it there.
ConfigInv ==
  /\ version \in {1, 2} /\ damaged \in BOOLEAN
  /\ process \in {"down", "up", "refused"}
  /\ DOMAIN acknowledged \subseteq Settings(version)
  /\ acknowledged \in [DOMAIN acknowledged -> Good]
  /\ yaml \in Files(version) \cup {Missing, EmptyFile}
  /\ process = "up" => configuration \in Configurations(version) /\ Says(configuration)
  /\ process # "refused" /\ ~damaged =>
       \/ yaml \in Files(version) /\ Says(yaml)
       \/ yaml = Missing /\ process = "down" /\ DOMAIN acknowledged = {}

LEMMA FilesAre ==
  ASSUME NEW v, NEW f
  PROVE  f \in Files(v) <=> DOMAIN f \subseteq Settings(v) /\ f \in [DOMAIN f -> Values]
<1>1. f \in Files(v) <=> \E S \in SUBSET Settings(v) : f \in [S -> Values]
  BY DEF Files
<1> QED BY <1>1

LEMMA ConfigurationIsFile ==
  ASSUME NEW v, NEW c \in Configurations(v)
  PROVE  /\ c \in Files(v) /\ DOMAIN c = Settings(v)
         /\ Partial(c) \subseteq Files(v)
<1>1. c \in Files(v) /\ DOMAIN c = Settings(v)
  BY FilesAre DEF Configurations, Values
<1>2. ASSUME NEW S \in SUBSET DOMAIN c PROVE Restrict(c, S) \in Files(v)
  BY <1>1, FilesAre DEF Restrict, Configurations, Values
<1> QED BY <1>1, <1>2 DEF Partial

\* the validator passes the configurations, and no other file
LEMMA ValidatorOK ==
  ASSUME NEW c, c \in [DOMAIN c -> Values]
  PROVE  Validator(c) <=> c \in Configurations(version)
  BY DEF Validator, Configurations

\* the settings that count come through the merge with the template
LEMMA MergeOK ==
  ASSUME NEW v, NEW f \in Files(v)
  PROVE  LET m == DeepCopy(f, Template(v)) IN
         /\ m \in [DOMAIN m -> Values]
         /\ \A s \in DOMAIN f : f[s] \in Good => s \in DOMAIN m /\ m[s] = f[s]
<1>1. DOMAIN f \subseteq Settings(v) /\ f \in [DOMAIN f -> Values]
  BY FilesAre
<1>2. DOMAIN Template(v) = Settings(v) /\ \A s \in Settings(v) : Template(v)[s] = "template"
  BY DEF Template
<1> DEFINE m == DeepCopy(f, Template(v))
<1>3. DOMAIN m = Settings(v)
  BY <1>1, <1>2 DEF DeepCopy
<1>4. ASSUME NEW s \in Settings(v)
      PROVE  /\ m[s] \in Values
             /\ s \in DOMAIN f /\ f[s] \in Good => m[s] = f[s]
  <2>1. m[s] = IF s \in DOMAIN f /\ (s \notin DOMAIN Template(v) \/ f[s] # "alien" \/ IsFalsy(s))
               THEN f[s] ELSE Template(v)[s]
    BY <1>1, <1>2 DEF DeepCopy
  <2> QED BY <1>1, <1>2, <2>1 DEF Values, Good
<1>5. m = [s \in DOMAIN m |-> m[s]]
  BY DEF DeepCopy
<1> QED BY <1>1, <1>3, <1>4, <1>5

LEMMA SetOK ==
  ASSUME NEW s \in Settings(version), NEW v, configuration \in Configurations(version)
  PROVE  Set(s, v) = IF v \in Good THEN [configuration EXCEPT ![s] = v] ELSE configuration
  BY DEF Set, Validator, Configurations

LEMMA LoadKeeps ==
  ASSUME ConfigInv, LoadConfig
  PROVE  ConfigInv'
<1> DEFINE read == IF yaml = Missing THEN Template(version) ELSE yaml
           merged == DeepCopy(read, Template(version))
<1>1. /\ version' = version /\ damaged' = FALSE /\ process = "down"
      /\ acknowledged' = IF damaged THEN <<>> ELSE acknowledged
      /\ \/ process' = "refused" /\ yaml' = read
         \/ Validator(read) /\ read # EmptyFile /\ process' = "up" /\ configuration' = read /\ yaml' = read
         \/ Validator(merged) /\ read # EmptyFile /\ process' = "up" /\ configuration' = merged /\ yaml' = merged
  BY DEF LoadConfig, Refuse
<1>2. Template(version) \in Files(version)
  BY FilesAre DEF Template, Values, Good
<1>3. read \in Files(version) \cup {EmptyFile}
  BY <1>2 DEF ConfigInv
<1>4. acknowledged' \in [DOMAIN acknowledged' -> Good] /\ DOMAIN acknowledged' \subseteq DOMAIN acknowledged
      /\ \A s \in DOMAIN acknowledged' : ~damaged /\ acknowledged'[s] = acknowledged[s]
  BY <1>1 DEF ConfigInv
<1>5. \A s \in DOMAIN acknowledged' : s \in DOMAIN read /\ read[s] = acknowledged'[s] /\ read[s] \in Good
                                      /\ read \in Files(version)
  <2> SUFFICES ASSUME NEW s \in DOMAIN acknowledged'
               PROVE  s \in DOMAIN read /\ read[s] = acknowledged'[s] /\ read[s] \in Good /\ read \in Files(version)
    OBVIOUS
  <2>1. ~damaged /\ acknowledged'[s] = acknowledged[s] /\ acknowledged[s] \in Good /\ s \in DOMAIN acknowledged
    BY <1>4 DEF ConfigInv
  <2>2. yaml \in Files(version) /\ Says(yaml)
    BY <1>1, <2>1 DEF ConfigInv
  <2>3. read = yaml
    BY <2>2, ConfigAssumption DEF ConfigInv
  <2> QED BY <2>1, <2>2, <2>3 DEF Says
<1>6. CASE process' = "refused" /\ yaml' = read
  BY <1>1, <1>3, <1>4, <1>6 DEF ConfigInv
<1>7. CASE Validator(read) /\ read # EmptyFile /\ process' = "up" /\ configuration' = read /\ yaml' = read
  <2>1. read \in [DOMAIN read -> Values]
    BY <1>2, <1>3, <1>7, FilesAre
  <2>2. read \in Configurations(version)
    BY <2>1, <1>7, ValidatorOK
  <2> HIDE DEF read
  <2> QED BY <1>1, <1>4, <1>5, <1>7, <2>2, ConfigurationIsFile DEF ConfigInv, Says
<1>8. CASE Validator(merged) /\ read # EmptyFile /\ process' = "up" /\ configuration' = merged /\ yaml' = merged
  <2>1. read \in Files(version)
    BY <1>3, <1>8
  <2>2. merged \in Configurations(version)
    BY <2>1, MergeOK, ValidatorOK, <1>8
  <2>3. \A s \in DOMAIN acknowledged' : s \in DOMAIN merged /\ merged[s] = acknowledged'[s]
    BY <1>5, <2>1, MergeOK
  <2> HIDE DEF merged
  <2> QED BY <1>1, <1>4, <1>8, <2>2, <2>3, ConfigurationIsFile DEF ConfigInv, Says
<1> QED BY <1>1, <1>6, <1>7, <1>8

LEMMA LoadCutShortKeeps ==
  ASSUME ConfigInv, LoadCutShort
  PROVE  ConfigInv'
<1> DEFINE written == IF yaml = Missing THEN Template(version) ELSE DeepCopy(yaml, Template(version))
<1>1. /\ process = "down" /\ yaml # EmptyFile
      /\ yaml # Missing => Validator(written)
      /\ yaml' \in {EmptyFile, yaml} \cup Partial(written)
      /\ damaged' = (damaged \/ yaml' \notin {yaml, written})
      /\ UNCHANGED <<version, process, configuration, acknowledged>>
  BY DEF LoadCutShort
<1>2. written \in Configurations(version)
  <2>1. CASE yaml = Missing
    BY <2>1 DEF Template, Configurations, Good
  <2>2. CASE yaml # Missing
    BY <1>1, <2>2, MergeOK, ValidatorOK DEF ConfigInv
  <2> QED BY <2>1, <2>2
<1>3. ASSUME ~damaged, yaml # Missing
      PROVE  \A s \in DOMAIN acknowledged : s \in DOMAIN written /\ written[s] = acknowledged[s]
  <2>1. yaml \in Files(version) /\ Says(yaml)
    BY <1>1, <1>3 DEF ConfigInv
  <2> QED BY <1>3, <2>1, MergeOK DEF ConfigInv, Says
<1>4. ~damaged /\ yaml = Missing => DOMAIN acknowledged = {}
  BY <1>1, ConfigAssumption DEF ConfigInv
<1> HIDE DEF written
<1>5. written \in Files(version) /\ Partial(written) \subseteq Files(version)
  BY <1>2, ConfigurationIsFile
<1>6. ~damaged => Says(written)
  BY <1>3, <1>4 DEF Says
<1> QED BY <1>1, <1>5, <1>6 DEF ConfigInv, Says

LEMMA UpdateKeeps ==
  ASSUME ConfigInv, Update
  PROVE  ConfigInv'
<1>1. PICK s, v :
        /\ s \in Settings(version) /\ process = "up" /\ configuration' = Set(s, v)
        /\ IF v \in Good
           THEN /\ yaml' = Set(s, v) /\ damaged' = FALSE
                /\ acknowledged' = [t \in DOMAIN acknowledged \cup {s} |->
                                      IF t = s THEN v ELSE acknowledged[t]]
           ELSE UNCHANGED <<yaml, acknowledged, damaged>>
        /\ UNCHANGED <<version, process>>
  BY DEF Update, Updates, SaveConfig
<1>2. configuration \in Configurations(version) /\ Says(configuration)
  BY <1>1 DEF ConfigInv
<1>3. CASE v \in Good
  <2>1. configuration' = [configuration EXCEPT ![s] = v] /\ yaml' = configuration'
    BY <1>1, <1>2, <1>3, SetOK
  <2>2. configuration' \in Configurations(version)
    BY <1>2, <1>3, <2>1 DEF Configurations
  <2>3. /\ DOMAIN acknowledged' \subseteq Settings(version) /\ acknowledged' \in [DOMAIN acknowledged' -> Good]
        /\ \A t \in DOMAIN acknowledged' : t \in DOMAIN configuration' /\ configuration'[t] = acknowledged'[t]
    BY <1>1, <1>2, <1>3, <2>1 DEF ConfigInv, Says, Configurations
  <2> QED BY <1>1, <1>3, <2>1, <2>2, <2>3, ConfigurationIsFile DEF ConfigInv, Says
<1>4. CASE v \notin Good
  <2>1. UNCHANGED <<configuration, yaml, acknowledged, damaged, version, process>>
    BY <1>1, <1>2, <1>4, SetOK
  <2> QED BY <2>1 DEF ConfigInv, Says
<1> QED BY <1>3, <1>4

LEMMA UpdateCutShortKeeps ==
  ASSUME ConfigInv, UpdateCutShort
  PROVE  ConfigInv'
<1>1. PICK s \in Settings(version), v \in Good, rest \in {"ends", "up"} :
        /\ process = "up" /\ process' = (IF rest = "up" THEN "up" ELSE "down")
        /\ configuration' = IF rest = "up" THEN Set(s, v) ELSE Missing
        /\ yaml' \in {EmptyFile, yaml} \cup Partial(Set(s, v))
        /\ damaged' = (yaml' # Set(s, v) /\ (damaged \/ yaml' # yaml))
        /\ acknowledged' = Restrict(acknowledged, DOMAIN acknowledged \ {s})
        /\ UNCHANGED version
  BY DEF UpdateCutShort, Updates
<1> DEFINE c == Set(s, v)
<1>2. configuration \in Configurations(version) /\ Says(configuration)
  BY <1>1 DEF ConfigInv
<1>3. c = [configuration EXCEPT ![s] = v] /\ c \in Configurations(version)
  BY <1>2, SetOK DEF Configurations
<1>4. /\ DOMAIN acknowledged' = DOMAIN acknowledged \ {s} /\ acknowledged' \in [DOMAIN acknowledged' -> Good]
      /\ \A t \in DOMAIN acknowledged' : acknowledged'[t] = acknowledged[t]
  BY <1>1 DEF ConfigInv, Restrict
<1>5. \A t \in DOMAIN acknowledged' : t \in DOMAIN c /\ c[t] = acknowledged'[t]
  BY <1>2, <1>3, <1>4 DEF Says, Configurations
<1>6. yaml' \in Files(version) \cup {Missing, EmptyFile} /\ c \in Files(version)
  BY <1>1, <1>3, ConfigurationIsFile DEF ConfigInv
<1>7. ASSUME ~damaged' PROVE yaml' \in Files(version) /\ Says(yaml)'
  <2>1. CASE yaml' = c
    BY <1>5, <1>6, <2>1 DEF Says
  <2>2. CASE yaml' = yaml /\ ~damaged
    BY <1>1, <1>4, <2>2 DEF ConfigInv, Says
  <2> QED BY <1>1, <1>7, <2>1, <2>2, Zenon
<1>8. damaged' \in BOOLEAN
  BY <1>1
<1>9. process' = "up" => configuration' = c
  BY <1>1
<1> HIDE DEF c
<1>10. process' = "up" => configuration' \in Configurations(version') /\ Says(configuration)'
  BY <1>1, <1>3, <1>5, <1>9 DEF Says
<1>11. process' \in {"down", "up", "refused"} /\ version' = version
  BY <1>1
<1> QED BY <1>4, <1>6, <1>7, <1>8, <1>10, <1>11 DEF ConfigInv

LEMMA ConfigKeeps ==
  ASSUME ConfigInv, ConfigNext
  PROVE  ConfigInv'
<1>1. CASE Stop
  BY <1>1 DEF Stop, ConfigInv, Says
<1>2. CASE Upgrade
  <2>1. Settings(1) \subseteq Settings(2)
    BY DEF Settings, Kinds
  <2>2. Files(1) \subseteq Files(2)
    BY <2>1, FilesAre
  <2> QED BY <1>2, <2>1, <2>2 DEF Upgrade, ConfigInv, Says
<1>3. CASE EditByHand
  <2>1. PICK f \in Files(version) :
          /\ yaml' = f /\ acknowledged' = Restrict(f, InForce(f))
          /\ process' = (IF process = "up" THEN "up" ELSE "down")
          /\ damaged' = FALSE /\ UNCHANGED <<version, configuration>>
    BY <1>3 DEF EditByHand
  <2>2. DOMAIN f \subseteq Settings(version)
    BY FilesAre
  <2>3. /\ DOMAIN acknowledged' \subseteq DOMAIN f /\ acknowledged' \in [DOMAIN acknowledged' -> Good]
        /\ \A s \in DOMAIN acknowledged' :
             acknowledged'[s] = f[s] /\ (process = "up" => configuration[s] = f[s])
    BY <2>1 DEF Restrict, InForce
  <2>4. process = "up" => DOMAIN configuration = Settings(version)
    BY DEF ConfigInv, Configurations
  <2> QED BY <2>1, <2>2, <2>3, <2>4 DEF ConfigInv, Says
<1> QED BY <1>1, <1>2, <1>3, LoadKeeps, LoadCutShortKeeps, UpdateKeeps, UpdateCutShortKeeps DEF ConfigNext

LEMMA ConfigInvariant == Spec => []ConfigInv
<1>1. Init => ConfigInv
  <2> SUFFICES ASSUME Init PROVE ConfigInv
    OBVIOUS
  <2>1. DOMAIN acknowledged = {} /\ acknowledged \in [DOMAIN acknowledged -> Good]
    BY DEF Init, ConfigInit
  <2> QED BY <2>1 DEF Init, ConfigInit, ConfigInv
<1>2. ConfigInv /\ [Next]_stateVars => ConfigInv'
  <2> SUFFICES ASSUME ConfigInv, [Next]_stateVars PROVE ConfigInv'
    OBVIOUS
  <2>1. CASE ConfigNext
    BY <2>1, ConfigKeeps
  <2>2. CASE UNCHANGED configVars
    BY <2>2 DEF configVars, ConfigInv, Says
  <2> QED BY <2>1, <2>2 DEF Next, stateVars
<1> QED BY <1>1, <1>2, PTL DEF Spec

(* Settings that were acknowledged, or written by hand and good, are what  *)
(* the Gateway works with, through any sequence of updates, failed writes, *)
(* merges with the template, edits by hand, restarts and the upgrade.      *)
THEOREM AcknowledgedStays == Spec => []AcknowledgedKept
<1>1. ConfigInv => AcknowledgedKept
  BY DEF ConfigInv, Says, AcknowledgedKept
<1> QED BY <1>1, ConfigInvariant, PTL
=============================================================================
