---------------------------- MODULE SharedStorage ----------------------------
(***************************************************************************)
(* Shared objects with reference counts and the LevelDB store behind them: *)
(* refcounting-closeable.ts, local-storage.ts and evm.tx-storage.ts under  *)
(* gateway/src/services.  Chains own an EvmTxStorage, which owns the       *)
(* LocalStorage of the same path; NonceLocalStorage is built the same way. *)
(* An object is named by the chain whose request for the path created it,  *)
(* and that name is its handle too.                                        *)
(***************************************************************************)
EXTENDS Integers, FiniteSets

CONSTANTS Owners,   \* chain objects: each obtains the storage and closes it once
          None      \* nobody: also the object of a path that has none

ASSUME StorageAssumption == None \notin Owners

VARIABLES
  shared,     \* per class: the object of the path (_retrievalMap) and its owners (_refCounts)
  storage,    \* the EvmTxStorage an owner was given
  database,   \* the LocalStorage an EvmTxStorage was given
  stage,      \* how far an owner is: "new", "open", "wrapper", "database", "closed"
  level,      \* status of the Level database of a LocalStorage
  saving,     \* how far the owner's call of LocalStorage.save is: "no" when answered
  tangled     \* history: a path was asked for during a close, or reopened by a late save

storageVars == <<shared, storage, database, stage, level, saving, tangled>>

Classes == {"EvmTxStorage", "LocalStorage"}
Statuses == {"none", "opening", "open", "closing", "closed", "open to close"}
Unowned == [object |-> None, owners |-> {}]

StorageInit ==
  /\ shared = [k \in Classes |-> Unowned]
  /\ storage = [o \in Owners |-> None] /\ database = [o \in Owners |-> None]
  /\ stage = [o \in Owners |-> "new"] /\ level = [o \in Owners |-> "none"]
  /\ saving = [o \in Owners |-> "no"] /\ tangled = FALSE

\* the LocalStorage that an owner's calls go to
Database(o) == database[storage[o]]

\* mutant: the owner of an object that exists already is not counted
GetInstanceUncounted(entry, creator, owner) ==
  IF entry.object = None THEN [object |-> creator, owners |-> {owner}] ELSE entry

GetInstance(entry, creator, owner) ==
  IF entry.object = None THEN [object |-> creator, owners |-> {owner}]
  ELSE [entry EXCEPT !.owners = @ \cup {owner}]

\* ReferenceCountingCloseable.close: the entry is found by path, whatever object is closed
Release(entry, owner) ==
  IF entry.owners \subseteq {owner} THEN Unowned
  ELSE [entry EXCEPT !.owners = @ \ {owner}]

\* the constructor of a chain: getInstance and declareOwnership in one go
Obtain(o) ==
  /\ stage[o] = "new"
  /\ LET isNew == shared["EvmTxStorage"].object = None
         tx == GetInstance(shared["EvmTxStorage"], o, o)
         local == IF isNew THEN GetInstance(shared["LocalStorage"], o, o)
                  ELSE shared["LocalStorage"]
     IN  /\ shared' = [EvmTxStorage |-> tx, LocalStorage |-> local]
         /\ storage' = [storage EXCEPT ![o] = tx.object]
         /\ database' = [database EXCEPT ![o] = IF isNew THEN local.object ELSE None]
         /\ level' = IF local.object = o THEN [level EXCEPT ![o] = "opening"] ELSE level
  /\ stage' = [stage EXCEPT ![o] = "open"]
  /\ tangled' = (tangled \/ \E p \in Owners : stage[p] \in {"wrapper", "database"})
  /\ UNCHANGED saving

\* chain.close, and EvmTxStorage.close up to its first await
Close(o) ==
  /\ stage[o] = "open"
  /\ shared' = [shared EXCEPT !["EvmTxStorage"] = Release(@, o)]
  /\ stage' = [stage EXCEPT ![o] = "wrapper"]
  /\ UNCHANGED <<storage, database, level, saving, tangled>>

\* EvmTxStorage.close after super.close: refCount is that of the path now
CloseWrapper(o) ==
  /\ stage[o] = "wrapper"
  /\ IF shared["EvmTxStorage"].owners = {}
     THEN /\ stage' = [stage EXCEPT ![o] = "database"]
          /\ shared' = [shared EXCEPT !["LocalStorage"] = Release(@, storage[o])]
     ELSE stage' = [stage EXCEPT ![o] = "closed"] /\ UNCHANGED shared
  /\ UNCHANGED <<storage, database, level, saving, tangled>>

\* mutant: a database that is still being opened is not closed
CloseDatabaseIfOpen(o) ==
  /\ stage[o] = "database"
  /\ stage' = [stage EXCEPT ![o] = "closed"]
  /\ level' = IF shared["LocalStorage"].owners = {} /\ level[Database(o)] = "open"
              THEN [level EXCEPT ![Database(o)] = "closing"] ELSE level
  /\ UNCHANGED <<shared, storage, database, saving, tangled>>

\* LocalStorage.close after super.close: #db.close is started and not awaited
CloseDatabase(o) ==
  /\ stage[o] = "database"
  /\ stage' = [stage EXCEPT ![o] = "closed"]
  /\ level' = IF shared["LocalStorage"].owners # {} THEN level
              ELSE [level EXCEPT ![Database(o)] =
                      CASE @ = "open" -> "closing" [] @ = "opening" -> "open to close" [] OTHER -> @]
  /\ UNCHANGED <<shared, storage, database, saving, tangled>>

Locked == \E d \in Owners : level[d] \in {"open", "closing"}

\* Level: an open ends, with an error when another object has the path locked;
\* the calls that wait for it go on or fail
Opened(d) ==
  /\ level[d] \in {"opening", "open to close"}
  /\ level' = [level EXCEPT ![d] = IF Locked THEN "closed"
                                   ELSE IF @ = "opening" THEN "open" ELSE "closing"]
  /\ saving' = [o \in Owners |->
       IF saving[o] \notin {"opens", "waits"} \/ Database(o) # d THEN saving[o]
       ELSE IF Locked THEN "no" ELSE IF saving[o] = "opens" THEN "asserts" ELSE "puts"]
  /\ UNCHANGED <<shared, storage, database, stage, tangled>>

Closed(d) ==
  /\ level[d] = "closing" /\ level' = [level EXCEPT ![d] = "closed"]
  /\ UNCHANGED <<shared, storage, database, stage, saving, tangled>>

Save(o) ==
  /\ stage[o] = "open" /\ saving[o] = "no"
  /\ saving' = [saving EXCEPT ![o] = "asserts"]
  /\ UNCHANGED <<shared, storage, database, stage, level, tangled>>

\* assertDbOpen: in "closing" it looks again a second later
AssertDbOpen(o) ==
  /\ saving[o] = "asserts"
  /\ LET status == level[Database(o)]
         reopens == status = "closed"
     IN  /\ status # "closing"
         /\ saving' = [saving EXCEPT ![o] =
              IF status = "open" THEN "puts" ELSE IF reopens THEN "opens" ELSE "waits"]
         /\ level' = IF reopens THEN [level EXCEPT ![Database(o)] = "opening"] ELSE level
         /\ tangled' = (tangled \/ (reopens /\ stage[o] # "open"))
  /\ UNCHANGED <<shared, storage, database, stage>>

\* a put is made or, when the database is no longer open, fails
Put(o) ==
  /\ saving[o] = "puts" /\ saving' = [saving EXCEPT ![o] = "no"]
  /\ UNCHANGED <<shared, storage, database, stage, level, tangled>>

StorageNext == \E o \in Owners :
  \/ Obtain(o) \/ Close(o) \/ CloseWrapper(o) \/ CloseDatabase(o)
  \/ Opened(o) \/ Closed(o) \/ Save(o) \/ AssertDbOpen(o) \/ Put(o)

-----------------------------------------------------------------------------
StorageTypeOK ==
  /\ \A k \in Classes : /\ shared[k].object \in Owners \cup {None}
                        /\ shared[k].owners \subseteq Owners
                        /\ shared[k].object = None <=> shared[k].owners = {}
  /\ storage \in [Owners -> Owners \cup {None}] /\ database \in [Owners -> Owners \cup {None}]
  /\ stage \in [Owners -> {"new", "open", "wrapper", "database", "closed"}]
  /\ level \in [Owners -> Statuses] /\ tangled \in BOOLEAN
  /\ saving \in [Owners -> {"no", "asserts", "opens", "waits", "puts"}]

(* No close of another owner, at whatever moment, closes the database      *)
(* under an owner that has not closed it: "shared instances would not be   *)
(* closed prematurely".                                                    *)
OwnedStaysOpen ==
  \A o \in Owners : stage[o] = "open" => level[Database(o)] \notin {"closing", "open to close"}

(* Only a database that is owned is open or being opened, and every owner  *)
(* of the path has that one: when the last owner has closed, it is closed  *)
(* too, and an owner never waits for a lock that stays.  The exception:    *)
(* somebody asked for the path during a close, or saved late.              *)
OpenIsOwned ==
  ~tangled => \A d \in Owners : level[d] \in {"opening", "open"} =>
    /\ \E o \in Owners : stage[o] \notin {"new", "closed"} /\ Database(o) = d
    /\ \A o \in Owners : stage[o] = "open" => Database(o) = d
=============================================================================
