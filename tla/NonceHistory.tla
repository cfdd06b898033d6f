---------------------------- MODULE NonceHistory ----------------------------
(***************************************************************************)
(* EVMNonceManager with what its clients were told and when: the history   *)
(* needed to state what the manager promises to requests that do not       *)
(* overlap (its runs have one request slot, with restarts in between).     *)
(***************************************************************************)
EXTENDS EVMNonceManager

VARIABLES
  acked,   \* transactions reported as sent: nonce and expiry of its localNonceTTL
  asOf,    \* for a request that found everything expired, the count it arrived at
  unsaved  \* entries whose write LevelDB rejected and that differ from it since

historyVars == <<vars, acked, asOf, unsaved>>

Entries == [leading |-> leading, pending |-> pending]

\* the entry a LevelDB write is of
Written(s) == IF req[s].pc \in {"mergeSave", "commit", "nodeSave"} THEN "leading" ELSE "pending"

Expired ==
  /\ leading # None /\ leading.expiry <= now
  /\ pending # None => \A n \in DOMAIN pending : pending[n] <= now

HistoryInit == Init /\ acked = {} /\ asOf = [r \in Requests |-> None] /\ unsaved = {}

HistoryNext ==
  /\ Next
  /\ acked' = {a \in acked : a.expiry > now'} \cup
              {req[r].leadSave : r \in {q \in Requests : req[q].pc = "commit" /\ Returns(q)}}
  /\ asOf' = [r \in Requests |->
                IF req'[r].pc = "idle" THEN None
                ELSE IF req[r].pc = "idle" /\ Expired THEN mined
                ELSE asOf[r]]
  /\ unsaved' = {e \in unsaved \cup {Written(s) : s \in {t \in Slots : SaveFails(t)}} :
                    Entries'[e] # db'[e]}

HistorySpec == HistoryInit /\ [][HistoryNext]_historyVars

(* Once provideNonce has reported a transaction as sent, its nonce is not  *)
(* given out again before localNonceTTL has passed, restarts included.     *)
(* This holds because commitNonce refuses to move the leading nonce back   *)
(* when a past nonce is sent again (PastNonceResets).                      *)
NoEarlyReuse ==
  \A r \in Requests : req[r].pc = "reserve" => \A a \in acked : a.nonce # req[r].nonce

(* A request that finds every cached nonce expired gets the node's nonce:  *)
(* "after that, nonce values from the EVM node will be used again".        *)
ExpiredCacheForgotten ==
  \A r \in Requests :
    req[r].pc = "reserve" /\ asOf[r] # None => req[r].nonce \in asOf[r] .. mined

(* With no write under way, memory and LevelDB differ only in an entry     *)
(* whose write LevelDB rejected and that was not written since: every      *)
(* other change of the leading nonce or of the pending array survives a    *)
(* restart.                                                                *)
DurableAtRest ==
  mode = "ready" /\ (\A s \in Slots : req[s].pc = "idle" \/ req[s].pc \in {"send", "sent"})
    => \A e \in {"leading", "pending"} : db[e] = Entries[e] \/ e \in unsaved
=============================================================================
