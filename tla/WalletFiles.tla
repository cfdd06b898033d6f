----------------------------- MODULE WalletFiles -----------------------------
(***************************************************************************)
(* The key files of the wallets under conf/wallets, one directory per      *)
(* chain (gateway/src/services/wallet/wallet.controllers.ts), and the two  *)
(* ways to use them: getWallet of EthereumBase reads the file each time,   *)
(* getKeypair of Solana remembers the key.  One address per chain; every   *)
(* await lets the other requests go on.                                    *)
(***************************************************************************)
EXTENDS Integers, FiniteSets

CONSTANTS Clients   \* requests at a time

VARIABLES
  directory,   \* the chains that have a directory
  file,        \* per chain: "none", "part" (opened for writing) or "whole"
  keypair,     \* Solana holds the decrypted key
  request,     \* what each client has asked for
  kept,        \* history: chains whose wallet was added, with nothing since
  gone         \* history: chains whose wallet was removed, with nothing since

walletVars == <<directory, file, keypair, request, kept, gone>>

WalletChains == {"ethereum", "solana"}
Quiet == [op |-> "none", chain |-> "ethereum", step |-> "idle", todo |-> {}, found |-> {},
          sure |-> {}, never |-> {}]

WalletInit ==
  /\ directory = {} /\ file = [c \in WalletChains |-> "none"] /\ keypair = FALSE
  /\ request = [r \in Clients |-> Quiet] /\ kept = {} /\ gone = {}

Asks(r, op, chain, step) ==
  request' = [request EXCEPT ![r] = [Quiet EXCEPT !.op = op, !.chain = chain, !.step = step,
                                     !.sure = kept, !.never = gone]]

At(r, op, step) == request[r].op = op /\ request[r].step = step

Writes(c) == \E s \in Clients : request[s].op \in {"add", "remove"} /\ request[s].chain = c

\* a new add or remove of a chain's wallet: nothing that was known of the wallet is
\* sure any more, and the outcome is sure if no other add or remove is under way
Changes(r, op, chain, step) ==
  /\ kept' = kept \ {chain} /\ gone' = gone \ {chain}
  /\ request' = [s \in Clients |->
       IF s = r THEN [Quiet EXCEPT !.op = op, !.chain = chain, !.step = step,
                                   !.sure = IF Writes(chain) THEN {} ELSE {chain}]
       ELSE [request[s] EXCEPT !.sure = @ \ {chain}, !.never = @ \ {chain}]]

BeginAdd(r) ==
  /\ request[r].step = "idle"
  /\ \E c \in WalletChains : Changes(r, "add", c, "encrypt")
  /\ UNCHANGED <<directory, file, keypair>>

\* the chain cannot be initialised or the key is refused
AddRefused(r) ==
  /\ At(r, "add", "encrypt") /\ request' = [request EXCEPT ![r] = Quiet]
  /\ UNCHANGED <<directory, file, keypair, kept, gone>>

\* mkdirIfDoesNotExist with recursive
MakeDirectory(r) ==
  /\ At(r, "add", "encrypt")
  /\ directory' = directory \cup {request[r].chain}
  /\ request' = [request EXCEPT ![r].step = "open"]
  /\ UNCHANGED <<file, keypair, kept, gone>>

\* fse.writeFile empties the file, then writes: to an unlinked file if it is removed meanwhile
OpenFile(r) ==
  /\ At(r, "add", "open")
  /\ file' = [file EXCEPT ![request[r].chain] = "part"]
  /\ request' = [request EXCEPT ![r].step = "write"]
  /\ UNCHANGED <<directory, keypair, kept, gone>>

\* mutant: writeFile is not awaited
AddUnawaited(r) ==
  /\ At(r, "add", "write")
  /\ kept' = kept \cup request[r].sure
  /\ request' = [request EXCEPT ![r] = Quiet]
  /\ UNCHANGED <<directory, file, keypair, gone>>

Added(r) ==
  /\ At(r, "add", "write") \/ At(r, "add", "write unlinked")
  /\ file' = IF request[r].step = "write" THEN [file EXCEPT ![request[r].chain] = "whole"] ELSE file
  /\ kept' = kept \cup request[r].sure
  /\ request' = [request EXCEPT ![r] = Quiet]
  /\ UNCHANGED <<directory, keypair, gone>>

BeginRemove(r) ==
  /\ request[r].step = "idle"
  /\ \E c \in WalletChains : Changes(r, "remove", c, "unlink")
  /\ UNCHANGED <<directory, file, keypair>>

\* fse.rm with force: no error without the file
RemoveWallet(r) ==
  /\ At(r, "remove", "unlink")
  /\ LET c == request[r].chain
     IN  /\ file' = [file EXCEPT ![c] = "none"]
         /\ gone' = gone \cup request[r].sure
         /\ request' = [s \in Clients |->
              IF s = r THEN Quiet
              ELSE IF At(s, "add", "write") /\ request[s].chain = c
              THEN [request[s] EXCEPT !.step = "write unlinked"] ELSE request[s]]
  /\ UNCHANGED <<directory, keypair, kept>>

BeginList(r) ==
  /\ request[r].step = "idle" /\ Asks(r, "list", "ethereum", "directories")
  /\ UNCHANGED <<directory, file, keypair, kept, gone>>

\* getDirectories
ListChains(r) ==
  /\ At(r, "list", "directories")
  /\ request' = [request EXCEPT ![r].step = "files", ![r].todo = directory]
  /\ UNCHANGED <<directory, file, keypair, kept, gone>>

\* mutant: one empty directory ends the list
ListFilesUntilEmpty(r) ==
  /\ At(r, "list", "files") /\ request[r].todo # {}
  /\ \E c \in request[r].todo :
       request' = [request EXCEPT ![r].todo = IF file[c] = "none" THEN {} ELSE @ \ {c},
                                  ![r].found = IF file[c] = "none" THEN @ ELSE @ \cup {c}]
  /\ UNCHANGED <<directory, file, keypair, kept, gone>>

\* getJsonFiles of the next chain: a file that is being written is listed too
ListFiles(r) ==
  /\ At(r, "list", "files") /\ request[r].todo # {}
  /\ \E c \in request[r].todo :
       request' = [request EXCEPT ![r].todo = @ \ {c},
                                  ![r].found = IF file[c] = "none" THEN @ ELSE @ \cup {c}]
  /\ UNCHANGED <<directory, file, keypair, kept, gone>>

Listed(r) == At(r, "list", "files") /\ request[r].todo = {}

BeginUse(r) ==
  /\ request[r].step = "idle"
  /\ \E c \in WalletChains : Asks(r, "use", c, "read")
  /\ UNCHANGED <<directory, file, keypair, kept, gone>>

\* getWallet, getKeypair: a missing or unfinished file is an error
GetWallet(r) ==
  /\ At(r, "use", "read")
  /\ LET c == request[r].chain
     IN  request' = [request EXCEPT ![r].step =
           IF c = "solana" /\ keypair THEN "usable"
           ELSE IF file[c] = "whole" THEN "decrypt" ELSE "unusable"]
  /\ UNCHANGED <<directory, file, keypair, kept, gone>>

Decrypt(r) ==
  /\ At(r, "use", "decrypt")
  /\ request' = [request EXCEPT ![r].step = "usable"]
  /\ keypair' = (keypair \/ request[r].chain = "solana")
  /\ UNCHANGED <<directory, file, kept, gone>>

WalletAnswered(r) ==
  /\ Listed(r) \/ At(r, "use", "usable") \/ At(r, "use", "unusable")
  /\ request' = [request EXCEPT ![r] = Quiet]
  /\ UNCHANGED <<directory, file, keypair, kept, gone>>

\* the Gateway ends and starts again: the files stay as they are
WalletCrash ==
  /\ request' = [r \in Clients |-> Quiet] /\ keypair' = FALSE
  /\ UNCHANGED <<directory, file, kept, gone>>

WalletNext ==
  \/ \E r \in Clients :
       \/ BeginAdd(r) \/ AddRefused(r) \/ MakeDirectory(r) \/ OpenFile(r) \/ Added(r)
       \/ BeginRemove(r) \/ RemoveWallet(r) \/ BeginList(r) \/ ListChains(r) \/ ListFiles(r)
       \/ BeginUse(r) \/ GetWallet(r) \/ Decrypt(r) \/ WalletAnswered(r)
  \/ WalletCrash

-----------------------------------------------------------------------------
(* A wallet whose addition was acknowledged has its whole key on disk and  *)
(* can be used, through crashes, until its next add or remove begins.      *)
AddedWalletKept ==
  \A c \in kept : /\ file[c] = "whole"
                  /\ \A r \in Clients : At(r, "use", "unusable") /\ request[r].chain = c
                                          => c \notin request[r].sure

(* The list of wallets, put together over several reads, has every wallet  *)
(* that was there all the time and none that was not there at any time.    *)
ListIsRight ==
  \A r \in Clients : Listed(r) =>
    /\ request[r].sure \subseteq request[r].found
    /\ request[r].never \cap request[r].found = {}
=============================================================================
