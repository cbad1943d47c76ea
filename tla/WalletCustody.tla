---------------------------- MODULE WalletCustody ----------------------------
(***************************************************************************)
(* Custody of the in-app wallets: creation, revocation, sign-in and the    *)
(* readers of src/src/user and src/src/vault, over three stores:           *)
(*                                                                         *)
(*   Redis    <name>                       public key, encrypted key       *)
(*   Vault    secret/data/wallets/<name>   the AES key and iv              *)
(*   MongoDB  the User document of the address, and the BackUp documents   *)
(*                                                                         *)
(* A request is one HTTP call, or the call for a private key that an       *)
(* action makes before it signs.  Each step of a request is what it does     *)
(* between two awaits; the steps of different requests interleave.  Every  *)
(* call to a store may fail, a process crash may end all the requests, and *)
(* the number of such faults is bounded by MaxFaults.                      *)
(*                                                                         *)
(* A wallet is identified by the request that generates its key pair, or   *)
(* by the name it belonged to from the start; its record in Redis and its  *)
(* key in Vault match when both are of the same wallet.                    *)
(***************************************************************************)
EXTENDS Naturals, FiniteSets

CONSTANTS
    Reqs,       \* the requests of a behaviour
    Names,      \* the names (addresses) wallets are created for
    Ops,        \* the endpoints that are called
    Serial,     \* TRUE: no two requests for one name are under way together
    MaxFaults,  \* bound on failed calls and crashes
    None,       \* nothing is stored
    Garbage,    \* a Redis value that is not a wallet record
    Unset,      \* a User document without inAppAddress
    Blank,      \* inAppAddress: ''
    NoUser      \* no User document

Readers == {"getKey", "getAddress"}

AllOps == {"createNew", "webhook", "revoke", "deleteSecret", "signIn"} \cup Readers

Wallets == Reqs \cup Names

Stores == {"vault", "redis", "mongo"}

\* A User document: the fields that custody reads and writes.  The default of
\* status is the empty string; gone holds the
\* stores whose ...Deleted flag is true.
Docs == [addr : Wallets \cup {Unset, Blank},
         status : {"default", "pending_deletion", "deleted"},
         gone : SUBSET Stores]

ASSUME ConstantsAssumption ==
    /\ Ops \subseteq AllOps
    /\ Serial \in BOOLEAN
    /\ MaxFaults \in Nat
    /\ Reqs \cap Names = {}
    /\ {None, Garbage, Unset, Blank, NoUser} \cap Wallets = {}
    /\ None # Garbage
    /\ Unset # Blank
    /\ None \notin Names
    /\ NoUser \notin Docs

VARIABLES
    pc,          \* the step each request is at
    op, name,    \* the endpoint it calls, and for which name
    result,      \* what it answered
    redisWrite,  \* the Redis write of a creation, which runs beside ...
    mongoWrite,  \* ... its MongoDB write
    vaultWrite,  \* its Vault write, which comes after both
    held,        \* the wallet whose key a deletion, or whose record a reader,
                 \* has read
    todo,        \* the restores a failed revocation still awaits
    swallowed,   \* the requests whose deletion in Vault has met a fault
    redis, vault,\* the stores, by name
    stray,       \* Vault outside wallets/: secret/data/<name>
    backup,      \* the newest BackUp document of the name
    users,       \* the committed User documents
    owner,       \* the request whose transaction holds the document
    draft,       \* the document as that transaction has written it
    faults

writes  == <<redisWrite, mongoWrite, vaultWrite>>
reqVars == <<pc, op, name, result, writes, held, todo, swallowed>>
kvVars  == <<redis, vault, stray, backup>>
docVars == <<users, owner, draft>>
vars    == <<reqVars, kvVars, docVars, faults>>

Labels ==
    {"new", "done", "dead",
     "preCheck", "check", "issue", "awaitRedis", "awaitMongo", "verify",
     "storeVault", "awaitVault",
     "mark", "readVault", "backUp", "deleteVault", "flagVault",
     "deleteRedis", "flagRedis", "final", "commit", "restoring",
     "find", "insert", "readAddress", "readRecord", "readKey"}

Results == {"none", "success", "refused", "failed", "restored", "noUser"}

WriteStates == {"idle", "sent", "landed", "failed"}

TypeOK ==
    /\ pc \in [Reqs -> Labels]
    /\ op \in [Reqs -> AllOps \cup {None}]
    /\ name \in [Reqs -> Names \cup {None}]
    /\ result \in [Reqs -> Results]
    /\ redisWrite \in [Reqs -> WriteStates]
    /\ mongoWrite \in [Reqs -> WriteStates]
    /\ vaultWrite \in [Reqs -> WriteStates]
    /\ held \in [Reqs -> Wallets \cup {None}]
    /\ todo \in [Reqs -> SUBSET {"vault", "redis"}]
    /\ swallowed \subseteq Reqs
    /\ redis \in [Names -> Wallets \cup {None, Garbage}]
    /\ vault \in [Names -> Wallets \cup {None}]
    /\ stray \in [Names -> Wallets \cup {None}]
    /\ backup \in [Names -> Wallets \cup {None}]
    /\ users \in [Names -> Docs \cup {NoUser}]
    /\ owner \in [Names -> Reqs \cup {None}]
    /\ draft \in [Names -> Docs \cup {NoUser}]
    /\ faults \in 0..MaxFaults
    /\ \A r \in Reqs : pc[r] # "new" => name[r] \in Names /\ op[r] \in AllOps

-----------------------------------------------------------------------------
(* The initial states: names with and without an account, with and without *)
(* a wallet from before.  inAppAddress has a unique index that also counts  *)
(* a missing field, so at most one document is without it.                  *)

NewDoc(a) == [addr |-> a, status |-> "default", gone |-> {}]

Init ==
    /\ pc = [r \in Reqs |-> "new"]
    /\ op = [r \in Reqs |-> None]
    /\ name = [r \in Reqs |-> None]
    /\ result = [r \in Reqs |-> "none"]
    /\ redisWrite = [r \in Reqs |-> "idle"]
    /\ mongoWrite = [r \in Reqs |-> "idle"]
    /\ vaultWrite = [r \in Reqs |-> "idle"]
    /\ held = [r \in Reqs |-> None]
    /\ todo = [r \in Reqs |-> {}]
    /\ swallowed = {}
    /\ \E owned \in SUBSET Names, accounts \in SUBSET Names :
          /\ redis = [n \in Names |-> IF n \in owned THEN n ELSE None]
          /\ vault = redis
          /\ users = [n \in Names |->
                        IF n \notin accounts THEN NoUser
                        ELSE NewDoc(IF n \in owned THEN n ELSE Unset)]
          /\ \A m, n \in accounts \ owned : m = n
    /\ stray = [n \in Names |-> None]
    /\ backup = [n \in Names |-> None]
    /\ owner = [n \in Names |-> None]
    /\ draft = [n \in Names |-> NoUser]
    /\ faults = 0

-----------------------------------------------------------------------------
(* Steps of a request.                                                      *)

Goto(r, label) == pc' = [pc EXCEPT ![r] = label]

Answer(r, res) ==
    /\ pc' = [pc EXCEPT ![r] = "done"]
    /\ result' = [result EXCEPT ![r] = res]

\* A call to a store goes through, or a fault hits it.
Works == faults' = faults
Fails == faults < MaxFaults /\ faults' = faults + 1

\* The writes a creation has sent may outlive it.
InFlight(r) ==
    \/ pc[r] \notin {"new", "done", "dead"}
    \/ redisWrite[r] = "sent"
    \/ mongoWrite[r] = "sent"
    \/ vaultWrite[r] = "sent"

Quiet(n) == \A r \in Reqs : name[r] = n => ~InFlight(r)

FirstStep ==
    [createNew |-> "preCheck", webhook |-> "check", revoke |-> "mark",
     deleteSecret |-> "readVault", signIn |-> "find",
     getKey |-> "readRecord", getAddress |-> "readAddress"]

Begin(r) ==
    /\ pc[r] = "new"
    /\ \E o \in Ops, n \in Names :
          /\ Serial => Quiet(n)
          /\ op' = [op EXCEPT ![r] = o]
          /\ name' = [name EXCEPT ![r] = n]
          /\ pc' = [pc EXCEPT ![r] = FirstStep[o]]
    /\ UNCHANGED <<result, writes, held, todo, swallowed, kvVars, docVars,
                   faults>>

-----------------------------------------------------------------------------
(* Creation: createNewWallet and storeWalletKey.                            *)

\* (mutant) Vault, not Redis, decides.
VaultDecides(n) == vault[n] # None

\* Only Redis decides whether a wallet exists: checkWalletExists reads Vault
\* too and ignores what it finds.
WalletExists(n) == redis[n] # None

\* The two checks, which differ in where they go on: the controller's own and
\* the first step of storeWalletKey.
CheckExists(r, here, onward) ==
    /\ pc[r] = here
    /\ \/ Works /\ WalletExists(name[r]) /\ Answer(r, "refused")
       \/ Works /\ ~WalletExists(name[r]) /\ Goto(r, onward) /\ UNCHANGED result
       \/ Fails /\ Answer(r, "failed")
    /\ UNCHANGED <<op, name, writes, held, todo, swallowed, kvVars, docVars>>

PreCheck(r) == CheckExists(r, "preCheck", "check")
Check(r) == CheckExists(r, "check", "issue")

\* (mutant) The key is given to Vault first, beside the other two writes.
IssueKeyFirst(r) ==
    /\ pc[r] = "issue"
    /\ Goto(r, "awaitRedis")
    /\ redisWrite' = [redisWrite EXCEPT ![r] = "sent"]
    /\ mongoWrite' = [mongoWrite EXCEPT ![r] = "sent"]
    /\ vaultWrite' = [vaultWrite EXCEPT ![r] = "sent"]
    /\ UNCHANGED <<op, name, result, held, todo, swallowed, kvVars, docVars,
                   faults>>

\* Generate the key pair and start both writes without awaiting either.
Issue(r) ==
    /\ pc[r] = "issue"
    /\ Goto(r, "awaitRedis")
    /\ redisWrite' = [redisWrite EXCEPT ![r] = "sent"]
    /\ mongoWrite' = [mongoWrite EXCEPT ![r] = "sent"]
    /\ UNCHANGED <<op, name, result, vaultWrite, held, todo, swallowed, kvVars,
                   docVars, faults>>

\* A call still outstanding when the process died is lost for free.
Loses(r) == IF pc[r] = "dead" THEN Works ELSE Fails

RedisLands(r) ==
    /\ redisWrite[r] = "sent"
    /\ \/ /\ Works
          /\ redis' = [redis EXCEPT ![name[r]] = r]
          /\ redisWrite' = [redisWrite EXCEPT ![r] = "landed"]
       \/ /\ Loses(r)
          /\ redis' \in {redis, [redis EXCEPT ![name[r]] = r]}
          /\ redisWrite' = [redisWrite EXCEPT ![r] = "failed"]
    /\ UNCHANGED <<pc, op, name, result, mongoWrite, vaultWrite, held, todo,
                   swallowed, vault, stray, backup, docVars>>

WithAddress(d, a) == [d EXCEPT !.addr = a]

\* setUserInAppWallet: no error when there is no such user.  A write outside
\* a transaction waits for the one that holds the document.
SetInAppWallet(n, a) ==
    IF users[n] = NoUser THEN users
    ELSE [users EXCEPT ![n] = WithAddress(users[n], a)]

MongoLands(r) ==
    /\ mongoWrite[r] = "sent"
    /\ owner[name[r]] = None
    /\ Works
    /\ users' = SetInAppWallet(name[r], r)
    /\ mongoWrite' = [mongoWrite EXCEPT ![r] = "landed"]
    /\ UNCHANGED <<pc, op, name, result, redisWrite, vaultWrite, held, todo,
                   swallowed, kvVars, owner, draft>>

\* The process ends: no request survives, and neither does an open
\* transaction.  Writes that were sent may still arrive.
Die ==
    /\ pc' = [r \in Reqs |-> IF pc[r] \in {"new", "done"} THEN pc[r] ELSE "dead"]
    /\ held' = [r \in Reqs |-> None]
    /\ todo' = [r \in Reqs |-> {}]
    /\ owner' = [n \in Names |-> None]
    /\ draft' = [n \in Names |-> NoUser]

\* A rejected MongoDB write is caught only once the request awaits it.  Before
\* that, and after a failed Redis write has ended the request, the rejection
\* is unhandled and Node ends the process.
MongoFails(r) ==
    /\ mongoWrite[r] = "sent"
    /\ Loses(r)
    /\ mongoWrite' = [mongoWrite EXCEPT ![r] = "failed"]
    /\ IF pc[r] \in {"awaitMongo", "dead"}
       THEN UNCHANGED <<pc, held, todo, owner, draft>>
       ELSE Die
    /\ UNCHANGED <<op, name, result, redisWrite, vaultWrite, swallowed,
                   kvVars, users>>

\* (mutant) redisPromise is not awaited.
AwaitRedisSkipped(r) ==
    /\ pc[r] = "awaitRedis"
    /\ Goto(r, "awaitMongo")
    /\ UNCHANGED <<op, name, result, writes, held, todo, swallowed, kvVars,
                   docVars, faults>>

AwaitRedis(r) ==
    /\ pc[r] = "awaitRedis"
    /\ \/ redisWrite[r] = "landed" /\ Goto(r, "awaitMongo") /\ UNCHANGED result
       \/ redisWrite[r] = "failed" /\ Answer(r, "failed")
    /\ UNCHANGED <<op, name, writes, held, todo, swallowed, kvVars, docVars,
                   faults>>

\* (mutant) mongoPromise is not awaited.
AwaitMongoSkipped(r) ==
    /\ pc[r] = "awaitMongo"
    /\ Goto(r, "verify")
    /\ UNCHANGED <<op, name, result, writes, held, todo, swallowed, kvVars,
                   docVars, faults>>

AwaitMongo(r) ==
    /\ pc[r] = "awaitMongo"
    /\ \/ mongoWrite[r] = "landed" /\ Goto(r, "verify") /\ UNCHANGED result
       \/ mongoWrite[r] = "failed" /\ Answer(r, "failed")
    /\ UNCHANGED <<op, name, writes, held, todo, swallowed, kvVars, docVars,
                   faults>>

\* The verification asks for any value under the name, not for this wallet.
Verify(r) ==
    /\ pc[r] = "verify"
    /\ \/ Works /\ WalletExists(name[r]) /\ Goto(r, "storeVault") /\ UNCHANGED result
       \/ Works /\ ~WalletExists(name[r]) /\ Answer(r, "failed")
       \/ Fails /\ Answer(r, "failed")
    /\ UNCHANGED <<op, name, writes, held, todo, swallowed, kvVars, docVars>>

\* The key is sent to Vault once the record has been found in Redis.
StoreVault(r) ==
    /\ pc[r] = "storeVault"
    /\ Goto(r, "awaitVault")
    /\ vaultWrite' = [vaultWrite EXCEPT ![r] = "sent"]
    /\ UNCHANGED <<op, name, result, redisWrite, mongoWrite, held, todo,
                   swallowed, kvVars, docVars, faults>>

\* The key is in Vault before its request goes on, or after the request died.
VaultLands(r) ==
    /\ vaultWrite[r] = "sent"
    /\ \/ /\ Works
          /\ vault' = [vault EXCEPT ![name[r]] = r]
          /\ vaultWrite' = [vaultWrite EXCEPT ![r] = "landed"]
       \/ /\ Loses(r)
          /\ vault' \in {vault, [vault EXCEPT ![name[r]] = r]}
          /\ vaultWrite' = [vaultWrite EXCEPT ![r] = "failed"]
    /\ UNCHANGED <<pc, op, name, result, redisWrite, mongoWrite, held, todo,
                   swallowed, redis, stray, backup, docVars>>

\* writeSecret reports a failure in its result, which storeWalletKey does not
\* look at: the answer is a success either way, and the clean-up of Redis in
\* the catch block is never reached.
AwaitVault(r) ==
    /\ pc[r] = "awaitVault"
    /\ vaultWrite[r] \in {"landed", "failed"}
    /\ Answer(r, "success")
    /\ UNCHANGED <<op, name, writes, held, todo, swallowed, kvVars, docVars,
                   faults>>

-----------------------------------------------------------------------------
(* deleteSecret, called by a revocation and by the Vault controller.  All   *)
(* its errors are caught: a revocation goes on as if the key were deleted.  *)

Deleted(r, res) ==
    IF op[r] = "revoke" THEN Goto(r, "flagVault") /\ UNCHANGED result
                        ELSE Answer(r, res)

\* A fault ends it there; swallowed remembers whose deletion that was.
DeletionFails(r) ==
    /\ Fails
    /\ Deleted(r, "failed")
    /\ swallowed' = swallowed \cup {r}

\* Reading an absent secret is a 404, which throws.
ReadVault(r) ==
    /\ pc[r] = "readVault"
    /\ \/ /\ Works /\ vault[name[r]] # None
          /\ held' = [held EXCEPT ![r] = vault[name[r]]]
          /\ Goto(r, "backUp")
          /\ UNCHANGED <<result, swallowed>>
       \/ /\ Works /\ vault[name[r]] = None
          /\ Deleted(r, "failed")
          /\ UNCHANGED <<held, swallowed>>
       \/ DeletionFails(r) /\ UNCHANGED held
    /\ UNCHANGED <<op, name, writes, todo, kvVars, docVars>>

\* (mutant) A failed backup does not stop the deletion.
BackUpBestEffort(r) ==
    /\ pc[r] = "backUp"
    /\ \/ Works /\ backup' = [backup EXCEPT ![name[r]] = held[r]]
       \/ Fails /\ UNCHANGED backup
    /\ Goto(r, "deleteVault")
    /\ held' = [held EXCEPT ![r] = None]
    /\ UNCHANGED <<op, name, result, writes, todo, swallowed, redis, vault,
                   stray, docVars>>

\* Without a backup nothing is deleted.
BackUp(r) ==
    /\ pc[r] = "backUp"
    /\ \/ /\ Works
          /\ backup' = [backup EXCEPT ![name[r]] = held[r]]
          /\ Goto(r, "deleteVault")
          /\ UNCHANGED <<result, swallowed>>
       \/ /\ DeletionFails(r)
          /\ backup' \in {backup, [backup EXCEPT ![name[r]] = held[r]]}
    /\ held' = [held EXCEPT ![r] = None]
    /\ UNCHANGED <<op, name, writes, todo, redis, vault, stray, docVars>>

DeleteVault(r) ==
    /\ pc[r] = "deleteVault"
    /\ \/ /\ Works
          /\ vault' = [vault EXCEPT ![name[r]] = None]
          /\ Deleted(r, "success")
          /\ UNCHANGED swallowed
       \/ /\ DeletionFails(r)
          /\ vault' \in {vault, [vault EXCEPT ![name[r]] = None]}
    /\ UNCHANGED <<op, name, writes, held, todo, redis, stray, backup, docVars>>

-----------------------------------------------------------------------------
(* revokeUserWallet: a MongoDB transaction on the User document around the  *)
(* two deletions.                                                           *)

\* The three updates of the transaction.
PendingDeletion(d) == [d EXCEPT !.status = "pending_deletion", !.gone = {}]
Flagged(d, store) == [d EXCEPT !.gone = @ \cup {store}]
\* (mutant) The last update forgets mongoDeleted.
EmptiedUnmarked(d) == [d EXCEPT !.addr = Blank, !.status = "deleted"]

\* (mutant) The last update forgets inAppAddress.
EmptiedKeepingAddress(d) ==
    [d EXCEPT !.status = "deleted", !.gone = @ \cup {"mongo"}]

Emptied(d) ==
    [d EXCEPT !.addr = Blank, !.status = "deleted", !.gone = @ \cup {"mongo"}]

\* (mutant) The session is never ended.
AbortForgotten(r) == UNCHANGED owner /\ draft' = draft

\* Ending the session drops what the transaction has written.
Abort(r) ==
    /\ owner' = [owner EXCEPT ![name[r]] = None]
    /\ draft' = [draft EXCEPT ![name[r]] = NoUser]

\* The first write of the transaction takes the document.  Another open
\* transaction on it is a write conflict, which aborts this one.
Mark(r) ==
    LET n == name[r] IN
    /\ pc[r] = "mark"
    /\ \/ /\ Works /\ owner[n] = None /\ users[n] # NoUser
          /\ owner' = [owner EXCEPT ![n] = r]
          /\ draft' = [draft EXCEPT ![n] = PendingDeletion(users[n])]
          /\ Goto(r, "readVault")
          /\ UNCHANGED result
       \/ Works /\ users[n] = NoUser /\ Answer(r, "noUser") /\ UNCHANGED <<owner,
                                                                           draft>>
       \/ Works /\ owner[n] # None /\ Answer(r, "failed") /\ UNCHANGED <<owner,
                                                                         draft>>
       \/ Fails /\ Answer(r, "failed") /\ UNCHANGED <<owner, draft>>
    /\ UNCHANGED <<op, name, writes, held, todo, swallowed, kvVars, users>>

SetFlag(n, store) ==
    draft' = [draft EXCEPT ![n] = Flagged(draft[n], store)]

FlagVault(r) ==
    /\ pc[r] = "flagVault"
    /\ \/ /\ Works /\ SetFlag(name[r], "vault")
          /\ Goto(r, "deleteRedis")
          /\ UNCHANGED <<result, owner>>
       \/ Fails /\ Abort(r) /\ Answer(r, "failed")
    /\ UNCHANGED <<op, name, writes, held, todo, swallowed, kvVars, users>>

\* A failed step is followed by the restores that are to undo the deletions.
Restore(r, stores) ==
    /\ todo' = [todo EXCEPT ![r] = stores]
    /\ Goto(r, "restoring")

\* (mutant) An error of the Redis deletion is logged and ignored.
DeleteRedisSwallowed(r) ==
    /\ pc[r] = "deleteRedis"
    /\ \/ Works /\ redis' = [redis EXCEPT ![name[r]] = None]
       \/ Fails /\ UNCHANGED redis
    /\ Goto(r, "flagRedis")
    /\ UNCHANGED <<op, name, result, writes, held, todo, swallowed, vault,
                   stray, backup, docVars>>

DeleteRedis(r) ==
    /\ pc[r] = "deleteRedis"
    /\ \/ /\ Works
          /\ redis' = [redis EXCEPT ![name[r]] = None]
          /\ Goto(r, "flagRedis")
          /\ UNCHANGED todo
       \/ /\ Fails
          /\ redis' \in {redis, [redis EXCEPT ![name[r]] = None]}
          /\ Restore(r, {"vault"})
    /\ UNCHANGED <<op, name, result, writes, held, swallowed, vault, stray,
                   backup, docVars>>

FlagRedis(r) ==
    /\ pc[r] = "flagRedis"
    /\ \/ Works /\ SetFlag(name[r], "redis") /\ Goto(r, "final") /\ UNCHANGED todo
       \/ Fails /\ Restore(r, {"vault"}) /\ UNCHANGED draft
    /\ UNCHANGED <<op, name, result, writes, held, swallowed, kvVars, users,
                   owner>>

\* inAppAddress is unique, so only one document can hold the empty string.
BlankTaken(n) ==
    \E m \in Names \ {n} :
        \/ users[m] # NoUser /\ users[m].addr = Blank
        \/ owner[m] # None /\ draft[m].addr = Blank

Final(r) ==
    LET n == name[r] IN
    /\ pc[r] = "final"
    /\ \/ /\ Works /\ ~BlankTaken(n)
          /\ draft' = [draft EXCEPT ![n] = Emptied(draft[n])]
          /\ Goto(r, "commit")
          /\ UNCHANGED todo
       \/ /\ Fails \/ (Works /\ BlankTaken(n))
          /\ Restore(r, {"vault", "redis"})
          /\ UNCHANGED draft
    /\ UNCHANGED <<op, name, result, writes, held, swallowed, kvVars, users,
                   owner>>

Commit(r) ==
    LET n == name[r] IN
    /\ pc[r] = "commit"
    /\ \/ Works /\ users' = [users EXCEPT ![n] = draft[n]] /\ Answer(r, "success")
       \/ /\ Fails
          /\ users' \in {users, [users EXCEPT ![n] = draft[n]]}
          /\ Answer(r, "failed")
    /\ Abort(r)
    /\ UNCHANGED <<op, name, writes, held, todo, swallowed, kvVars>>

\* restoreSecret writes the newest backup to secret/data/<name>, which is not
\* where deleteSecret took it from; a failure is not reported.
RestoreVault(r) ==
    LET n == name[r] IN
    /\ "vault" \in todo[r]
    /\ \/ Works /\ stray' = [stray EXCEPT ![n] = IF backup[n] = None THEN @ ELSE backup[n]]
       \/ Fails /\ UNCHANGED stray
    /\ todo' = [todo EXCEPT ![r] = @ \ {"vault"}]
    /\ UNCHANGED <<pc, op, name, result, writes, held, swallowed, redis,
                   vault, backup, docVars>>

\* RedisService.restore stores what the backup holds, the Vault response as an
\* object, which the client turns into the text "[object Object]".
RestoredRecord(n) == IF backup[n] = None THEN redis[n] ELSE Garbage

RestoreRedis(r) ==
    LET n == name[r] IN
    /\ "redis" \in todo[r]
    /\ \/ Works /\ redis' = [redis EXCEPT ![n] = RestoredRecord(n)]
       \/ Fails /\ UNCHANGED redis
    /\ todo' = [todo EXCEPT ![r] = @ \ {"redis"}]
    /\ UNCHANGED <<pc, op, name, result, writes, held, swallowed, vault,
                   stray, backup, docVars>>

Restored(r) ==
    /\ pc[r] = "restoring"
    /\ todo[r] = {}
    /\ Abort(r)
    /\ Answer(r, "restored")
    /\ UNCHANGED <<op, name, writes, held, todo, swallowed, kvVars, users,
                   faults>>

-----------------------------------------------------------------------------
(* getOrCreateNewUser.                                                      *)

Find(r) ==
    /\ pc[r] = "find"
    /\ \/ Works /\ users[name[r]] # NoUser /\ Answer(r, "success")
       \/ Works /\ users[name[r]] = NoUser /\ Goto(r, "insert") /\ UNCHANGED result
       \/ Fails /\ Answer(r, "failed")
    /\ UNCHANGED <<op, name, writes, held, todo, swallowed, kvVars, docVars>>

\* The unique indexes refuse a second document of the address and a second one
\* without inAppAddress.
Duplicate(n) ==
    \/ users[n] # NoUser
    \/ \E m \in Names : users[m] # NoUser /\ users[m].addr = Unset

\* An open transaction that has given up the missing inAppAddress holds back
\* inserts that need it.
UnsetBusy ==
    \E m \in Names : owner[m] # None /\ users[m].addr = Unset /\ draft[m].addr = Blank

Insert(r) ==
    LET n == name[r] IN
    /\ pc[r] = "insert"
    /\ \/ /\ Works /\ ~Duplicate(n)
          /\ users' = [users EXCEPT ![n] = NewDoc(Unset)]
          /\ Answer(r, "success")
       \/ /\ Works /\ Duplicate(n) /\ (users[n] # NoUser \/ ~UnsetBusy)
          /\ Answer(r, "failed") /\ UNCHANGED users
       \/ Fails /\ Answer(r, "failed") /\ UNCHANGED users
    /\ UNCHANGED <<op, name, writes, held, todo, swallowed, kvVars, owner,
                   draft>>

-----------------------------------------------------------------------------
(* The readers: getWalletPublicKey is content with the record in Redis,     *)
(* retrieveWalletPrivateKey goes on to Vault.                               *)

\* A value that is not a record does not parse.
ReadAddress(r) ==
    LET record == redis[name[r]] IN
    /\ pc[r] = "readAddress"
    /\ \/ Works /\ record \in Wallets /\ Answer(r, "success")
       \/ Works /\ record = None /\ Answer(r, "refused")
       \/ Works /\ record = Garbage /\ Answer(r, "failed")
       \/ Fails /\ Answer(r, "failed")
    /\ UNCHANGED <<op, name, writes, held, todo, swallowed, kvVars, docVars>>

ReadRecord(r) ==
    LET record == redis[name[r]] IN
    /\ pc[r] = "readRecord"
    /\ \/ /\ Works /\ record \in Wallets
          /\ held' = [held EXCEPT ![r] = record]
          /\ Goto(r, "readKey")
          /\ UNCHANGED result
       \/ Works /\ record = None /\ Answer(r, "refused") /\ UNCHANGED held
       \/ Works /\ record = Garbage /\ Answer(r, "failed") /\ UNCHANGED held
       \/ Fails /\ Answer(r, "failed") /\ UNCHANGED held
    /\ UNCHANGED <<op, name, writes, todo, swallowed, kvVars, docVars>>

\* The key decrypts the record it was made for and no other.
ReadKey(r) ==
    /\ pc[r] = "readKey"
    /\ \/ Works /\ vault[name[r]] = held[r] /\ Answer(r, "success")
       \/ Works /\ vault[name[r]] # held[r] /\ Answer(r, "failed")
       \/ Fails /\ Answer(r, "failed")
    /\ UNCHANGED <<op, name, writes, held, todo, swallowed, kvVars, docVars>>

-----------------------------------------------------------------------------

Crash ==
    /\ Fails
    /\ \E r \in Reqs : pc[r] \notin {"new", "done", "dead"}
    /\ Die
    /\ UNCHANGED <<op, name, result, writes, swallowed, kvVars, users>>

\* Backups live for 24 hours, longer than any request.
ExpireBackup(n) ==
    /\ Quiet(n)
    /\ backup[n] # None
    /\ backup' = [backup EXCEPT ![n] = None]
    /\ UNCHANGED <<reqVars, redis, vault, stray, docVars, faults>>

Step(r) ==
    \/ PreCheck(r) \/ Check(r) \/ Issue(r) \/ AwaitRedis(r) \/ AwaitMongo(r)
    \/ Verify(r) \/ StoreVault(r) \/ AwaitVault(r)
    \/ ReadVault(r) \/ BackUp(r) \/ DeleteVault(r)
    \/ Mark(r) \/ FlagVault(r) \/ DeleteRedis(r) \/ FlagRedis(r) \/ Final(r)
    \/ Commit(r) \/ RestoreVault(r) \/ RestoreRedis(r) \/ Restored(r)
    \/ Find(r) \/ Insert(r) 
    \/ ReadAddress(r) \/ ReadRecord(r) \/ ReadKey(r)

Lands(r) == RedisLands(r) \/ MongoLands(r) \/ MongoFails(r) \/ VaultLands(r)

Next ==
    \/ \E r \in Reqs : Begin(r) \/ Step(r) \/ Lands(r)
    \/ \E n \in Names : ExpireBackup(n)
    \/ Crash

\* Node runs the continuation of every promise that has settled, and the
\* clients settle every promise; nobody has to call the endpoints.
Fairness == \A r \in Reqs : WF_vars(Step(r)) /\ WF_vars(Lands(r))

Spec == Init /\ [][Next]_vars

FairSpec == Spec /\ Fairness

-----------------------------------------------------------------------------
(* What custody keeps.                                                      *)

Usable(w) == \E n \in Names : redis[n] = w /\ vault[n] = w

\* The key of wallet w is still to come: its Vault write is on its way, or the
\* request that generates it may yet send it.
KeyToCome(w) ==
    \/ vaultWrite[w] = "sent"
    \/ vaultWrite[w] = "idle" /\ pc[w] \notin {"done", "dead"}

life == [w \in Wallets |->
           IF Usable(w) THEN "usable"
           ELSE IF w \in Reqs /\ KeyToCome(w) THEN "unborn"
           ELSE "retired"]

\* A wallet has one life (WalletLifecycle).  It becomes usable only when the
\* Vault write of the request that generated it takes effect, which may be after
\* that request has died; once that write has come and Redis and Vault do not
\* both hold the wallet, no late write, restore or crash makes it usable.
Lifecycle == INSTANCE WalletLifecycle WITH Wallets <- Wallets, life <- life
OneLife == Lifecycle!Spec

\* The transaction of a revocation hides its intermediate states: a committed
\* User document is either untouched or carries all of the deletion's marks,
\* however many revocations, creations and crashes overlap.
Settled(d) ==
    \/ d.status = "default" /\ d.gone = {}
    \/ d.status = "deleted" /\ d.gone = Stores

NoPartialRevocation == \A n \in Names : users[n] # NoUser => Settled(users[n])

\* A creation that answers success has had both of its parallel writes
\* acknowledged: it never reports a wallet while one of them is outstanding or
\* has been refused.
SuccessMeansWritten ==
    \A r \in Reqs :
        op[r] \in {"createNew", "webhook"} /\ result[r] = "success" =>
            redisWrite[r] = "landed" /\ mongoWrite[r] = "landed"

\* The actions never sign with the parts of two wallets, nor with a key whose
\* wallet the other stores have not acknowledged: a private key is handed out
\* only when both the Redis and the MongoDB write of its creation have been
\* acknowledged, and that creation has answered nothing else than success.  It
\* need not have answered at all: the key is in Vault before its request goes on,
\* and may get there after that request has died.
KeyOfWrittenWallet ==
    [][\A r \in Reqs :
          pc[r] = "readKey" /\ result[r] = "none" /\ result'[r] = "success" =>
              \/ held[r] \in Names
              \/ /\ redisWrite[held[r]] = "landed"
                 /\ mongoWrite[held[r]] = "landed"
                 /\ result[held[r]] \in {"none", "success"}]_vars

\* With requests for a name one at a time, and the next one only when nothing of
\* the last is still on its way, no creation writes over a record that is already
\* in Redis.
RecordNotOverwritten ==
    [][\A n \in Names : redis[n] # None /\ redis'[n] # redis[n] =>
            redis'[n] \in {None, Garbage}]_vars

\* With requests for a name one at a time, a key leaves Vault only when it has
\* a backup, whichever calls fail.
DeletedOnlyAfterBackup ==
    [][\A n \in Names : vault[n] # None /\ vault'[n] = None =>
            backup[n] = vault[n]]_vars

\* With requests for a name one at a time, a revocation that answers success
\* has removed the encrypted key from Redis, and the decryption key from Vault
\* as well unless a fault has hit its own deletion there, which it never learns:
\* faults before it, or in any other of its steps, excuse nothing.
RevokedMeansErased ==
    [][\A r \in Reqs :
          op[r] = "revoke" /\ result[r] = "none" /\ result'[r] = "success" =>
              /\ redis[name[r]] = None
              /\ vault[name[r]] = None \/ r \in swallowed]_vars

\* With requests for a name one at a time and as long as nothing has failed, the
\* three stores agree between requests: the wallet a User document names is the
\* one in Redis and Vault.  The exceptions are a revocation that was to be undone
\* and a key deleted through the Vault controller.
StoresAgree ==
    \A n \in Names :
        faults = 0 /\ Quiet(n) /\ users[n] # NoUser /\ users[n].addr \in Wallets =>
            \/ redis[n] = users[n].addr /\ vault[n] = users[n].addr
            \/ \E r \in Reqs : name[r] = n /\
                  (op[r] = "deleteSecret" \/ result[r] = "restored")

\* Every request ends: no order of transactions, waiting writes and faults
\* leaves one waiting forever for a document another holds.
RequestsEnd == \A r \in Reqs : pc[r] # "new" ~> pc[r] \in {"done", "dead"}

-----------------------------------------------------------------------------
(* What comments of the code say and the code does not do.                  *)

\* "If wallet doesn't exist, create it" (user.controller.ts): of two creations
\* for a name that is never revoked, the second is refused.  Two that overlap
\* both find nothing, and the later writes take the earlier wallet away.
SecondCreationRefused ==
    \A r, s \in Reqs :
        /\ r # s /\ name[r] = name[s]
        /\ {op[r], op[s]} \subseteq {"createNew", "webhook"}
        /\ result[r] = "success"
        => result[s] # "success"
=============================================================================
