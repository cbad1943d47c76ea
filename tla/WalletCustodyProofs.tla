------------------------- MODULE WalletCustodyProofs -------------------------
(***************************************************************************)
(* Proofs about WalletCustody for any requests, names, endpoints and number *)
(* of faults: its types, the atomicity of revocation that readers of the    *)
(* User documents rely on, that it implements WalletLifecycle, and, with    *)
(* requests for a name one at a time, that its stores agree.                *)
(***************************************************************************)
EXTENDS WalletCustody, TLAPS

\* writes only gives the three writes of a creation one name.
USE DEF writes

(* Between its first write and its end, the transaction of a revocation owns *)
(* the document of its name, and the draft carries the flags of the steps    *)
(* that are behind it.  Two requests in a transaction therefore never share  *)
(* a name, which is what keeps a draft from being mixed.                     *)

InTxn(r) ==
    \/ pc[r] \in {"flagVault", "deleteRedis", "flagRedis", "final", "commit", "restoring"}
    \/ op[r] = "revoke" /\ pc[r] \in {"readVault", "backUp", "deleteVault"}

DraftFits(r) ==
    LET d == draft[name[r]] IN
    /\ d \in Docs
    /\ pc[r] \in {"deleteRedis", "flagRedis", "final"} => "vault" \in d.gone
    /\ pc[r] = "final" => "redis" \in d.gone
    /\ pc[r] = "commit" => Settled(d)

TxnOK == \A r \in Reqs : InTxn(r) => owner[name[r]] = r /\ DraftFits(r)

-----------------------------------------------------------------------------
(* Documents.                                                               *)

\* The updates of a User document (setUserInAppWallet, revokeUserWallet) give
\* documents, and change the fields they name only.
LEMMA DocUpdates == ASSUME NEW d \in Docs
PROVE
   /\ \A a \in Wallets \cup {Unset, Blank} :
        WithAddress(d, a) \in Docs /\ WithAddress(d, a).status = d.status
          /\ WithAddress(d, a).gone = d.gone
   /\ PendingDeletion(d) \in Docs
   /\ \A s \in Stores : Flagged(d, s) \in Docs /\ Flagged(d, s).gone = d.gone \cup {s}
   /\ Emptied(d) \in Docs /\ Emptied(d).status = "deleted" /\ Emptied(d).gone = d.gone \cup {"mongo"}
BY DEF Docs, Stores, WithAddress, PendingDeletion, Flagged, Emptied

\* A first sign-in creates an untouched document.
LEMMA NewDocType == NewDoc(Unset) \in Docs /\ Settled(NewDoc(Unset))
BY DEF Docs, NewDoc, Settled

\* setUserInAppWallet changes one address at most, and never the marks of a
\* deletion.
LEMMA AddressWritten ==
    ASSUME TypeOK, NEW r \in Reqs, MongoLands(r)
    PROVE  /\ users' \in [Names -> Docs \cup {NoUser}]
           /\ \A n \in Names :
                 \/ users'[n] = users[n]
                 \/ /\ users[n] \in Docs
                    /\ users'[n].status = users[n].status
                    /\ users'[n].gone = users[n].gone
<1>1. CASE users[name[r]] = NoUser \/ name[r] \notin Names
  BY <1>1 DEF MongoLands, SetInAppWallet, TypeOK
<1>2. CASE users[name[r]] # NoUser /\ name[r] \in Names
  <2>1. users[name[r]] \in Docs /\ r \in Wallets \cup {Unset, Blank}
    BY <1>2 DEF TypeOK, Wallets
  <2>2. LET d == WithAddress(users[name[r]], r)
        IN  /\ d \in Docs
            /\ d.status = users[name[r]].status
            /\ d.gone = users[name[r]].gone
    BY <2>1, DocUpdates
  <2> QED BY <1>2, <2>1, <2>2 DEF MongoLands, SetInAppWallet, TypeOK
<1> QED BY <1>1, <1>2

-----------------------------------------------------------------------------
(* Types.                                                                   *)

\* Every step of a request keeps the types.
LEMMA TypeStep ==
    ASSUME TypeOK, TxnOK, NEW r \in Reqs, Begin(r) \/ Step(r) \/ Lands(r)
    PROVE  TypeOK'
<1> USE ConstantsAssumption
    DEF TypeOK, Goto, Answer, Works, Fails, Labels, Results
<1>1. CASE Begin(r)
  BY <1>1 DEF Begin, kvVars, docVars, FirstStep, AllOps, Readers
<1>2. CASE PreCheck(r)
  BY <1>2 DEF PreCheck, CheckExists, kvVars, docVars
<1>3. CASE Check(r)
  BY <1>3 DEF Check, CheckExists, kvVars, docVars
<1>4. CASE Issue(r)
  BY <1>4 DEF Issue, kvVars, docVars, WriteStates
<1>5. CASE AwaitRedis(r)
  BY <1>5 DEF AwaitRedis, kvVars, docVars
<1>6. CASE AwaitMongo(r)
  BY <1>6 DEF AwaitMongo, kvVars, docVars
<1>7. CASE Verify(r)
  BY <1>7 DEF Verify, kvVars, docVars
<1>8. CASE StoreVault(r) \/ AwaitVault(r)
  BY <1>8 DEF StoreVault, AwaitVault, kvVars, docVars, WriteStates
<1>9. CASE ReadVault(r)
  BY <1>9 DEF ReadVault, Deleted, DeletionFails, kvVars, docVars
<1>10. CASE BackUp(r)
  BY <1>10 DEF BackUp, Deleted, DeletionFails, docVars
<1>11. CASE DeleteVault(r)
  BY <1>11 DEF DeleteVault, Deleted, DeletionFails, docVars
<1>12. CASE Mark(r)
  <2>1. users[name[r]] # NoUser /\ name[r] \in Names =>
          PendingDeletion(users[name[r]]) \in Docs
    BY DocUpdates
  <2>2. draft' \in [Names -> Docs \cup {NoUser}] /\ owner' \in [Names -> Reqs \cup {None}]
    BY <1>12, <2>1 DEF Mark
  <2> QED BY <1>12, <2>2 DEF Mark, kvVars
<1>13. CASE FlagVault(r)
  <2>1. draft[name[r]] \in Docs
    BY <1>13 DEF FlagVault, TxnOK, InTxn, DraftFits
  <2>2. Flagged(draft[name[r]], "vault") \in Docs
    BY <2>1, DocUpdates DEF Stores
  <2>3. CASE Works /\ SetFlag(name[r], "vault") /\ Goto(r, "deleteRedis") /\ UNCHANGED <<result, owner>>
    BY <1>13, <2>2, <2>3 DEF FlagVault, SetFlag, kvVars
  <2>4. CASE Fails /\ Abort(r) /\ Answer(r, "failed")
    BY <1>13, <2>4 DEF FlagVault, Abort, kvVars
  <2> QED BY <1>13, <2>3, <2>4 DEF FlagVault
<1>14. CASE DeleteRedis(r)
  BY <1>14 DEF DeleteRedis, Restore, docVars
<1>15. CASE FlagRedis(r)
  <2>1. draft[name[r]] \in Docs
    BY <1>15 DEF FlagRedis, TxnOK, InTxn, DraftFits
  <2>2. Flagged(draft[name[r]], "redis") \in Docs
    BY <2>1, DocUpdates DEF Stores
  <2> QED BY <1>15, <2>2 DEF FlagRedis, kvVars, SetFlag, Restore
<1>16. CASE Final(r)
  BY <1>16, DocUpdates DEF Final, kvVars, Restore, TxnOK, InTxn, DraftFits
<1>17. CASE Commit(r)
  BY <1>17 DEF Commit, kvVars, Abort
<1>18. CASE RestoreVault(r)
  BY <1>18 DEF RestoreVault, docVars
<1>19. CASE RestoreRedis(r)
  BY <1>19 DEF RestoreRedis, RestoredRecord, docVars
<1>20. CASE Restored(r)
  BY <1>20 DEF Restored, kvVars, Abort
<1>21. CASE Find(r)
  BY <1>21 DEF Find, kvVars, docVars
<1>22. CASE Insert(r)
  BY <1>22, NewDocType DEF Insert, kvVars
<1>23. CASE RedisLands(r)
  BY <1>23 DEF RedisLands, Loses, docVars, WriteStates, Wallets
<1>24. CASE MongoFails(r)
  BY <1>24 DEF MongoFails, VaultLands, Loses, Die, kvVars, WriteStates
<1>25. CASE MongoLands(r)
  <2>1. users' \in [Names -> Docs \cup {NoUser}]
    BY <1>25, AddressWritten
  <2> QED BY <1>25, <2>1 DEF MongoLands, kvVars, WriteStates
<1>26. CASE ReadAddress(r) \/ ReadRecord(r)
  BY <1>26 DEF ReadAddress, ReadRecord, kvVars, docVars
<1>27. CASE ReadKey(r)
  BY <1>27 DEF ReadKey, kvVars, docVars
<1>28. CASE VaultLands(r)
  BY <1>28 DEF VaultLands, Loses, docVars, WriteStates, Wallets
<1> QED
    BY <1>1, <1>2, <1>3, <1>4, <1>5, <1>6, <1>7, <1>8, <1>9, <1>10, <1>11, <1>12,
     <1>13, <1>14, <1>15, <1>16, <1>17, <1>18, <1>19, <1>20, <1>21, <1>22, <1>23,
     <1>24, <1>25, <1>26, <1>27, <1>28 DEF Step, Lands

-----------------------------------------------------------------------------
(* The transaction.                                                         *)

\* A step of one request inside its own document leaves the transactions of the
\* others as they are.
LEMMA OthersKeepTxn ==
    ASSUME TypeOK, TxnOK, NEW r \in Reqs, NEW l \in Labels,
           name[r] \in Names, owner[name[r]] \in {r, None},
           pc' = [pc EXCEPT ![r] = l], UNCHANGED <<op, name>>,
           \A n \in Names \ {name[r]} : owner'[n] = owner[n] /\ draft'[n] = draft[n],
           InTxn(r)' => owner'[name[r]] = r /\ DraftFits(r)'
    PROVE  TxnOK'
<1>1. SUFFICES ASSUME NEW s \in Reqs, s # r, InTxn(s)'
      PROVE  owner'[name'[s]] = s /\ DraftFits(s)'
  BY DEF TxnOK
<1>2. pc'[s] = pc[s] /\ InTxn(s)
  BY <1>1 DEF InTxn, TypeOK
<1>3. owner[name[s]] = s /\ DraftFits(s)
  BY <1>2 DEF TxnOK
<1>4. name[s] \in Names \ {name[r]}
  BY <1>3, <1>1, <1>2, ConstantsAssumption DEF TypeOK, InTxn, Wallets
<1> QED BY <1>2, <1>3, <1>4 DEF DraftFits

\* The first write of the transaction takes a free document, or the request
\* ends without one.
LEMMA TxnMark == ASSUME NEW r \in Reqs, TypeOK, TxnOK, Mark(r) PROVE TxnOK'
<1> USE DEF Mark, TypeOK
<1>1. CASE UNCHANGED <<owner, draft>> /\ pc' = [pc EXCEPT ![r] = "done"]
  BY <1>1 DEF TxnOK, InTxn, DraftFits
<1>2. CASE /\ owner[name[r]] = None /\ users[name[r]] # NoUser
           /\ owner' = [owner EXCEPT ![name[r]] = r]
           /\ draft' = [draft EXCEPT ![name[r]] = PendingDeletion(users[name[r]])]
           /\ Goto(r, "readVault")
  <2>1. users[name[r]] \in Docs
    BY <1>2
  <2>2. InTxn(r)' => owner'[name[r]] = r /\ DraftFits(r)'
    BY <1>2, <2>1, DocUpdates DEF DraftFits, Goto
  <2> QED BY <1>2, <2>2, OthersKeepTxn DEF Goto, Labels
<1> QED
  BY <1>1, <1>2 DEF Answer

\* Marking Vault as done records it in the draft, or aborts.
LEMMA TxnFlagVault == ASSUME NEW r \in Reqs, TypeOK, TxnOK, FlagVault(r) PROVE TxnOK'
<1> USE DEF FlagVault, TypeOK
<1>1. owner[name[r]] = r /\ DraftFits(r) /\ draft[name[r]] \in Docs
  BY DEF TxnOK, InTxn, DraftFits
<1>2. CASE Abort(r) /\ Answer(r, "failed")
  <2>1. ~InTxn(r)'
    BY <1>2 DEF InTxn, Answer
  <2> QED BY <1>1, <1>2, <2>1, OthersKeepTxn DEF Abort, Answer, Labels
<1>3. CASE SetFlag(name[r], "vault") /\ Goto(r, "deleteRedis") /\ UNCHANGED owner
  <2>1. InTxn(r)' => owner'[name[r]] = r /\ DraftFits(r)'
    BY <1>1, <1>3, DocUpdates DEF DraftFits, Goto, SetFlag, Stores
  <2> QED BY <1>1, <1>3, <2>1, OthersKeepTxn DEF SetFlag, Goto, Labels
<1> QED
  BY <1>2, <1>3

\* Marking Redis as done records it in the draft, or goes on to restore.
LEMMA TxnFlagRedis == ASSUME NEW r \in Reqs, TypeOK, TxnOK, FlagRedis(r) PROVE TxnOK'
<1> USE DEF FlagRedis, TypeOK
<1>1. owner[name[r]] = r /\ DraftFits(r) /\ draft[name[r]] \in Docs
  BY DEF TxnOK, InTxn, DraftFits
<1>2. CASE Restore(r, {"vault"}) /\ UNCHANGED draft
  <2>1. InTxn(r)' => owner'[name[r]] = r /\ DraftFits(r)'
    BY <1>1, <1>2 DEF DraftFits, Restore, Goto
  <2> QED BY <1>1, <1>2, <2>1, OthersKeepTxn DEF Restore, Goto, Labels
<1>3. CASE SetFlag(name[r], "redis") /\ Goto(r, "final")
  <2>1. InTxn(r)' => owner'[name[r]] = r /\ DraftFits(r)'
    BY <1>1, <1>3, DocUpdates DEF DraftFits, Goto, SetFlag, Stores
  <2> QED BY <1>1, <1>3, <2>1, OthersKeepTxn DEF SetFlag, Goto, Labels
<1> QED
  BY <1>2, <1>3

\* The last update completes the marks of the draft.
LEMMA TxnFinal == ASSUME NEW r \in Reqs, TypeOK, TxnOK, Final(r) PROVE TxnOK'
<1> USE DEF Final, TypeOK
<1>1. owner[name[r]] = r /\ DraftFits(r) /\ draft[name[r]] \in Docs
  BY DEF TxnOK, InTxn, DraftFits
<1>2. CASE Restore(r, {"vault", "redis"}) /\ UNCHANGED draft
  <2>1. InTxn(r)' => owner'[name[r]] = r /\ DraftFits(r)'
    BY <1>1, <1>2 DEF DraftFits, Restore, Goto
  <2> QED BY <1>1, <1>2, <2>1, OthersKeepTxn DEF Restore, Goto, Labels
<1>3. CASE draft' = [draft EXCEPT ![name[r]] = Emptied(draft[name[r]])] /\ Goto(r, "commit")
  <2>1. Emptied(draft[name[r]]).gone = Stores
    BY <1>1, DocUpdates DEF DraftFits, Stores, Docs
  <2>2. InTxn(r)' => owner'[name[r]] = r /\ DraftFits(r)'
    BY <1>1, <1>3, <2>1, DocUpdates DEF DraftFits, Goto, Settled
  <2> QED BY <1>1, <1>3, <2>2, OthersKeepTxn DEF Goto, Labels
<1> QED
  BY <1>2, <1>3
\* Every step of a request keeps the transactions in order.
LEMMA TxnStep ==
    ASSUME TypeOK, TxnOK, NEW r \in Reqs, Begin(r) \/ Step(r) \/ Lands(r)
    PROVE  TxnOK'
<1> USE ConstantsAssumption
    DEF TxnOK, InTxn, DraftFits, TypeOK, Goto, Answer
<1>1. CASE Begin(r)
  BY <1>1 DEF Begin, docVars, FirstStep, AllOps, Readers
<1>2. CASE PreCheck(r)
  BY <1>2 DEF PreCheck, CheckExists, docVars
<1>3. CASE Check(r)
  BY <1>3 DEF Check, CheckExists, docVars
<1>4. CASE Issue(r)
  BY <1>4 DEF Issue, docVars
<1>5. CASE AwaitRedis(r)
  BY <1>5 DEF AwaitRedis, docVars
<1>6. CASE AwaitMongo(r)
  BY <1>6 DEF AwaitMongo, docVars
<1>7. CASE Verify(r)
  BY <1>7 DEF Verify, docVars
<1>8. CASE StoreVault(r) \/ AwaitVault(r)
  BY <1>8 DEF StoreVault, AwaitVault, docVars
<1>9. CASE ReadVault(r)
  BY <1>9 DEF ReadVault, Deleted, DeletionFails, docVars
<1>10. CASE BackUp(r)
  BY <1>10 DEF BackUp, Deleted, DeletionFails, docVars
<1>11. CASE DeleteVault(r)
  BY <1>11 DEF DeleteVault, Deleted, DeletionFails, docVars
<1>12. CASE Mark(r)
  BY <1>12, TxnMark
<1>13. CASE FlagVault(r)
  BY <1>13, TxnFlagVault
<1>14. CASE DeleteRedis(r)
  BY <1>14 DEF DeleteRedis, Restore, docVars
<1>15. CASE FlagRedis(r)
  BY <1>15, TxnFlagRedis
<1>16. CASE Final(r)
  BY <1>16, TxnFinal
<1>17. CASE Commit(r)
  BY <1>17 DEF Commit, Abort
<1>18. CASE RestoreVault(r)
  BY <1>18 DEF RestoreVault, docVars
<1>19. CASE RestoreRedis(r)
  BY <1>19 DEF RestoreRedis, docVars
<1>20. CASE Restored(r)
  BY <1>20 DEF Restored, Abort
<1>21. CASE Find(r)
  BY <1>21 DEF Find, docVars
<1>22. CASE Insert(r)
  BY <1>22 DEF Insert
<1>23. CASE RedisLands(r)
  BY <1>23 DEF RedisLands, docVars
<1>24. CASE MongoFails(r)
  BY <1>24 DEF MongoFails, VaultLands, Die
<1>25. CASE MongoLands(r)
  BY <1>25 DEF MongoLands
<1>26. CASE ReadAddress(r) \/ ReadRecord(r)
  BY <1>26 DEF ReadAddress, ReadRecord, docVars
<1>27. CASE ReadKey(r)
  BY <1>27 DEF ReadKey, docVars
<1>28. CASE VaultLands(r)
  BY <1>28 DEF VaultLands, docVars
<1> QED
    BY <1>1, <1>2, <1>3, <1>4, <1>5, <1>6, <1>7, <1>8, <1>9, <1>10, <1>11, <1>12,
     <1>13, <1>14, <1>15, <1>16, <1>17, <1>18, <1>19, <1>20, <1>21, <1>22, <1>23,
     <1>24, <1>25, <1>26, <1>27, <1>28 DEF Step, Lands

\* A crash ends every transaction.
LEMMA CrashStep == ASSUME TypeOK, TxnOK, Crash PROVE TypeOK' /\ TxnOK'
<1>1. TypeOK'
  BY ConstantsAssumption DEF Crash, Die, TypeOK, Fails, Labels, kvVars
<1>2. TxnOK'
  BY DEF Crash, Die, TypeOK, TxnOK, InTxn
<1> QED BY <1>1, <1>2

\* A backup that expires touches neither.
LEMMA ExpireStep ==
    ASSUME TypeOK, TxnOK, NEW n \in Names, ExpireBackup(n)
    PROVE  TypeOK' /\ TxnOK'
BY DEF ExpireBackup, TypeOK, TxnOK, InTxn, DraftFits, reqVars, docVars

\* The initial states.
LEMMA InitInv == Init => TypeOK /\ TxnOK /\ NoPartialRevocation
<1> SUFFICES ASSUME Init PROVE TypeOK /\ TxnOK /\ NoPartialRevocation
  OBVIOUS
<1>1. PICK owned \in SUBSET Names, accounts \in SUBSET Names :
        /\ redis = [n \in Names |-> IF n \in owned THEN n ELSE None]
        /\ vault = redis
        /\ users = [n \in Names |->
                      IF n \notin accounts THEN NoUser
                      ELSE NewDoc(IF n \in owned THEN n ELSE Unset)]
  BY DEF Init
<1>2. \A n \in Names : NewDoc(n) \in Docs /\ Settled(NewDoc(n))
  BY DEF NewDoc, Docs, Settled, Wallets
<1>3. users \in [Names -> Docs \cup {NoUser}] /\ NoPartialRevocation
  BY <1>1, <1>2, NewDocType DEF NoPartialRevocation
<1>4. redis \in [Names -> Wallets \cup {None, Garbage}]
      /\ vault \in [Names -> Wallets \cup {None}]
  BY <1>1 DEF Wallets
<1>5. TypeOK
  BY <1>3, <1>4, ConstantsAssumption DEF Init, TypeOK, Labels, Results, WriteStates
<1>6. TxnOK
  BY DEF Init, TxnOK, InTxn
<1> QED BY <1>3, <1>5, <1>6

\* What the rest rests on: the types and the discipline of the transactions.
LEMMA Discipline == Spec => [](TypeOK /\ TxnOK)
<1>1. TypeOK /\ TxnOK /\ [Next]_vars => (TypeOK /\ TxnOK)'
  <2> SUFFICES ASSUME TypeOK, TxnOK, [Next]_vars PROVE TypeOK' /\ TxnOK'
    OBVIOUS
  <2>1. CASE \E r \in Reqs : Begin(r) \/ Step(r) \/ Lands(r)
    BY <2>1, TypeStep, TxnStep
  <2>2. CASE \E n \in Names : ExpireBackup(n)
    BY <2>2, ExpireStep
  <2>3. CASE Crash
    BY <2>3, CrashStep
  <2>4. CASE UNCHANGED vars
    BY <2>4 DEF vars, reqVars, kvVars, docVars, TypeOK, TxnOK, InTxn, DraftFits
  <2> QED BY <2>1, <2>2, <2>3, <2>4 DEF Next
<1> QED BY <1>1, InitInv, PTL DEF Spec

\* Every reachable state is well typed: in particular an open transaction always
\* has a draft that is a User document.
THEOREM TypeCorrect == Spec => []TypeOK
BY Discipline, PTL

-----------------------------------------------------------------------------
(* Atomicity of revocation.                                                 *)

\* Committed User documents are either untouched or carry all the marks of the
\* deletion: no reader ever sees pending_deletion or some of the flags.
THEOREM RevocationAtomic == Spec => []NoPartialRevocation
<1>1. NoPartialRevocation /\ TypeOK /\ TxnOK /\ [Next]_vars => NoPartialRevocation'
  <2> SUFFICES ASSUME NoPartialRevocation, TypeOK, TxnOK, [Next]_vars
               PROVE  NoPartialRevocation'
    OBVIOUS
  <2>1. CASE UNCHANGED users
    BY <2>1 DEF NoPartialRevocation, Settled
  <2>2. ASSUME NEW r \in Reqs, MongoLands(r) PROVE NoPartialRevocation'
    BY <2>2, AddressWritten, ConstantsAssumption DEF NoPartialRevocation, Settled
  <2>3. ASSUME NEW r \in Reqs, Commit(r) PROVE NoPartialRevocation'
    <3>1. Settled(draft[name[r]])
      BY <2>3 DEF Commit, TxnOK, InTxn, DraftFits
    <3>2. users' \in {users, [users EXCEPT ![name[r]] = draft[name[r]]]}
      BY <2>3 DEF Commit
    <3> QED BY <3>1, <3>2 DEF NoPartialRevocation, TypeOK, Settled
  <2>4. ASSUME NEW r \in Reqs, Insert(r) PROVE NoPartialRevocation'
    BY <2>4, NewDocType DEF Insert, NoPartialRevocation, TypeOK
  <2>5. CASE \E r \in Reqs : Begin(r) \/ Step(r) \/ Lands(r)
    <3> PICK r \in Reqs : Begin(r) \/ Step(r) \/ Lands(r)
      BY <2>5
    <3>1. CASE MongoLands(r) \/ Commit(r) \/ Insert(r)
      BY <3>1, <2>2, <2>3, <2>4
    <3>2. CASE ~(MongoLands(r) \/ Commit(r) \/ Insert(r))
      BY <3>2, <2>1 DEF Step, Lands, docVars, Begin, PreCheck, Check, CheckExists,
         Issue, AwaitRedis, AwaitMongo, Verify, StoreVault, AwaitVault, ReadVault, BackUp,
         DeleteVault, Mark, FlagVault, DeleteRedis, FlagRedis, Final,
         RestoreVault, RestoreRedis, Restored, Find, ReadAddress, ReadRecord, ReadKey,
         RedisLands, MongoFails, VaultLands
    <3> QED BY <3>1, <3>2
  <2> QED
    BY <2>1, <2>5 DEF Next, Crash, ExpireBackup, docVars, vars
<1> QED BY <1>1, InitInv, Discipline, PTL DEF Spec

-----------------------------------------------------------------------------
(* What a success of a creation says.                                       *)

Creations == {"createNew", "webhook"}

\* A creation passes its two awaits in order, each only once its write has been
\* acknowledged, and an acknowledged write stays so.
WritesAwaited ==
    \A r \in Reqs :
        /\ result[r] = "success" => pc[r] = "done"
        /\ pc[r] # "new" /\ op[r] \in Creations =>
              /\ pc[r] \in {"preCheck", "check", "issue", "awaitRedis", "awaitMongo",
                             "verify", "storeVault", "awaitVault", "done", "dead"}
              /\ \/ pc[r] \in {"awaitMongo", "verify", "storeVault", "awaitVault"}
                 \/ result[r] = "success"
                 => redisWrite[r] = "landed"
              /\ pc[r] \in {"verify", "storeVault", "awaitVault"} \/ result[r] = "success" =>
                    mongoWrite[r] = "landed"

\* Every step keeps it.
LEMMA WritesStep == ASSUME TypeOK, WritesAwaited, [Next]_vars PROVE WritesAwaited'
<1> USE DEF TypeOK, WritesAwaited, Creations
<1>1. ASSUME NEW r \in Reqs, Begin(r) PROVE WritesAwaited'
  BY <1>1 DEF Begin, FirstStep, AllOps, Readers
<1>2. ASSUME NEW r \in Reqs, PreCheck(r) \/ Check(r) \/ Issue(r) \/ Verify(r) PROVE WritesAwaited'
  BY <1>2 DEF PreCheck, Check, CheckExists, Issue, Verify, Goto, Answer
<1>3. ASSUME NEW r \in Reqs, AwaitRedis(r) \/ AwaitMongo(r) \/ StoreVault(r) \/ AwaitVault(r) PROVE WritesAwaited'
  BY <1>3 DEF AwaitRedis, AwaitMongo, StoreVault, AwaitVault, Goto, Answer
<1>4. ASSUME NEW r \in Reqs, ReadVault(r) \/ BackUp(r) \/ DeleteVault(r) PROVE WritesAwaited'
  BY <1>4 DEF ReadVault, BackUp, DeleteVault, Deleted, DeletionFails, Goto, Answer
<1>5. ASSUME NEW r \in Reqs, Mark(r) \/ FlagVault(r) \/ DeleteRedis(r) PROVE WritesAwaited'
  BY <1>5 DEF Mark, FlagVault, DeleteRedis, Restore, Goto, Answer
<1>6. ASSUME NEW r \in Reqs, FlagRedis(r) \/ Final(r) \/ Commit(r) PROVE WritesAwaited'
  BY <1>6 DEF FlagRedis, Final, Commit, Restore, Goto, Answer
<1>7. ASSUME NEW r \in Reqs, RestoreVault(r) \/ RestoreRedis(r) \/ Restored(r) PROVE WritesAwaited'
  BY <1>7 DEF RestoreVault, RestoreRedis, Restored, Answer
<1>8. ASSUME NEW r \in Reqs, Find(r) \/ Insert(r) \/ ReadAddress(r) \/ ReadRecord(r) \/ ReadKey(r)
      PROVE WritesAwaited'
  BY <1>8 DEF Find, Insert, ReadAddress, ReadRecord, ReadKey, Goto, Answer
<1>9. ASSUME NEW r \in Reqs, Lands(r) PROVE WritesAwaited'
  BY <1>9 DEF Lands, RedisLands, MongoLands, MongoFails, VaultLands, Die
<1>10. CASE Crash
  BY <1>10 DEF Crash, Die
<1>11. ASSUME NEW n \in Names, ExpireBackup(n) PROVE WritesAwaited'
  BY <1>11 DEF ExpireBackup, reqVars
<1>12. CASE UNCHANGED vars
  BY <1>12 DEF vars, reqVars
<1> QED
  BY <1>1, <1>2, <1>3, <1>4, <1>5, <1>6, <1>7, <1>8, <1>9, <1>10, <1>11, <1>12 DEF Next, Step

\* A creation that answers success has had both of its parallel writes
\* acknowledged, whatever fails beside it.
THEOREM SuccessWritten == Spec => []SuccessMeansWritten
<1>1. Init => WritesAwaited
  BY DEF Init, WritesAwaited
<1>2. WritesAwaited => SuccessMeansWritten
  BY DEF WritesAwaited, Creations, SuccessMeansWritten
<1> QED BY <1>1, <1>2, WritesStep, TypeCorrect, PTL DEF Spec

-----------------------------------------------------------------------------
(* One life per wallet.                                                     *)

\* The key of a generated wallet is in Vault only once its own write has come
\* there; that write was sent only after the Redis and MongoDB writes had been
\* acknowledged, and no creation that has sent it answers anything but success.
\* So no Redis write that is still on its way can complete a wallet.  A reader on
\* its way to Vault holds a wallet.
KeysComeLast ==
    /\ \A r \in Reqs, n \in Names :
          vault[n] = r => vaultWrite[r] \in {"landed", "failed"}
    /\ \A r \in Reqs :
          /\ vaultWrite[r] # "idle" =>
                /\ pc[r] \in {"awaitVault", "done", "dead"}
                /\ redisWrite[r] = "landed" /\ mongoWrite[r] = "landed"
                /\ result[r] \in {"none", "success"}
          /\ pc[r] \in {"awaitMongo", "verify", "storeVault"} => redisWrite[r] = "landed"
          /\ pc[r] \in {"verify", "storeVault"} => mongoWrite[r] = "landed"
          /\ result[r] # "none" => pc[r] = "done"
          /\ pc[r] = "readKey" => held[r] \in Wallets

\* Every step keeps it.
LEMMA KeysStep ==
    ASSUME TypeOK, TypeOK', KeysComeLast, [Next]_vars
    PROVE  KeysComeLast'
<1> USE ConstantsAssumption DEF TypeOK, KeysComeLast, Wallets
<1>1. ASSUME NEW r \in Reqs, StoreVault(r) \/ AwaitVault(r) PROVE KeysComeLast'
  BY <1>1 DEF StoreVault, AwaitVault, Goto, Answer, kvVars
<1>2. ASSUME NEW r \in Reqs, RedisLands(r) PROVE KeysComeLast'
  BY <1>2 DEF RedisLands
<1>3. ASSUME NEW r \in Reqs, MongoFails(r) PROVE KeysComeLast'
  BY <1>3 DEF MongoFails, VaultLands, Die, kvVars
<1>4. ASSUME NEW r \in Reqs, Issue(r) PROVE KeysComeLast'
  BY <1>4 DEF Issue, Goto, kvVars
<1>5. ASSUME NEW r \in Reqs, Begin(r) PROVE KeysComeLast'
  BY <1>5 DEF Begin, FirstStep, kvVars, AllOps, Readers
<1>6. ASSUME NEW r \in Reqs, PreCheck(r) \/ Check(r) \/ AwaitRedis(r)
                              \/ AwaitMongo(r) \/ Verify(r)
      PROVE KeysComeLast'
  BY <1>6 DEF PreCheck, Check, CheckExists, AwaitRedis, AwaitMongo, Verify,
              Goto, Answer, kvVars
<1>7. ASSUME NEW r \in Reqs, ReadVault(r) \/ BackUp(r) \/ DeleteVault(r)
      PROVE KeysComeLast'
  BY <1>7 DEF ReadVault, BackUp, DeleteVault, Deleted, DeletionFails, Goto, Answer, kvVars
<1>8. ASSUME NEW r \in Reqs, Mark(r) \/ FlagVault(r) \/ DeleteRedis(r)
                              \/ FlagRedis(r) \/ Final(r) \/ Commit(r)
      PROVE KeysComeLast'
  BY <1>8 DEF Mark, FlagVault, DeleteRedis, FlagRedis, Final, Commit, Restore,
              Goto, Answer, kvVars
<1>9. ASSUME NEW r \in Reqs, RestoreVault(r) \/ RestoreRedis(r) \/ Restored(r)
                              \/ Find(r) \/ Insert(r) \/ MongoLands(r)
      PROVE KeysComeLast'
  BY <1>9 DEF RestoreVault, RestoreRedis, Restored, Find, Insert, MongoLands,
              Goto, Answer, kvVars
<1>13. ASSUME NEW r \in Reqs, ReadAddress(r) \/ ReadRecord(r) \/ ReadKey(r) PROVE KeysComeLast'
  BY <1>13 DEF ReadAddress, ReadRecord, ReadKey, Goto, Answer, kvVars
<1>14. ASSUME NEW r \in Reqs, VaultLands(r) PROVE KeysComeLast'
  BY <1>14 DEF VaultLands
<1>10. CASE Crash
  BY <1>10 DEF Crash, Die, kvVars
<1>11. ASSUME NEW n \in Names, ExpireBackup(n) PROVE KeysComeLast'
  BY <1>11 DEF ExpireBackup, reqVars
<1>12. CASE UNCHANGED vars
  BY <1>12 DEF vars, reqVars, kvVars
<1> QED
  BY <1>1, <1>2, <1>3, <1>4, <1>5, <1>6, <1>7, <1>8, <1>9, <1>10, <1>11, <1>12, <1>13,
     <1>14
  DEF Next, Step, Lands

\* So it holds in every reachable state.
LEMMA KeysLast == Spec => []KeysComeLast
<1>1. Init => KeysComeLast
  <2> SUFFICES ASSUME Init PROVE KeysComeLast
    OBVIOUS
  <2>1. \A n \in Names : vault[n] \notin Reqs
    BY ConstantsAssumption DEF Init, Wallets
  <2> QED BY <2>1 DEF KeysComeLast, Init
<1> QED BY <1>1, KeysStep, TypeCorrect, PTL DEF Spec

\* Readers hand out only keys whose wallet Redis and MongoDB have acknowledged:
\* the key in Vault decrypts what the reader holds when both are of one wallet,
\* and Vault has no other keys.
THEOREM KeysOfWritten == Spec => KeyOfWrittenWallet
<1> DEFINE HandsOutWritten == \A r \in Reqs :
          pc[r] = "readKey" /\ result[r] = "none" /\ result'[r] = "success" =>
              \/ held[r] \in Names
              \/ /\ redisWrite[held[r]] = "landed"
                 /\ mongoWrite[held[r]] = "landed"
                 /\ result[held[r]] \in {"none", "success"}
<1>1. TypeOK /\ KeysComeLast /\ [Next]_vars => [HandsOutWritten]_vars
  <2> SUFFICES ASSUME TypeOK, KeysComeLast, Next, NEW r \in Reqs,
                      pc[r] = "readKey", result[r] = "none", result'[r] = "success"
               PROVE  \/ held[r] \in Names
                      \/ /\ redisWrite[held[r]] = "landed"
                         /\ mongoWrite[held[r]] = "landed"
                         /\ result[held[r]] \in {"none", "success"}
    OBVIOUS
  <2>1. ReadKey(r)
    <3>1. ASSUME NEW s \in Reqs, Begin(s) \/ Step(s) \/ Lands(s), ~ReadKey(s) PROVE FALSE
      <4>1. pc[s] # "readKey" => s # r
        OBVIOUS
      <4> QED BY <3>1, <4>1 DEF TypeOK, Step, Lands, Begin, PreCheck, Check, CheckExists, Issue,
         AwaitRedis, AwaitMongo, Verify, StoreVault, AwaitVault, ReadVault, BackUp, DeleteVault,
         Deleted, DeletionFails, Mark, FlagVault, DeleteRedis, FlagRedis, Final, Restore, Commit,
         RestoreVault, RestoreRedis, Restored, Find, Insert, ReadAddress, ReadRecord,
         RedisLands, MongoLands, MongoFails, VaultLands, Answer
    <3>2. ASSUME NEW s \in Reqs, ReadKey(s) PROVE s = r
      BY <3>2 DEF ReadKey, Answer, TypeOK
    <3> QED BY <3>1, <3>2 DEF Next, Crash, ExpireBackup, reqVars
  <2>2. name[r] \in Names /\ vault[name[r]] = held[r]
    BY <2>1 DEF ReadKey, Answer, TypeOK
  <2>3. held[r] \in Wallets
    BY DEF KeysComeLast
  <2> QED BY <2>2, <2>3 DEF KeysComeLast, Wallets
<1> QED BY <1>1, KeysLast, TypeCorrect, PTL DEF Spec, KeyOfWrittenWallet

\* A step that adds no key of w to Vault, and to Redis at most a record whose
\* write was still outstanding, cannot make w usable: it leaves w where it is or
\* retires it.
LEMMA OnlyLoses ==
    ASSUME TypeOK, KeysComeLast, NEW w \in Wallets,
           \A n \in Names : vault'[n] = w => vault[n] = w,
           \A n \in Names : redis'[n] = w =>
               redis[n] = w \/ (w \in Reqs /\ redisWrite[w] = "sent"),
           w \in Reqs /\ KeyToCome(w)' => KeyToCome(w)
    PROVE  life'[w] \in {life[w], "retired"}
<1>1. CASE Usable(w)'
  <2>1. PICK n \in Names : redis'[n] = w /\ vault'[n] = w
    BY <1>1 DEF Usable
  <2>2. redis[n] = w /\ vault[n] = w
    BY <2>1 DEF KeysComeLast
  <2> QED BY <1>1, <2>2 DEF Usable, life
<1>2. CASE ~Usable(w)' /\ w \in Reqs
  <2>1. CASE ~KeyToCome(w)'
    BY <1>2, <2>1 DEF life
  <2>2. CASE KeyToCome(w)'
    <3>1. KeyToCome(w) /\ ~Usable(w)
      BY <1>2, <2>2 DEF Usable, KeysComeLast, KeyToCome
    <3> QED BY <1>2, <2>2, <3>1 DEF life
  <2> QED BY <2>1, <2>2
<1>3. CASE ~Usable(w)' /\ w \notin Reqs
  BY <1>3 DEF life
<1> QED BY <1>1, <1>2, <1>3

\* Every step but the Vault write of a creation meets these conditions.
LEMMA StepLoses ==
    ASSUME TypeOK, KeysComeLast, Next, \A r \in Reqs : ~VaultLands(r), NEW w \in Wallets
    PROVE  life'[w] \in {life[w], "retired"}
<1> USE ConstantsAssumption DEF TypeOK
<1>1. \A n \in Names : vault'[n] = w => vault[n] = w
  <2>1. CASE \E r \in Reqs : DeleteVault(r)
    BY <2>1 DEF DeleteVault
  <2>2. CASE ~\E r \in Reqs : DeleteVault(r)
    <3>1. UNCHANGED vault
      BY <2>2 DEF Next, Step, Lands, Begin, PreCheck, Check, CheckExists, Issue,
         AwaitRedis, AwaitMongo, Verify, StoreVault, AwaitVault, ReadVault, BackUp, Mark, FlagVault,
         DeleteRedis, FlagRedis, Final, Commit, RestoreVault, RestoreRedis,
         Restored, Find, Insert, ReadAddress, ReadRecord, ReadKey, RedisLands, MongoLands,
         MongoFails, Crash, ExpireBackup, kvVars
    <3> QED BY <3>1
  <2> QED BY <2>1, <2>2
<1>2. \A n \in Names : redis'[n] = w =>
          redis[n] = w \/ (w \in Reqs /\ redisWrite[w] = "sent")
  <2>1. CASE \E r \in Reqs : RedisLands(r)
    BY <2>1 DEF RedisLands
  <2>2. CASE \E r \in Reqs : DeleteRedis(r)
    BY <2>2 DEF DeleteRedis
  <2>3. CASE \E r \in Reqs : RestoreRedis(r)
    BY <2>3 DEF RestoreRedis, RestoredRecord
  <2>4. CASE ~\E r \in Reqs : RedisLands(r) \/ DeleteRedis(r) \/ RestoreRedis(r)
    <3>1. UNCHANGED redis
      BY <2>4 DEF Next, Step, Lands, Begin, PreCheck, Check, CheckExists, Issue,
         AwaitRedis, AwaitMongo, Verify, StoreVault, AwaitVault, ReadVault, BackUp, DeleteVault, Mark,
         FlagVault, FlagRedis, Final, Commit, RestoreVault, Restored, Find,
         Insert, ReadAddress, ReadRecord, ReadKey, MongoLands, MongoFails, VaultLands,
         Crash, ExpireBackup, kvVars
    <3> QED BY <3>1
  <2> QED BY <2>1, <2>2, <2>3, <2>4
<1>3. ASSUME w \in Reqs, pc[w] \in {"done", "dead"} PROVE pc'[w] \in {"done", "dead"}
  <2>1. CASE Crash \/ \E r \in Reqs : MongoFails(r)
    BY <1>3, <2>1 DEF Crash, MongoFails, Die
  <2>2. CASE \E n \in Names : ExpireBackup(n)
    BY <1>3, <2>2 DEF ExpireBackup, reqVars
  <2>3. ASSUME NEW r \in Reqs, Begin(r) \/ Step(r) \/ RedisLands(r) \/ MongoLands(r)
        PROVE  pc' = pc \/ (r # w /\ \A s \in Reqs \ {r} : pc'[s] = pc[s])
    BY <1>3, <2>3 DEF Step, Begin, PreCheck, Check, CheckExists, Issue, AwaitRedis,
       AwaitMongo, Verify, StoreVault, AwaitVault, ReadVault, BackUp, DeleteVault,
       Deleted, DeletionFails, Mark, FlagVault, DeleteRedis, FlagRedis, Final, Restore,
       Commit, RestoreVault, RestoreRedis, Restored, Find, Insert, ReadAddress,
       ReadRecord, ReadKey, RedisLands, MongoLands, Goto, Answer
  <2> QED BY <1>3, <2>1, <2>2, <2>3 DEF Next, Lands
<1>4. ASSUME w \in Reqs, KeyToCome(w)' PROVE KeyToCome(w)
  <2>1. CASE StoreVault(w)
    BY <1>4, <2>1 DEF StoreVault, KeyToCome, KeysComeLast
  <2>2. CASE ~StoreVault(w)
    <3>1. vaultWrite'[w] = vaultWrite[w]
      BY <1>4, <2>2 DEF Next, Step, Lands, Begin, PreCheck, Check, CheckExists, Issue,
         AwaitRedis, AwaitMongo, Verify, StoreVault, AwaitVault, ReadVault, BackUp,
         DeleteVault, Mark, FlagVault, DeleteRedis, FlagRedis, Final, Commit,
         RestoreVault, RestoreRedis, Restored, Find, Insert, ReadAddress, ReadRecord,
         ReadKey, RedisLands, MongoLands, MongoFails, Crash, ExpireBackup, reqVars
    <3> QED BY <1>3, <1>4, <3>1 DEF KeyToCome
  <2> QED BY <2>1, <2>2
<1> QED BY <1>1, <1>2, <1>4, OnlyLoses

\* The Vault write of a creation makes its wallet usable or comes too late, and
\* takes nothing but life from the others.
LEMMA VaultActivates ==
    ASSUME TypeOK, KeysComeLast, NEW r \in Reqs, VaultLands(r)
    PROVE  Lifecycle!Next
<1> USE DEF TypeOK, Wallets, Lifecycle!LoseSome
<1>1. life' \in [Wallets -> Lifecycle!Stages]
  BY DEF life, Lifecycle!Stages
<1>2. vaultWrite[r] = "sent" /\ vaultWrite'[r] \in {"landed", "failed"} /\ UNCHANGED <<pc, redis>>
  BY DEF VaultLands
<1>3. life[r] = "unborn"
  BY <1>2 DEF life, Usable, KeyToCome, KeysComeLast
<1>4. life'[r] \in {"usable", "retired"}
  BY <1>2 DEF life, KeyToCome
<1>5. ASSUME NEW w \in Wallets \ {r} PROVE life'[w] \in {life[w], "retired"}
  <2>1. \A n \in Names : vault'[n] = w => vault[n] = w
    BY DEF VaultLands
  <2>2. w \in Reqs => vaultWrite'[w] = vaultWrite[w]
    BY DEF VaultLands
  <2>3. w \in Reqs /\ KeyToCome(w)' => KeyToCome(w)
    BY <1>2, <2>2 DEF KeyToCome
  <2> QED BY <1>2, <2>1, <2>3, OnlyLoses
<1>6. CASE life'[r] = "usable"
  BY <1>1, <1>3, <1>5, <1>6 DEF Lifecycle!Next, Lifecycle!Activate
<1>7. CASE life'[r] = "retired"
  BY <1>1, <1>5, <1>7 DEF Lifecycle!Next, Lifecycle!Retire
<1> QED BY <1>4, <1>6, <1>7

\* Custody implements WalletLifecycle: whatever requests overlap, whichever calls
\* fail, whenever the process dies and however late its writes arrive, a wallet
\* becomes usable at most once, when the Vault write of its own creation takes
\* effect, and a lost or revoked wallet stays unusable.
THEOREM LifecycleImplemented == Spec => OneLife
<1>1. Init => Lifecycle!Init
  BY DEF Init, Lifecycle!Init, Lifecycle!Stages, life
<1>3. TypeOK /\ KeysComeLast /\ [Next]_vars => [Lifecycle!Next]_life
  <2> SUFFICES ASSUME TypeOK, KeysComeLast, [Next]_vars PROVE [Lifecycle!Next]_life
    OBVIOUS
  <2>1. CASE UNCHANGED vars
    BY <2>1 DEF vars, reqVars, kvVars, life, Usable, KeyToCome
  <2>2. CASE \E r \in Reqs : VaultLands(r)
    BY <2>2, VaultActivates
  <2>3. CASE Next /\ \A r \in Reqs : ~VaultLands(r)
    <3>1. \A w \in Wallets : life'[w] \in {life[w], "retired"}
      BY <2>3, StepLoses
    <3>2. life' \in [Wallets -> Lifecycle!Stages]
      BY DEF life, Lifecycle!Stages
    <3> QED BY <3>1, <3>2 DEF Lifecycle!Next, Lifecycle!Retire, Lifecycle!LoseSome
  <2> QED BY <2>1, <2>2, <2>3
<1> QED BY <1>1, <1>3, TypeCorrect, KeysLast, PTL DEF Spec, OneLife, Lifecycle!Spec

-----------------------------------------------------------------------------
(* Requests for a name one at a time.                                       *)

WritingLabels == {"awaitRedis", "awaitMongo", "verify", "storeVault", "awaitVault"}

RevokingLabels ==
    {"mark", "readVault", "backUp", "deleteVault", "flagVault", "deleteRedis",
     "flagRedis", "final", "commit", "restoring"}

\* Between the first and the last write of a request.
ChangingLabels == WritingLabels \cup (RevokingLabels \ {"mark"})

\* What the labels say of a request, whatever runs beside it.
Labelled ==
    \A r \in Reqs :
        /\ pc[r] = "new" => name[r] = None /\ op[r] = None
        /\ result[r] # "none" => pc[r] = "done"
        /\ op[r] = "revoke" => pc[r] \in RevokingLabels \cup {"new", "done", "dead"}
        /\ pc[r] \in RevokingLabels => op[r] \in {"revoke", "deleteSecret"}
        /\ redisWrite[r] # "idle" \/ mongoWrite[r] # "idle" =>
              pc[r] \in WritingLabels \cup {"done", "dead"}
        /\ vaultWrite[r] # "idle" => pc[r] \in {"awaitVault", "done", "dead"}
        /\ todo[r] # {} => pc[r] = "restoring"

\* No two requests for one name are in flight.
Alone == \A r, s \in Reqs : InFlight(r) /\ InFlight(s) /\ name[r] = name[s] => r = s

\* What a request has seen of the stores is still so: a creation, that Redis has
\* no record; a deletion, the key it read and then backed up; a revocation, that
\* the record is gone, and the key unless a fault has hit its own deletion.
StillSo ==
    \A r \in Reqs :
        /\ pc[r] = "issue" \/ redisWrite[r] = "sent" => redis[name[r]] = None
        /\ pc[r] = "backUp" => held[r] = vault[name[r]]
        /\ pc[r] = "deleteVault" => backup[name[r]] = vault[name[r]]
        /\ pc[r] \in {"flagRedis", "final", "commit"} => redis[name[r]] = None
        /\ pc[r] \in {"flagVault", "deleteRedis", "flagRedis", "final", "commit"} =>
              vault[name[r]] = None \/ r \in swallowed

Excused(n) ==
    \E r \in Reqs : name[r] = n /\ (op[r] = "deleteSecret" \/ result[r] = "restored")

Agree(n) ==
    users[n] # NoUser /\ users[n].addr \in Wallets =>
        redis[n] = users[n].addr /\ vault[n] = users[n].addr

\* A creation that is between its first and its last write has written what has
\* been acknowledged and nothing else, and the transaction of a revocation is about to
\* commit the empty address.  Without faults, nothing fails and nothing dies.
WritesFit(r) ==
    LET n == name[r] IN
    /\ pc[r] # "dead"
    /\ redisWrite[r] # "failed" /\ mongoWrite[r] # "failed" /\ vaultWrite[r] # "failed"
    /\ redisWrite[r] = "sent" => pc[r] = "awaitRedis"
    /\ mongoWrite[r] = "sent" => pc[r] \in {"awaitRedis", "awaitMongo"}
    /\ vaultWrite[r] = "sent" => pc[r] = "awaitVault"
    /\ pc[r] = "awaitVault" => vaultWrite[r] # "idle"
    /\ pc[r] = "awaitVault" /\ vaultWrite[r] = "landed" => vault[n] = r
    /\ pc[r] \in WritingLabels =>
          /\ redisWrite[r] # "idle" /\ mongoWrite[r] # "idle"
          /\ redis[n] = IF redisWrite[r] = "landed" THEN r ELSE None
          /\ users[n] # NoUser =>
                IF mongoWrite[r] = "landed" THEN users[n].addr = r
                                            ELSE users[n].addr \notin Wallets
    /\ pc[r] = "commit" => draft[n].addr = Blank

\* Without faults the stores of a name agree unless a request for it is between
\* its first and its last write.
AgreeInv ==
    faults = 0 => \A n \in Names : ~Excused(n) =>
        /\ \A r \in Reqs : name[r] = n => WritesFit(r)
        /\ (\A r \in Reqs : name[r] = n => pc[r] \notin ChangingLabels) => Agree(n)

\* Every step keeps the labels.
LEMMA LabelledStep == ASSUME TypeOK, Labelled, [Next]_vars PROVE Labelled'
<1> USE ConstantsAssumption DEF TypeOK, Labelled, WritingLabels, RevokingLabels
<1>1. ASSUME NEW r \in Reqs, Begin(r) PROVE Labelled'
  BY <1>1 DEF Begin, FirstStep, AllOps, Readers
<1>2. ASSUME NEW r \in Reqs, PreCheck(r) \/ Check(r) \/ Issue(r) \/ Verify(r) PROVE Labelled'
  BY <1>2 DEF PreCheck, Check, CheckExists, Issue, Verify, Goto, Answer
<1>3. ASSUME NEW r \in Reqs, AwaitRedis(r) \/ AwaitMongo(r) \/ StoreVault(r) \/ AwaitVault(r) PROVE Labelled'
  BY <1>3 DEF AwaitRedis, AwaitMongo, StoreVault, AwaitVault, Goto, Answer
<1>4. ASSUME NEW r \in Reqs, ReadVault(r) \/ BackUp(r) \/ DeleteVault(r) PROVE Labelled'
  BY <1>4 DEF ReadVault, BackUp, DeleteVault, Deleted, DeletionFails, Goto, Answer
<1>5. ASSUME NEW r \in Reqs, Mark(r) \/ FlagVault(r) \/ DeleteRedis(r) PROVE Labelled'
  BY <1>5 DEF Mark, FlagVault, DeleteRedis, Restore, Goto, Answer
<1>6. ASSUME NEW r \in Reqs, FlagRedis(r) \/ Final(r) \/ Commit(r) PROVE Labelled'
  BY <1>6 DEF FlagRedis, Final, Commit, Restore, Goto, Answer
<1>7. ASSUME NEW r \in Reqs, RestoreVault(r) \/ RestoreRedis(r) \/ Restored(r) PROVE Labelled'
  BY <1>7 DEF RestoreVault, RestoreRedis, Restored, Answer
<1>8. ASSUME NEW r \in Reqs, Find(r) \/ Insert(r) \/ ReadAddress(r) \/ ReadRecord(r) \/ ReadKey(r)
      PROVE Labelled'
  BY <1>8 DEF Find, Insert, ReadAddress, ReadRecord, ReadKey, Goto, Answer
<1>9. ASSUME NEW r \in Reqs, Lands(r) PROVE Labelled'
  BY <1>9 DEF Lands, RedisLands, MongoLands, MongoFails, VaultLands, Die
<1>10. CASE Crash
  BY <1>10 DEF Crash, Die
<1>11. ASSUME NEW n \in Names, ExpireBackup(n) PROVE Labelled'
  BY <1>11 DEF ExpireBackup, reqVars
<1>12. CASE UNCHANGED vars
  BY <1>12 DEF vars, reqVars
<1> QED
  BY <1>1, <1>2, <1>3, <1>4, <1>5, <1>6, <1>7, <1>8, <1>9, <1>10, <1>11, <1>12 DEF Next, Step

\* Only Begin puts a request in flight, and it finds none of its name there.
LEMMA AloneStep == ASSUME Serial, TypeOK, Labelled, Alone, [Next]_vars PROVE Alone'
<1>1. ASSUME NEW r \in Reqs, Begin(r) PROVE Alone'
  <2>1. PICK n \in Names : /\ Quiet(n)
                           /\ name' = [name EXCEPT ![r] = n]
                           /\ UNCHANGED writes
                           /\ \A s \in Reqs \ {r} : pc'[s] = pc[s]
    BY <1>1 DEF Begin, TypeOK
  <2>2. \A s \in Reqs \ {r} : (InFlight(s)' <=> InFlight(s)) /\ name'[s] = name[s]
    BY <2>1 DEF InFlight, TypeOK
  <2>3. \A s \in Reqs \ {r} : InFlight(s) => name[s] # n
    BY <2>1 DEF Quiet
  <2> QED BY <2>1, <2>2, <2>3 DEF Alone, TypeOK
<1>2. ASSUME UNCHANGED name, \A s \in Reqs : InFlight(s)' => InFlight(s) PROVE Alone'
  BY <1>2 DEF Alone
<1> USE DEF TypeOK, Labelled, InFlight, WritingLabels, RevokingLabels
<1>3. ASSUME NEW r \in Reqs, Step(r) PROVE UNCHANGED name /\ \A s \in Reqs : InFlight(s)' => InFlight(s)
  <2>1. CASE PreCheck(r) \/ Check(r) \/ Issue(r) \/ Verify(r)
    BY <2>1 DEF PreCheck, Check, CheckExists, Issue, Verify, Goto, Answer
  <2>2. CASE AwaitRedis(r) \/ AwaitMongo(r) \/ StoreVault(r) \/ AwaitVault(r)
    BY <2>2 DEF AwaitRedis, AwaitMongo, StoreVault, AwaitVault, Goto, Answer
  <2>3. CASE ReadVault(r) \/ BackUp(r) \/ DeleteVault(r)
    BY <2>3 DEF ReadVault, BackUp, DeleteVault, Deleted, DeletionFails, Goto, Answer
  <2>4. CASE Mark(r) \/ FlagVault(r) \/ DeleteRedis(r)
    BY <2>4 DEF Mark, FlagVault, DeleteRedis, Restore, Goto, Answer
  <2>5. CASE FlagRedis(r) \/ Final(r) \/ Commit(r)
    BY <2>5 DEF FlagRedis, Final, Commit, Restore, Goto, Answer
  <2>6. CASE RestoreVault(r) \/ RestoreRedis(r) \/ Restored(r)
    BY <2>6 DEF RestoreVault, RestoreRedis, Restored, Answer
  <2>7. CASE Find(r) \/ Insert(r) \/ ReadAddress(r) \/ ReadRecord(r) \/ ReadKey(r)
    BY <2>7 DEF Find, Insert, ReadAddress, ReadRecord, ReadKey, Goto, Answer
  <2> QED BY <1>3, <2>1, <2>2, <2>3, <2>4, <2>5, <2>6, <2>7 DEF Step
<1>4. ASSUME NEW r \in Reqs, Lands(r) PROVE UNCHANGED name /\ \A s \in Reqs : InFlight(s)' => InFlight(s)
  BY <1>4 DEF Lands, RedisLands, MongoLands, MongoFails, VaultLands, Die
<1>5. CASE Crash
  BY <1>2, <1>5 DEF Crash, Die
<1>6. ASSUME NEW n \in Names, ExpireBackup(n) PROVE Alone'
  BY <1>2, <1>6 DEF ExpireBackup, reqVars
<1>7. CASE UNCHANGED vars
  BY <1>2, <1>7 DEF vars, reqVars
<1> QED BY <1>1, <1>2, <1>3, <1>4, <1>5, <1>6, <1>7 DEF Next

\* A step that leaves the stores of other names alone, and changes the request
\* that takes it only, keeps what the others have seen.
LEMMA OthersStillSo ==
    ASSUME TypeOK, Labelled, Alone, StillSo, NEW r \in Reqs, InFlight(r), name[r] \in Names,
           UNCHANGED name, swallowed \subseteq swallowed',
           \A s \in Reqs \ {r} : /\ pc'[s] = pc[s] /\ redisWrite'[s] = redisWrite[s]
                                 /\ held'[s] = held[s],
           \A n \in Names \ {name[r]} : /\ redis'[n] = redis[n] /\ vault'[n] = vault[n]
                                        /\ backup'[n] = backup[n],
           /\ pc'[r] = "issue" \/ redisWrite'[r] = "sent" => redis'[name[r]] = None
           /\ pc'[r] = "backUp" => held'[r] = vault'[name[r]]
           /\ pc'[r] = "deleteVault" => backup'[name[r]] = vault'[name[r]]
           /\ pc'[r] \in {"flagRedis", "final", "commit"} => redis'[name[r]] = None
           /\ pc'[r] \in {"flagVault", "deleteRedis", "flagRedis", "final", "commit"} =>
                 vault'[name[r]] = None \/ r \in swallowed'
    PROVE  StillSo'
<1> SUFFICES ASSUME NEW s \in Reqs, s # r
    PROVE  /\ pc'[s] = "issue" \/ redisWrite'[s] = "sent" => redis'[name[s]] = None
           /\ pc'[s] = "backUp" => held'[s] = vault'[name[s]]
           /\ pc'[s] = "deleteVault" => backup'[name[s]] = vault'[name[s]]
           /\ pc'[s] \in {"flagRedis", "final", "commit"} => redis'[name[s]] = None
           /\ pc'[s] \in {"flagVault", "deleteRedis", "flagRedis", "final", "commit"} =>
                 vault'[name[s]] = None \/ s \in swallowed'
  BY DEF StillSo
<1>1. CASE ~InFlight(s)
  BY <1>1 DEF InFlight
<1>2. CASE InFlight(s)
  <2>1. name[s] # name[r]
    BY <1>2 DEF Alone
  <2>2. pc[s] # "new"
    BY <1>2 DEF InFlight, Labelled, WritingLabels
  <2>3. name[s] \in Names \ {name[r]}
    BY <2>1, <2>2 DEF TypeOK
  <2> QED BY <2>3 DEF StillSo
<1> QED BY <1>1, <1>2

\* Every step of a request keeps it.
LEMMA StillSoStep ==
    ASSUME TypeOK, Labelled, Alone, StillSo, NEW r \in Reqs, Step(r) \/ Lands(r)
    PROVE  StillSo'
<1>1. InFlight(r) /\ pc[r] # "new" /\ name[r] \in Names
  <2>1. InFlight(r)
    BY DEF Step, Lands, InFlight, PreCheck, Check, CheckExists, Issue, AwaitRedis, AwaitMongo,
       Verify, StoreVault, AwaitVault, ReadVault, BackUp, DeleteVault, Mark, FlagVault, DeleteRedis,
       FlagRedis, Final, Commit, RestoreVault, RestoreRedis, Restored, Find, Insert,
       ReadAddress, ReadRecord, ReadKey, RedisLands, MongoLands, MongoFails, VaultLands, Labelled
  <2>2. pc[r] # "new"
    BY <2>1 DEF InFlight, Labelled, WritingLabels
  <2> QED BY <2>1, <2>2 DEF TypeOK
<1> USE <1>1, ConstantsAssumption
    DEF TypeOK, Labelled, StillSo, WritingLabels, RevokingLabels, Works, Fails, Goto, Answer
<1>2. CASE PreCheck(r) \/ Check(r)
  BY <1>2, OthersStillSo DEF PreCheck, Check, CheckExists, WalletExists, kvVars
<1>3. CASE Issue(r)
  BY <1>3, OthersStillSo DEF Issue, kvVars
<1>4. CASE AwaitRedis(r) \/ AwaitMongo(r)
  BY <1>4, OthersStillSo DEF AwaitRedis, AwaitMongo, kvVars
<1>5. CASE Verify(r) \/ StoreVault(r) \/ AwaitVault(r)
  BY <1>5, OthersStillSo DEF Verify, StoreVault, AwaitVault, kvVars
<1>6. CASE ReadVault(r)
  BY <1>6, OthersStillSo DEF ReadVault, Deleted, DeletionFails, kvVars
<1>7. CASE BackUp(r)
  BY <1>7, OthersStillSo DEF BackUp, Deleted, DeletionFails
<1>8. CASE DeleteVault(r)
  BY <1>8, OthersStillSo DEF DeleteVault, Deleted, DeletionFails
<1>9. CASE Mark(r) \/ FlagVault(r)
  BY <1>9, OthersStillSo DEF Mark, FlagVault, kvVars
<1>10. CASE DeleteRedis(r)
  BY <1>10, OthersStillSo DEF DeleteRedis, Restore
<1>11. CASE FlagRedis(r) \/ Final(r) \/ Commit(r)
  BY <1>11, OthersStillSo DEF FlagRedis, Final, Commit, Restore, kvVars
<1>12. CASE RestoreVault(r) \/ RestoreRedis(r) \/ Restored(r)
  <2>1. pc[r] = "restoring" /\ redisWrite[r] # "sent"
    BY <1>12 DEF RestoreVault, RestoreRedis, Restored
  <2>2. CASE RestoreVault(r)
    BY <2>1, <2>2, OthersStillSo DEF RestoreVault, kvVars
  <2>3. CASE RestoreRedis(r)
    BY <2>1, <2>3, OthersStillSo DEF RestoreRedis, RestoredRecord
  <2>4. CASE Restored(r)
    BY <2>1, <2>4, OthersStillSo DEF Restored, kvVars
  <2> QED BY <1>12, <2>2, <2>3, <2>4
<1>13. CASE Find(r) \/ Insert(r)
  BY <1>13, OthersStillSo DEF Find, Insert, kvVars
<1>14. CASE ReadAddress(r) \/ ReadRecord(r) \/ ReadKey(r)
  BY <1>14, OthersStillSo DEF ReadAddress, ReadRecord, ReadKey, kvVars
<1>15. CASE RedisLands(r)
  BY <1>15, OthersStillSo DEF RedisLands, Loses
<1>16. CASE MongoLands(r)
  BY <1>16, OthersStillSo DEF MongoLands, kvVars
<1>17. CASE MongoFails(r)
  BY <1>17 DEF MongoFails, Die, kvVars
<1>18. CASE VaultLands(r)
  BY <1>18, OthersStillSo DEF VaultLands
<1> QED
  BY <1>2, <1>3, <1>4, <1>5, <1>6, <1>7, <1>8, <1>9, <1>10, <1>11, <1>12, <1>13, <1>14,
     <1>15, <1>16, <1>17, <1>18 DEF Step, Lands

\* So does every other step.
LEMMA StillSoNext ==
    ASSUME TypeOK, Labelled, Alone, StillSo, [Next]_vars PROVE StillSo'
<1>1. ASSUME NEW r \in Reqs, Begin(r) PROVE StillSo'
  BY <1>1, ConstantsAssumption
  DEF Begin, FirstStep, AllOps, Readers, StillSo, Labelled, TypeOK, WritingLabels, kvVars
<1>2. ASSUME NEW n \in Names, ExpireBackup(n) PROVE StillSo'
  <2>1. \A r \in Reqs : pc[r] = "deleteVault" => name[r] # n /\ name[r] \in Names
    BY <1>2 DEF ExpireBackup, Quiet, InFlight, TypeOK
  <2>2. \A m \in Names \ {n} : backup'[m] = backup[m]
    BY <1>2 DEF ExpireBackup, TypeOK
  <2> QED BY <1>2, <2>1, <2>2 DEF ExpireBackup, StillSo, reqVars
<1>3. CASE Crash
  BY <1>3 DEF Crash, Die, StillSo, TypeOK, kvVars
<1>4. CASE UNCHANGED vars
  BY <1>4 DEF vars, reqVars, kvVars, StillSo
<1> QED BY <1>1, <1>2, <1>3, <1>4, StillSoStep DEF Next

\* What is known of the request that takes a step, as no other request for its name
\* is in flight.
LEMMA AgreeNow ==
    ASSUME TypeOK, Labelled, Alone, AgreeInv, faults = 0,
           NEW r \in Reqs, InFlight(r), name[r] \in Names, ~Excused(name[r])
    PROVE  WritesFit(r) /\ (pc[r] \notin ChangingLabels => Agree(name[r]))
<1>1. \A s \in Reqs \ {r} : name[s] = name[r] => pc[s] \notin ChangingLabels
  BY DEF Alone, InFlight, ChangingLabels, WritingLabels, RevokingLabels
<1> QED BY <1>1 DEF AgreeInv

\* It suffices to look at that request and its name.
LEMMA AgreeLater ==
    ASSUME TypeOK, Labelled, Alone, AgreeInv,
           NEW r \in Reqs, InFlight(r), name[r] \in Names,
           UNCHANGED <<name, op>>, faults' = 0 => faults = 0,
           result[r] = "restored" => result'[r] = "restored",
           \A s \in Reqs \ {r} : /\ pc'[s] = pc[s] /\ redisWrite'[s] = redisWrite[s]
                                 /\ mongoWrite'[s] = mongoWrite[s]
                                 /\ vaultWrite'[s] = vaultWrite[s] /\ result'[s] = result[s],
           \A n \in Names \ {name[r]} : /\ redis'[n] = redis[n] /\ vault'[n] = vault[n]
                                        /\ users'[n] = users[n] /\ draft'[n] = draft[n],
           /\ faults' = 0 /\ op[r] # "deleteSecret" /\ result'[r] # "restored"
           /\ WritesFit(r) /\ (pc[r] \notin ChangingLabels => Agree(name[r]))
           => /\ WritesFit(r)'
              /\ pc'[r] \notin ChangingLabels => Agree(name[r])'
    PROVE  AgreeInv'
<1>1. \A n \in Names : Excused(n) => Excused(n)'
  BY DEF Excused
<1>2. ASSUME NEW s \in Reqs, s # r, name[s] \in Names, WritesFit(s) PROVE WritesFit(s)'
  <2>1. CASE name[s] # name[r]
    BY <1>2, <2>1 DEF WritesFit
  <2>2. CASE name[s] = name[r]
    <3>1. ~InFlight(s)
      BY <1>2, <2>2 DEF Alone
    <3> QED BY <1>2, <3>1 DEF WritesFit, InFlight, WritingLabels
  <2> QED BY <2>1, <2>2
<1>3. ASSUME NEW n \in Names, faults' = 0, ~Excused(n)'
      PROVE  /\ \A s \in Reqs : name'[s] = n => WritesFit(s)'
             /\ (\A s \in Reqs : name'[s] = n => pc'[s] \notin ChangingLabels) => Agree(n)'
  <2>1. /\ \A s \in Reqs : name[s] = n => WritesFit(s)
        /\ (\A s \in Reqs : name[s] = n => pc[s] \notin ChangingLabels) => Agree(n)
    BY <1>1, <1>3 DEF AgreeInv
  <2>2. \A s \in Reqs \ {r} : name'[s] = n => WritesFit(s)'
    BY <1>2, <1>3, <2>1
  <2>3. CASE n = name[r]
    <3>1. faults = 0 /\ ~Excused(n) /\ op[r] # "deleteSecret" /\ result'[r] # "restored"
      BY <1>1, <1>3, <2>3 DEF Excused
    <3>2. WritesFit(r) /\ (pc[r] \notin ChangingLabels => Agree(n))
      BY <2>3, <3>1, AgreeNow
    <3> QED BY <1>3, <2>2, <2>3, <3>1, <3>2
  <2>4. CASE n # name[r]
    BY <1>3, <2>1, <2>2, <2>4 DEF Agree
  <2> QED BY <2>3, <2>4
<1> QED BY <1>3 DEF AgreeInv

\* The request that takes a step is in flight, for a name.
LEMMA StepsInFlight ==
    ASSUME TypeOK, Labelled, NEW r \in Reqs, Step(r) \/ Lands(r)
    PROVE  InFlight(r) /\ name[r] \in Names
<1>1. InFlight(r)
  BY DEF Step, Lands, InFlight, PreCheck, Check, CheckExists, Issue, AwaitRedis, AwaitMongo,
     Verify, StoreVault, AwaitVault, ReadVault, BackUp, DeleteVault, Mark, FlagVault, DeleteRedis,
     FlagRedis, Final, Commit, RestoreVault, RestoreRedis, Restored, Find, Insert,
     ReadAddress, ReadRecord, ReadKey, RedisLands, MongoLands, MongoFails, VaultLands, Labelled
<1>2. pc[r] # "new"
  BY <1>1 DEF InFlight, Labelled, WritingLabels
<1> QED BY <1>1, <1>2 DEF TypeOK

\* The steps of a creation.
LEMMA AgreeCreation ==
    ASSUME TypeOK, Labelled, Alone, StillSo, AgreeInv, NEW r \in Reqs,
           \/ PreCheck(r) \/ Check(r) \/ Issue(r) \/ AwaitRedis(r) \/ AwaitMongo(r)
           \/ Verify(r) \/ StoreVault(r) \/ AwaitVault(r)
           \/ RedisLands(r) \/ MongoLands(r) \/ MongoFails(r) \/ VaultLands(r)
    PROVE  AgreeInv'
<1>1. InFlight(r) /\ name[r] \in Names
  BY StepsInFlight DEF Step, Lands
<1> USE <1>1, ConstantsAssumption
    DEF TypeOK, Works, Fails, Goto, Answer, WritesFit, Agree, ChangingLabels, WritingLabels,
        RevokingLabels, Labelled, WriteStates
<1>2. CASE PreCheck(r) \/ Check(r)
  <2>1. /\ UNCHANGED <<op, name, writes, redis, vault, users, draft>>
        /\ faults' = 0 => faults = 0
        /\ \A s \in Reqs \ {r} : pc'[s] = pc[s] /\ result'[s] = result[s]
    BY <1>2 DEF PreCheck, Check, CheckExists, kvVars, docVars
  <2>2. /\ pc[r] \in {"preCheck", "check"} /\ pc'[r] \in {"check", "issue", "done"}
        /\ result[r] = "none"
    BY <1>2 DEF PreCheck, Check, CheckExists
  <2> QED BY <2>1, <2>2, AgreeLater
<1>3. CASE Issue(r)
  <2>1. redis[name[r]] = None /\ None \notin Wallets
    BY <1>3 DEF Issue, StillSo
  <2> QED BY <1>3, <2>1, AgreeLater DEF Issue, kvVars, docVars
<1>4. CASE AwaitRedis(r) \/ AwaitMongo(r)
  BY <1>4, AgreeLater DEF AwaitRedis, AwaitMongo, kvVars, docVars
<1>5. CASE Verify(r)
  <2>1. r # None
    BY DEF Wallets
  <2> QED BY <1>5, <2>1, AgreeLater DEF Verify, WalletExists, kvVars, docVars
<1>6. CASE StoreVault(r)
  BY <1>6, AgreeLater DEF StoreVault, kvVars, docVars
<1>10. CASE AwaitVault(r)
  <2>1. /\ pc[r] = "awaitVault" /\ pc'[r] = "done" /\ vaultWrite[r] \in {"landed", "failed"}
        /\ UNCHANGED <<op, name, writes, redis, vault, users, draft, faults>>
    BY <1>10 DEF AwaitVault, kvVars, docVars
  <2>2. WritesFit(r) =>
          /\ redis[name[r]] = r /\ vault[name[r]] = r
          /\ users[name[r]] # NoUser => users[name[r]].addr = r
    BY <2>1
  <2> QED BY <1>10, <2>1, <2>2, AgreeLater DEF AwaitVault
<1>11. CASE VaultLands(r)
  <2>1. /\ UNCHANGED <<pc, op, name, result, redisWrite, mongoWrite, redis, users, draft>>
        /\ faults' = 0 => faults = 0
        /\ vaultWrite[r] = "sent"
        /\ \A s \in Reqs \ {r} : vaultWrite'[s] = vaultWrite[s]
        /\ \A n \in Names \ {name[r]} : vault'[n] = vault[n]
    BY <1>11 DEF VaultLands, Loses, docVars
  <2>2. faults' = 0 /\ WritesFit(r) => vaultWrite'[r] = "landed" /\ vault'[name[r]] = r
    BY <1>11 DEF VaultLands, Loses
  <2> QED BY <2>1, <2>2, AgreeLater
<1>7. CASE RedisLands(r)
  <2>1. /\ UNCHANGED <<pc, op, name, result, mongoWrite, vaultWrite, vault, users, draft>>
        /\ faults' = 0 => faults = 0
        /\ \A s \in Reqs \ {r} : redisWrite'[s] = redisWrite[s]
        /\ \A n \in Names \ {name[r]} : redis'[n] = redis[n]
    BY <1>7 DEF RedisLands, Loses, docVars
  <2>2. faults' = 0 /\ WritesFit(r) =>
          /\ redisWrite[r] = "sent" /\ redisWrite'[r] = "landed"
          /\ redis'[name[r]] = r
    BY <1>7 DEF RedisLands, Loses
  <2> QED BY <2>1, <2>2, AgreeLater
<1>8. CASE MongoLands(r)
  <2>1. users'[name[r]] = IF users[name[r]] = NoUser THEN NoUser ELSE [users[name[r]] EXCEPT !.addr = r]
    BY <1>8 DEF MongoLands, SetInAppWallet, WithAddress
  <2>2. users'[name[r]] # NoUser => users'[name[r]].addr = r
    <3>1. users[name[r]] # NoUser => users[name[r]] \in Docs
      OBVIOUS
    <3> QED BY <2>1, <3>1 DEF Docs
  <2>3. \A n \in Names \ {name[r]} : users'[n] = users[n]
    BY <1>8 DEF MongoLands, SetInAppWallet, WithAddress
  <2>4. WritesFit(r) => WritesFit(r)' /\ pc'[r] \in ChangingLabels
    <3>1. /\ UNCHANGED <<pc, name, redisWrite, vaultWrite, redis, vault, draft>>
          /\ mongoWrite[r] = "sent" /\ mongoWrite'[r] = "landed"
      BY <1>8 DEF MongoLands, kvVars
    <3> QED BY <2>2, <3>1
  <2>5. /\ UNCHANGED <<op, name, pc, result, redisWrite, vaultWrite, redis, vault, draft, faults>>
        /\ \A s \in Reqs \ {r} : mongoWrite'[s] = mongoWrite[s]
    BY <1>8 DEF MongoLands, kvVars
  <2> QED BY <2>3, <2>4, <2>5, AgreeLater
<1>9. CASE MongoFails(r)
  <2>1. CASE pc[r] = "dead"
    BY <1>9, <2>1, AgreeLater DEF MongoFails, VaultLands, Loses, kvVars
  <2>2. CASE pc[r] # "dead"
    BY <1>9, <2>2 DEF MongoFails, VaultLands, Loses, AgreeInv
  <2> QED BY <2>1, <2>2
<1> QED BY <1>2, <1>3, <1>4, <1>5, <1>6, <1>7, <1>8, <1>9, <1>10, <1>11

\* The steps of a deletion.
LEMMA AgreeDeletion ==
    ASSUME TypeOK, TxnOK, Labelled, Alone, AgreeInv, NEW r \in Reqs,
           \/ ReadVault(r) \/ BackUp(r) \/ DeleteVault(r)
           \/ Mark(r) \/ FlagVault(r) \/ DeleteRedis(r) \/ FlagRedis(r) \/ Final(r)
           \/ Commit(r) \/ RestoreVault(r) \/ RestoreRedis(r) \/ Restored(r)
    PROVE  AgreeInv'
<1>1. InFlight(r) /\ name[r] \in Names
  BY StepsInFlight DEF Step, Lands
<1> USE <1>1, ConstantsAssumption
    DEF TypeOK, Works, Fails, Goto, Answer, WritesFit, Agree, ChangingLabels, WritingLabels,
        RevokingLabels, Labelled, WriteStates
<1>2. CASE ReadVault(r)
  BY <1>2, AgreeLater DEF ReadVault, Deleted, DeletionFails, kvVars, docVars
<1>3. CASE BackUp(r) \/ DeleteVault(r)
  <2>1. CASE BackUp(r)
    BY <1>3, <2>1, AgreeLater DEF BackUp, Deleted, DeletionFails, docVars
  <2>2. CASE DeleteVault(r)
    BY <1>3, <2>2, AgreeLater DEF DeleteVault, Deleted, DeletionFails, docVars
  <2> QED BY <1>3, <2>1, <2>2
<1>4. CASE Mark(r)
  BY <1>4, AgreeLater DEF Mark, kvVars
<1>5. CASE FlagVault(r) \/ FlagRedis(r)
  BY <1>5, AgreeLater DEF FlagVault, FlagRedis, SetFlag, Abort, Restore, kvVars
<1>6. CASE DeleteRedis(r)
  BY <1>6, AgreeLater DEF DeleteRedis, Restore, docVars
<1>7. CASE Final(r)
  <2>1. draft[name[r]] \in Docs
    BY <1>7 DEF Final, TxnOK, InTxn, DraftFits
  <2>2. Emptied(draft[name[r]]).addr = Blank
    BY <2>1 DEF Emptied, Docs
  <2> QED BY <1>7, <2>2, AgreeLater DEF Final, Restore, kvVars
<1>8. CASE Commit(r)
  BY <1>8, AgreeLater DEF Commit, Abort, kvVars
<1>9. CASE RestoreVault(r) \/ RestoreRedis(r)
  <2>1. pc[r] = "restoring"
    BY <1>9 DEF RestoreVault, RestoreRedis
  <2>2. CASE RestoreVault(r)
    BY <2>1, <2>2, AgreeLater DEF RestoreVault, docVars
  <2>3. CASE RestoreRedis(r)
    BY <2>1, <2>3, AgreeLater DEF RestoreRedis, docVars
  <2> QED BY <1>9, <2>2, <2>3
<1>10. CASE Restored(r)
  BY <1>10, AgreeLater DEF Restored, Abort, kvVars
<1> QED BY <1>2, <1>3, <1>4, <1>5, <1>6, <1>7, <1>8, <1>9, <1>10

\* The steps of a sign-in and of the readers.
LEMMA AgreeOther ==
    ASSUME TypeOK, Labelled, Alone, AgreeInv, NEW r \in Reqs,
           Find(r) \/ Insert(r) \/ ReadAddress(r) \/ ReadRecord(r) \/ ReadKey(r)
    PROVE  AgreeInv'
<1>1. InFlight(r) /\ name[r] \in Names
  BY StepsInFlight DEF Step, Lands
<1> USE <1>1, ConstantsAssumption
    DEF TypeOK, Works, Fails, Goto, Answer, WritesFit, Agree, ChangingLabels, WritingLabels,
        RevokingLabels, Labelled
<1>2. CASE Find(r) \/ ReadAddress(r) \/ ReadRecord(r) \/ ReadKey(r)
  <2>1. CASE Find(r)
    BY <1>2, <2>1, AgreeLater DEF Find, kvVars, docVars
  <2>2. CASE ReadAddress(r)
    BY <1>2, <2>2, AgreeLater DEF ReadAddress, kvVars, docVars
  <2>3. CASE ReadRecord(r)
    BY <1>2, <2>3, AgreeLater DEF ReadRecord, kvVars, docVars
  <2>4. CASE ReadKey(r)
    BY <1>2, <2>4, AgreeLater DEF ReadKey, kvVars, docVars
  <2> QED BY <1>2, <2>1, <2>2, <2>3, <2>4
<1>3. CASE Insert(r)
  <2>1. users'[name[r]] = users[name[r]] \/ users'[name[r]].addr = Unset
    BY <1>3 DEF Insert, NewDoc
  <2>2. \A n \in Names \ {name[r]} : users'[n] = users[n]
    BY <1>3 DEF Insert
  <2>3. pc[r] = "insert" /\ pc'[r] = "done" /\ UNCHANGED <<redis, vault, draft>>
    BY <1>3 DEF Insert, kvVars
  <2>4. /\ UNCHANGED <<op, name, writes, redis, vault, draft>>
        /\ faults' = 0 => faults = 0
        /\ result'[r] \in {"success", "failed"}
        /\ \A s \in Reqs \ {r} : pc'[s] = pc[s] /\ result'[s] = result[s]
    BY <1>3 DEF Insert, kvVars
  <2>5. Unset \notin Wallets
    OBVIOUS
  <2> QED BY <2>1, <2>2, <2>3, <2>4, <2>5, AgreeLater
<1> QED BY <1>2, <1>3

\* A request that begins has written nothing.
LEMMA AgreeBegin ==
    ASSUME TypeOK, Labelled, AgreeInv, NEW r \in Reqs, Begin(r)
    PROVE  AgreeInv'
<1>1. PICK o \in Ops, n \in Names :
        /\ op' = [op EXCEPT ![r] = o]
        /\ name' = [name EXCEPT ![r] = n]
        /\ pc' = [pc EXCEPT ![r] = FirstStep[o]]
  BY DEF Begin
<1>2. /\ pc[r] = "new" /\ name[r] = None /\ op[r] = None /\ result[r] = "none"
      /\ redisWrite[r] = "idle" /\ mongoWrite[r] = "idle" /\ vaultWrite[r] = "idle"
      /\ UNCHANGED <<result, writes, redis, vault, users, draft, faults>>
  BY DEF Begin, Labelled, WritingLabels, kvVars, docVars
<1>3. o # "deleteSecret" => pc'[r] \in {"preCheck", "check", "mark", "find", "readRecord", "readAddress"}
  BY <1>1, ConstantsAssumption DEF FirstStep, AllOps, Readers, TypeOK
<1>4. \A s \in Reqs \ {r} : pc'[s] = pc[s] /\ name'[s] = name[s] /\ op'[s] = op[s]
  BY <1>1 DEF TypeOK
<1>5. pc'[r] = FirstStep[o] /\ name'[r] = n /\ op'[r] = o
  BY <1>1 DEF TypeOK
<1>6. ASSUME NEW m \in Names, Excused(m) PROVE Excused(m)'
  BY <1>2, <1>4, <1>6, ConstantsAssumption DEF Excused
<1>7. ASSUME NEW m \in Names, faults' = 0, ~Excused(m)'
      PROVE  /\ \A s \in Reqs : name'[s] = m => WritesFit(s)'
             /\ (\A s \in Reqs : name'[s] = m => pc'[s] \notin ChangingLabels) => Agree(m)'
  <2>1. /\ \A s \in Reqs : name[s] = m => WritesFit(s)
        /\ (\A s \in Reqs : name[s] = m => pc[s] \notin ChangingLabels) => Agree(m)
    BY <1>2, <1>6, <1>7 DEF AgreeInv
  <2>2. \A s \in Reqs \ {r} : name'[s] = m => WritesFit(s)'
    BY <1>2, <1>4, <2>1 DEF WritesFit
  <2>3. name'[r] = m => pc'[r] \in {"preCheck", "check", "mark", "find", "readRecord", "readAddress"}
    BY <1>3, <1>5, <1>7 DEF Excused
  <2>4. name'[r] = m => WritesFit(r)'
    BY <1>2, <2>3 DEF WritesFit, WritingLabels
  <2>5. (\A s \in Reqs : name'[s] = m => pc'[s] \notin ChangingLabels) =>
          \A s \in Reqs : name[s] = m => pc[s] \notin ChangingLabels
    BY <1>2, <1>4 DEF ChangingLabels, WritingLabels, RevokingLabels
  <2>6. Agree(m) => Agree(m)'
    BY <1>2 DEF Agree
  <2> QED BY <2>1, <2>2, <2>4, <2>5, <2>6
<1> QED BY <1>7 DEF AgreeInv

\* Every step leaves the stores of the names that nobody is working on in agreement.
LEMMA AgreeNext ==
    ASSUME TypeOK, TxnOK, Labelled, Alone, StillSo, AgreeInv, [Next]_vars PROVE AgreeInv'
<1>1. ASSUME NEW n \in Names, ExpireBackup(n) PROVE AgreeInv'
  BY <1>1 DEF ExpireBackup, AgreeInv, WritesFit, Agree, Excused, reqVars, docVars
<1>2. CASE Crash
  BY <1>2 DEF Crash, Fails, AgreeInv, TypeOK
<1>3. CASE UNCHANGED vars
  BY <1>3 DEF vars, reqVars, kvVars, docVars, AgreeInv, WritesFit, Agree, Excused
<1> QED
  BY <1>1, <1>2, <1>3, AgreeBegin, AgreeCreation, AgreeDeletion, AgreeOther DEF Next, Step, Lands

\* Inductive, with the types and the discipline of the transactions.
SerialInv == Labelled /\ Alone /\ StillSo /\ AgreeInv

LEMMA SerialInit == Init => SerialInv
<1> SUFFICES ASSUME Init PROVE SerialInv
  OBVIOUS
<1>1. PICK owned \in SUBSET Names, accounts \in SUBSET Names :
        /\ redis = [n \in Names |-> IF n \in owned THEN n ELSE None]
        /\ vault = redis
        /\ users = [n \in Names |->
                      IF n \notin accounts THEN NoUser
                      ELSE NewDoc(IF n \in owned THEN n ELSE Unset)]
  BY DEF Init
<1>2. ASSUME NEW n \in Names PROVE Agree(n)
  BY <1>1, <1>2, ConstantsAssumption DEF Agree, NewDoc
<1>3. \A r \in Reqs : name[r] = None /\ name[r] \notin Names
  BY ConstantsAssumption DEF Init
<1>4. Labelled
  BY ConstantsAssumption DEF Init, Labelled, WritingLabels, RevokingLabels
<1>5. Alone /\ StillSo
  BY DEF Init, Alone, StillSo, InFlight
<1>6. AgreeInv
  BY <1>2, <1>3 DEF AgreeInv
<1> QED BY <1>4, <1>5, <1>6 DEF SerialInv

\* With requests for a name one at a time all of it always holds.
LEMMA SerialDiscipline == ASSUME Serial PROVE Spec => [](TypeOK /\ TxnOK /\ SerialInv)
<1>1. TypeOK /\ TxnOK /\ SerialInv /\ [Next]_vars => SerialInv'
  BY LabelledStep, AloneStep, StillSoNext, AgreeNext DEF SerialInv
<1> QED BY <1>1, SerialInit, Discipline, PTL DEF Spec

\* The stores agree: with requests for a name one at a time, and as long as
\* nothing has failed,
\* the wallet a User document names is the one in Redis and Vault whenever no
\* request for that name is under way.
THEOREM SerialStoresAgree == ASSUME Serial PROVE Spec => []StoresAgree
<1>1. SerialInv => StoresAgree
  <2> SUFFICES ASSUME SerialInv, NEW n \in Names, faults = 0, Quiet(n), ~Excused(n)
               PROVE  Agree(n)
    BY DEF StoresAgree, Agree, Excused
  <2>1. \A r \in Reqs : name[r] = n => pc[r] \notin ChangingLabels
    BY DEF Quiet, InFlight, ChangingLabels, WritingLabels, RevokingLabels
  <2> QED BY <2>1 DEF SerialInv, AgreeInv
<1> QED BY <1>1, SerialDiscipline, PTL

\* No creation writes over a record: only the Redis write of a creation puts a wallet
\* there, and what its check has seen is still so when it lands.
THEOREM SerialRecordKept == ASSUME Serial PROVE Spec => RecordNotOverwritten
<1>1. ASSUME TypeOK, SerialInv, [Next]_vars, NEW n \in Names, redis[n] # None, redis'[n] # redis[n]
      PROVE  redis'[n] \in {None, Garbage}
  <2>1. ASSUME NEW r \in Reqs, RedisLands(r) PROVE FALSE
    BY <1>1, <2>1 DEF RedisLands, SerialInv, StillSo, TypeOK
  <2>2. ASSUME NEW r \in Reqs, DeleteRedis(r) \/ RestoreRedis(r) PROVE redis'[n] \in {None, Garbage}
    BY <1>1, <2>2 DEF DeleteRedis, RestoreRedis, RestoredRecord, TypeOK
  <2>3. ASSUME NEW r \in Reqs, Begin(r) \/ Step(r) \/ Lands(r), ~RedisLands(r), ~DeleteRedis(r),
               ~RestoreRedis(r)
        PROVE  UNCHANGED redis
    BY <2>3 DEF Begin, Step, Lands, PreCheck, Check, CheckExists, Issue, AwaitRedis,
       AwaitMongo, Verify, StoreVault, AwaitVault, ReadVault, BackUp, DeleteVault, Mark, FlagVault,
       FlagRedis, Final, Commit, RestoreVault, Restored, Find, Insert, ReadAddress,
       ReadRecord, ReadKey, MongoLands, MongoFails, VaultLands, kvVars
  <2> QED BY <1>1, <2>1, <2>2, <2>3 DEF Next, ExpireBackup, Crash, kvVars, vars
<1>2. TypeOK /\ SerialInv /\ [Next]_vars =>
        [\A n \in Names : redis[n] # None /\ redis'[n] # redis[n] => redis'[n] \in {None, Garbage}]_vars
  BY <1>1
<1> QED BY <1>2, SerialDiscipline, PTL DEF Spec, RecordNotOverwritten

\* A key leaves Vault only when the newest backup of its name holds it.
THEOREM SerialDeletedBackedUp == ASSUME Serial PROVE Spec => DeletedOnlyAfterBackup
<1>1. ASSUME TypeOK, SerialInv, [Next]_vars, NEW n \in Names, vault[n] # None, vault'[n] = None
      PROVE  backup[n] = vault[n]
  <2>1. ASSUME NEW r \in Reqs, DeleteVault(r) PROVE backup[n] = vault[n]
    BY <1>1, <2>1 DEF DeleteVault, SerialInv, StillSo, TypeOK
  <2>2. ASSUME NEW r \in Reqs, VaultLands(r) PROVE FALSE
    BY <1>1, <2>2, ConstantsAssumption DEF VaultLands, TypeOK, Wallets
  <2>3. ASSUME NEW r \in Reqs, Begin(r) \/ Step(r) \/ Lands(r), ~DeleteVault(r), ~VaultLands(r)
        PROVE  UNCHANGED vault
    BY <2>3 DEF Begin, Step, Lands, PreCheck, Check, CheckExists, Issue, AwaitRedis,
       AwaitMongo, Verify, StoreVault, AwaitVault, ReadVault, BackUp, Mark, FlagVault,
       DeleteRedis, FlagRedis, Final, Commit, RestoreVault, RestoreRedis, Restored, Find,
       Insert, ReadAddress, ReadRecord, ReadKey, RedisLands, MongoLands, MongoFails, kvVars
  <2> QED BY <1>1, <2>1, <2>2, <2>3 DEF Next, ExpireBackup, Crash, kvVars, vars
<1>2. TypeOK /\ SerialInv /\ [Next]_vars =>
        [\A n \in Names : vault[n] # None /\ vault'[n] = None => backup[n] = vault[n]]_vars
  BY <1>1
<1> QED BY <1>2, SerialDiscipline, PTL DEF Spec, DeletedOnlyAfterBackup

\* A revocation answers success only from its commit, at which the record is gone,
\* and the key unless a fault has hit its own deletion.
THEOREM SerialRevokedErased == ASSUME Serial PROVE Spec => RevokedMeansErased
<1>1. ASSUME TypeOK, SerialInv, [Next]_vars, NEW r \in Reqs,
             op[r] = "revoke", result[r] = "none", result'[r] = "success"
      PROVE  redis[name[r]] = None /\ (vault[name[r]] = None \/ r \in swallowed)
  <2> USE <1>1 DEF TypeOK, Goto, Answer
  <2>1. pc[r] \in RevokingLabels \cup {"new", "done", "dead"}
    BY DEF SerialInv, Labelled
  <2>2. ASSUME NEW s \in Reqs, Begin(s) \/ Step(s) \/ Lands(s) PROVE pc[r] = "commit"
    <3>1. Step(s) /\ s = r
      BY <2>2 DEF Begin, Step, Lands, PreCheck, Check, CheckExists, Issue, AwaitRedis,
         AwaitMongo, Verify, StoreVault, AwaitVault, ReadVault, BackUp, DeleteVault, Deleted, DeletionFails, Mark,
         FlagVault, DeleteRedis, FlagRedis, Final, Commit, RestoreVault, RestoreRedis,
         Restored, Find, Insert, ReadAddress, ReadRecord, ReadKey,
         RedisLands, MongoLands, MongoFails, VaultLands
    <3>2. PreCheck(r) \/ Check(r) \/ Issue(r) \/ AwaitRedis(r) \/ AwaitMongo(r) \/ Verify(r)
            \/ StoreVault(r) \/ AwaitVault(r) \/ Find(r) \/ Insert(r) \/ ReadAddress(r) \/ ReadRecord(r)
            \/ ReadKey(r) => FALSE
      BY <2>1 DEF RevokingLabels, PreCheck, Check, CheckExists, Issue, AwaitRedis, AwaitMongo,
         Verify, StoreVault, AwaitVault, Find, Insert, ReadAddress, ReadRecord, ReadKey
    <3>3. ReadVault(r) \/ BackUp(r) \/ DeleteVault(r) \/ Mark(r) \/ FlagVault(r)
            \/ DeleteRedis(r) \/ FlagRedis(r) \/ Final(r) => FALSE
      BY DEF ReadVault, BackUp, DeleteVault, Deleted, DeletionFails, Mark, FlagVault, DeleteRedis, FlagRedis,
         Final, Restore
    <3>4. RestoreVault(r) \/ RestoreRedis(r) \/ Restored(r) => FALSE
      BY DEF RestoreVault, RestoreRedis, Restored
    <3> QED BY <3>1, <3>2, <3>3, <3>4 DEF Step, Commit
  <2>3. pc[r] = "commit"
    BY <2>2 DEF Next, ExpireBackup, Crash, reqVars, vars
  <2> QED BY <2>3 DEF SerialInv, StillSo
<1>2. TypeOK /\ SerialInv /\ [Next]_vars =>
        [\A r \in Reqs :
            op[r] = "revoke" /\ result[r] = "none" /\ result'[r] = "success" =>
              /\ redis[name[r]] = None
              /\ vault[name[r]] = None \/ r \in swallowed]_vars
  BY <1>1
<1> QED BY <1>2, SerialDiscipline, PTL DEF Spec, RevokedMeansErased
=============================================================================
