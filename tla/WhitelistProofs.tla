--------------------------- MODULE WhitelistProofs ---------------------------
(***************************************************************************)
(* For any requests, users, codes and number of faults: nobody is in the   *)
(* whitelist by a code that could still be exchanged; and as long as       *)
(* requests have not overlapped, codes, entries and users stay one to one. *)
(*                                                                         *)
(* The second part needs to know what a request has read and that it still *)
(* holds: SerialInv says it step by step, and FaultlessInv that without    *)
(* faults no code is burnt for nobody.                                     *)
(***************************************************************************)
EXTENDS Whitelist, TLAPS

Burnt(c) == codes[c].state \in {"used", "revoked"}

Validating == {"already", "find", "save", "admit"}

Revoking == {"findCode", "removeEntry", "removeCode"}

\* A request past the marking of its code, or with an entry, leaves that code
\* exchanged or revoked; and it no longer changes which code that is.
IInv ==
    /\ TypeOK
    /\ \A r \in Reqs :
          /\ pc[r] \in Validating => op[r] = "validate" /\ user[r] \in Users /\ code[r] \in Codes
          /\ pc[r] \in Revoking => op[r] = "revoke" /\ code[r] \in Codes
          /\ pc[r] = "removeEntry" => user[r] \in Users
          /\ pc[r] = "admit" => Burnt(code[r])
          /\ r \in entries =>
                pc[r] = "done" /\ user[r] \in Users /\ code[r] \in Codes /\ Burnt(code[r])

\* One request at a time: what it has read is still so.
SerialInv == ~overlapped =>
    /\ \A r, s \in Reqs : InFlight(r) /\ InFlight(s) => r = s
    /\ \A r \in Reqs :
          /\ pc[r] = "save" => codes[code[r]].state = "free"
          /\ pc[r] = "admit" => codes[code[r]].state = "used" /\ codes[code[r]].usedBy = user[r]
          /\ pc[r] = "removeEntry" => codes[code[r]].state = "used" /\ codes[code[r]].usedBy = user[r]
          /\ pc[r] \in {"admit", "removeCode"} => \A s \in entries : code[s] # code[r]
          /\ pc[r] \in {"find", "save", "admit"} => \A s \in entries : user[s] # user[r]
    /\ \A s \in entries : codes[code[s]].state = "used" /\ codes[code[s]].usedBy = user[s]
    /\ \A s, t \in entries : code[s] = code[t] \/ user[s] = user[t] => s = t

\* Without faults a used code has its entry, or a request is about to save it or
\* has just removed it.
FaultlessInv == ~overlapped /\ faults = 0 =>
    \A c \in Codes : codes[c].state = "used" =>
        \/ \E s \in entries : code[s] = c
        \/ \E r \in Reqs : pc[r] \in {"admit", "removeCode"} /\ code[r] = c

-----------------------------------------------------------------------------
(* Types, and the order of the two writes.                                  *)

\* The invariant holds at the start, when nobody has been admitted.
LEMMA InitIInv == Init => IInv
<1> SUFFICES ASSUME Init PROVE IInv
  OBVIOUS
<1> USE ConstantsAssumption DEF Init
<1>1. codes \in [Codes -> CodeStates] /\ \A c \in Codes : codes[c].state # "used" /\ codes[c].usedBy = None
  BY DEF CodeStates
<1>2. /\ pc \in [Reqs -> Labels]
      /\ op \in [Reqs -> Ops \cup {None}]
      /\ user \in [Reqs -> Users \cup {None}]
      /\ code \in [Reqs -> Codes \cup {None}]
      /\ result \in [Reqs -> {"none", "ok", "refused", "failed"}]
  BY DEF Labels
<1>3. expired = {} /\ entries = {} /\ overlapped = FALSE /\ faults \in 0..MaxFaults
  OBVIOUS
<1>4. TypeOK
  BY <1>1, <1>2, <1>3 DEF TypeOK
<1> QED BY <1>4 DEF IInv, Validating, Revoking

\* Every step keeps it.
LEMMA NextIInv == IInv /\ [Next]_vars => IInv'
<1> SUFFICES ASSUME IInv, [Next]_vars PROVE IInv'
  OBVIOUS
<1> USE ConstantsAssumption
        DEF IInv, TypeOK, Burnt, Labels, CodeStates, Ops, Goto, Answer, Validating, Revoking
<1>1. ASSUME NEW r \in Reqs, Begin(r) PROVE IInv'
  <2> PICK o \in Ops, u \in Users, c \in Codes :
         /\ op' = [op EXCEPT ![r] = o]
         /\ user' = [user EXCEPT ![r] = IF o = "validate" THEN u ELSE None]
         /\ code' = [code EXCEPT ![r] = IF o = "generate" THEN None ELSE c]
         /\ pc' = [pc EXCEPT ![r] = FirstStep[o]]
    BY <1>1 DEF Begin
  <2>1. \/ o = "generate" /\ FirstStep[o] = "generate"
        \/ o = "validate" /\ FirstStep[o] = "already"
        \/ o = "revoke" /\ FirstStep[o] = "findCode"
    BY DEF FirstStep
  <2>2. r \notin entries /\ overlapped' \in BOOLEAN
    BY <1>1 DEF Begin
  <2> QED BY <1>1, <2>1, <2>2 DEF Begin
<1>2. ASSUME NEW r \in Reqs, Generate(r) PROVE IInv'
  BY <1>2 DEF Generate
<1>3. ASSUME NEW r \in Reqs, Already(r) \/ FindCode(r) PROVE IInv'
  BY <1>3 DEF Already, FindCode
<1>4. ASSUME NEW r \in Reqs, MarkUsed(r) PROVE IInv'
  <2>1. CASE codes[code[r]].state = "revoked" /\ Answer(r, "failed") /\ UNCHANGED codes
    BY <1>4, <2>1 DEF MarkUsed
  <2>2. CASE /\ codes' = [codes EXCEPT ![code[r]] = [state |-> "used", usedBy |-> user[r]]]
             /\ Goto(r, "admit")
             /\ UNCHANGED result
    BY <1>4, <2>2 DEF MarkUsed
  <2> QED BY <1>4, <2>1, <2>2 DEF MarkUsed
<1>5. ASSUME NEW r \in Reqs, Admit(r) PROVE IInv'
  BY <1>5 DEF Admit
<1>6. ASSUME NEW r \in Reqs, RevokeFind(r) PROVE IInv'
  BY <1>6 DEF RevokeFind
<1>7. ASSUME NEW r \in Reqs, RemoveEntry(r) PROVE IInv'
  BY <1>7 DEF RemoveEntry, EntriesOf
<1>8. ASSUME NEW r \in Reqs, RemoveCode(r) PROVE IInv'
  BY <1>8 DEF RemoveCode
<1>9. ASSUME NEW r \in Reqs, Fault(r) PROVE IInv'
  <2>1. faults' \in 0..MaxFaults
    BY <1>9 DEF Fault
  <2> QED BY <1>9, <2>1 DEF Fault, InFlight
<1>10. ASSUME NEW c \in Codes, Expire(c) PROVE IInv'
  BY <1>10 DEF Expire, reqVars
<1>11. CASE UNCHANGED vars
  BY <1>11 DEF vars, reqVars
<1> QED
  BY <1>1, <1>2, <1>3, <1>4, <1>5, <1>6, <1>7, <1>8, <1>9, <1>10, <1>11 DEF Next

\* Every variable keeps its type, and a code names a user exactly when it is
\* used.
THEOREM TypeCorrect == Spec => []TypeOK
<1>1. IInv => TypeOK
  BY DEF IInv
<1> QED BY <1>1, InitIInv, NextIInv, PTL DEF Spec

\* However validations, revocations and failures overlap, an entry in the
\* whitelist is by a code that nobody else can start to exchange.
THEOREM EntriesByBurntCodes == Spec => []AdmittedByBurntCode
<1>1. IInv => AdmittedByBurntCode
  BY DEF IInv, TypeOK, Burnt, AdmittedByBurntCode
<1> QED BY <1>1, InitIInv, NextIInv, PTL DEF Spec

-----------------------------------------------------------------------------
(* One request at a time.                                                   *)

\* A request that is under way is the only one, until another begins.
LEMMA Alone ==
    ASSUME IInv, SerialInv, ~overlapped, NEW r \in Reqs, InFlight(r)
    PROVE  \A s \in Reqs : s # r => pc[s] \in {"new", "done"}
  BY DEF SerialInv, InFlight

\* Every step keeps what a request that is alone has read.
LEMMA NextSerial == IInv /\ IInv' /\ SerialInv /\ [Next]_vars => SerialInv'
<1> SUFFICES ASSUME IInv, IInv', SerialInv, [Next]_vars, ~overlapped' PROVE SerialInv'
  BY DEF SerialInv
<1>0. ~overlapped
  BY DEF Next, Begin, Generate, Already, FindCode, MarkUsed, Admit, RevokeFind,
         RemoveEntry, RemoveCode, Fault, Expire, vars
<1> USE <1>0, ConstantsAssumption DEF IInv, TypeOK, CodeStates, Goto, Answer, InFlight
<1>1. ASSUME NEW r \in Reqs, Begin(r) PROVE SerialInv'
  <2>1. \A s \in Reqs : pc[s] \in {"new", "done"}
    BY <1>1 DEF Begin
  <2> PICK o \in Ops, u \in Users, c \in Codes :
         /\ user' = [user EXCEPT ![r] = IF o = "validate" THEN u ELSE None]
         /\ code' = [code EXCEPT ![r] = IF o = "generate" THEN None ELSE c]
         /\ pc' = [pc EXCEPT ![r] = FirstStep[o]]
    BY <1>1 DEF Begin
  <2>2. FirstStep[o] \in {"generate", "already", "findCode"}
    BY DEF FirstStep, Ops
  <2>3. r \notin entries /\ UNCHANGED <<codes, entries>>
    BY <1>1 DEF Begin
  <2>4. \A s \in Reqs : s # r => UNCHANGED <<pc[s], user[s], code[s]>>
    OBVIOUS
  <2> QED BY <2>1, <2>2, <2>3, <2>4 DEF SerialInv
<1>2. ASSUME NEW r \in Reqs, Generate(r) PROVE SerialInv'
  <2>1. \A s \in Reqs : s # r => pc[s] \in {"new", "done"}
    BY <1>2, Alone DEF Generate
  <2> QED BY <1>2, <2>1 DEF Generate, SerialInv
<1>3. ASSUME NEW r \in Reqs, Already(r) \/ FindCode(r) PROVE SerialInv'
  <2>1. \A s \in Reqs : s # r => pc[s] \in {"new", "done"}
    BY <1>3, Alone DEF Already, FindCode
  <2> QED BY <1>3, <2>1 DEF Already, FindCode, EntriesOf, Valid, SerialInv
<1>4. ASSUME NEW r \in Reqs, MarkUsed(r) PROVE SerialInv'
  <2>1. \A s \in Reqs : s # r => pc[s] \in {"new", "done"}
    BY <1>4, Alone DEF MarkUsed
  <2>2. codes[code[r]].state = "free" /\ code[r] \in Codes
    BY <1>4 DEF MarkUsed, SerialInv, Validating
  <2>3. \A s \in entries : code[s] # code[r]
    BY <2>2 DEF Burnt
  <2>4. /\ codes' = [codes EXCEPT ![code[r]] = [state |-> "used", usedBy |-> user[r]]]
        /\ pc' = [pc EXCEPT ![r] = "admit"]
    BY <1>4, <2>2 DEF MarkUsed
  <2> QED BY <1>4, <2>1, <2>2, <2>3, <2>4 DEF MarkUsed, SerialInv
<1>5. ASSUME NEW r \in Reqs, Admit(r) PROVE SerialInv'
  <2>1. \A s \in Reqs : s # r => pc[s] \in {"new", "done"}
    BY <1>5, Alone DEF Admit
  <2> QED BY <1>5, <2>1 DEF Admit, SerialInv
<1>6. ASSUME NEW r \in Reqs, RevokeFind(r) PROVE SerialInv'
  <2>1. \A s \in Reqs : s # r => pc[s] \in {"new", "done"}
    BY <1>6, Alone DEF RevokeFind
  <2>2. r \notin entries /\ code[r] \in Codes
    BY <1>6 DEF RevokeFind, Revoking
  <2> USE <2>1, <2>2
  <2>3. CASE /\ codes[code[r]].state = "used"
             /\ user' = [user EXCEPT ![r] = codes[code[r]].usedBy]
             /\ Goto(r, "removeEntry")
    BY <1>6, <2>3 DEF RevokeFind, SerialInv
  <2>4. CASE codes[code[r]].state = "free" /\ Goto(r, "removeCode") /\ UNCHANGED user
    BY <1>6, <2>4 DEF RevokeFind, Burnt, SerialInv
  <2>5. CASE Answer(r, "refused") /\ UNCHANGED user
    BY <1>6, <2>5 DEF RevokeFind, SerialInv
  <2> QED BY <1>6, <2>3, <2>4, <2>5 DEF RevokeFind
<1>7. ASSUME NEW r \in Reqs, RemoveEntry(r) PROVE SerialInv'
  <2>1. \A s \in Reqs : s # r => pc[s] \in {"new", "done"}
    BY <1>7, Alone DEF RemoveEntry
  <2>2. \A s \in entries' : s \in entries /\ user[s] # user[r]
    BY <1>7 DEF RemoveEntry, EntriesOf, SerialInv
  <2>3. \A s \in entries : code[s] = code[r] => user[s] = user[r]
    BY <1>7 DEF RemoveEntry, SerialInv
  <2> QED BY <1>7, <2>1, <2>2, <2>3 DEF RemoveEntry, SerialInv
<1>8. ASSUME NEW r \in Reqs, RemoveCode(r) PROVE SerialInv'
  <2>1. \A s \in Reqs : s # r => pc[s] \in {"new", "done"}
    BY <1>8, Alone DEF RemoveCode
  <2> QED BY <1>8, <2>1 DEF RemoveCode, SerialInv
<1>9. ASSUME NEW r \in Reqs, Fault(r) PROVE SerialInv'
  <2>1. \A s \in Reqs : s # r => pc[s] \in {"new", "done"}
    BY <1>9, Alone DEF Fault
  <2> QED BY <1>9, <2>1 DEF Fault, SerialInv
<1>10. ASSUME NEW c \in Codes, Expire(c) PROVE SerialInv'
  BY <1>10 DEF Expire, reqVars, SerialInv
<1>11. CASE UNCHANGED vars
  BY <1>11 DEF vars, reqVars, SerialInv
<1> QED
  BY <1>1, <1>2, <1>3, <1>4, <1>5, <1>6, <1>7, <1>8, <1>9, <1>10, <1>11 DEF Next

\* Without faults, the entry a revocation removes was made with its code: the
\* user the code names has no other.
LEMMA OwnEntry ==
    ASSUME IInv, SerialInv, FaultlessInv, ~overlapped, faults = 0,
           NEW r \in Reqs, RemoveEntry(r), NEW e \in entries, e \notin entries'
    PROVE  code[e] = code[r]
<1>1. pc[r] = "removeEntry" /\ user[e] = user[r]
  BY DEF RemoveEntry, EntriesOf
<1>2. code[r] \in Codes /\ codes[code[r]].state = "used" /\ codes[code[r]].usedBy = user[r]
  BY <1>1 DEF IInv, Revoking, SerialInv
<1>3. \A s \in Reqs : s # r => pc[s] \in {"new", "done"}
  BY <1>1, Alone DEF InFlight
<1>4. PICK s \in entries : code[s] = code[r]
  BY <1>1, <1>2, <1>3 DEF FaultlessInv
<1>5. user[s] = user[r]
  BY <1>2, <1>4 DEF SerialInv
<1> QED BY <1>1, <1>4, <1>5 DEF SerialInv

\* Without faults no step leaves a code used for nobody.
LEMMA NextFaultless == IInv /\ SerialInv /\ FaultlessInv /\ [Next]_vars => FaultlessInv'
<1> SUFFICES ASSUME IInv, SerialInv, FaultlessInv, [Next]_vars, ~overlapped', faults' = 0
             PROVE  FaultlessInv'
  BY DEF FaultlessInv
<1>0. ~overlapped /\ faults = 0
  <2>1. faults \in Nat /\ overlapped \in BOOLEAN
    BY ConstantsAssumption DEF IInv, TypeOK
  <2>2. CASE \E r \in Reqs : Begin(r) \/ Fault(r)
    BY <2>1, <2>2 DEF Begin, Fault
  <2>3. CASE UNCHANGED <<overlapped, faults>>
    BY <2>3
  <2> QED
    BY <2>2, <2>3 DEF Next, Generate, Already, FindCode, MarkUsed, Admit, RevokeFind,
                      RemoveEntry, RemoveCode, Expire, vars
<1> USE <1>0, ConstantsAssumption DEF IInv, TypeOK, CodeStates, Goto, Answer
<1>1. ASSUME NEW r \in Reqs, Begin(r) PROVE FaultlessInv'
  <2>1. r \notin entries /\ pc[r] = "new" /\ UNCHANGED <<codes, entries>>
    BY <1>1 DEF Begin
  <2>2. \A s \in Reqs : s # r => UNCHANGED <<pc[s], code[s]>>
    BY <1>1 DEF Begin
  <2> QED BY <2>1, <2>2 DEF FaultlessInv
<1>2. ASSUME NEW r \in Reqs, Generate(r) PROVE FaultlessInv'
  BY <1>2 DEF Generate, FaultlessInv
<1>3. ASSUME NEW r \in Reqs, Already(r) \/ FindCode(r) PROVE FaultlessInv'
  BY <1>3 DEF Already, FindCode, FaultlessInv
<1>4. ASSUME NEW r \in Reqs, MarkUsed(r) PROVE FaultlessInv'
  <2>1. codes[code[r]].state = "free" /\ code[r] \in Codes
    BY <1>4 DEF MarkUsed, SerialInv, Validating
  <2>2. /\ codes' = [codes EXCEPT ![code[r]] = [state |-> "used", usedBy |-> user[r]]]
        /\ pc' = [pc EXCEPT ![r] = "admit"]
    BY <1>4, <2>1 DEF MarkUsed
  <2> QED BY <1>4, <2>1, <2>2 DEF MarkUsed, FaultlessInv
<1>5. ASSUME NEW r \in Reqs, Admit(r) PROVE FaultlessInv'
  BY <1>5 DEF Admit, FaultlessInv
<1>6. ASSUME NEW r \in Reqs, RevokeFind(r) PROVE FaultlessInv'
  BY <1>6 DEF RevokeFind, FaultlessInv
<1>7. ASSUME NEW r \in Reqs, RemoveEntry(r) PROVE FaultlessInv'
  <2>1. \A s \in entries : s \notin entries' => code[s] = code[r]
    BY <1>7, OwnEntry DEF RemoveEntry
  <2> QED BY <1>7, <2>1 DEF RemoveEntry, FaultlessInv
<1>8. ASSUME NEW r \in Reqs, RemoveCode(r) PROVE FaultlessInv'
  BY <1>8 DEF RemoveCode, FaultlessInv
<1>9. ASSUME NEW r \in Reqs, Fault(r) PROVE FaultlessInv'
  BY <1>9 DEF Fault
<1>10. ASSUME NEW c \in Codes, Expire(c) PROVE FaultlessInv'
  BY <1>10 DEF Expire, reqVars, FaultlessInv
<1>11. CASE UNCHANGED vars
  BY <1>11 DEF vars, reqVars, FaultlessInv
<1> QED
  BY <1>1, <1>2, <1>3, <1>4, <1>5, <1>6, <1>7, <1>8, <1>9, <1>10, <1>11 DEF Next

\* The three parts together are inductive.
LEMMA Invariance == Spec => [](IInv /\ SerialInv /\ FaultlessInv)
<1>1. Init => SerialInv /\ FaultlessInv
  BY DEF Init, SerialInv, FaultlessInv, InFlight
<1> QED BY <1>1, InitIInv, NextIInv, NextSerial, NextFaultless, PTL DEF Spec

\* Requests one at a time: a code admits one user, failures included.
THEOREM CodeAdmitsOne == Spec => []OneUserPerCode
<1>1. SerialInv => OneUserPerCode
  BY DEF SerialInv, OneUserPerCode
<1> QED BY <1>1, Invariance, PTL

\* Requests one at a time: a revoked code leaves nobody in the whitelist.
THEOREM RevokedOut == Spec => []RevokedUserOut
<1>1. SerialInv => RevokedUserOut
  BY DEF SerialInv, RevokedUserOut
<1> QED BY <1>1, Invariance, PTL

\* Requests one at a time and without faults: a revocation takes back the
\* admission by its own code.
THEOREM OwnEntryTaken == Spec => RevokeTakesOwnEntry
<1> DEFINE Taken == \A r \in entries : r \notin entries' /\ ~overlapped /\ faults = 0 =>
                      \E s \in Reqs : op[s] = "revoke" /\ InFlight(s) /\ code[s] = code[r]
<1>1. IInv /\ SerialInv /\ FaultlessInv /\ [Next]_vars => [Taken]_vars
  <2> SUFFICES ASSUME IInv, SerialInv, FaultlessInv, Next, ~overlapped, faults = 0,
                      NEW e \in entries, e \notin entries'
               PROVE  \E s \in Reqs : op[s] = "revoke" /\ InFlight(s) /\ code[s] = code[e]
    OBVIOUS
  <2> PICK s \in Reqs : RemoveEntry(s)
    BY DEF Next, Begin, Generate, Already, FindCode, MarkUsed, Admit, RevokeFind,
           RemoveCode, Fault, Expire
  <2>1. code[e] = code[s]
    BY OwnEntry
  <2> QED BY <2>1 DEF RemoveEntry, IInv, Revoking, InFlight
<1> QED BY <1>1, Invariance, PTL DEF Spec, RevokeTakesOwnEntry
=============================================================================
