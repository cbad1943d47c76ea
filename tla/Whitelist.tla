------------------------------ MODULE Whitelist ------------------------------
(***************************************************************************)
(* Access codes and the whitelist, src/src/whitelist/whitelist.service.ts: *)
(* codes are generated, exchanged once for an entry in the whitelist, and  *)
(* revoked together with that entry.  Codes and entries are documents of   *)
(* two MongoDB collections without a transaction around them; each step of *)
(* a request is one call to the database.                                  *)
(*                                                                         *)
(* A code that is revoked never comes back: codes are 32 random bits, and  *)
(* a document is saved by its _id.  The limit on attempts is left out: no  *)
(* code calls incrementAttempts, so attempts is 0 in every document.       *)
(***************************************************************************)
EXTENDS Naturals, FiniteSets

CONSTANTS
    Reqs, Users, Codes,
    MaxFaults,  \* bound on calls that fail and requests that are cut off
    None        \* no user, no code

ASSUME ConstantsAssumption ==
    /\ MaxFaults \in Nat
    /\ None \notin Users \cup Codes

VARIABLES
    pc, op, user, code, result,  \* per request
    codes,     \* the AccessCode documents
    expired,   \* the codes whose expiresAt has passed
    entries,   \* the WhitelistedUser documents, by the request that saved them
    overlapped,\* two requests have been under way at a time (history)
    faults

reqVars == <<pc, op, user, code, result>>
vars == <<reqVars, codes, expired, entries, overlapped, faults>>

Ops == {"validate", "revoke", "generate"}

Labels == {"new", "already", "find", "save", "admit",
           "findCode", "removeEntry", "removeCode", "generate", "done"}

\* The state of a code: not generated yet, free (isUsed: false), used by a user,
\* revoked.
CodeStates == [state : {"unborn", "free", "used", "revoked"},
               usedBy : Users \cup {None}]

\* The entry saved by r holds user[r] and code[r].
EntriesOf(u) == {r \in entries : user[r] = u}

TypeOK ==
    /\ pc \in [Reqs -> Labels]
    /\ op \in [Reqs -> Ops \cup {None}]
    /\ user \in [Reqs -> Users \cup {None}]
    /\ code \in [Reqs -> Codes \cup {None}]
    /\ result \in [Reqs -> {"none", "ok", "refused", "failed"}]
    /\ codes \in [Codes -> CodeStates]
    /\ expired \subseteq Codes
    /\ entries \subseteq Reqs
    /\ overlapped \in BOOLEAN
    /\ faults \in 0..MaxFaults
    /\ \A c \in Codes : codes[c].state = "used" <=> codes[c].usedBy # None

Init ==
    /\ pc = [r \in Reqs |-> "new"]
    /\ op = [r \in Reqs |-> None]
    /\ user = [r \in Reqs |-> None]
    /\ code = [r \in Reqs |-> None]
    /\ result = [r \in Reqs |-> "none"]
    /\ \E free \in SUBSET Codes :
          codes = [c \in Codes |->
                     [state |-> IF c \in free THEN "free" ELSE "unborn", usedBy |-> None]]
    /\ expired = {}
    /\ entries = {}
    /\ overlapped = FALSE
    /\ faults = 0

-----------------------------------------------------------------------------

Goto(r, label) == pc' = [pc EXCEPT ![r] = label]

Answer(r, res) ==
    /\ pc' = [pc EXCEPT ![r] = "done"]
    /\ result' = [result EXCEPT ![r] = res]

InFlight(r) == pc[r] \notin {"new", "done"}

FirstStep == [validate |-> "already", revoke |-> "findCode", generate |-> "generate"]

Begin(r) ==
    /\ pc[r] = "new"
    /\ overlapped' = (overlapped \/ \E s \in Reqs : InFlight(s))
    /\ \E o \in Ops, u \in Users, c \in Codes :
          /\ op' = [op EXCEPT ![r] = o]
          /\ user' = [user EXCEPT ![r] = IF o = "validate" THEN u ELSE None]
          /\ code' = [code EXCEPT ![r] = IF o = "generate" THEN None ELSE c]
          /\ pc' = [pc EXCEPT ![r] = FirstStep[o]]
    /\ UNCHANGED <<result, codes, expired, entries, faults>>

\* generateAccessCodes: one new document.  (For an amount above one the handler
\* repeats this; each save is on its own.)
Generate(r) ==
    /\ pc[r] = "generate"
    /\ \E c \in Codes :
          /\ codes[c].state = "unborn"
          /\ codes' = [codes EXCEPT ![c].state = "free"]
    /\ Answer(r, "ok")
    /\ UNCHANGED <<op, user, code, expired, entries, overlapped, faults>>

-----------------------------------------------------------------------------
(* validateAccessCode.                                                      *)

Already(r) ==
    /\ pc[r] = "already"
    /\ \/ EntriesOf(user[r]) # {} /\ Answer(r, "ok")
       \/ EntriesOf(user[r]) = {} /\ Goto(r, "find") /\ UNCHANGED result
    /\ UNCHANGED <<op, user, code, codes, expired, entries, overlapped, faults>>

\* (mutant) The lookup does not ask for isUsed: false.
ValidOrUsed(c) == codes[c].state \in {"free", "used"} /\ c \notin expired

Valid(c) == codes[c].state = "free" /\ c \notin expired

FindCode(r) ==
    /\ pc[r] = "find"
    /\ \/ Valid(code[r]) /\ Goto(r, "save") /\ UNCHANGED result
       \/ ~Valid(code[r]) /\ Answer(r, "refused")
    /\ UNCHANGED <<op, user, code, codes, expired, entries, overlapped, faults>>

\* (mutant) The entry is saved before the code is marked as used.
EntryFirst(r) ==
    /\ pc[r] = "save"
    /\ entries' = entries \cup {r}
    /\ Goto(r, "admit")
    /\ UNCHANGED <<op, user, code, result, codes, expired, overlapped, faults>>

\* Saving the document that was read before sets isUsed and usedBy by _id,
\* whatever they are by now; it fails only if the document is gone.
MarkUsed(r) ==
    /\ pc[r] = "save"
    /\ \/ /\ codes[code[r]].state # "revoked"
          /\ codes' = [codes EXCEPT ![code[r]] = [state |-> "used", usedBy |-> user[r]]]
          /\ Goto(r, "admit")
          /\ UNCHANGED result
       \/ /\ codes[code[r]].state = "revoked"
          /\ Answer(r, "failed")
          /\ UNCHANGED codes
    /\ UNCHANGED <<op, user, code, expired, entries, overlapped, faults>>

Admit(r) ==
    /\ pc[r] = "admit"
    /\ entries' = entries \cup {r}
    /\ Answer(r, "ok")
    /\ UNCHANGED <<op, user, code, codes, expired, overlapped, faults>>

-----------------------------------------------------------------------------
(* revokeAccessCode.                                                        *)

\* The user to remove is read here and removed in the next step.
RevokeFind(r) ==
    /\ pc[r] = "findCode"
    /\ \/ /\ codes[code[r]].state = "used"
          /\ user' = [user EXCEPT ![r] = codes[code[r]].usedBy]
          /\ Goto(r, "removeEntry")
          /\ UNCHANGED result
       \/ codes[code[r]].state = "free" /\ Goto(r, "removeCode") /\ UNCHANGED <<result, user>>
       \/ codes[code[r]].state \in {"unborn", "revoked"} /\ Answer(r, "refused") /\ UNCHANGED user
    /\ UNCHANGED <<op, code, codes, expired, entries, overlapped, faults>>

\* (mutant) The entry of the user is left in place.
RemoveEntrySkipped(r) ==
    /\ pc[r] = "removeEntry"
    /\ Goto(r, "removeCode")
    /\ UNCHANGED <<op, user, code, result, codes, expired, entries, overlapped, faults>>

\* (mutant) deleteOne has no filter.
RemoveAnyEntry(r) ==
    /\ pc[r] = "removeEntry"
    /\ IF entries = {} THEN UNCHANGED entries
       ELSE \E e \in entries : entries' = entries \ {e}
    /\ Goto(r, "removeCode")
    /\ UNCHANGED <<op, user, code, result, codes, expired, overlapped, faults>>

\* deleteOne by privyUserId: one entry of the user, by whichever code.
RemoveEntry(r) ==
    /\ pc[r] = "removeEntry"
    /\ IF EntriesOf(user[r]) = {} THEN UNCHANGED entries
       ELSE \E e \in EntriesOf(user[r]) : entries' = entries \ {e}
    /\ Goto(r, "removeCode")
    /\ UNCHANGED <<op, user, code, result, codes, expired, overlapped, faults>>

RemoveCode(r) ==
    /\ pc[r] = "removeCode"
    /\ codes' = [codes EXCEPT ![code[r]] = [state |-> "revoked", usedBy |-> None]]
    /\ Answer(r, "ok")
    /\ UNCHANGED <<op, user, code, expired, entries, overlapped, faults>>

-----------------------------------------------------------------------------

\* A call fails, or the process dies under the request.
Fault(r) ==
    /\ InFlight(r)
    /\ faults < MaxFaults
    /\ faults' = faults + 1
    /\ Answer(r, "failed")
    /\ UNCHANGED <<op, user, code, codes, expired, entries, overlapped>>

Expire(c) ==
    /\ codes[c].state # "unborn"
    /\ c \notin expired
    /\ expired' = expired \cup {c}
    /\ UNCHANGED <<reqVars, codes, entries, overlapped, faults>>

Next ==
    \/ \E r \in Reqs :
          \/ Begin(r) \/ Generate(r)
          \/ Already(r) \/ FindCode(r) \/ MarkUsed(r) \/ Admit(r)
          \/ RevokeFind(r) \/ RemoveEntry(r) \/ RemoveCode(r)
          \/ Fault(r)
    \/ \E c \in Codes : Expire(c)

Spec == Init /\ [][Next]_vars

-----------------------------------------------------------------------------
(* What the whitelist keeps.                                                *)

\* Nobody is in the whitelist by a code that could still be exchanged: the code
\* is marked before the entry is saved, so a failure between the two burns the
\* code and never leaves it open, however requests overlap.
AdmittedByBurntCode ==
    \A r \in entries : codes[code[r]].state \in {"used", "revoked"}

\* As long as requests have not overlapped, a code admits one user, failures
\* included.
OneUserPerCode ==
    ~overlapped => \A r, s \in entries : code[r] = code[s] => r = s

\* As long as requests have not overlapped, a revoked code leaves nobody in the
\* whitelist.
RevokedUserOut ==
    ~overlapped => \A r \in entries : codes[code[r]].state # "revoked"

\* As long as requests have not overlapped and none has failed, revoking a code
\* removes the entry made with that code and no other.
RevokeTakesOwnEntry ==
    [][\A r \in entries : r \notin entries' /\ ~overlapped /\ faults = 0 =>
          \E s \in Reqs : op[s] = "revoke" /\ InFlight(s) /\ code[s] = code[r]]_vars
=============================================================================
