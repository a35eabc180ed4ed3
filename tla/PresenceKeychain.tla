--------------------------- MODULE PresenceKeychain ---------------------------
(***************************************************************************)
(* The macOS recovery-secret store behind user presence                    *)
(* (fido-key-wrap-platform/src/macos_user_presence.rs).                    *)
(*                                                                         *)
(* The keychain holds at most one item of a service and an account; the    *)
(* module follows the item of one recipient.  Its label is a public        *)
(* fingerprint of the secret it was stored for, and deletions select by    *)
(* it.  A load is three keychain calls (load_exact), and create reads the  *)
(* item back with it, so a create can be refused by its own user.  Every   *)
(* keychain call is one step; it may fail, an addition or a deletion that  *)
(* failed may have taken effect, and processes may die.  Another program   *)
(* may have left an item under the name that is no secret at all.          *)
(***************************************************************************)
CONSTANTS
    Proc,       \* processes (or threads) using a MacosUserPresenceStore
    Secret,     \* recovery secrets
    Damaged,    \* a value that is not 32 bytes, under no secret's label
    None        \* no item, no secret, no label

ASSUME DistinctAssumption == None \notin Secret /\ Damaged \notin Secret \cup {None}

VARIABLES
    item,       \* the item of the recipient: its value and its label
    pc,         \* pc[p]: the next call of p's operation, "idle" between two
    op,         \* op[p]: the operation p runs or ran last
    secret,     \* secret[p]: the secret a create stores or a removal expects
    purpose,    \* purpose[p]: what the running load_exact is for
    read,       \* read[p]: the secret load_exact has read
    failure,    \* failure[p]: the error of the call or check that failed
    result,     \* result[p]: what the last operation returned
    loaded,     \* loaded[p]: the secret a load returned
    \* history variables, read by no guard of the code
    put,        \* put[p]: this create stored an item
    took,       \* took[p]: a delete of this operation took effect
    steady,     \* steady[p]: what this operation needs was stored when it
                \* began and still is, and none of its calls failed
    accepted    \* secrets a create returned success for, since the item was
                \* last taken away by a removal or by a create of that secret

callVars == <<pc, op, secret, purpose, read, failure, result, loaded>>
vars == <<item, callVars, put, took, steady, accepted>>

Value == Secret \cup {Damaged}
NoItem == [value |-> None, label |-> None]
Item == [value : Value, label : Secret \cup {None}]
Operation == {"create", "load", "remove"}
Step == {"idle", "add", "reconcile", "count", "read", "fingerprint", "rollback",
         "confirm", "present", "delete", "settle", "absent"}
Purpose == {"load", "verify", "compare", "settle"}

\* StoreError, the failures of the native call (map_error) as "Failed" but for
\* the "NotFound" of a deletion.  Ambiguous does not occur: there is one item
\* at most.
StoreError == {"Failed", "AlreadyExists", "Missing", "Corrupt", "StateUncertain"}
Outcome == StoreError \cup {"none", "Ok", "Removed", "Absent", "Crashed"}

TypeOK ==
    /\ item \in Item \cup {NoItem}
    /\ pc \in [Proc -> Step]
    /\ op \in [Proc -> Operation]
    /\ secret \in [Proc -> Secret \cup {None}]
    /\ purpose \in [Proc -> Purpose]
    /\ read \in [Proc -> Secret \cup {None}]
    /\ failure \in [Proc -> StoreError \cup {"NotFound"}]
    /\ result \in [Proc -> Outcome]
    /\ loaded \in [Proc -> Secret \cup {None}]
    /\ put \in [Proc -> BOOLEAN]
    /\ took \in [Proc -> BOOLEAN]
    /\ steady \in [Proc -> BOOLEAN]
    /\ accepted \subseteq Secret

Init ==
    /\ item \in {NoItem, [value |-> Damaged, label |-> None]}
    /\ pc = [p \in Proc |-> "idle"]
    /\ op = [p \in Proc |-> "load"]
    /\ secret = [p \in Proc |-> None]
    /\ purpose = [p \in Proc |-> "load"]
    /\ read = [p \in Proc |-> None]
    /\ failure = [p \in Proc |-> "Failed"]
    /\ result = [p \in Proc |-> "none"]
    /\ loaded = [p \in Proc |-> None]
    /\ put = [p \in Proc |-> FALSE]
    /\ took = [p \in Proc |-> FALSE]
    /\ steady = [p \in Proc |-> FALSE]
    /\ accepted = {}

-----------------------------------------------------------------------------
(***************************************************************************)
(* How an operation moves on and ends.                                     *)
(***************************************************************************)

Goto(p, step) ==
    /\ pc' = [pc EXCEPT ![p] = step]
    /\ UNCHANGED <<purpose, read, failure, result, loaded, accepted>>

\* The locals of an operation end with it.
Idle(p) ==
    /\ pc' = [pc EXCEPT ![p] = "idle"]
    /\ purpose' = [purpose EXCEPT ![p] = "load"]
    /\ read' = [read EXCEPT ![p] = None]
    /\ failure' = [failure EXCEPT ![p] = "Failed"]

Return(p, r) ==
    /\ Idle(p)
    /\ result' = [result EXCEPT ![p] = r]
    /\ accepted' = accepted \cup {s \in {secret[p]} : op[p] = "create" /\ r = "Ok"}
    /\ UNCHANGED loaded

\* load_exact begins, for the purpose w.
LoadExact(p, w) ==
    /\ pc' = [pc EXCEPT ![p] = "count"]
    /\ purpose' = [purpose EXCEPT ![p] = w]
    /\ UNCHANGED <<read, failure, result, loaded, accepted>>

\* cleanup_after_failed_create begins, after the error e.
Rollback(p, e) ==
    /\ pc' = [pc EXCEPT ![p] = "rollback"]
    /\ failure' = [failure EXCEPT ![p] = e]
    /\ UNCHANGED <<purpose, read, result, loaded, accepted>>

\* load_exact ends in the error e.
LoadFailed(p, e) ==
    \/ purpose[p] \in {"load", "compare"} /\ Return(p, e)
    \/ purpose[p] = "settle" /\ Return(p, "StateUncertain")
    \/ purpose[p] = "verify" /\ Rollback(p, e)

\* load_exact ends in the secret it read: load returns it; verify_created,
\* compare_existing and reconcile_after_add_error compare it.
LoadDone(p) ==
    \/ /\ purpose[p] = "load"
       /\ Idle(p)
       /\ result' = [result EXCEPT ![p] = "Ok"]
       /\ loaded' = [loaded EXCEPT ![p] = read[p]]
       /\ UNCHANGED accepted
    \/ purpose[p] # "load" /\ read[p] = secret[p] /\ Return(p, "Ok")
    \/ /\ purpose[p] \in {"compare", "settle"} /\ read[p] # secret[p]
       /\ Return(p, "AlreadyExists")
    \/ purpose[p] = "verify" /\ read[p] # secret[p] /\ Rollback(p, "Corrupt")

Fault(p) == steady' = [steady EXCEPT ![p] = FALSE]

\* The item becomes i, by p: no other operation is steady any more.
SetItem(p, i) ==
    /\ item' = i
    /\ steady' = [q \in Proc |-> IF q = p THEN steady[p] ELSE FALSE]

-----------------------------------------------------------------------------

\* create, load and remove are called.
Begin(p) ==
    /\ pc[p] = "idle"
    /\ \E o \in Operation, s \in Secret \cup {None} :
        /\ o = "load" <=> s = None
        /\ op' = [op EXCEPT ![p] = o]
        /\ secret' = [secret EXCEPT ![p] = s]
        /\ \/ o = "create" /\ pc' = [pc EXCEPT ![p] = "add"]
           \/ o = "load" /\ pc' = [pc EXCEPT ![p] = "count"]
           \/ o = "remove" /\ pc' = [pc EXCEPT ![p] = "present"]
        /\ steady' = [steady EXCEPT ![p] =
                        /\ item \in Item
                        /\ item.label = item.value
                        /\ s \in {None, item.value}]
    /\ result' = [result EXCEPT ![p] = "none"]
    /\ loaded' = [loaded EXCEPT ![p] = None]
    /\ put' = [put EXCEPT ![p] = FALSE]
    /\ took' = [took EXCEPT ![p] = FALSE]
    /\ UNCHANGED <<item, purpose, read, failure, accepted>>

\* Mutated form: what is there is never the own secret.
AddExclusive(p) ==
    /\ pc[p] = "add"
    /\ \/ /\ item = NoItem
          /\ SetItem(p, [value |-> secret[p], label |-> secret[p]])
          /\ put' = [put EXCEPT ![p] = TRUE]
          /\ LoadExact(p, "verify")
       \/ /\ item # NoItem
          /\ Return(p, "AlreadyExists")
          /\ UNCHANGED <<item, put, steady>>
    /\ UNCHANGED <<op, secret, took>>

\* add, and how create goes on from its status.
Add(p) ==
    /\ pc[p] = "add"
    /\ \/ /\ item = NoItem
          /\ SetItem(p, [value |-> secret[p], label |-> secret[p]])
          /\ put' = [put EXCEPT ![p] = TRUE]
          /\ LoadExact(p, "verify") \/ Goto(p, "reconcile")
       \/ /\ item # NoItem
          /\ LoadExact(p, "compare")
          /\ UNCHANGED <<item, put, steady>>
       \/ /\ Goto(p, "reconcile") \/ Return(p, "Failed")
          /\ Fault(p)
          /\ UNCHANGED <<item, put>>
    /\ UNCHANGED <<op, secret, took>>

\* The inventory_count of reconcile_after_add_error.
Reconcile(p) ==
    /\ pc[p] = "reconcile"
    /\ \/ Return(p, "StateUncertain") /\ Fault(p)
       \/ item = NoItem /\ Return(p, "Failed") /\ UNCHANGED steady
       \/ item # NoItem /\ LoadExact(p, "settle") /\ UNCHANGED steady
    /\ UNCHANGED <<item, op, secret, put, took>>

\* The inventory_count of load_exact.
Count(p) ==
    /\ pc[p] = "count"
    /\ \/ LoadFailed(p, "Failed") /\ Fault(p)
       \/ item = NoItem /\ LoadFailed(p, "Missing") /\ UNCHANGED steady
       \/ item # NoItem /\ Goto(p, "read") /\ UNCHANGED steady
    /\ UNCHANGED <<item, op, secret, put, took>>

\* find_values, for which the user is asked.
ReadValue(p) ==
    /\ pc[p] = "read"
    /\ \/ LoadFailed(p, "Failed") /\ Fault(p)
       \/ item = NoItem /\ LoadFailed(p, "Missing") /\ UNCHANGED steady
       \/ item.value = Damaged /\ LoadFailed(p, "Corrupt") /\ UNCHANGED steady
       \/ /\ item.value \in Secret
          /\ read' = [read EXCEPT ![p] = item.value]
          /\ pc' = [pc EXCEPT ![p] = "fingerprint"]
          /\ UNCHANGED <<purpose, failure, result, loaded, accepted, steady>>
    /\ UNCHANGED <<item, op, secret, put, took>>

\* Mutated form: the label of the item is not compared with what was read.
FingerprintAny(p) ==
    /\ pc[p] = "fingerprint"
    /\ LoadDone(p)
    /\ UNCHANGED <<item, op, secret, put, took, steady>>

\* fingerprint_count: the item still carries the label of the secret read.
Fingerprint(p) ==
    /\ pc[p] = "fingerprint"
    /\ \/ LoadFailed(p, "Failed") /\ Fault(p)
       \/ item.label = read[p] /\ LoadDone(p) /\ UNCHANGED steady
       \/ item.label # read[p] /\ LoadFailed(p, "Corrupt") /\ UNCHANGED steady
    /\ UNCHANGED <<item, op, secret, put, took>>

\* A delete with deletion_query, which selects the label of secret[p]: the
\* item it took away is history.
TakeItem(p) ==
    /\ item.label = secret[p]
    /\ SetItem(p, NoItem)
    /\ took' = [took EXCEPT ![p] = TRUE]
    /\ accepted' = {}

\* cleanup_after_failed_create deletes, whatever the answer.
DeleteCreated(p) ==
    /\ pc[p] = "rollback"
    /\ TakeItem(p) \/ UNCHANGED <<item, took, steady, accepted>>
    /\ pc' = [pc EXCEPT ![p] = "confirm"]
    /\ UNCHANGED <<op, secret, purpose, read, failure, result, loaded, put>>

\* Mutated form: the deletion is trusted.
ConfirmCleanupTrusting(p) ==
    /\ pc[p] = "confirm"
    /\ Return(p, failure[p])
    /\ UNCHANGED <<item, op, secret, put, took, steady>>

\* ... and counts the items.
ConfirmCleanup(p) ==
    /\ pc[p] = "confirm"
    /\ \/ Return(p, "StateUncertain")
       \/ item = NoItem /\ Return(p, failure[p])
    /\ UNCHANGED <<item, op, secret, put, took, steady>>

\* The inventory_count of remove.
Present(p) ==
    /\ pc[p] = "present"
    /\ \/ Return(p, "Failed") /\ Fault(p)
       \/ item = NoItem /\ Return(p, "Absent") /\ UNCHANGED steady
       \/ item # NoItem /\ Goto(p, "delete") /\ UNCHANGED steady
    /\ UNCHANGED <<item, op, secret, put, took>>

\* The delete of remove.
Delete(p) ==
    /\ pc[p] = "delete"
    /\ \/ /\ TakeItem(p)
          /\ \/ pc' = [pc EXCEPT ![p] = "absent"] /\ UNCHANGED failure
             \/ /\ pc' = [pc EXCEPT ![p] = "settle"]
                /\ failure' = [failure EXCEPT ![p] = "Failed"]
       \/ /\ pc' = [pc EXCEPT ![p] = "settle"]
          /\ \/ failure' = [failure EXCEPT ![p] = "Failed"] /\ Fault(p)
             \/ /\ item.label # secret[p]
                /\ failure' = [failure EXCEPT ![p] = "NotFound"]
                /\ UNCHANGED steady
          /\ UNCHANGED <<item, took, accepted>>
    /\ UNCHANGED <<op, secret, purpose, read, result, loaded, put>>

\* reconcile_after_delete_error.
SettleDelete(p) ==
    /\ pc[p] = "settle"
    /\ \/ Return(p, "StateUncertain") /\ Fault(p)
       \/ item = NoItem /\ Return(p, "Removed") /\ UNCHANGED steady
       \/ /\ item # NoItem
          /\ Return(p, IF failure[p] = "NotFound" THEN "AlreadyExists" ELSE "Failed")
          /\ UNCHANGED steady
    /\ UNCHANGED <<item, op, secret, put, took>>

\* confirm_removed.
ConfirmRemoved(p) ==
    /\ pc[p] = "absent"
    /\ \/ Return(p, "StateUncertain") /\ Fault(p)
       \/ item = NoItem /\ Return(p, "Removed") /\ UNCHANGED steady
       \/ item # NoItem /\ Return(p, "StateUncertain") /\ UNCHANGED steady
    /\ UNCHANGED <<item, op, secret, put, took>>

\* The process dies in the middle of an operation.
Crash(p) ==
    /\ pc[p] # "idle"
    /\ Return(p, "Crashed")
    /\ Fault(p)
    /\ UNCHANGED <<item, op, secret, put, took>>

Next ==
    \E p \in Proc :
        \/ Begin(p) \/ Add(p) \/ Reconcile(p)
        \/ Count(p) \/ ReadValue(p) \/ Fingerprint(p)
        \/ DeleteCreated(p) \/ ConfirmCleanup(p)
        \/ Present(p) \/ Delete(p) \/ SettleDelete(p) \/ ConfirmRemoved(p)
        \/ Crash(p)

Spec == Init /\ [][Next]_vars

-----------------------------------------------------------------------------
(***************************************************************************)
(* Properties.                                                             *)
(***************************************************************************)

\* A secret create returned success for is the stored one, under its own
\* fingerprint, until a delete that names this very secret.
AcceptedIsStored == \A s \in accepted : item = [value |-> s, label |-> s]

\* An operation that needs nothing but what is stored succeeds, although it
\* takes several calls: while the item stays and no call fails, a load answers
\* with it, a retried create is accepted, and a removal that names it removes
\* it.
UndisturbedSucceeds ==
    \A p \in Proc : pc[p] = "idle" /\ steady[p] =>
        \/ result[p] = "none"
        \/ op[p] = "create" /\ result[p] = "Ok"
        \/ op[p] = "load" /\ result[p] = "Ok"
        \/ op[p] = "remove" /\ result[p] = "Removed"

\* The store keeps the contract of its trait: what an operation answers is true
\* of the item when it answers, although it is made of several calls, and a
\* removal never takes away another secret than the one it names.
Promise == INSTANCE FactorStore WITH
    entry <- item.value,
    call <- [p \in Proc |-> IF pc[p] = "idle" THEN [op |-> "idle", secret |-> None]
                            ELSE [op |-> op[p], secret |-> secret[p]]]
KeepsPromise == Promise!Spec

-----------------------------------------------------------------------------
(***************************************************************************)
(* What every step relies on, the invariant of the proofs.                 *)
(***************************************************************************)

\* A secret is stored under its own label, anything else under none.
ItemOK == item \in {NoItem, [value |-> Damaged, label |-> None]}
                     \cup {[value |-> s, label |-> s] : s \in Secret}

\* A load_exact for "verify" follows an own addition, one for "compare" an
\* addition that did nothing; a create that deletes has stored its item.
StepOK ==
    \A p \in Proc :
        /\ op[p] = "load" <=> secret[p] = None
        /\ pc[p] \in {"idle", "add"} => purpose[p] = "load"
        /\ pc[p] # "idle" => loaded[p] = None
        /\ pc[p] \in {"add", "reconcile", "rollback", "confirm"} => op[p] = "create"
        /\ pc[p] \in {"present", "delete", "settle", "absent"} => op[p] = "remove"
        /\ pc[p] \in {"count", "read", "fingerprint"} =>
            op[p] = IF purpose[p] = "load" THEN "load" ELSE "create"
        /\ pc[p] = "add" \/ purpose[p] = "compare" => ~put[p]
        /\ purpose[p] = "verify" => put[p]
        /\ pc[p] \in {"rollback", "confirm"} =>
            purpose[p] = "verify" /\ failure[p] \in {"Failed", "Missing", "Corrupt"}
        /\ pc[p] = "fingerprint" => read[p] \in Secret
        /\ pc[p] \in {"present", "delete"} => ~took[p]

IInv == TypeOK /\ ItemOK /\ StepOK /\ AcceptedIsStored

\* A steady operation finds the item it needs at every call, and a removal
\* leaves nothing behind.
SteadyOK ==
    \A p \in Proc : steady[p] /\ pc[p] # "idle" =>
        \/ /\ pc[p] \in {"add", "count", "read", "fingerprint"}
           /\ purpose[p] \in {"load", "compare"}
           /\ item.value \in Secret /\ item.label = item.value
           /\ op[p] = "create" => item.value = secret[p]
           /\ pc[p] = "fingerprint" => read[p] = item.value
        \/ pc[p] \in {"present", "delete"} /\ item = [value |-> secret[p], label |-> secret[p]]
        \/ pc[p] \in {"settle", "absent"} /\ item = NoItem

SteadyInv == SteadyOK /\ UndisturbedSucceeds
=============================================================================
