------------------------------- MODULE Keychain -------------------------------
(***************************************************************************)
(* The macOS local-secret store (fido-key-wrap-platform/src/macos.rs).     *)
(*                                                                         *)
(* A keychain holds at most one generic password of a service and an       *)
(* account, so the module follows the entry of one recipient.  Every       *)
(* keychain call is one step.  A call may fail; an addition that failed    *)
(* may have taken effect, and a deletion does not say whether it did.      *)
(* Processes interleave between calls and may die.                         *)
(***************************************************************************)
CONSTANTS
    Proc,       \* processes (or threads) using a NativeLocalSecretStore
    Secret,     \* local secrets
    Damaged,    \* a stored value that is not 32 bytes
    None        \* no entry, no secret

ASSUME DistinctAssumption == None \notin Secret /\ Damaged \notin Secret \cup {None}

VARIABLES
    entry,      \* the value stored for the recipient, or None
    pc,         \* pc[p]: the next call of p's operation, "idle" between two
    op,         \* op[p]: the operation p runs or ran last
    secret,     \* secret[p]: the secret a create stores
    result,     \* result[p]: what the last operation returned
    loaded,     \* loaded[p]: the secret a load returned
    \* history variables, read by no guard of the code
    put,        \* put[p]: this create stored an entry
    took,       \* took[p]: this removal's delete took effect
    steady,     \* steady[p]: the secret of this create was stored when it
                \* began and still is, and none of its calls failed
    accepted    \* secrets a create returned success for, since the last
                \* removal

callVars == <<pc, op, secret, result, loaded>>
vars == <<entry, callVars, put, took, steady, accepted>>

Value == Secret \cup {Damaged}
Operation == {"create", "load", "remove"}
Step == {"idle", "add", "verify", "duplicate", "reconcile", "read", "find",
         "delete", "absent"}

\* StoreError, the failures of the native call (map_error) as "Failed".
\* Ambiguous does not occur: there is one item at most.
StoreError == {"Failed", "AlreadyExists", "Missing", "Corrupt", "StateUncertain"}
Outcome == StoreError \cup {"none", "Ok", "Removed", "Absent", "Crashed"}

TypeOK ==
    /\ entry \in Value \cup {None}
    /\ pc \in [Proc -> Step]
    /\ op \in [Proc -> Operation]
    /\ secret \in [Proc -> Secret \cup {None}]
    /\ result \in [Proc -> Outcome]
    /\ loaded \in [Proc -> Secret \cup {None}]
    /\ put \in [Proc -> BOOLEAN]
    /\ took \in [Proc -> BOOLEAN]
    /\ steady \in [Proc -> BOOLEAN]
    /\ accepted \subseteq Secret

Init ==
    /\ entry = None
    /\ pc = [p \in Proc |-> "idle"]
    /\ op = [p \in Proc |-> "load"]
    /\ secret = [p \in Proc |-> None]
    /\ result = [p \in Proc |-> "none"]
    /\ loaded = [p \in Proc |-> None]
    /\ put = [p \in Proc |-> FALSE]
    /\ took = [p \in Proc |-> FALSE]
    /\ steady = [p \in Proc |-> FALSE]
    /\ accepted = {}

-----------------------------------------------------------------------------
(***************************************************************************)
(* How an operation moves on and ends.                                     *)
(***************************************************************************)

Goto(p, step) ==
    /\ pc' = [pc EXCEPT ![p] = step]
    /\ UNCHANGED <<result, loaded, accepted>>

Return(p, r) ==
    /\ pc' = [pc EXCEPT ![p] = "idle"]
    /\ result' = [result EXCEPT ![p] = r]
    /\ accepted' = accepted \cup {s \in {secret[p]} : op[p] = "create" /\ r = "Ok"}
    /\ UNCHANGED loaded

\* A call failed, and the operation returns r.
FailWith(p, r) == Return(p, r) /\ steady' = [steady EXCEPT ![p] = FALSE]

\* The entry becomes another v: no create is steady any more.
SetEntry(v) ==
    /\ entry' = v
    /\ steady' = [q \in Proc |-> FALSE]

\* What a create makes of the one value that is there.
Compare(p) ==
    \/ entry = secret[p] /\ Return(p, "Ok")
    \/ entry \in Secret \ {secret[p]} /\ Return(p, "AlreadyExists")
    \/ entry = Damaged /\ Return(p, "Corrupt")

-----------------------------------------------------------------------------

\* create, load and remove are called.
Begin(p) ==
    /\ pc[p] = "idle"
    /\ \E o \in Operation, s \in Secret \cup {None} :
        /\ o = "create" <=> s # None
        /\ op' = [op EXCEPT ![p] = o]
        /\ secret' = [secret EXCEPT ![p] = s]
        /\ \/ o = "create" /\ pc' = [pc EXCEPT ![p] = "add"]
           \/ o = "load" /\ pc' = [pc EXCEPT ![p] = "read"]
           \/ o = "remove" /\ pc' = [pc EXCEPT ![p] = "find"]
        /\ steady' = [steady EXCEPT ![p] = s # None /\ entry = s]
    /\ result' = [result EXCEPT ![p] = "none"]
    /\ loaded' = [loaded EXCEPT ![p] = None]
    /\ put' = [put EXCEPT ![p] = FALSE]
    /\ took' = [took EXCEPT ![p] = FALSE]
    /\ UNCHANGED <<entry, accepted>>

\* add_data_protection or add_login_keychain, which refuse a duplicate.
Add(p) ==
    /\ pc[p] = "add"
    /\ \/ /\ entry = None
          /\ \E v \in {secret[p], Damaged} : SetEntry(v)
          /\ put' = [put EXCEPT ![p] = TRUE]
          /\ Goto(p, "verify") \/ Goto(p, "reconcile")
       \/ /\ entry # None
          /\ Goto(p, "duplicate")
          /\ UNCHANGED <<entry, put, steady>>
       \/ /\ Goto(p, "reconcile")
          /\ steady' = [steady EXCEPT ![p] = FALSE]
          /\ UNCHANGED <<entry, put>>
    /\ UNCHANGED <<op, secret, took>>

\* verify_created: anything but the own secret leaves the state uncertain.
VerifyCreated(p) ==
    /\ pc[p] = "verify"
    /\ \/ FailWith(p, "StateUncertain")
       \/ entry = secret[p] /\ Return(p, "Ok") /\ UNCHANGED steady
       \/ entry # secret[p] /\ Return(p, "StateUncertain") /\ UNCHANGED steady
    /\ UNCHANGED <<entry, op, secret, put, took>>

\* Mutated form: a duplicate is an error, whatever it holds.
CompareDuplicateNever(p) ==
    /\ pc[p] = "duplicate"
    /\ Return(p, "AlreadyExists")
    /\ UNCHANGED <<entry, op, secret, put, took, steady>>

\* The find_values of create after errSecDuplicateItem.
CompareDuplicate(p) ==
    /\ pc[p] = "duplicate"
    /\ \/ FailWith(p, "Failed")
       \/ (Compare(p) \/ (entry = None /\ Return(p, "Failed"))) /\ UNCHANGED steady
    /\ UNCHANGED <<entry, op, secret, put, took>>

\* reconcile_after_add_error.
Reconcile(p) ==
    /\ pc[p] = "reconcile"
    /\ \/ FailWith(p, "StateUncertain")
       \/ (Compare(p) \/ (entry = None /\ Return(p, "Failed"))) /\ UNCHANGED steady
    /\ UNCHANGED <<entry, op, secret, put, took>>

\* load.
Read(p) ==
    /\ pc[p] = "read"
    /\ \/ Return(p, "Failed")
       \/ entry = None /\ Return(p, "Missing")
       \/ entry = Damaged /\ Return(p, "Corrupt")
       \/ /\ entry \in Secret
          /\ pc' = [pc EXCEPT ![p] = "idle"]
          /\ result' = [result EXCEPT ![p] = "Ok"]
          /\ loaded' = [loaded EXCEPT ![p] = entry]
          /\ UNCHANGED accepted
    /\ UNCHANGED <<entry, op, secret, put, took, steady>>

\* The find_items of remove.
Find(p) ==
    /\ pc[p] = "find"
    /\ \/ Return(p, "Failed")
       \/ entry = None /\ Return(p, "Absent")
       \/ entry # None /\ Goto(p, "delete")
    /\ UNCHANGED <<entry, op, secret, put, took, steady>>

\* SecKeychainItem::delete, which returns nothing.
Delete(p) ==
    /\ pc[p] = "delete"
    /\ pc' = [pc EXCEPT ![p] = "absent"]
    /\ \/ /\ entry # None
          /\ SetEntry(None)
          /\ took' = [took EXCEPT ![p] = TRUE]
          /\ accepted' = {}
       \/ UNCHANGED <<entry, steady, took, accepted>>
    /\ UNCHANGED <<op, secret, result, loaded, put>>

\* Mutated form: a second search that failed is an ordinary failure.
ConfirmAbsentHasty(p) ==
    /\ pc[p] = "absent"
    /\ \/ Return(p, "Failed")
       \/ entry = None /\ Return(p, "Removed")
       \/ entry # None /\ Return(p, "StateUncertain")
    /\ UNCHANGED <<entry, op, secret, put, took, steady>>

\* The find_items after the deletion.
ConfirmAbsent(p) ==
    /\ pc[p] = "absent"
    /\ \/ Return(p, "StateUncertain")
       \/ entry = None /\ Return(p, "Removed")
    /\ UNCHANGED <<entry, op, secret, put, took, steady>>

\* The process dies in the middle of an operation.
Crash(p) ==
    /\ pc[p] # "idle"
    /\ FailWith(p, "Crashed")
    /\ UNCHANGED <<entry, op, secret, put, took>>

Next ==
    \E p \in Proc :
        \/ Begin(p) \/ Add(p) \/ VerifyCreated(p) \/ CompareDuplicate(p)
        \/ Reconcile(p) \/ Read(p) \/ Find(p) \/ Delete(p) \/ ConfirmAbsent(p)
        \/ Crash(p)

Spec == Init /\ [][Next]_vars

-----------------------------------------------------------------------------
(***************************************************************************)
(* Properties.                                                             *)
(***************************************************************************)

\* A secret create returned success for is the stored one until a removal
\* deletes it.  No create ever takes an entry away, so two creates of the same
\* secret, or a retry, cannot cost each other what they were told is stored.
AcceptedIsStored == \A s \in accepted : entry = s

\* Retrying a create with the secret that is stored succeeds, however often
\* other operations run beside it, unless a call fails or a removal succeeds.
RetrySucceeds ==
    \A p \in Proc :
        pc[p] = "idle" /\ op[p] = "create" /\ steady[p] => result[p] = "Ok"

\* What each step of an operation may rely on.
StepOK ==
    \A p \in Proc :
        /\ pc[p] # "idle" => loaded[p] = None
        /\ pc[p] \in {"add", "verify", "duplicate", "reconcile"}
                => op[p] = "create" /\ secret[p] \in Secret
        /\ pc[p] = "read" => op[p] = "load" /\ secret[p] = None
        /\ pc[p] \in {"find", "delete", "absent"} => op[p] = "remove" /\ secret[p] = None
        /\ pc[p] \in {"add", "duplicate"} => ~put[p]
        /\ pc[p] \in {"find", "delete"} => ~took[p]

IInv == TypeOK /\ StepOK /\ AcceptedIsStored

\* A steady create finds its secret at every call.
SteadyOK ==
    \A p \in Proc : steady[p] /\ pc[p] # "idle" =>
        pc[p] \in {"add", "duplicate"} /\ entry = secret[p]

SteadyInv == SteadyOK /\ RetrySucceeds

\* The store keeps the contract of its trait: what an operation answers is true
\* of the entry when it answers.
Promise == INSTANCE FactorStore WITH
    call <- [p \in Proc |-> IF pc[p] = "idle" THEN [op |-> "idle", secret |-> None]
                            ELSE [op |-> op[p], secret |-> secret[p]]]
KeepsPromise == Promise!Spec
=============================================================================
