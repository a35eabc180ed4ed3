------------------------------ MODULE FactorStore ------------------------------
(***************************************************************************)
(* What a LocalSecretStore or RecoverySecretStore promises about the one   *)
(* entry of a recipient (the traits of fido-key-wrap-platform/src/lib.rs;  *)
(* MemoryStore in testing.rs is the implementation without failures).      *)
(*                                                                         *)
(* A call changes the entry while it runs: it may put its secret where     *)
(* nothing is, or take the entry away.  What it answers is true of the     *)
(* entry in the moment it answers, except for StateUncertain, which        *)
(* promises nothing.                                                       *)
(***************************************************************************)
CONSTANTS
    Proc,       \* threads or processes calling a store
    Secret,     \* application factors
    Damaged,    \* a stored value that is not 32 bytes
    None        \* no entry, no secret

VARIABLES
    entry,      \* the value stored for the recipient, or None
    call,       \* call[p]: the running operation of p and its secret
    result,     \* result[p]: what p's last operation answered
    loaded,     \* loaded[p]: the secret a load answered with
    put,        \* put[p]: the running create stored an entry
    took        \* took[p]: the running operation took an entry away

vars == <<entry, call, result, loaded, put, took>>

Idle == [op |-> "idle", secret |-> None]

Init ==
    /\ entry \in {None, Damaged}
    /\ call = [p \in Proc |-> Idle]
    /\ result = [p \in Proc |-> "none"]
    /\ loaded = [p \in Proc |-> None]
    /\ put = [p \in Proc |-> FALSE]
    /\ took = [p \in Proc |-> FALSE]

\* A removal names its secret (RecoverySecretStore) or not (LocalSecretStore).
Begin(p) ==
    /\ call[p] = Idle
    /\ \E op \in {"create", "load", "remove"}, s \in Secret \cup {None} :
        /\ op = "create" => s # None
        /\ call' = [call EXCEPT ![p] = [op |-> op, secret |-> s]]
    /\ result' = [result EXCEPT ![p] = "none"]
    /\ loaded' = [loaded EXCEPT ![p] = None]
    /\ put' = [put EXCEPT ![p] = FALSE]
    /\ took' = [took EXCEPT ![p] = FALSE]
    /\ UNCHANGED entry

\* A create never replaces what is there.
Put(p) ==
    /\ call[p].op = "create"
    /\ entry = None
    /\ entry' \in {call[p].secret, Damaged}
    /\ put' = [put EXCEPT ![p] = TRUE]
    /\ UNCHANGED <<call, result, loaded, took>>

\* Only a removal, or a create that stored an entry, takes one away, and never
\* different material than the secret it names.
Take(p) ==
    /\ entry # None
    /\ call[p].op = "remove" \/ (call[p].op = "create" /\ put[p])
    /\ call[p].secret # None => entry \in {call[p].secret, Damaged}
    /\ entry' = None
    /\ took' = [took EXCEPT ![p] = TRUE]
    /\ UNCHANGED <<call, result, loaded, put>>

\* The answers an operation may give now.
CreateAnswer(p, r) ==
    \/ r = "Ok" /\ entry = call[p].secret
    \/ r = "AlreadyExists" /\ entry \in Secret \ {call[p].secret}
    \/ r \in {"Failed", "Missing", "Corrupt"} /\ ~(put[p] /\ entry = call[p].secret)
    \/ r = "StateUncertain"

LoadAnswer(p, r, s) ==
    \/ r = "Ok" /\ s # None /\ entry = s
    \/ r = "Missing" /\ s = None /\ entry = None
    \/ r \in {"Failed", "Corrupt"} /\ s = None

RemoveAnswer(p, r) ==
    \/ r = "Removed" /\ entry = None
    \/ r = "Absent" /\ entry = None /\ ~took[p]
    \/ r \in {"Failed", "AlreadyExists"} /\ (took[p] => entry # None)
    \/ r = "StateUncertain"

Answer(p) ==
    /\ call[p] # Idle
    /\ \E r \in {"Ok", "AlreadyExists", "Failed", "Missing", "Corrupt",
                 "StateUncertain", "Removed", "Absent", "Crashed"},
          s \in Secret \cup {None} :
        /\ \/ call[p].op = "create" /\ s = None /\ CreateAnswer(p, r)
           \/ call[p].op = "load" /\ LoadAnswer(p, r, s)
           \/ call[p].op = "remove" /\ s = None /\ RemoveAnswer(p, r)
           \/ r = "Crashed" /\ s = None
        /\ result' = [result EXCEPT ![p] = r]
        /\ loaded' = [loaded EXCEPT ![p] = s]
    /\ call' = [call EXCEPT ![p] = Idle]
    /\ UNCHANGED <<entry, put, took>>

Next == \E p \in Proc : Begin(p) \/ Put(p) \/ Take(p) \/ Answer(p)

Spec == Init /\ [][Next]_vars
=============================================================================
