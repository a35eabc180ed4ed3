------------------------------ MODULE SecretStore ------------------------------
(***************************************************************************)
(* The Linux secret store (fido-key-wrap-platform/src/linux.rs): create,   *)
(* load and remove one application factor in a Secret Service collection.  *)
(*                                                                         *)
(* The service keeps items under attributes and never replaces one, so two *)
(* items of one recipient are possible and exclusion is made by the client *)
(* out of searches, reads and deletes.  Every D-Bus call is one step; it   *)
(* may be refused, or its answer may be lost although the service acted.   *)
(* Processes interleave between calls and may die.                         *)
(***************************************************************************)
EXTENDS Naturals, FiniteSets

CONSTANTS
    Proc,       \* processes (or threads) using a NativeLocalSecretStore
    Recipient,  \* recipient ids; with the application they name an entry
    Secret,     \* local secrets
    Item,       \* object paths the service gives items, never twice
    Damaged,    \* a value that is not 32 bytes
    None        \* an item, secret or recipient that is not there

ASSUME DistinctAssumption == Damaged \notin Secret /\ None \notin Item \cup Secret \cup Recipient

VARIABLES
    items,      \* the items of the default collection
    pc,         \* pc[p]: the next call of p's operation, "idle" between two
    op,         \* op[p]: the operation p runs or ran last
    request,    \* request[p]: its recipient and, for a create, its secret
    item,       \* item[p]: the item the operation found or made
    failure,    \* failure[p]: the error a rollback will return
    result,     \* result[p]: what the last operation returned
    loaded,     \* loaded[p]: the secret a load returned
    \* history variables, read by no guard of the code
    used,       \* object paths given so far
    accepted,   \* entries a create returned success for
    withdrawn,  \* recipients with an item a removal deleted
    undone,     \* entries whose creator took its item back
    unsettled,  \* recipients with a create that was interrupted, or ended in
                \* StateUncertain or Ambiguous
    made,       \* made[p]: the item this create stored
    acted,      \* acted[p]: this removal's delete took effect
    before,     \* before[p]: the items of its recipient when p began
    known       \* known[p]: the accepted entries when p began

callVars == <<pc, op, request, item, failure, result, loaded>>
history == <<used, accepted, withdrawn, undone, unsettled, made, acted, before, known>>
vars == <<items, callVars, history>>

Value == Secret \cup {Damaged}
Stored == [path : Item, recipient : Recipient, value : Value]
Entry == [recipient : Recipient, secret : Secret]

Step == {"idle", "search", "compare", "add", "reconcile", "recompare", "readback",
         "inventory", "rollback", "confirm", "delete", "settle", "absent"}
Operation == {"create", "load", "remove"}

\* StoreError, the failures of the native call (map_error) as "Failed".
StoreError == {"Failed", "AlreadyExists", "Missing", "Ambiguous", "Corrupt",
               "StateUncertain"}
Outcome == StoreError \cup {"none", "Ok", "Removed", "Absent", "Crashed"}

TypeOK ==
    /\ items \subseteq Stored
    /\ pc \in [Proc -> Step]
    /\ op \in [Proc -> Operation]
    /\ request \in [Proc -> [recipient : Recipient \cup {None}, secret : Secret \cup {None}]]
    /\ item \in [Proc -> Item \cup {None}]
    /\ failure \in [Proc -> StoreError]
    /\ result \in [Proc -> Outcome]
    /\ loaded \in [Proc -> Secret \cup {None}]
    /\ used \subseteq Item
    /\ accepted \subseteq Entry
    /\ withdrawn \subseteq Recipient
    /\ undone \subseteq Entry
    /\ unsettled \subseteq Recipient
    /\ made \in [Proc -> Item \cup {None}]
    /\ acted \in [Proc -> BOOLEAN]
    /\ before \in [Proc -> SUBSET Item]
    /\ known \in [Proc -> SUBSET Entry]

Init ==
    /\ items = {}
    /\ pc = [p \in Proc |-> "idle"]
    /\ op = [p \in Proc |-> "load"]
    /\ request = [p \in Proc |-> [recipient |-> None, secret |-> None]]
    /\ item = [p \in Proc |-> None]
    /\ failure = [p \in Proc |-> "Failed"]
    /\ result = [p \in Proc |-> "none"]
    /\ loaded = [p \in Proc |-> None]
    /\ used = {} /\ accepted = {} /\ withdrawn = {} /\ undone = {}
    /\ unsettled = {}
    /\ made = [p \in Proc |-> None]
    /\ acted = [p \in Proc |-> FALSE]
    /\ before = [p \in Proc |-> {}]
    /\ known = [p \in Proc |-> {}]

-----------------------------------------------------------------------------
(***************************************************************************)
(* What a call of p's operation sees.                                      *)
(***************************************************************************)

\* search_items with the attributes of entry_key.
Found(r) == {i \in items : i.recipient = r}

\* get_secret of an object path: the values it may return.
Read(path) == {i.value : i \in {j \in items : j.path = path}}

-----------------------------------------------------------------------------
(***************************************************************************)
(* How an operation moves on and ends.                                     *)
(***************************************************************************)

\* The next call concerns the item path.
GotoItem(p, step, path) ==
    /\ pc' = [pc EXCEPT ![p] = step]
    /\ item' = [item EXCEPT ![p] = path]
    /\ UNCHANGED <<failure, result, loaded, accepted, unsettled>>

Goto(p, step) == GotoItem(p, step, item[p])

\* The locals of an operation end with it.
Idle(p) ==
    /\ pc' = [pc EXCEPT ![p] = "idle"]
    /\ item' = [item EXCEPT ![p] = None]
    /\ failure' = [failure EXCEPT ![p] = "Failed"]

Return(p, r) ==
    /\ Idle(p)
    /\ result' = [result EXCEPT ![p] = r]
    /\ accepted' = accepted \cup {e \in {request[p]} : r = "Ok" /\ op[p] = "create"}
    /\ unsettled' = unsettled \cup
            {q \in {request[p].recipient} :
                op[p] = "create" /\ r \in {"StateUncertain", "Ambiguous"}}
    /\ UNCHANGED loaded

ReturnSecret(p, secret) ==
    /\ Idle(p)
    /\ result' = [result EXCEPT ![p] = "Ok"]
    /\ loaded' = [loaded EXCEPT ![p] = secret]
    /\ UNCHANGED <<accepted, unsettled>>

\* cleanup_after_failed_create, to its delete.
Rollback(p, error) ==
    /\ pc' = [pc EXCEPT ![p] = "rollback"]
    /\ failure' = [failure EXCEPT ![p] = error]
    /\ UNCHANGED <<item, result, loaded, accepted, unsettled>>

\* A create compares the entry it found with its own secret.
Compare(p, value) ==
    \/ value = request[p].secret /\ Return(p, "Ok")
    \/ value \in Secret \ {request[p].secret} /\ Return(p, "AlreadyExists")
    \/ value = Damaged /\ Return(p, "Corrupt")

-----------------------------------------------------------------------------

\* create, load and remove are called.
Begin(p) ==
    /\ pc[p] = "idle"
    /\ \E r \in Recipient, o \in Operation :
        /\ op' = [op EXCEPT ![p] = o]
        /\ \E s \in IF o = "create" THEN Secret ELSE {None} :
              request' = [request EXCEPT ![p] = [recipient |-> r, secret |-> s]]
        /\ before' = [before EXCEPT ![p] = {i.path : i \in Found(r)}]
    /\ pc' = [pc EXCEPT ![p] = "search"]
    /\ item' = [item EXCEPT ![p] = None]
    /\ result' = [result EXCEPT ![p] = "none"]
    /\ loaded' = [loaded EXCEPT ![p] = None]
    /\ made' = [made EXCEPT ![p] = None]
    /\ acted' = [acted EXCEPT ![p] = FALSE]
    /\ known' = [known EXCEPT ![p] = accepted]
    /\ UNCHANGED <<items, failure, used, accepted, withdrawn, undone, unsettled>>

\* Mutated form: a load takes the first of several items.
SearchFirst(p) ==
    /\ pc[p] = "search"
    /\ op[p] # "load" => Cardinality(Found(request[p].recipient)) <= 1
    /\ \/ /\ Found(request[p].recipient) = {}
          /\ \/ op[p] = "create" /\ Goto(p, "add")
             \/ op[p] = "load" /\ Return(p, "Missing")
             \/ op[p] = "remove" /\ Return(p, "Absent")
       \/ \E i \in Found(request[p].recipient) :
            GotoItem(p, IF op[p] = "remove" THEN "delete" ELSE "compare", i.path)
    /\ UNCHANGED <<items, op, request, used, withdrawn, undone, made, acted,
                   before, known>>

\* connect, default_collection, unlock_collection and the first search.
Search(p) ==
    /\ pc[p] = "search"
    /\ LET found == Found(request[p].recipient)
       IN  \/ Return(p, "Failed")
           \/ /\ found = {}
              /\ \/ op[p] = "create" /\ Goto(p, "add")
                 \/ op[p] = "load" /\ Return(p, "Missing")
                 \/ op[p] = "remove" /\ Return(p, "Absent")
           \/ \E i \in found :
                /\ found = {i}
                /\ GotoItem(p, IF op[p] = "remove" THEN "delete" ELSE "compare", i.path)
           \/ Cardinality(found) > 1 /\ Return(p, "Ambiguous")
    /\ UNCHANGED <<items, op, request, used, withdrawn, undone, made, acted,
                   before, known>>

\* get_secret of the item the search found, for a create or a load.
CompareExisting(p) ==
    /\ pc[p] = "compare"
    /\ \/ Return(p, "Failed")
       \/ \E value \in Read(item[p]) :
            \/ op[p] = "create" /\ Compare(p, value)
            \/ op[p] = "load" /\ value \in Secret /\ ReturnSecret(p, value)
            \/ op[p] = "load" /\ value = Damaged /\ Return(p, "Corrupt")
    /\ UNCHANGED <<items, op, request, used, withdrawn, undone, made, acted,
                   before, known>>

\* create_item, without replacement.
AddItem(p) ==
    /\ pc[p] = "add"
    /\ \E i \in (Item \ used) \cup {None}, value \in {request[p].secret, Damaged},
          status \in {"ok", "lost", "refused"} :
        /\ status = "ok" => i # None
        /\ status = "refused" => i = None
        /\ i = None => value = Damaged
        /\ items' = items \cup {[path |-> j, recipient |-> request[p].recipient,
                                 value |-> value] : j \in {i} \ {None}}
        /\ used' = used \cup ({i} \ {None})
        /\ made' = [made EXCEPT ![p] = i]
        /\ \/ status = "ok" /\ GotoItem(p, "readback", i)
           \/ status # "ok" /\ Goto(p, "reconcile")
    /\ UNCHANGED <<op, request, withdrawn, undone, acted, before, known>>

\* get_secret of the created item.
ReadBack(p) ==
    /\ pc[p] = "readback"
    /\ \/ Rollback(p, "Failed")
       \/ \E value \in Read(item[p]) :
            \/ value = request[p].secret /\ Goto(p, "inventory")
            \/ value # request[p].secret /\ Rollback(p, "Corrupt")
    /\ UNCHANGED <<items, op, request, used, withdrawn, undone, made, acted,
                   before, known>>

\* The search after the creation: the created item has to be the only one.
Inventory(p) ==
    /\ pc[p] = "inventory"
    /\ LET alone == {i.path : i \in Found(request[p].recipient)} = {item[p]}
       IN  \/ Rollback(p, "Failed")
           \/ alone /\ Return(p, "Ok")
           \/ ~alone /\ Rollback(p, "Ambiguous")
    /\ UNCHANGED <<items, op, request, used, withdrawn, undone, made, acted,
                   before, known>>

\* Mutated form: the entry is cleared, not the item.
DeleteCreatedEntry(p) ==
    /\ pc[p] = "rollback"
    /\ items' = items \ Found(request[p].recipient)
    /\ undone' = undone \cup {request[p]}
    /\ Goto(p, "confirm")
    /\ UNCHANGED <<op, request, used, withdrawn, made, acted, before, known>>

\* cleanup_after_failed_create deletes the created item, whatever the answer.
DeleteCreated(p) ==
    /\ pc[p] = "rollback"
    /\ \E acts \in BOOLEAN :
        /\ items' = {i \in items : acts => i.path # item[p]}
        /\ undone' = undone \cup {e \in {request[p]} : acts}
    /\ Goto(p, "confirm")
    /\ UNCHANGED <<op, request, used, withdrawn, made, acted, before, known>>

\* Mutated form: the delete is trusted.
ConfirmRollbackTrusting(p) ==
    /\ pc[p] = "confirm"
    /\ Return(p, failure[p])
    /\ UNCHANGED <<items, op, request, used, withdrawn, undone, made, acted,
                   before, known>>

\* ... and searches for it once more.
ConfirmRollback(p) ==
    /\ pc[p] = "confirm"
    /\ LET remains == item[p] \in {i.path : i \in Found(request[p].recipient)}
       IN  \/ Return(p, "StateUncertain")
           \/ ~remains /\ Return(p, failure[p])
    /\ UNCHANGED <<items, op, request, used, withdrawn, undone, made, acted,
                   before, known>>

\* reconcile_after_create_error: what does the service hold after all?
Reconcile(p) ==
    /\ pc[p] = "reconcile"
    /\ LET found == Found(request[p].recipient)
       IN  \/ Return(p, "StateUncertain")
           \/ found = {} /\ Return(p, "Failed")
           \/ \E i \in found :
                /\ found = {i}
                /\ GotoItem(p, "recompare", i.path)
           \/ Cardinality(found) > 1 /\ Return(p, "Ambiguous")
    /\ UNCHANGED <<items, op, request, used, withdrawn, undone, made, acted,
                   before, known>>

\* ... and get_secret of the one item it holds.
CompareReconciled(p) ==
    /\ pc[p] = "recompare"
    /\ \/ Return(p, "StateUncertain")
       \/ \E value \in Read(item[p]) : Compare(p, value)
    /\ UNCHANGED <<items, op, request, used, withdrawn, undone, made, acted,
                   before, known>>

\* remove: the item the search found is deleted.
Delete(p) ==
    /\ pc[p] = "delete"
    /\ \E acts \in BOOLEAN, status \in {"ok", "failed"} :
        /\ status = "ok" => acts
        /\ acts => Read(item[p]) # {}
        /\ items' = {i \in items : acts => i.path # item[p]}
        /\ withdrawn' = withdrawn \cup {r \in {request[p].recipient} : acts}
        /\ acted' = [acted EXCEPT ![p] = acts]
        /\ Goto(p, IF status = "ok" THEN "absent" ELSE "settle")
    /\ UNCHANGED <<op, request, used, undone, made, before, known>>

\* Mutated form: a delete that failed found nothing to delete.
SettleDeleteTrusting(p) ==
    /\ pc[p] = "settle"
    /\ Return(p, "Removed")
    /\ UNCHANGED <<items, op, request, used, withdrawn, undone, made, acted,
                   before, known>>

\* The search after a delete that failed.
SettleDelete(p) ==
    /\ pc[p] = "settle"
    /\ LET found == {i.path : i \in Found(request[p].recipient)}
       IN  \/ Return(p, "StateUncertain")
           \/ found = {} /\ Return(p, "Removed")
           \/ found = {item[p]} /\ Return(p, "Failed")
    /\ UNCHANGED <<items, op, request, used, withdrawn, undone, made, acted,
                   before, known>>

\* The search after a delete that succeeded.
ConfirmAbsent(p) ==
    /\ pc[p] = "absent"
    /\ \/ Return(p, "StateUncertain")
       \/ Found(request[p].recipient) = {} /\ Return(p, "Removed")
    /\ UNCHANGED <<items, op, request, used, withdrawn, undone, made, acted,
                   before, known>>

\* The process dies in the middle of an operation.
Crash(p) ==
    /\ pc[p] # "idle"
    /\ Idle(p)
    /\ result' = [result EXCEPT ![p] = "Crashed"]
    /\ unsettled' = unsettled \cup {r \in {request[p].recipient} : op[p] = "create"}
    /\ UNCHANGED <<items, op, request, loaded, used, accepted,
                   withdrawn, undone, made, acted, before, known>>

ProcStep(p) ==
    \/ Search(p) \/ CompareExisting(p) \/ AddItem(p) \/ ReadBack(p)
    \/ Inventory(p) \/ DeleteCreated(p) \/ ConfirmRollback(p)
    \/ Reconcile(p) \/ CompareReconciled(p)
    \/ Delete(p) \/ SettleDelete(p) \/ ConfirmAbsent(p)

Next == \E p \in Proc : Begin(p) \/ ProcStep(p) \/ Crash(p)

Spec == Init /\ [][Next]_vars

-----------------------------------------------------------------------------
(***************************************************************************)
(* Properties.                                                             *)
(***************************************************************************)

\* An entry create returned success for stays stored until a removal of its
\* recipient, or until another create of the very same secret takes back the
\* item both rely on: the rollback of one create never costs another its
\* secret.
AcceptedIsStored ==
    \A e \in accepted :
        \/ e.recipient \in withdrawn
        \/ e \in undone
        \/ \E i \in items : i.recipient = e.recipient /\ i.value = e.secret

\* No two creates of different secrets both succeed: material that is there is
\* never joined by other material, however the two interleave.
NoSecondSecret ==
    \A e, f \in accepted :
        e.recipient = f.recipient /\ e # f
            => e.recipient \in withdrawn \/ {e, f} \cap undone # {}

\* Competing creates agree on one secret, and it stays.
AcceptedIsKept == AcceptedIsStored /\ NoSecondSecret

\* A load returns the secret that was accepted before it began, never the one
\* of a create still competing with it.
LoadReturnsAccepted ==
    \A p \in Proc : loaded[p] # None =>
        \A e \in known[p] :
            \/ e.recipient # request[p].recipient
            \/ e.recipient \in withdrawn
            \/ e \in undone
            \/ e.secret = loaded[p]

\* Several items of one recipient are the doing of a create that is still
\* running, died, or said that the entry is ambiguous or uncertain.
DuplicatesAreReported ==
    \A r \in Recipient : Cardinality(Found(r)) > 1 =>
        \/ r \in unsettled
        \/ \E p \in Proc : pc[p] # "idle" /\ op[p] = "create" /\ request[p].recipient = r

\* A create that fails without saying that the entry is ambiguous or uncertain
\* left no secret behind, only perhaps a damaged item it reports as Corrupt.
CreateErrorIsDefinite ==
    \A p \in Proc :
        pc[p] = "idle" /\ op[p] = "create"
        /\ result[p] \in StoreError \ {"Ambiguous", "StateUncertain"}
            => \A i \in items : i.path = made[p] => i.value = Damaged /\ result[p] = "Corrupt"

\* A removal that returns success leaves none of the items that were there
\* when it began, its own or a duplicate.
RemoveIsComplete ==
    \A p \in Proc :
        result[p] \in {"Removed", "Absent"}
            => \A i \in items : i.path \notin before[p]

\* A removal that fails without saying that the state is uncertain did not
\* delete the item.
RemoveErrorIsDefinite ==
    \A p \in Proc :
        pc[p] = "idle" /\ op[p] = "remove" /\ result[p] \in StoreError \ {"StateUncertain"}
            => ~acted[p]

\* What an operation returns is true of the items it leaves: answers were lost
\* and cleanups failed on the way.
AnswersAreDefinite == CreateErrorIsDefinite /\ RemoveIsComplete /\ RemoveErrorIsDefinite
-----------------------------------------------------------------------------
(***************************************************************************)
(* The invariant behind these properties.                                  *)
(***************************************************************************)

Live(e) == e.recipient \notin withdrawn /\ e \notin undone
Comparing == {"compare", "recompare"}
Cleaning == {"readback", "inventory", "rollback", "confirm"}
Holds(p, i) == i.path = item[p]

\* Object paths name items and are never given twice.
PathsOK ==
    /\ \A i \in items : i.path \in used
    /\ \A i, j \in items : i.path = j.path => i = j
    /\ \A p \in Proc : ({made[p], item[p]} \ {None}) \cup before[p] \subseteq used

\* An operation's item and the items it began with are its recipient's, and the
\* item a create made has its secret or is damaged.
OwnOK(p) ==
    /\ op[p] = "create" => request[p] \in Entry
    /\ known[p] \subseteq accepted
    /\ \A i \in items : i.path \in {made[p], item[p]} \cup before[p]
            => i.recipient = request[p].recipient
    /\ \A i \in items : i.path = made[p] => i.value \in {request[p].secret, Damaged}

\* What an operation knows at its next call.
StepOK(p) ==
    /\ pc[p] \in {"search", "add", "compare"} => made[p] = None
    /\ pc[p] \in {"search", "delete"} => ~acted[p]
    /\ pc[p] = "compare" => op[p] # "remove"
    /\ pc[p] \in {"add", "reconcile", "recompare"} \cup Cleaning => op[p] = "create"
    /\ pc[p] \in {"delete", "settle", "absent"} => op[p] = "remove"
    /\ pc[p] \in Cleaning => item[p] = made[p] /\ made[p] # None
    /\ pc[p] = "inventory" => \A i \in items : Holds(p, i) => i.value = request[p].secret
    /\ pc[p] = "recompare" => \A i \in items : i.path = made[p] => Holds(p, i)
    /\ pc[p] \in {"settle", "absent"} /\ acted[p] => \A i \in items : ~Holds(p, i)

\* Two comparisons of one recipient that both read an item read the same, and
\* it has the secret that was accepted.
ComparedOK ==
    \A p \in Proc : pc[p] \in Comparing =>
        \A i \in items : Holds(p, i) =>
            /\ \A q \in Proc, j \in items :
                    pc[q] \in Comparing /\ Holds(q, j) /\ j.recipient = i.recipient => j = i
            /\ \A e \in accepted : Live(e) /\ e.recipient = i.recipient => i.value = e.secret

\* Of two items of a recipient, one is that of a create that has yet to search
\* for them, unless a create left them unsettled.
PairsOK ==
    \A i, j \in items : i # j /\ i.recipient = j.recipient /\ i.recipient \notin unsettled =>
        \E p \in Proc :
            /\ pc[p] \in Cleaning \cup {"reconcile"}
            /\ made[p] \in {i.path, j.path}

IInv ==
    /\ TypeOK /\ PathsOK /\ ComparedOK /\ PairsOK
    /\ \A p \in Proc : OwnOK(p) /\ StepOK(p)
    /\ AcceptedIsKept /\ LoadReturnsAccepted /\ AnswersAreDefinite
=============================================================================
