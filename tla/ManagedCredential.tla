-------------------------- MODULE ManagedCredential --------------------------
(***************************************************************************)
(* Managed (discoverable) security-key credentials: enrollment with its    *)
(* rollback, verification, and retirement.                                 *)
(*                                                                         *)
(* The module follows one operation of a KeyProtector through the facade   *)
(* (fido-key-wrap/src/protector.rs), the backend (backend.rs) and the      *)
(* libfido2 wrapper (fido-key-wrap-libfido2/src/native.rs).  Every call    *)
(* that reaches the authenticator is one step, because between two calls   *)
(* another process, another credential-management tool or a crash may      *)
(* intervene; everything between two calls is local computation and        *)
(* belongs to the step before it.                                          *)
(*                                                                         *)
(* A call may succeed, be refused (a status that means nothing changed) or *)
(* be lost (a timeout or transport status after which the device may or    *)
(* may not have acted).                                                    *)
(***************************************************************************)
EXTENDS Naturals, FiniteSets

CONSTANTS
    Proc,       \* processes, each running one KeyProtector
    Device,     \* authenticators that can be plugged in
    UserId,     \* recipient ids, used as the FIDO user id of a credential
    CredId,     \* credential ids (and key pairs) authenticators will generate
    None,       \* an id or an open authenticator that is not there
    Capacity    \* discoverable-credential slots of one authenticator

ASSUME CapacityAssumption == Capacity \in Nat \ {0}
ASSUME NoneAssumption == None \notin UserId \cup CredId \cup Device

VARIABLES
    store,      \* store[d]: the discoverable credentials on authenticator d
    records,    \* managed recipient records in any envelope copy ever returned
    pc,         \* pc[p]: the next step of p's operation, "idle" between two
    kind,       \* kind[p]: the operation p runs or ran last
    request,    \* request[p]: the record p enrolls, verifies or retires
    dev,        \* dev[p]: the authenticator p's session holds open
    delete,     \* delete[p]: status of the delete call of this operation
    failure,    \* failure[p]: the error that started a cleanup
    result,     \* result[p]: what the last operation returned
    \* history variables, read by no guard of the code
    usedUsers,  \* recipient ids drawn so far
    usedIds,    \* credential ids generated so far
    ambiguous,  \* user ids whose enrollment returned CredentialMayRemain
    abandoned,  \* user ids whose enrollment died with its process
    foreign,    \* user ids whose credential another tool removed or replaced
    withdrawn,  \* user ids whose credential a retirement deleted
    retired,    \* records whose retirement returned success
    deleted,    \* deleted[p]: this operation's delete call took effect
    disturbed   \* disturbed[p]: a call of this operation failed, or another
                \* tool interfered, where that leaves the outcome in doubt

callVars == <<pc, kind, request, dev, delete, failure, result>>
history == <<usedUsers, usedIds, ambiguous, abandoned, foreign, withdrawn,
             retired, deleted, disturbed>>
vars == <<store, records, callVars, history>>

-----------------------------------------------------------------------------
(***************************************************************************)
(* Data.                                                                   *)
(***************************************************************************)

Policy == {"presence", "uv"}
Protection == {"optional", "required"}

\* native_protection: the credProtect level a policy asks for.
NativeProtection(policy) == IF policy = "uv" THEN "required" ELSE "optional"

Credential == [user : UserId, id : CredId, prot : Protection]
Record == [user : UserId, id : CredId, policy : Policy]
Request == [user : UserId \cup {None}, id : CredId \cup {None}, policy : Policy]

\* ManagedCredential as native_managed_credential builds it from a record.
Expected(r) == [user |-> r.user, id |-> r.id, prot |-> NativeProtection(r.policy)]

Operation == {"enroll", "verify", "retire"}
Step == {"idle", "open", "make", "evaluate", "inventory", "stage",
         "prepare", "proof", "delete", "absence"}
Status == {"none", "ok", "lost", "notfound"}

\* map_native_error: the public failures, those that say nothing about the
\* credential (PIN, timeout, transport, interaction, random...) as "Failed".
Failure == {"Failed", "CredentialUnavailable", "AuthenticatorResponseInvalid",
            "CredentialMayRemain", "RetirementUncertain"}
Outcome == Failure \cup {"none", "ok", "crashed"}

\* Failures after which the caller may take the credential to be untouched.
DefiniteFailure == Failure \ {"CredentialMayRemain", "RetirementUncertain"}

NoRequest == [user |-> None, id |-> None, policy |-> "presence"]

TypeOK ==
    /\ store \in [Device -> SUBSET Credential]
    /\ records \subseteq Record
    /\ pc \in [Proc -> Step]
    /\ kind \in [Proc -> Operation]
    /\ request \in [Proc -> Request]
    /\ dev \in [Proc -> Device \cup {None}]
    /\ delete \in [Proc -> Status]
    /\ failure \in [Proc -> Failure]
    /\ result \in [Proc -> Outcome]
    /\ usedUsers \subseteq UserId
    /\ usedIds \subseteq CredId
    /\ ambiguous \subseteq UserId
    /\ abandoned \subseteq UserId
    /\ foreign \subseteq UserId
    /\ withdrawn \subseteq UserId
    /\ retired \subseteq Record
    /\ deleted \in [Proc -> BOOLEAN]
    /\ disturbed \in [Proc -> BOOLEAN]

Init ==
    /\ store = [d \in Device |-> {}]
    /\ records = {}
    /\ pc = [p \in Proc |-> "idle"]
    /\ kind = [p \in Proc |-> "enroll"]
    /\ request = [p \in Proc |-> NoRequest]
    /\ dev = [p \in Proc |-> None]
    /\ delete = [p \in Proc |-> "none"]
    /\ failure = [p \in Proc |-> "Failed"]
    /\ result = [p \in Proc |-> "none"]
    /\ usedUsers = {} /\ usedIds = {}
    /\ ambiguous = {} /\ abandoned = {} /\ foreign = {}
    /\ withdrawn = {} /\ retired = {}
    /\ deleted = [p \in Proc |-> FALSE]
    /\ disturbed = [p \in Proc |-> FALSE]

-----------------------------------------------------------------------------
(***************************************************************************)
(* What the authenticator's credential management shows.                   *)
(***************************************************************************)

\* Mutated form: a cleanup insists on the protection it asked for.
PresenceAlwaysExact(d, r, exact) ==
    LET near == {c \in store[d] : c.user = r.user \/ c.id = r.id}
        full == {c \in near : /\ c.user = r.user /\ c.id = r.id
                              /\ c.prot = NativeProtection(r.policy)}
    IN  IF near = {} THEN "absent"
        ELSE IF near = full THEN "present" ELSE "mismatch"

\* managed_identity_matches and include_managed_match over the enumeration of
\* ManagedCredentials::find.  An InventoryExpectation is Exact (protection
\* checked) or Pending (the identity of a failed enrollment, protection not
\* checked).
Presence(d, r, exact) ==
    LET near == {c \in store[d] : c.user = r.user \/ c.id = r.id}
        full == {c \in near : /\ c.user = r.user /\ c.id = r.id
                              /\ exact => c.prot = NativeProtection(r.policy)}
    IN  IF near = {} THEN "absent"
        ELSE IF near = full THEN "present" ELSE "mismatch"

\* Mutated form: an enumeration that failed is an ordinary failure.
RetirementOutcomeHasty(status, presence) ==
    IF presence = "absent" THEN "ok" ELSE "Failed"

\* retirement_outcome, through map_native_error.
RetirementOutcome(status, presence) ==
    CASE presence = "absent" -> "ok"
      [] presence = "present" /\ status = "lost" -> "Failed"
      [] presence = "present" /\ status # "lost" -> "AuthenticatorResponseInvalid"
      [] presence = "mismatch" -> "AuthenticatorResponseInvalid"
      [] presence = "error" -> "RetirementUncertain"

\* The error confirm_managed_inventory and managed_presence end in.
InventoryError(presence) ==
    CASE presence = "absent" -> "CredentialUnavailable"
      [] presence = "mismatch" -> "AuthenticatorResponseInvalid"
      [] presence = "error" -> "Failed"

-----------------------------------------------------------------------------
(***************************************************************************)
(* How an operation moves on.                                              *)
(***************************************************************************)

CleanupStep == {"prepare", "proof", "delete", "absence"}

Goto(p, step) ==
    /\ pc' = [pc EXCEPT ![p] = step]
    /\ UNCHANGED <<failure, result, ambiguous, retired>>

\* The operation returns r.
Return(p, r) ==
    /\ pc' = [pc EXCEPT ![p] = "idle"]
    /\ result' = [result EXCEPT ![p] = r]
    /\ failure' = [failure EXCEPT ![p] = "Failed"]
    /\ ambiguous' = ambiguous \cup
            {u \in {request[p].user} : r = "CredentialMayRemain"}
    /\ retired' = retired \cup
            {m \in {request[p]} : kind[p] = "retire" /\ r = "ok"}

\* cleanup_failed_managed_enrollment and reject_pending_managed: an error e
\* after the credential was created first tries to take it back.
StartCleanup(p, e) ==
    /\ pc' = [pc EXCEPT ![p] = "prepare"]
    /\ failure' = [failure EXCEPT ![p] = e]
    /\ UNCHANGED <<result, ambiguous, retired>>

\* Mutated form: retiring what the presented authenticator does not hold
\* counts as retired.
FailLenient(p, e) ==
    \/ kind[p] # "enroll" /\ e = "CredentialUnavailable" /\ Return(p, "ok")
    \/ kind[p] # "enroll" /\ e # "CredentialUnavailable" /\ Return(p, e)
    \/ kind[p] = "enroll" /\ pc[p] \notin CleanupStep /\ StartCleanup(p, e)
    \/ kind[p] = "enroll" /\ pc[p] \in CleanupStep
          /\ Return(p, "CredentialMayRemain")

\* A call of p's operation ended in error e.  An error inside a cleanup
\* replaces the original one by CredentialMayRemain.
Fail(p, e) ==
    \/ kind[p] # "enroll" /\ Return(p, e)
    \/ kind[p] = "enroll" /\ pc[p] \notin CleanupStep /\ StartCleanup(p, e)
    \/ kind[p] = "enroll" /\ pc[p] \in CleanupStep
          /\ Return(p, "CredentialMayRemain")

\* A cleanup that ended in absence returns the error that started it.
Done(p) ==
    IF kind[p] = "enroll" THEN Return(p, failure[p]) ELSE Return(p, "ok")

\* History: a call failed where the outcome then stays in doubt.
Disturb(p, fault) ==
    disturbed' = [disturbed EXCEPT ![p] = @ \/ (fault /\ pc[p] \in CleanupStep)]

-----------------------------------------------------------------------------
(***************************************************************************)
(* The facade's entry points.                                              *)
(***************************************************************************)

Begin(p, op, r) ==
    /\ pc[p] = "idle"
    /\ pc' = [pc EXCEPT ![p] = "open"]
    /\ kind' = [kind EXCEPT ![p] = op]
    /\ request' = [request EXCEPT ![p] = r]
    /\ dev' = [dev EXCEPT ![p] = None]
    /\ delete' = [delete EXCEPT ![p] = "none"]
    /\ result' = [result EXCEPT ![p] = "none"]
    /\ deleted' = [deleted EXCEPT ![p] = FALSE]
    /\ disturbed' = [disturbed EXCEPT ![p] = FALSE]
    /\ UNCHANGED <<store, records, failure, usedIds, ambiguous, abandoned,
                   foreign, withdrawn, retired>>

\* create_root, protect_root or add_recipient with Enrollment::managed_fido:
\* enroll_managed_fido_recipient draws the recipient id first.
BeginEnroll(p) ==
    \E u \in UserId \ usedUsers, policy \in Policy :
        /\ Begin(p, "enroll", [user |-> u, id |-> None, policy |-> policy])
        /\ usedUsers' = usedUsers \cup {u}

\* verify_managed_recipient and retire_managed_recipient on a record of an
\* envelope the root authenticates.
BeginManaged(p) ==
    \E op \in {"verify", "retire"}, r \in records :
        /\ Begin(p, op, r)
        /\ UNCHANGED usedUsers

-----------------------------------------------------------------------------
(***************************************************************************)
(* The calls of an operation.                                              *)
(***************************************************************************)

\* select_managed, request_pin, Pin::new, touch_required.  Nothing has reached
\* the credential store yet: every failure is final.
OpenSession(p) ==
    /\ pc[p] = "open"
    /\ \/ /\ \E d \in Device : dev' = [dev EXCEPT ![p] = d]
          /\ Goto(p, IF kind[p] = "enroll" THEN "make" ELSE "proof")
       \/ /\ Return(p, "Failed")
          /\ UNCHANGED dev
    /\ UNCHANGED <<store, records, kind, request, delete, usedUsers, usedIds,
                   abandoned, foreign, withdrawn, deleted, disturbed>>

\* Mutated form: a lost answer to the creation is an ordinary failure.
AfterMakeCredLost(p, status, usable, valid) ==
    \/ status # "ok" /\ Return(p, "Failed")
    \/ status = "ok" /\ ~usable /\ Return(p, "CredentialMayRemain")
    \/ status = "ok" /\ usable /\ ~valid
          /\ StartCleanup(p, "AuthenticatorResponseInvalid")
    \/ status = "ok" /\ usable /\ valid /\ Goto(p, "evaluate")

\* What Authenticator::enroll and NativeBackend::enroll_managed conclude once
\* fido_dev_make_cred returned: a lost answer or one without a usable identity
\* is CredentialMayRemain; an answer that fails attestation, protection or
\* public-key validation starts a cleanup.
AfterMakeCred(p, status, usable, valid) ==
    \/ status = "refused" /\ Return(p, "Failed")
    \/ status = "lost" /\ Return(p, "CredentialMayRemain")
    \/ status = "ok" /\ ~usable /\ Return(p, "CredentialMayRemain")
    \/ status = "ok" /\ usable /\ ~valid
          /\ StartCleanup(p, "AuthenticatorResponseInvalid")
    \/ status = "ok" /\ usable /\ valid /\ Goto(p, "evaluate")

MakeCredential(p) ==
    /\ pc[p] = "make"
    /\ \E i \in (CredId \ usedIds) \cup {None}, prot \in Protection,
          status \in {"ok", "lost", "refused"},
          stored, usable, verified \in BOOLEAN :
        /\ status = "ok" => stored
        /\ status = "refused" => ~stored
        /\ stored => i # None /\ Cardinality(store[dev[p]]) < Capacity
        /\ LET made == [user |-> request[p].user, id |-> i, prot |-> prot]
           IN  store' = [store EXCEPT ![dev[p]] =
                            @ \cup {c \in {made} : stored}]
        /\ usedIds' = usedIds \cup {j \in {i} : stored}
        /\ request' = [request EXCEPT ![p].id =
                            IF status = "ok" /\ usable THEN i ELSE None]
        /\ AfterMakeCred(p, status, usable,
                verified /\ prot = NativeProtection(request[p].policy))
        /\ disturbed' = [disturbed EXCEPT ![p] =
                            status = "lost" \/ (status = "ok" /\ ~usable)]
    /\ UNCHANGED <<records, kind, dev, delete, usedUsers, abandoned, foreign,
                   withdrawn, deleted>>

\* A signed assertion by credential id: the PRF evaluation of
\* finish_managed_fido_recipient ("evaluate", with the local steps that can
\* fail before it) or verify_managed_assertion ("proof"), each after its
\* touch prompt.
Assertion(p) ==
    /\ pc[p] \in {"evaluate", "proof"}
    /\ LET held == \E c \in store[dev[p]] : c.id = request[p].id
       IN  \/ /\ held
              /\ Goto(p, IF pc[p] = "proof" /\ kind[p] = "enroll"
                         THEN "delete" ELSE "inventory")
              /\ UNCHANGED disturbed
           \/ ~held /\ Fail(p, "CredentialUnavailable") /\ UNCHANGED disturbed
           \/ Fail(p, "Failed") /\ Disturb(p, TRUE)
    /\ UNCHANGED <<store, records, kind, request, dev, delete, usedUsers,
                   usedIds, abandoned, foreign, withdrawn, deleted>>

\* confirm_managed_inventory on the record being enrolled, verified or retired.
Inventory(p) ==
    /\ pc[p] = "inventory"
    /\ \E presence \in {Presence(dev[p], request[p], TRUE), "error"} :
        \/ /\ presence = "present"
           /\ \/ kind[p] = "enroll" /\ Goto(p, "stage")
              \/ kind[p] = "retire" /\ Goto(p, "delete")
              \/ kind[p] = "verify" /\ Return(p, "ok")
        \/ presence # "present" /\ Fail(p, InventoryError(presence))
    /\ UNCHANGED <<store, records, kind, request, dev, delete, usedUsers,
                   usedIds, abandoned, foreign, withdrawn, deleted, disturbed>>

\* Mutated form: the envelope is replaced before the staged copy is checked.
StageInPlace(p) ==
    /\ pc[p] = "stage"
    /\ records' = records \cup {request[p]}
    /\ Return(p, "ok") \/ Fail(p, "Failed")
    /\ UNCHANGED <<store, kind, request, dev, delete, usedUsers, usedIds,
                   abandoned, foreign, withdrawn, deleted, disturbed>>

\* stage_enrollment: the staged envelope reopens and is returned, or the
\* credential is taken back.
Stage(p) ==
    /\ pc[p] = "stage"
    /\ \/ /\ records' = records \cup {request[p]}
          /\ Return(p, "ok")
       \/ /\ Fail(p, "Failed")
          /\ UNCHANGED records
    /\ UNCHANGED <<store, kind, request, dev, delete, usedUsers, usedIds,
                   abandoned, foreign, withdrawn, deleted, disturbed>>

\* prepare_managed_cleanup on the authenticator that made the credential.
PrepareCleanup(p) ==
    /\ pc[p] = "prepare"
    /\ \E presence \in {Presence(dev[p], request[p], FALSE), "error"} :
        /\ \/ presence = "absent" /\ Done(p)
           \/ presence = "present" /\ Goto(p, "proof")
           \/ presence \in {"mismatch", "error"}
                 /\ Fail(p, InventoryError(presence))
        /\ Disturb(p, presence = "error")
    /\ UNCHANGED <<store, records, kind, request, dev, delete, usedUsers,
                   usedIds, abandoned, foreign, withdrawn, deleted>>

\* fido_credman_del_dev_rk in delete_managed: a status that is neither success
\* nor uncertain ends the operation; every other one is settled by a complete
\* enumeration.
DeleteManaged(p) ==
    /\ pc[p] = "delete"
    /\ LET held == {c \in store[dev[p]] : c.id = request[p].id}
       IN  \E status \in {"ok", "lost", "notfound", "refused"}, acts \in BOOLEAN :
            /\ status = "ok" => acts
            /\ status = "refused" => ~acts
            /\ status = "notfound" => held = {}
            /\ acts => held # {}
            /\ store' = [store EXCEPT ![dev[p]] = @ \ {c \in held : acts}]
            /\ deleted' = [deleted EXCEPT ![p] = acts]
            /\ withdrawn' = withdrawn \cup
                    {u \in {request[p].user} : acts /\ kind[p] = "retire"}
            /\ \/ /\ status = "refused"
                  /\ Fail(p, "Failed")
                  /\ UNCHANGED delete
               \/ /\ status # "refused"
                  /\ Goto(p, "absence")
                  /\ delete' = [delete EXCEPT ![p] = status]
            /\ Disturb(p, status \in {"lost", "refused"})
    /\ UNCHANGED <<records, kind, request, dev, usedUsers, usedIds, abandoned,
                   foreign>>

\* The enumeration that settles a deletion, by retirement_outcome.
ConfirmAbsence(p) ==
    /\ pc[p] = "absence"
    /\ \E presence \in
            {Presence(dev[p], request[p], kind[p] # "enroll"), "error"} :
        /\ LET r == RetirementOutcome(delete[p], presence)
           IN  IF r = "ok" THEN Done(p) ELSE Fail(p, r)
        /\ Disturb(p, presence = "error")
    /\ UNCHANGED <<store, records, kind, request, dev, delete, usedUsers,
                   usedIds, abandoned, foreign, withdrawn, deleted>>

-----------------------------------------------------------------------------
(***************************************************************************)
(* The environment: process termination and other tools.                   *)
(***************************************************************************)

\* The process dies in the middle of an operation.
Crash(p) ==
    /\ pc[p] # "idle"
    /\ pc' = [pc EXCEPT ![p] = "idle"]
    /\ result' = [result EXCEPT ![p] = "crashed"]
    /\ abandoned' = abandoned \cup {u \in {request[p].user} : kind[p] = "enroll"}
    /\ UNCHANGED <<store, records, kind, request, dev, delete, failure,
                   usedUsers, usedIds, ambiguous, foreign, withdrawn, retired,
                   deleted, disturbed>>

\* Another credential-management tool deletes a credential, or replaces it by
\* creating one for the same user id, which overwrites on an authenticator.
ForeignTool ==
    /\ \E d \in Device : \E c \in store[d] :
        /\ foreign' = foreign \cup {c.user}
        /\ \/ /\ store' = [store EXCEPT ![d] = @ \ {c}]
              /\ UNCHANGED usedIds
           \/ \E i \in CredId \ usedIds :
                /\ store' = [store EXCEPT ![d] = (@ \ {c}) \cup {[c EXCEPT !.id = i]}]
                /\ usedIds' = usedIds \cup {i}
    /\ disturbed' = [p \in Proc |-> TRUE]
    /\ UNCHANGED <<records, callVars, usedUsers, ambiguous, abandoned,
                   withdrawn, retired, deleted>>

ProcStep(p) ==
    \/ OpenSession(p) \/ MakeCredential(p) \/ Assertion(p) \/ Inventory(p)
    \/ Stage(p) \/ PrepareCleanup(p) \/ DeleteManaged(p) \/ ConfirmAbsence(p)

Next ==
    \/ \E p \in Proc : BeginEnroll(p) \/ BeginManaged(p) \/ ProcStep(p) \/ Crash(p)
    \/ ForeignTool

Spec == Init /\ [][Next]_vars

-----------------------------------------------------------------------------
(***************************************************************************)
(* Properties.                                                             *)
(***************************************************************************)

\* An enrollment never leaves a credential behind in silence: a credential the
\* library created belongs to a returned record, to an enrollment still
\* running, or to one that returned CredentialMayRemain or died.
NoSilentOrphan ==
    \A d \in Device : \A c \in store[d] :
        \/ c.user \in foreign \cup ambiguous \cup abandoned
        \/ \E r \in records : r.user = c.user /\ r.id = c.id
        \/ \E p \in Proc : /\ pc[p] # "idle" /\ kind[p] = "enroll"
                           /\ request[p].user = c.user

\* An enrollment that dies with its process leaves at most one credential, on
\* one authenticator, and no envelope ever names it: the error path publishes
\* nothing that a later cleanup step, or a crash before it, would take back.
CrashIsContained ==
    \A u \in abandoned \ foreign :
        /\ \A r \in records : r.user # u
        /\ \A d, e \in Device : \A c \in store[d], b \in store[e] :
                c.user = u /\ b.user = u => d = e /\ c = b

\* A returned managed record has its exact credential, protection included, on
\* some authenticator until a retirement or another tool removes it: no
\* cleanup, whatever fails in it, takes a published credential away.
PublishedIsBacked ==
    \A r \in records :
        \/ r.user \in foreign \cup withdrawn
        \/ \E d \in Device : Expected(r) \in store[d]

\* A successful retirement disables the route in every retained copy: the
\* credential is on no authenticator, and stays absent.
RetiredIsAbsent ==
    \A r \in retired : \A d \in Device : \A c \in store[d] : c.id # r.id

\* A retirement that returns a definite error did not delete the credential;
\* when it may have, the error is RetirementUncertain.
RetireErrorIsDefinite ==
    \A p \in Proc :
        (/\ pc[p] = "idle" /\ kind[p] = "retire"
         /\ result[p] \in DefiniteFailure
         /\ request[p].user \notin foreign) => ~deleted[p]

\* CredentialMayRemain is not a false alarm: it is returned only when a call
\* of the creation or of the cleanup really failed or was interfered with.  A
\* rejected but readable credential is taken back, its protection whatever.
NoFalseAlarm ==
    \A p \in Proc : result[p] = "CredentialMayRemain" => disturbed[p]

-----------------------------------------------------------------------------
(***************************************************************************)
(* The inductive invariant behind the safety properties.                   *)
(***************************************************************************)

Enrolling(p) == pc[p] # "idle" /\ kind[p] = "enroll"

\* What each step of an operation may rely on.
StepOK ==
    \A p \in Proc :
        /\ pc[p] # "idle" => request[p].user \in UserId
        /\ pc[p] \notin {"idle", "open"} => dev[p] \in Device
        /\ pc[p] \notin {"idle", "open", "make"} => request[p] \in Record
        /\ pc[p] # "idle" /\ kind[p] # "enroll" => request[p] \in records
        /\ pc[p] \in {"make", "evaluate", "stage", "prepare"} => kind[p] = "enroll"
        /\ pc[p] \in {"delete", "absence"} => kind[p] # "verify"

\* Credential ids never repeat, and what is stored, recorded or requested was
\* issued before.
IdsAreFresh ==
    /\ \A d \in Device : \A c \in store[d] : c.id \in usedIds /\ c.user \in usedUsers
    /\ \A d, e \in Device : \A c \in store[d], b \in store[e] : c.id = b.id => d = e
    /\ \A r \in records : r.id \in usedIds /\ r.user \in usedUsers
    /\ \A p \in Proc : /\ request[p].id \in usedIds \cup {None}
                       /\ request[p].user \in usedUsers \cup {None}
    /\ retired \subseteq records

\* Past its signed assertion, a retirement knows that no authenticator but the
\* open one can hold the credential.
AssertionLocates ==
    \A p \in Proc :
        kind[p] # "enroll" /\ pc[p] \in {"inventory", "delete", "absence"}
            => \A d \in Device \ {dev[p]} : \A c \in store[d] : c.id # request[p].id

\* A running enrollment is the only source of credentials for its user id, and
\* they are on the authenticator it holds open.
EnrollmentOwns ==
    \A p \in Proc : Enrolling(p) =>
        /\ \A d \in Device : \A c \in store[d] : c.user = request[p].user =>
                /\ d = dev[p]
                /\ pc[p] \notin {"open", "make"}
                /\ c.id = request[p].id \/ c.user \in foreign
        /\ \A q \in Proc \ {p} : Enrolling(q) => request[q].user # request[p].user

\* The strengthening of RetiredIsAbsent and NoSilentOrphan that every step
\* preserves.
IInv ==
    /\ TypeOK
    /\ StepOK
    /\ IdsAreFresh
    /\ AssertionLocates
    /\ EnrollmentOwns
    /\ RetiredIsAbsent
    /\ NoSilentOrphan

\* Whose a credential id is: an id a running enrollment was given is on nobody
\* else's credential, in nobody else's record or request, and two records or
\* a record and an enrollment never share one.
IdsAreOwned ==
    /\ \A p \in Proc : Enrolling(p) =>
        /\ \A r \in records : r.user # request[p].user /\ r.id # request[p].id
        /\ request[p].id # None =>
            /\ \A d \in Device : \A c \in store[d] :
                    c.id = request[p].id => c.user = request[p].user
            /\ \A q \in Proc \ {p} : Enrolling(q) => request[q].id # request[p].id
    /\ \A r, s \in records : r.id = s.id => r.user = s.user
    /\ \A r \in records, d \in Device : \A c \in store[d] :
            c.user = r.user => c.id = r.id \/ c.user \in foreign
    /\ foreign \subseteq usedUsers

\* The strengthening of CrashIsContained, which rests on IInv and IdsAreOwned:
\* a dead enrollment is no longer running and has no record, and a user id is
\* on one credential unless another tool interfered.
ContainedInv ==
    /\ abandoned \subseteq usedUsers
    /\ \A p \in Proc : Enrolling(p) => request[p].user \notin abandoned
    /\ \A r \in records : r.user \notin abandoned
    /\ \A d, e \in Device : \A c \in store[d], b \in store[e] :
            c.user = b.user => (d = e /\ c = b) \/ c.user \in foreign

\* What an enrollment knows of its credential at each step: until a fault
\* disturbs it, a cleanup finds exactly what it is to delete; what it publishes
\* is there.
EnrollmentKnows(p) ==
    /\ pc[p] \in {"open", "make"} \/ ~disturbed[p] => request[p].user \notin foreign
    /\ ~disturbed[p] /\ pc[p] \in {"proof", "delete"} =>
            \E c \in store[dev[p]] : c.id = request[p].id
    /\ ~disturbed[p] /\ pc[p] = "absence" =>
            \A c \in store[dev[p]] : c.id # request[p].id
    /\ pc[p] = "stage" => \/ request[p].user \in foreign
                          \/ Expected(request[p]) \in store[dev[p]]
    /\ pc[p] \in CleanupStep => failure[p] # "CredentialMayRemain"

\* What a retirement knows: only the delete call deletes, and it deletes all.
RetirementKnows(p) ==
    /\ pc[p] # "absence" => ~deleted[p]
    /\ deleted[p] => \A c \in store[dev[p]] : c.id # request[p].id

CallKnows(p) ==
    pc[p] # "idle" => /\ result[p] = "none"
                      /\ kind[p] = "enroll" => EnrollmentKnows(p)
                      /\ kind[p] = "retire" => RetirementKnows(p)

\* The strengthening of PublishedIsBacked, RetireErrorIsDefinite and
\* NoFalseAlarm, which rests on IInv.
OutcomeInv ==
    /\ IdsAreOwned
    /\ \A p \in Proc : CallKnows(p)
    /\ PublishedIsBacked
    /\ RetireErrorIsDefinite
    /\ NoFalseAlarm
=============================================================================
