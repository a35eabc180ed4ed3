----------------------------- MODULE KeyProtector -----------------------------
(***************************************************************************)
(* The key envelope through its life: one root key, wrapped once per       *)
(* recovery route (recipient), the whole authenticated by a MAC under the  *)
(* root.  KeyProtector (fido-key-wrap/src/protector.rs) creates an         *)
(* envelope, adds, removes and rewraps routes on a staged copy, and        *)
(* recovers the root through one selected route.                           *)
(*                                                                         *)
(* Cryptography is symbolic.  A wrapped root opens only under the context  *)
(* and the factors it was sealed with, and a MAC is equal only over equal  *)
(* bodies.  Random values never repeat, except where the code looks for a  *)
(* repetition: there the draw may repeat and the check has to reject it.   *)
(*                                                                         *)
(* A prompt or an authenticator call is one step; it may fail, and then    *)
(* the operation returns an error.  The envelope is borrowed exclusively   *)
(* while an operation runs, so one operation at a time loses no behaviour; *)
(* between operations the caller may load any stored copy, an old one or   *)
(* one whose records were mixed up, as long as it decodes.                 *)
(***************************************************************************)
EXTENDS Naturals, FiniteSets

CONSTANTS
    Application,    \* application ids protectors are constructed with
    EnvelopeId,     \* random envelope ids
    RecipientId,    \* random recipient ids
    Root,           \* root keys
    Credential,     \* credential ids authenticators return
    Salt,           \* random Argon2 salts
    Nonce,          \* the random nonces and secrets one record is built with
    Word,           \* passphrases a user can type
    Work,           \* Argon2 work levels, and the ceilings of protectors
    Suite,          \* the suites in use
    None,           \* an absent field
    MaxRecipients,  \* MAX_RECIPIENTS
    MaxIssued       \* bound: envelopes issued in one behaviour

AllSuites == {"passphrase", "recovery", "fido", "local", "combined"}

ASSUME SuiteAssumption == Suite \subseteq AllSuites
ASSUME WorkAssumption == Work \subseteq Nat
ASSUME LimitAssumption == MaxRecipients \in Nat \ {0} /\ MaxIssued \in Nat
ASSUME NoneAssumption ==
    None \notin Application \cup EnvelopeId \cup RecipientId \cup Root \cup
                Credential \cup Salt \cup Nonce \cup Word \cup Work

VARIABLES
    held,       \* the KeyEnvelope the caller holds
    issued,     \* history: every envelope an operation returned
    pc,         \* the next step of the running operation, "idle" between two
    op,         \* the arguments and locals of the running or last operation
    result      \* what the last operation returned: "none", "ok" or "error"

vars == <<held, issued, pc, op, result>>

-----------------------------------------------------------------------------
(***************************************************************************)
(* Records and envelopes.                                                  *)
(***************************************************************************)

UsesPassphrase(suite) == suite \in {"passphrase", "combined"}
UsesFido(suite) == suite \in {"fido", "local", "combined"}

\* The dedicated routes, opened by a secret the library generated.
UsesSecret(suite) == suite \in {"recovery", "local"}

Context == [app : Application, envelope : EnvelopeId, id : RecipientId,
            suite : AllSuites, cred : Credential \cup {None},
            salt : Salt \cup {None}, nonce : Nonce, work : Work \cup {None}]

\* A wrapped root: the context and the word (passphrase or secret) its keys
\* were derived from.  The FIDO layer is bound by the context alone, whose
\* digest is the PRF input of credential cred.
Sealed == [context : Context, word : Word \cup Nonce \cup {None}, root : Root]
NoSeal == [context |-> None, word |-> None, root |-> None]

Record == [id : RecipientId, suite : AllSuites, cred : Credential \cup {None},
           salt : Salt \cup {None}, nonce : Nonce, work : Work \cup {None},
           sealed : Sealed \cup {NoSeal}]

NoRecord == [id |-> None, suite |-> "recovery", cred |-> None, salt |-> None,
             nonce |-> None, work |-> None, sealed |-> NoSeal]

Mac == [root : Root, app : Application, envelope : EnvelopeId,
        recipients : SUBSET Record]
Envelope == [app : Application, id : EnvelopeId, recipients : SUBSET Record,
             mac : Mac \cup {None}]
NoEnvelope == [app |-> None, id |-> None, recipients |-> {}, mac |-> None]

\* recipient_context: everything of a record but its label and wrapped root.
RecipientContext(e, r) ==
    [app |-> e.app, envelope |-> e.id, id |-> r.id, suite |-> r.suite,
     cred |-> r.cred, salt |-> r.salt, nonce |-> r.nonce, work |-> r.work]

\* compute_envelope_mac over the canonical body.
EnvelopeMac(e, root) ==
    [root |-> root, app |-> e.app, envelope |-> e.id, recipients |-> e.recipients]

MacMatches(e, root) == e.mac = EnvelopeMac(e, root)

\* wrap_* : seal root under the context of r in e.
Seal(e, r, word, root) ==
    [r EXCEPT !.sealed = [context |-> RecipientContext(e, r), word |-> word,
                          root |-> root]]

\* unwrap_combined_outer, or the only layer of a route without a word.
LayerOpens(e, r) == r.sealed.context = RecipientContext(e, r)

\* unwrap_*: the whole record opens under the word presented.
Opens(e, r, word) == LayerOpens(e, r) /\ r.sealed.word = word

Ids(e) == {r.id : r \in e.recipients}
Salts(e) == {r.salt : r \in e.recipients} \ {None}
Credentials(e) == {r.cred : r \in e.recipients} \ {None}

\* KeyEnvelope::decode with validate_recipient_set.
Decodable(e) ==
    /\ e.recipients # {}
    /\ Cardinality(e.recipients) <= MaxRecipients
    /\ \A r, q \in e.recipients : r # q =>
        /\ r.id # q.id
        /\ r.cred = q.cred => r.cred = None
        /\ r.salt = q.salt => r.salt = None

-----------------------------------------------------------------------------
(***************************************************************************)
(* Random draws.                                                           *)
(***************************************************************************)

\* History: every record of an issued envelope.
SpentRecords == UNION {e.recipients : e \in issued}

\* A random value never drawn before.  The values have no order or meaning, so
\* it does not matter which.
Fresh(values, spent) ==
    IF values \subseteq spent THEN {} ELSE {CHOOSE v \in values : v \notin spent}

\* unique_recipient_id.
UniqueRecipientId(e) == Fresh(RecipientId, Ids(e))

\* unique_salt: a new salt, or one of the envelope's that the loop rejects.
UniqueSalt(e) ==
    (Fresh(Salt, {r.salt : r \in SpentRecords}) \cup Salts(e)) \ Salts(e)

\* random_array for the nonces and secrets of a new record.
RandomArray == Fresh(Nonce, {r.nonce : r \in SpentRecords})

\* fresh_array: a new value, or the old one that the loop rejects.
FreshArray(old) == (RandomArray \cup {old}) \ {old}

\* backend.enroll with validate_credential, which rejects an answer that is
\* empty, too long or already in the envelope.
EnrolledCredential(e) ==
    (Fresh(Credential, {r.cred : r \in SpentRecords}) \cup Credentials(e))
        \ Credentials(e)

-----------------------------------------------------------------------------
(***************************************************************************)
(* Starting and ending an operation.                                       *)
(***************************************************************************)

NoOp == [name |-> "none", root |-> None, limit |-> None, base |-> NoEnvelope,
         record |-> NoRecord, word |-> None]
NoResult == [status |-> "none", root |-> None, record |-> NoRecord]

\* The operation runs on: o holds its arguments and locals.
Proceed(step, o) ==
    /\ pc' = step
    /\ op' = o
    /\ result' = NoResult
    /\ UNCHANGED <<held, issued>>

\* The operation returns an error.
Fail ==
    /\ pc' = "idle"
    /\ op' = NoOp
    /\ result' = [NoResult EXCEPT !.status = "error"]
    /\ UNCHANGED <<held, issued>>

\* The operation returns the envelope it staged.
Replace(e) ==
    /\ pc' = "idle"
    /\ op' = NoOp
    /\ result' = [NoResult EXCEPT !.status = "ok"]
    /\ held' = e
    /\ issued' = issued \cup {e}

\* admit_parameters, admit_record, admit_enrollment.
Admitted(work, limit) == work = None \/ work <= limit

\* Mutated form: only the application is compared.
AuthenticatedByName(e, app, root) == e.app = app

\* require_authenticated.
Authenticated(e, app, root) == e.app = app /\ MacMatches(e, root)

-----------------------------------------------------------------------------
(***************************************************************************)
(* Enrollment: create_root, protect_root, add_recipient, and their         *)
(* recovery-secret and local-secret forms.                                 *)
(***************************************************************************)

BeginEnroll(name, base, root) ==
    \E suite \in Suite, limit \in Work :
    \E work \in IF UsesPassphrase(suite) THEN Work ELSE {None} :
        IF Admitted(work, limit)
        THEN Proceed("enroll",
                [name |-> name, root |-> root, limit |-> limit, base |-> base,
                 record |-> [NoRecord EXCEPT !.suite = suite, !.work = work],
                 word |-> None])
        ELSE Fail

BeginCreate ==
    /\ pc = "idle"
    /\ Cardinality(issued) < MaxIssued
    /\ \E app \in Application, root \in Root,
          id \in Fresh(EnvelopeId, {e.id : e \in issued}) :
        BeginEnroll("create",
            [app |-> app, id |-> id, recipients |-> {}, mac |-> None], root)

BeginAdd ==
    /\ pc = "idle"
    /\ held # NoEnvelope
    /\ Cardinality(issued) < MaxIssued
    /\ \E app \in Application, root \in Root :
        \/ /\ Authenticated(held, app, root)
           /\ Cardinality(held.recipients) < MaxRecipients
           /\ BeginEnroll("add", held, root)
        \/ /\ \/ ~Authenticated(held, app, root)
              \/ Cardinality(held.recipients) >= MaxRecipients
           /\ Fail

\* Where a record with its random fields goes next.
AfterDraw(suite) ==
    CASE UsesFido(suite) -> "evaluate"
      [] suite = "passphrase" -> "passphrase"
      [] suite = "recovery" -> "stage"

\* enroll_passphrase_recipient, enroll_fido_recipient, enroll_combined_recipient,
\* enroll_fido_local_recipient and new_recovery_secret_record, to the first
\* prompt or to the PRF evaluation.
Enroll ==
    /\ pc = "enroll"
    /\ \/ \E cred \in IF UsesFido(op.record.suite)
                      THEN EnrolledCredential(op.base) ELSE {None},
             id \in UniqueRecipientId(op.base),
             salt \in IF UsesPassphrase(op.record.suite)
                      THEN UniqueSalt(op.base) ELSE {None},
             nonce \in RandomArray :
            Proceed(AfterDraw(op.record.suite),
                [op EXCEPT !.record = [@ EXCEPT !.cred = cred, !.id = id,
                                                !.salt = salt, !.nonce = nonce],
                           !.word = IF UsesSecret(op.record.suite)
                                    THEN nonce ELSE None])
       \/ Fail

-----------------------------------------------------------------------------
(***************************************************************************)
(* Rewrapping: rewrap_passphrase and rewrap_passphrase_with_parameters.    *)
(***************************************************************************)

\* Mutated form: a combined route is rewrapped as a passphrase route.
ReplacementDowngraded(r, work) ==
    [r EXCEPT !.work = work, !.suite = "passphrase", !.cred = None]

\* What a replacement keeps: id, suite, credential and policy.
Replacement(r, work) == [r EXCEPT !.work = work]

BeginRewrap ==
    /\ pc = "idle"
    /\ held # NoEnvelope
    /\ Cardinality(issued) < MaxIssued
    /\ \E app \in Application, root \in Root, work, limit \in Work,
          id \in RecipientId :
        LET target == {r \in held.recipients : r.id = id /\ UsesPassphrase(r.suite)}
        IN  \/ /\ Authenticated(held, app, root)
               /\ Admitted(work, limit)
               /\ \E r \in target :
                    Proceed("replace",
                        [name |-> "rewrap", root |-> root, limit |-> limit,
                         base |-> held, record |-> Replacement(r, work),
                         word |-> None])
            \/ /\ \/ ~Authenticated(held, app, root)
                  \/ ~Admitted(work, limit)
                  \/ target = {}
               /\ Fail

\* Mutated form: the replacement keeps the random fields of the old record.
DrawReplacementStale ==
    /\ pc = "replace"
    /\ Proceed(AfterDraw(op.record.suite), op)

\* rewrap_passphrase_record and rewrap_combined_record, to the first prompt or
\* to the PRF evaluation: id, credential and policy stay.
DrawReplacement ==
    /\ pc = "replace"
    /\ \/ \E salt \in UniqueSalt(op.base), nonce \in FreshArray(op.record.nonce) :
            Proceed(AfterDraw(op.record.suite),
                [op EXCEPT !.record = [@ EXCEPT !.salt = salt, !.nonce = nonce]])
       \/ Fail

-----------------------------------------------------------------------------
(***************************************************************************)
(* Unlocking: unlock, unlock_with_recovery_secret and                      *)
(* unlock_with_fido_and_local_secret.                                      *)
(***************************************************************************)

\* Mutated form: the record's recorded work is trusted.
UnlockRouteTrusting(r, call, limit) ==
    \/ call = "unlock" /\ ~UsesSecret(r.suite)
    \/ call = "secret" /\ UsesSecret(r.suite)

\* The calls that open record r: the plain one admits the recorded work first.
UnlockRoute(r, call, limit) ==
    \/ call = "unlock" /\ ~UsesSecret(r.suite) /\ Admitted(r.work, limit)
    \/ call = "secret" /\ UsesSecret(r.suite)

BeginUnlock ==
    /\ pc = "idle"
    /\ held # NoEnvelope
    /\ \E app \in Application, limit \in Work, id \in RecipientId,
          call \in {"unlock", "secret"}, secret \in Nonce :
        LET selected == {r \in held.recipients :
                            r.id = id /\ UnlockRoute(r, call, limit)}
        IN  \/ /\ held.app = app
               /\ \E r \in selected :
                    Proceed(IF r.suite = "recovery" THEN "recover"
                                                    ELSE AfterDraw(r.suite),
                        [name |-> "unlock", root |-> None, limit |-> limit,
                         base |-> held, record |-> r,
                         word |-> IF call = "secret" THEN secret ELSE None])
            \/ /\ held.app # app \/ selected = {}
               /\ Fail

\* Mutated form: the recovered root is not checked against the envelope.
RecoverUnchecked ==
    /\ pc = "recover"
    /\ IF Opens(op.base, op.record, op.word)
       THEN /\ pc' = "idle"
            /\ op' = NoOp
            /\ result' = [status |-> "ok", root |-> op.record.sealed.root,
                          record |-> op.record]
            /\ UNCHANGED <<held, issued>>
       ELSE Fail

\* The unwrap of the last layer, and the MAC check under the recovered root.
Recover ==
    /\ pc = "recover"
    /\ IF /\ Opens(op.base, op.record, op.word)
          /\ MacMatches(op.base, op.record.sealed.root)
       THEN /\ pc' = "idle"
            /\ op' = NoOp
            /\ result' = [status |-> "ok", root |-> op.record.sealed.root,
                          record |-> op.record]
            /\ UNCHANGED <<held, issued>>
       ELSE Fail

-----------------------------------------------------------------------------
(***************************************************************************)
(* The steps operations share.                                             *)
(***************************************************************************)

\* backend.evaluate: the PRF result of the record's credential on its context,
\* then, in an unlock, the layer under it.
Evaluate ==
    /\ pc = "evaluate"
    /\ \/ /\ op.name = "unlock"
          /\ LayerOpens(op.base, op.record)
          /\ Proceed(IF op.record.suite = "combined" THEN "passphrase" ELSE "recover", op)
       \/ /\ op.name # "unlock"
          /\ Proceed(IF op.record.suite = "combined" THEN "passphrase" ELSE "stage", op)
       \/ Fail

\* request_passphrase, or request_new_passphrase with its confirmation, and the
\* Argon2 derivation.
AskPassphrase ==
    /\ pc = "passphrase"
    /\ \/ \E w \in Word :
            Proceed(IF op.name = "unlock" THEN "recover" ELSE "stage",
                    [op EXCEPT !.word = w])
       \/ Fail

\* The envelope with the record sealed into it, under a new MAC.
Staged(e, r, word, root) ==
    LET others == {q \in e.recipients : q.id # r.id}
        body == [e EXCEPT !.recipients = others \cup {Seal(e, r, word, root)}]
    IN  [body EXCEPT !.mac = EnvelopeMac(body, root)]

\* stage_record and stage_existing_record: decode the staged copy, reopen it
\* with the keys just derived, and only then replace the caller's envelope.
Stage ==
    /\ pc = "stage"
    /\ LET e == Staged(op.base, op.record, op.word, op.root)
       IN  IF /\ Decodable(e)
              /\ \E r \in e.recipients :
                    /\ r.id = op.record.id
                    /\ Opens(e, r, op.word)
                    /\ MacMatches(e, r.sealed.root)
           THEN Replace(e)
           ELSE Fail

\* Mutated form: the MAC is not computed again.
RemoveStaleMac ==
    /\ pc = "idle"
    /\ held # NoEnvelope
    /\ Cardinality(issued) < MaxIssued
    /\ \E root \in Root, id \in RecipientId :
        LET e == [held EXCEPT !.recipients = {r \in @ : r.id # id}]
        IN  /\ id \in Ids(held)
            /\ Authenticated(held, held.app, root)
            /\ Decodable(e)
            /\ Replace(e)

\* remove_recipient.
Remove ==
    /\ pc = "idle"
    /\ held # NoEnvelope
    /\ Cardinality(issued) < MaxIssued
    /\ \E app \in Application, root \in Root, id \in RecipientId :
        LET body == [held EXCEPT !.recipients = {r \in @ : r.id # id}]
            e == [body EXCEPT !.mac = EnvelopeMac(body, root)]
            legal == /\ id \in Ids(held)
                     /\ Cardinality(held.recipients) # 1
                     /\ Authenticated(held, app, root)
        IN  \/ legal /\ Decodable(e) /\ Replace(e)
            \/ ~(legal /\ Decodable(e)) /\ Fail

-----------------------------------------------------------------------------
(***************************************************************************)
(* The caller's storage between operations.                                *)
(***************************************************************************)

\* Copies a storage fault can leave: records of one copy among those of
\* another, records missing, or recorded work changed.
Mixed(e, f) ==
    {[e EXCEPT !.recipients = R] : R \in SUBSET (e.recipients \cup f.recipients)}
Altered(e) ==
    {[e EXCEPT !.recipients = (@ \ {r}) \cup {[r EXCEPT !.work = w]}] :
        r \in {q \in e.recipients : UsesPassphrase(q.suite)}, w \in Work}

\* KeyEnvelope::decode of a stored copy, possibly an old or damaged one.
Load ==
    /\ pc = "idle"
    /\ \E e, f \in issued : \E copy \in Mixed(e, f) \cup Altered(e) :
        /\ Decodable(copy)
        /\ held' = copy
    /\ result' = NoResult
    /\ UNCHANGED <<issued, pc, op>>

-----------------------------------------------------------------------------

Init ==
    /\ held = NoEnvelope
    /\ issued = {}
    /\ pc = "idle"
    /\ op = NoOp
    /\ result = NoResult

Next ==
    \/ BeginCreate \/ BeginAdd \/ BeginRewrap \/ BeginUnlock
    \/ Enroll \/ DrawReplacement \/ Evaluate \/ AskPassphrase
    \/ Stage \/ Recover \/ Remove \/ Load

Spec == Init /\ [][Next]_vars

-----------------------------------------------------------------------------
(***************************************************************************)
(* Properties.                                                             *)
(***************************************************************************)

Step == {"idle", "enroll", "replace", "evaluate", "passphrase", "stage", "recover"}

\* Every variable keeps its type, and what the caller holds always decodes.
TypeOK ==
    /\ held \in Envelope \cup {NoEnvelope}
    /\ held # NoEnvelope => Decodable(held)
    /\ issued \subseteq Envelope
    /\ \A e \in issued : e.mac \in Mac
    /\ pc \in Step
    /\ result.status \in {"none", "ok", "error"}
    /\ result.root \in Root \cup {None}

\* Every route of every envelope ever returned opens, under the word it was
\* enrolled or rewrapped with, to the root the envelope authenticates: no
\* later change of one route breaks another.
RoutesOpen ==
    \A e \in issued :
        /\ MacMatches(e, e.mac.root)
        /\ \A r \in e.recipients : LayerOpens(e, r) /\ r.sealed.root = e.mac.root

\* unlock returns a root only for a copy that was issued exactly as it is: no
\* mixed, truncated or altered copy unlocks, through any route.
UnlockIsAuthentic ==
    result.root # None =>
        /\ held \in issued
        /\ held.mac.root = result.root
        /\ result.record \in held.recipients

\* A passphrase is only asked for work under the protector's ceiling, whatever
\* the record says, and for a combined route only once the security key has
\* opened the outer layer.
PromptIsEarned ==
    pc = "passphrase" =>
        /\ op.record.work <= op.limit
        /\ op.name = "unlock" /\ op.record.suite = "combined"
                => LayerOpens(op.base, op.record)

\* No key and nonce of a route ever seal two plaintexts: sealing the same
\* context again would, since the FIDO layer of a combined route is keyed by
\* the context alone and its plaintext depends on the passphrase.
NoSealReuse ==
    \A r, q \in SpentRecords :
        r.sealed.context = q.sealed.context => r.sealed = q.sealed

\* Salts are unique across every record ever issued, except for one carried
\* over unchanged: Argon2 output is never shared by two routes or by a route
\* and its rewrapped form.
SaltsAreUnique ==
    \A r, q \in SpentRecords : r.salt # None /\ r.salt = q.salt => r = q

\* What must be used once is: neither a seal nor a salt is spent on two routes,
\* however routes are carried over, replaced and rolled back.
NoReuse == NoSealReuse /\ SaltsAreUnique

\* A change starts from an authenticated copy: nothing a storage fault left is
\* ever given a new MAC.
ChangesAreAuthenticated ==
    [][\A n \in issued' \ issued : n.id = held.id => held \in issued]_vars

\* A change touches one route only, and keeps its suite and credential: no
\* policy is weakened by a rewrap.
ChangesOneRoute ==
    [][\A n \in issued' \ issued : n.id = held.id =>
        LET differ == (n.recipients \ held.recipients) \cup
                      (held.recipients \ n.recipients)
        IN  /\ n.app = held.app /\ n.mac.root = held.mac.root
            /\ \A r, q \in differ :
                /\ r.id = q.id
                /\ r.suite = q.suite /\ r.cred = q.cred]_vars

-----------------------------------------------------------------------------
(***************************************************************************)
(* The inductive invariant behind the safety properties.                   *)
(***************************************************************************)

Draft == [id : RecipientId \cup {None}, suite : AllSuites,
          cred : Credential \cup {None}, salt : Salt \cup {None},
          nonce : Nonce \cup {None}, work : Work \cup {None},
          sealed : Sealed \cup {NoSeal}]
Op == [name : {"create", "add", "rewrap", "unlock"}, root : Root \cup {None},
       limit : Work, base : Envelope, record : Draft,
       word : Word \cup Nonce \cup {None}]

\* What each step of an operation may rely on: a change works on a copy it
\* authenticated, an unlock on a record of the copy the caller holds.
OpOK ==
    pc # "idle" =>
        /\ op \in Op
        /\ pc # "enroll" => op.record \in Record
        /\ op.name = "create" => /\ op.base.recipients = {}
                                 /\ \A e \in issued : e.id # op.base.id
        /\ op.name \in {"add", "rewrap"} =>
                /\ op.base = held
                /\ op.base \in issued
                /\ op.base.mac.root = op.root
        /\ op.name = "unlock" => op.base = held /\ op.record \in held.recipients
        /\ op.name # "unlock" => op.root \in Root
        /\ pc = "recover" <=> op.name = "unlock" /\ pc \notin {"evaluate", "passphrase"}
        /\ pc = "replace" => op.name = "rewrap"
        /\ pc = "enroll" => op.name \in {"create", "add"}

\* Every MAC in circulation was computed by an operation: storage faults keep
\* one, and change what it is over.
MacsAreIssued ==
    held # NoEnvelope => \E e \in issued : held.mac = e.mac /\ held.id = e.id

\* The strengthening of RoutesOpen and UnlockIsAuthentic that every step
\* preserves.
IInv ==
    /\ TypeOK
    /\ OpOK
    /\ MacsAreIssued
    /\ RoutesOpen
    /\ UnlockIsAuthentic

\* Nothing that has to be used once was used by a record issued before.
Unspent(r) ==
    \A q \in SpentRecords : q.nonce # r.nonce /\ (r.salt # None => q.salt # r.salt)

\* Routes with a passphrase record their work.
WorkIsRecorded(e) ==
    \A r \in e.recipients : UsesPassphrase(r.suite) => r.work \in Work

\* What the record of operation o owes, at a step, to the checks and draws
\* before it: work that was admitted, a route that is a new one or the one it
\* replaces, random fields nobody spent, and the key before the passphrase.
Prepared(step, o) ==
    /\ UsesPassphrase(o.record.suite) =>
            o.record.work \in Work /\ o.record.work <= o.limit
    /\ o.name = "rewrap" =>
            \E r \in o.base.recipients : /\ r.id = o.record.id
                                         /\ r.suite = o.record.suite
                                         /\ r.cred = o.record.cred
    /\ step \in {"evaluate", "passphrase", "stage"} =>
            /\ o.name # "unlock" => Unspent(o.record)
            /\ o.name = "add" => o.record.id \notin Ids(o.base)
    /\ step = "passphrase" =>
            /\ UsesPassphrase(o.record.suite)
            /\ o.name = "unlock" /\ o.record.suite = "combined" =>
                    LayerOpens(o.base, o.record)

\* The strengthening of PromptIsEarned, NoReuse and ChangesOneRoute, which
\* rests on IInv.
DrawInv ==
    /\ \A e \in issued \cup {held} : WorkIsRecorded(e)
    /\ pc # "idle" => Prepared(pc, op)
    /\ NoReuse
=============================================================================
