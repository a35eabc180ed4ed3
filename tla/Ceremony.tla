------------------------------- MODULE Ceremony -------------------------------
(***************************************************************************)
(* The signed ceremonies between one KeyProtector and its authenticators:  *)
(* what is asked of a device, and which of its answers are accepted        *)
(* (NativeBackend in fido-key-wrap/src/backend.rs, Authenticator,          *)
(* Credential and Assertion in fido-key-wrap-libfido2/src/native.rs).      *)
(*                                                                         *)
(* ManagedCredential follows the credentials an operation may leave        *)
(* behind; this module follows the contents of the answers: which          *)
(* credential signed, for which challenge, with which flags, and which PRF *)
(* secret came with it.  Every native call is one step, with the prompts   *)
(* and the local computation that precede the next one.  Between two calls *)
(* the PIN may be changed and the user verification the device insists on  *)
(* switched, by another program.  An answer may be late: it stays in the   *)
(* channel of the open handle and the next call there reads it.            *)
(***************************************************************************)
EXTENDS Naturals, FiniteSets

CONSTANTS
    Device,     \* authenticators that can be plugged in
    CredId,     \* credential ids (and key pairs) authenticators will generate
    PinValue,   \* values of a PIN
    None,       \* no device, no id, no PIN, no answer
    MaxRetries, \* wrong PINs an authenticator takes in a row
    MaxFaults   \* bound: faults, wrong PINs and foreign changes of a behaviour

ASSUME RetriesAssumption == MaxRetries \in Nat \ {0} /\ MaxFaults \in Nat
ASSUME NoneAssumption == /\ None \notin Device \cup CredId \cup PinValue
                         /\ None \notin [id : CredId, uv : BOOLEAN]

VARIABLES
    authenticator,  \* authenticator[d]: PIN, retries, alwaysUv, credentials
    pc,             \* the next call of the operation, "idle" between two
    op,             \* the operation that runs or ran last
    record,         \* the recipient record it enrolls, evaluates or manages
    dev,            \* the authenticator held open
    pin,            \* the PIN held for the native calls
    challenges,     \* client-data hashes drawn in this session
    late,           \* an answer left unread in the channel of the handle
    failure,        \* the error that started a cleanup
    records,        \* the recipient records of any envelope returned so far
    result,         \* what the last operation returned
    \* history variables, read by no guard of the code
    minted,         \* credential ids generated so far
    accepted,       \* answers accepted: what for, and what came with them
    wrong,          \* wrong PINs this operation sent to an authenticator
    blamed,         \* something outside the program disturbed this operation
    faults          \* faults so far

session == <<dev, pin, challenges, late>>
vars == <<authenticator, pc, op, record, session, failure, records, result,
          minted, accepted, wrong, blamed, faults>>

-----------------------------------------------------------------------------
(***************************************************************************)
(* Data.                                                                   *)
(***************************************************************************)

Operation == {"enroll", "enrollManaged", "recover", "verify", "retire"}
Step == {"idle", "open", "ask", "make", "evaluate", "inventory", "prepare",
         "proof", "delete", "absence"}
CleanupStep == {"prepare", "proof", "delete", "absence"}

ExactPolicy == {"presence", "uv"}
CredentialProtection == {"optional", "required"}

\* ExactPolicy::protection and CredentialProtection::native
NativeProtection(policy) == IF policy = "uv" THEN "required" ELSE "optional"

Flag == {"UP", "UV", "BE", "BS"}

\* Mutated form: a presence ceremony takes a user-verified answer.
FlagsMatchUpward(flags, policy) ==
    /\ "UP" \in flags
    /\ policy = "uv" => "UV" \in flags
    /\ flags \cap {"BE", "BS"} = {}

\* Mutated form: the backup flags are not looked at.
FlagsMatchBackedUp(flags, policy) == flags \ {"BE", "BS"} =
    {"UP"} \cup {f \in {"UV"} : policy = "uv"}

\* flags_match: exactly the flags of the policy, and no backup.
FlagsMatch(flags, policy) ==
    flags = {"UP"} \cup {f \in {"UV"} : policy = "uv"}

\* random_array for the n-th client-data hash of a session.
Challenge(n) == n

\* The PRF of a credential: authenticators keep one secret for verified and
\* one for unverified use.  (The salt is the same in every ceremony of a
\* record: it is derived from the record.)
Secret(id, uv) == [id |-> id, uv |-> uv]

\* A record and the policy of its credential.
Record == [id : CredId \cup {None}, policy : ExactPolicy, managed : BOOLEAN]

\* A credential on an authenticator; a passkey that is synchronised elsewhere
\* is backup eligible.
Credential == [id : CredId, prot : CredentialProtection \cup {"none"},
               managed : BOOLEAN, eligible : BOOLEAN]

\* An answer to an assertion: the credential id it names, the key that signed,
\* the challenge and flags under the signature, the decrypted PRF secret, and
\* how many statements came.  "call" is history: the request it answers.
Answer == [id : CredId, key : CredId, challenge : Nat, flags : SUBSET Flag,
           secret : [id : CredId, uv : BOOLEAN] \cup {None}, count : {1, 2},
           call : Nat]

Failure == {"PinInvalid", "PinBlocked", "CredentialUnavailable", "Failed",
            "NoCompatibleAuthenticator", "AuthenticatorResponseInvalid",
            "CredentialMayRemain", "RetirementUncertain"}

-----------------------------------------------------------------------------

Init ==
    /\ \E always \in [Device -> BOOLEAN], p \in PinValue :
            authenticator = [d \in Device |->
                [pin |-> p, retries |-> MaxRetries, alwaysUv |-> always[d],
                 creds |-> {}]]
    /\ pc = "idle" /\ op = "recover"
    /\ record = [id |-> None, policy |-> "presence", managed |-> FALSE]
    /\ dev = None /\ pin = None
    /\ challenges = 0 /\ late = None
    /\ failure = "Failed" /\ records = {} /\ result = "none"
    /\ minted = {} /\ accepted = {} /\ wrong = 0
    /\ blamed = FALSE /\ faults = 0

-----------------------------------------------------------------------------
(***************************************************************************)
(* How an operation moves on.                                              *)
(***************************************************************************)

Goto(step) ==
    /\ pc' = step
    /\ UNCHANGED <<failure, result>>

\* The operation returns r; its handle is closed and its PIN cleared.
Return(r) ==
    /\ pc' = "idle"
    /\ result' = r
    /\ failure' = "Failed"

\* An enrollment of a managed credential that fails once the credential may
\* exist takes it back (reject_pending_managed and
\* cleanup_failed_managed_enrollment).
Fail(e) ==
    \/ op # "enrollManaged" /\ Return(e)
    \/ op = "enrollManaged" /\ pc \in {"open", "ask", "make"} /\ Return(e)
    \/ /\ op = "enrollManaged" /\ pc \in {"evaluate", "inventory"}
       /\ pc' = "prepare" /\ failure' = e /\ UNCHANGED result
    \/ op = "enrollManaged" /\ pc \in CleanupStep /\ Return("CredentialMayRemain")

Done == IF op = "enrollManaged" THEN Return(failure) ELSE Return("ok")

\* The session after a step that leads to pc': its handle stays open, with n
\* challenges drawn and the answer a unread in its channel, or it is closed and
\* the PIN cleared with it.
KeepSession(n, a) ==
    IF pc' \in {"idle", "open"}
    THEN dev' = None /\ pin' = None /\ challenges' = 0 /\ late' = None
    ELSE dev' = dev /\ pin' = pin /\ challenges' = n /\ late' = a

\* One more fault, for which the operation is not to blame.
Disturb == faults < MaxFaults /\ faults' = faults + 1 /\ blamed' = TRUE
Undisturbed == UNCHANGED <<blamed, faults>>

-----------------------------------------------------------------------------
(***************************************************************************)
(* Authenticators.                                                         *)
(***************************************************************************)

HeldBy(d) == {c \in authenticator[d].creds : c.id = record.id}

\* What the authenticator makes of the PIN a call brings along.
PinRefused(given) ==
    given # None /\ (authenticator[dev].retries = 0 \/ authenticator[dev].pin # given)

AfterRefusal(a) == [a EXCEPT !.retries = IF @ = 0 THEN 0 ELSE @ - 1]
AfterPin(a, given) == [a EXCEPT !.retries = IF given = None THEN @ ELSE MaxRetries]

With(a, creds) == [a EXCEPT !.creds = @ \cup creds]
Without(a, creds) == [a EXCEPT !.creds = @ \ creds]

\* RawDevice::translate: the status of a refused PIN.
PinError == IF authenticator[dev].retries <= 1 THEN "PinBlocked" ELSE "PinInvalid"

\* A call ends with its PIN refused.
RefusePin(given) ==
    /\ PinRefused(given)
    /\ authenticator' = [authenticator EXCEPT ![dev] = AfterRefusal(@)]
    /\ wrong' = wrong + 1
    /\ Undisturbed

\* A call whose PIN, if any, is right.
TakePin(given) ==
    /\ ~PinRefused(given)
    /\ UNCHANGED wrong

\* The answer of an authenticator that does what it was asked.
HonestAnswer(uv, n) ==
    [id |-> record.id, key |-> record.id, challenge |-> Challenge(n),
     flags |-> {"UP"} \cup {f \in {"UV"} : uv}
                      \cup {f \in {"BE"} : \E c \in HeldBy(dev) : c.eligible},
     secret |-> Secret(record.id, uv), count |-> 1, call |-> n]

\* The answer a, signed with the key of credential k and naming i.
SignedBy(a, i, k, uv) == [a EXCEPT !.id = i, !.key = k, !.secret = Secret(k, uv)]

\* ... with a second statement, and without its secret.
Doubled(a) == [a EXCEPT !.count = 2]
Secretless(a) == [a EXCEPT !.secret = None]

\* Answers like a that differ: another credential of the device signed or is
\* named, a second statement came along, the secret is missing.
Varied(a, uv) ==
    {SignedBy(a, i, k, uv) : i \in CredId, k \in {c.id : c \in authenticator[dev].creds}}
    \cup {Doubled(a), Secretless(a)}

\* ... and user verification was left out or done unasked.
FaultyAnswers(uv, n) == Varied(HonestAnswer(uv, n), uv) \cup {HonestAnswer(~uv, n)}

-----------------------------------------------------------------------------
(***************************************************************************)
(* What the program accepts.                                               *)
(***************************************************************************)

\* Mutated form: the flags of a new credential are those of its policy.
CredentialVerifiedByPolicy(attested, prot, flags) ==
    /\ attested
    /\ prot = NativeProtection(record.policy)
    /\ FlagsMatch(flags, record.policy)

\* Credential::verify and copy_enrollment, with the protection and key checks
\* of NativeBackend: packed attestation that verifies, ES256, the protection
\* of the policy, and the flags of a verified creation whatever the policy.
CredentialVerified(attested, prot, flags) ==
    /\ attested
    /\ prot = NativeProtection(record.policy)
    /\ FlagsMatch(flags, "uv")

\* Assertion::verify_identity against the n-th challenge.
VerifyIdentity(a, policy, n) ==
    /\ a.count = 1
    /\ a.key = record.id /\ a.challenge = Challenge(n)
    /\ FlagsMatch(a.flags, policy)
    /\ a.id = record.id

\* verified_secret
VerifiedSecret(a, policy, n) == VerifyIdentity(a, policy, n) /\ a.secret # None

-----------------------------------------------------------------------------
(***************************************************************************)
(* The operations.                                                         *)
(***************************************************************************)

Begin(o, r) ==
    /\ pc = "idle"
    /\ pc' = "open" /\ op' = o /\ record' = r
    /\ result' = "none" /\ wrong' = 0 /\ blamed' = FALSE
    /\ UNCHANGED <<authenticator, session, failure, records, minted, accepted,
                   faults>>

\* NativeBackend::enroll, enroll_managed
Enroll ==
    /\ minted # CredId
    /\ \E policy \in ExactPolicy, managed \in BOOLEAN :
        Begin(IF managed THEN "enrollManaged" ELSE "enroll",
              [id |-> None, policy |-> policy, managed |-> managed])

\* NativeBackend::evaluate, verify_managed, retire_managed
Use == \E r \in records, o \in {"recover", "verify", "retire"} :
        (o = "recover" \/ r.managed) /\ Begin(o, r)

\* What select and select_managed keep a device for: touch alone must do where
\* the policy is presence, unless the credential is only managed.
SupportsPolicy(d) ==
    op \in {"enroll", "enrollManaged", "recover"} /\ record.policy = "presence"
        => ~authenticator[d].alwaysUv

\* select and select_managed.  The user may choose another authenticator than
\* the one that holds the credential, the second time of an enrollment too.
Open ==
    /\ pc = "open"
    /\ \/ \E d \in Device :
            /\ SupportsPolicy(d)
            /\ Goto("ask")
            /\ dev' = d
            /\ blamed' = (\/ blamed
                          \/ authenticator[d].retries = 0
                          \/ record.id # None /\ HeldBy(d) = {})
            /\ UNCHANGED <<pin, challenges, late>>
       \/ /\ \A d \in Device : ~SupportsPolicy(d)
          /\ Return("NoCompatibleAuthenticator")
          /\ blamed' = TRUE
          /\ UNCHANGED session
    /\ UNCHANGED <<authenticator, op, record, records, minted, accepted, wrong,
                   faults>>

\* A PIN is asked for wherever a call will need one: never to evaluate a
\* credential under the presence policy.
NeedsPin == \/ record.id = None
            \/ record.policy = "uv"
            \/ op \in {"verify", "retire"}

FirstCall == CASE record.id = None -> "make"
               [] op \in {"verify", "retire"} -> "proof"
               [] OTHER -> "evaluate"

\* request_pin, Pin::new and touch_required before the first call of a session.
Ask ==
    /\ pc = "ask"
    /\ \/ \E entered \in PinValue :
            /\ Goto(FirstCall)
            /\ pin' = IF NeedsPin THEN entered ELSE None
            /\ IF NeedsPin /\ entered # authenticator[dev].pin
               THEN Disturb ELSE Undisturbed
            /\ UNCHANGED <<dev, challenges, late>>
       \/ Return("Failed") /\ Disturb /\ KeepSession(0, None)
    /\ UNCHANGED <<authenticator, op, record, records, minted, accepted, wrong>>

-----------------------------------------------------------------------------
(***************************************************************************)
(* The native calls.                                                       *)
(***************************************************************************)

\* What enroll of either backend concludes from an answer to make_cred: a
\* credential that is not acceptable is taken back if it is managed, and left
\* unused if it is not.  A plain enrollment goes on with a session of its own
\* for the evaluation.
AfterMake(verified) ==
    \/ verified /\ Goto(IF record.managed THEN "evaluate" ELSE "open")
    \/ ~verified /\ ~record.managed /\ Return("AuthenticatorResponseInvalid")
    \/ /\ ~verified /\ record.managed
       /\ pc' = "prepare" /\ failure' = "AuthenticatorResponseInvalid"
       /\ UNCHANGED result

\* A credential is created; the program sees whether it is as it was ordered.
Create(id, prot, eligible, attested, uv) ==
    /\ IF prot = NativeProtection(record.policy) /\ ~eligible /\ attested /\ uv
       THEN Undisturbed ELSE Disturb
    /\ authenticator' = [authenticator EXCEPT ![dev] = With(AfterPin(@, pin),
            {[id |-> id, prot |-> prot, managed |-> record.managed,
              eligible |-> eligible]})]
    /\ minted' = minted \cup {id}
    /\ record' = [record EXCEPT !.id = id]
    /\ AfterMake(CredentialVerified(attested, prot,
            {"UP"} \cup {f \in {"UV"} : uv} \cup {f \in {"BE"} : eligible}))

\* fido_dev_make_cred in Authenticator::enroll, always with the PIN.
MakeCredential ==
    /\ pc = "make"
    /\ \/ /\ RefusePin(pin) /\ Fail(PinError)
          /\ UNCHANGED <<record, minted>>
       \/ /\ TakePin(pin)
          /\ \E id \in CredId \ minted, prot \in CredentialProtection \cup {"none"},
                eligible, attested, uv \in BOOLEAN :
                    Create(id, prot, eligible, attested, uv)
       \/ /\ TakePin(pin) /\ Disturb
          /\ authenticator' = [authenticator EXCEPT ![dev] = AfterPin(@, pin)]
          /\ \/ Return("Failed")
             \/ record.managed /\ Return("CredentialMayRemain")
          /\ UNCHANGED <<record, minted>>
    /\ KeepSession(challenges + 1, late)
    /\ UNCHANGED <<op, records, accepted>>

\* The policy of an assertion: that of the record to evaluate its PRF, and
\* user verification to manage its credential.
AssertedPolicy == IF pc = "evaluate" THEN record.policy ELSE "uv"
AssertionPin == IF AssertedPolicy = "uv" THEN pin ELSE None

\* Where an operation goes after an accepted assertion.
AfterAssertion ==
    CASE op = "enrollManaged" /\ pc = "evaluate" -> Goto("inventory") /\ UNCHANGED records
      [] op = "enrollManaged" /\ pc = "proof"    -> Goto("delete") /\ UNCHANGED records
      [] op = "enroll"  -> Return("ok") /\ records' = records \cup {record}
      [] op = "recover" -> Return("ok") /\ UNCHANGED records
      [] OTHER          -> Goto("inventory") /\ UNCHANGED records

\* verified_secret or verify_identity on the answer a to the n-th request.
Conclude(a, n) ==
    LET good == IF pc = "evaluate" THEN VerifiedSecret(a, AssertedPolicy, n)
                                   ELSE VerifyIdentity(a, AssertedPolicy, n)
    IN  \/ /\ good
           /\ accepted' = accepted \cup
                {[record |-> record, for |-> pc, secret |-> a.secret,
                  fresh |-> a.call = n]}
           /\ AfterAssertion
        \/ /\ ~good
           /\ Fail("AuthenticatorResponseInvalid")
           /\ UNCHANGED <<accepted, records>>

\* fido_dev_get_assert in evaluate ("evaluate") and verify_managed_assertion
\* ("proof").  A credential whose protection demands it stays hidden without
\* user verification; a device that always verifies may do so by itself.
Assertion ==
    /\ pc \in {"evaluate", "proof"}
    /\ LET n == challenges + 1
           given == AssertionPin
           unasked == given = None /\ authenticator[dev].alwaysUv
           held == {c \in HeldBy(dev) : c.prot = "required" => given # None}
           uv == given # None \/ unasked
           settled == authenticator' = [authenticator EXCEPT ![dev] = AfterPin(@, given)]
           nothing == UNCHANGED <<accepted, records>>
       IN  \/ /\ RefusePin(given) /\ Fail(PinError) /\ nothing
              /\ KeepSession(n, late)
           \/ /\ TakePin(given) /\ settled
              /\ late # None /\ Conclude(late, n) /\ Undisturbed
              /\ KeepSession(n, None)
           \/ /\ TakePin(given) /\ settled /\ Undisturbed /\ held = {}
              /\ Fail("CredentialUnavailable") /\ nothing
              /\ KeepSession(n, late)
           \/ /\ TakePin(given) /\ settled /\ Undisturbed /\ held # {}
              /\ \/ Conclude(HonestAnswer(uv, n), n)
                 \/ unasked /\ Fail("Failed") /\ nothing
              /\ KeepSession(n, late)
           \/ /\ TakePin(given) /\ settled /\ Disturb /\ held # {}
              /\ \/ \E a \in FaultyAnswers(uv, n) :
                        Conclude(a, n) /\ KeepSession(n, late)
                 \/ \E a \in {None, HonestAnswer(uv, n)} :
                        Fail("Failed") /\ nothing /\ KeepSession(n, a)
    /\ UNCHANGED <<op, record, minted>>

\* Mutated form: a cleanup goes on although the inventory was refused.
AfterInventoryBold(present, error) ==
    \/ error # "none" /\ pc # "prepare" /\ Fail(error)
    \/ error # "none" /\ pc = "prepare" /\ Goto("proof")
    \/ error = "none" /\ pc = "prepare" /\ present /\ Goto("proof")
    \/ error = "none" /\ pc = "prepare" /\ ~present /\ Done
    \/ error = "none" /\ pc = "inventory" /\ ~present /\ Fail("CredentialUnavailable")
    \/ error = "none" /\ pc = "inventory" /\ present
          /\ IF op = "retire" THEN Goto("delete") ELSE Return("ok")

\* What follows an inventory: confirm_managed_inventory ("inventory") or
\* prepare_managed_cleanup ("prepare").
AfterInventory(present, error) ==
    \/ error # "none" /\ Fail(error)
    \/ error = "none" /\ pc = "prepare" /\ present /\ Goto("proof")
    \/ error = "none" /\ pc = "prepare" /\ ~present /\ Done
    \/ error = "none" /\ pc = "inventory" /\ ~present /\ Fail("CredentialUnavailable")
    \/ error = "none" /\ pc = "inventory" /\ present
          /\ IF op = "retire" THEN Goto("delete") ELSE Return("ok")

\* fido_credman_get_dev_rk; an assertion left in the channel is no answer to it.
Inventory ==
    /\ pc \in {"inventory", "prepare"}
    /\ \/ /\ RefusePin(pin) /\ AfterInventory(FALSE, PinError)
          /\ KeepSession(challenges, late)
       \/ /\ TakePin(pin) /\ Undisturbed
          /\ authenticator' = [authenticator EXCEPT ![dev] = AfterPin(@, pin)]
          /\ \/ /\ AfterInventory(HeldBy(dev) # {}, "none")
                /\ KeepSession(challenges, late)
             \/ /\ late # None /\ AfterInventory(FALSE, "AuthenticatorResponseInvalid")
                /\ KeepSession(challenges, None)
       \/ /\ TakePin(pin) /\ Disturb /\ AfterInventory(FALSE, "Failed")
          /\ KeepSession(challenges, late)
          /\ UNCHANGED authenticator
    /\ records' = records \cup
            {r \in {record} : op = "enrollManaged" /\ result' = "ok"}
    /\ UNCHANGED <<op, record, minted, accepted>>

\* fido_credman_del_dev_rk in delete_managed: a lost answer is settled by the
\* enumeration that follows, as success is.
Delete ==
    /\ pc = "delete"
    /\ \/ RefusePin(pin) /\ Fail(PinError)
       \/ /\ TakePin(pin)
          /\ \E removed \in {{}, HeldBy(dev)} :
                /\ authenticator' = [authenticator EXCEPT ![dev] =
                        Without(AfterPin(@, pin), removed)]
                /\ \/ Goto("absence")
                      /\ IF removed = HeldBy(dev) THEN Undisturbed ELSE Disturb
                   \/ removed = {} /\ Fail("Failed") /\ Disturb
    /\ KeepSession(challenges, late)
    /\ UNCHANGED <<op, record, records, minted, accepted>>

\* The enumeration after the deletion, and retirement_outcome.
Absence ==
    /\ pc = "absence"
    /\ \/ RefusePin(pin) /\ Fail("RetirementUncertain")
       \/ /\ TakePin(pin)
          /\ authenticator' = [authenticator EXCEPT ![dev] = AfterPin(@, pin)]
          /\ \/ HeldBy(dev) = {} /\ Done /\ Undisturbed
             \/ HeldBy(dev) # {} /\ Fail("Failed") /\ Undisturbed
             \/ Fail("RetirementUncertain") /\ Disturb
    /\ KeepSession(challenges, late)
    /\ UNCHANGED <<op, record, records, minted, accepted>>

\* Another program changes the PIN, or switches on or off that the device
\* verifies its user always.
ForeignChange ==
    /\ Disturb
    /\ \E d \in Device :
        \/ \E p \in PinValue \ {authenticator[d].pin} :
                authenticator' = [authenticator EXCEPT
                                    ![d] = [@ EXCEPT !.pin = p, !.retries = MaxRetries]]
        \/ authenticator' = [authenticator EXCEPT ![d].alwaysUv = ~@]
    /\ UNCHANGED <<pc, op, record, session, failure, records, result, minted,
                   accepted, wrong>>

Next == \/ Enroll \/ Use \/ Open \/ Ask \/ MakeCredential \/ Assertion
        \/ Inventory \/ Delete \/ Absence \/ ForeignChange

Spec == Init /\ [][Next]_vars

-----------------------------------------------------------------------------
(***************************************************************************)
(* Properties.                                                             *)
(***************************************************************************)

Authenticator == [pin : PinValue, retries : 0 .. MaxRetries, alwaysUv : BOOLEAN,
                  creds : SUBSET Credential]
Accepted == [record : Record, for : {"evaluate", "proof"},
             secret : [id : CredId, uv : BOOLEAN] \cup {None}, fresh : BOOLEAN]

TypeOK ==
    /\ authenticator \in [Device -> Authenticator]
    /\ pc \in Step /\ op \in Operation /\ record \in Record
    /\ dev \in Device \cup {None}
    /\ pc \notin {"idle", "open"} => dev \in Device
    /\ pin \in PinValue \cup {None}
    /\ challenges \in Nat
    /\ late \in Answer \cup {None}
    /\ failure \in Failure
    /\ records \subseteq Record
    /\ result \in Failure \cup {"none", "ok"}
    /\ minted \subseteq CredId
    /\ accepted \subseteq Accepted
    /\ wrong \in Nat /\ blamed \in BOOLEAN /\ faults \in Nat

\* Every PRF secret the program takes for a record is the one secret of that
\* record's credential under the record's policy, at enrollment as in every
\* later recovery, whatever the authenticator answers and however its settings
\* change meanwhile; another secret would enroll a route that never opens
\* again (verified_secret, flags_match).
SecretIsExact ==
    \A a \in accepted : a.for = "evaluate" =>
        a.secret = Secret(a.record.id, a.record.policy = "uv")

\* An accepted answer was given to the very request that is being concluded,
\* never to an earlier one of the same open handle that had timed out
\* (client_data_hash is drawn anew in evaluate and verify_managed_assertion).
ProofIsFresh == \A a \in accepted : a.fresh

\* No answer but the right one to the right request is accepted.
AcceptedIsExact == SecretIsExact /\ ProofIsFresh

\* The credential of every record that was returned has the protection its
\* policy asks for and lives on one authenticator only: it is not eligible for
\* backup (Credential::verify, whose flags are inspected once attested).
RecordIsDeviceBound ==
    \A r \in records, d \in Device : \A c \in authenticator[d].creds :
        c.id = r.id => /\ c.prot = NativeProtection(r.policy)
                       /\ c.managed = r.managed
                       /\ ~c.eligible

\* An operation that nothing disturbed succeeds: the enrollment of every
\* policy is evaluated, and a record that was returned can be recovered,
\* verified and retired with the right PIN on the right authenticator.
UndisturbedSucceeds ==
    pc = "idle" /\ ~blamed => result \in {"none", "ok"}

\* A PIN that is refused is not tried again: an operation costs its user one
\* attempt, and a managed enrollment one more, for the cleanup that has only
\* the PIN of its session ("an incorrect pin is never retried").
PinIsSpared == wrong <= IF op = "enrollManaged" THEN 2 ELSE 1

-----------------------------------------------------------------------------
(***************************************************************************)
(* The inductive invariant behind AcceptedIsExact, RecordIsDeviceBound and *)
(* PinIsSpared.                                                            *)
(***************************************************************************)

\* What every answer of an authenticator has, faulty ones included, because a
\* signature covers it: the challenge of its request, and the secret that goes
\* with its key and its flags.
Sound(a) ==
    /\ a.challenge = Challenge(a.call)
    /\ a.secret # None => a.secret = Secret(a.key, "UV" \in a.flags)

LateIsSound == late # None => Sound(late)

\* What an operation works on.
OpOK ==
    pc # "idle" =>
        /\ op = "enrollManaged" => record.managed
        /\ op = "enroll" => ~record.managed
        /\ record.id = None => op \in {"enroll", "enrollManaged"}
        /\ pc \notin {"open", "ask"} => (pc = "make" <=> record.id = None)
        /\ result = "none"

\* No step but a cleanup follows a refused PIN.
PinOK ==
    /\ pc # "idle" /\ ~(op = "enrollManaged" /\ pc \in CleanupStep) => wrong = 0
    /\ pc \in CleanupStep => wrong <= 1
    /\ PinIsSpared

\* The credential of r, wherever it is, is as its policy wants it.
Bound(r) ==
    /\ r.id \in minted
    /\ \A d \in Device : \A c \in authenticator[d].creds :
        c.id = r.id => /\ c.prot = NativeProtection(r.policy)
                       /\ c.managed = r.managed
                       /\ ~c.eligible

\* Credential ids are given out once; a record is bound from the moment its
\* credential was verified, unless a cleanup is taking it back.
RecordsOK ==
    /\ \A d \in Device : \A c \in authenticator[d].creds : c.id \in minted
    /\ \A r \in records : Bound(r)
    /\ /\ pc # "idle" /\ record.id # None
       /\ op = "enrollManaged" => pc \notin CleanupStep
       => Bound(record)

IInv ==
    /\ TypeOK
    /\ AcceptedIsExact
    /\ LateIsSound
    /\ OpOK
    /\ PinOK
    /\ RecordsOK

\* An operation nothing disturbs: it holds the right PIN of an authenticator
\* that has its credential and takes its policy, and it needs no cleanup.
Equipped ==
    /\ authenticator[dev].retries > 0
    /\ SupportsPolicy(dev)
    /\ record.id # None => (pc = "absence" <=> HeldBy(dev) = {})
    /\ pc # "ask" => /\ pin \in {None, authenticator[dev].pin}
                     /\ pin = None => /\ pc = "evaluate" /\ op # "enrollManaged"
                                     /\ record.policy = "presence"

\* The invariant behind UndisturbedSucceeds: an operation that nothing has
\* disturbed finds at every call what the call needs.
QuietOK ==
    /\ pc \in {"idle", "open"} => late = None
    /\ pc = "evaluate" => op \in {"enroll", "enrollManaged", "recover"}
    /\ op = "enrollManaged" /\ pc \in {"open", "ask"} => record.id = None
    /\ ~blamed =>
        /\ late = None
        /\ UndisturbedSucceeds
        /\ op = "enrollManaged" => pc \notin CleanupStep
        /\ pc \notin {"idle", "open"} => Equipped
=============================================================================
