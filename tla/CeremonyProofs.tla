---------------------------- MODULE CeremonyProofs ----------------------------
(***************************************************************************)
(* Proofs about Ceremony, for any number of authenticators, credentials    *)
(* and faults: only the right answer to the right request is accepted,     *)
(* every record returned is bound to its device, an operation costs its    *)
(* user one attempt at the PIN, and one that nothing disturbs succeeds.    *)
(* Then proofs about TouchSelection, for any connected devices, timeouts   *)
(* and touches: what finds the device of a ceremony ends in time, notices  *)
(* every touch and hands over a device that can do what is asked.          *)
(***************************************************************************)
EXTENDS Ceremony, TouchSelection, TLAPS

Busy == {"make", "evaluate", "inventory", "prepare", "proof", "delete", "absence"}

-----------------------------------------------------------------------------
(***************************************************************************)
(* How an operation moves on.                                              *)
(***************************************************************************)

\* Where a failing call leads: the operation is over, or a managed enrollment
\* begins its cleanup.
LEMMA FailLeads ==
    ASSUME NEW e \in Failure, Fail(e), pc \in Busy, OpOK
    PROVE  \/ pc' = "idle" /\ failure' = "Failed" /\ result' \in Failure
           \/ /\ op = "enrollManaged" /\ pc \in {"evaluate", "inventory"}
              /\ pc' = "prepare" /\ failure' = e /\ result' = result
BY DEF Fail, Return, Failure

\* The handle, its PIN and its channel after a step.
LEMMA SessionKept ==
    ASSUME NEW n \in Nat, NEW a \in Answer \cup {None}, KeepSession(n, a),
           dev \in Device, pin \in PinValue \cup {None}
    PROVE  /\ dev' \in Device \cup {None}
           /\ pc' \notin {"idle", "open"} => dev' \in Device
           /\ pin' \in PinValue \cup {None}
           /\ challenges' \in Nat
           /\ late' \in {a, None}
BY DEF KeepSession

\* Records stay bound while no credential appears and the operation does not
\* come back from a cleanup; the one it adds was bound before.
LEMMA RecordsKept ==
    ASSUME RecordsOK, record' = record, op' = op, minted' = minted,
           \A d \in Device : authenticator'[d].creds \subseteq authenticator[d].creds,
           \/ pc' = "idle"
           \/ pc # "idle" /\ (op = "enrollManaged" /\ pc \in CleanupStep => pc' \in CleanupStep),
           \A r \in records' \ records :
                /\ r = record /\ r.id # None /\ pc # "idle"
                /\ op = "enrollManaged" => pc \notin CleanupStep
    PROVE  RecordsOK'
BY DEF RecordsOK, Bound

\* The PIN attempts after a call whose PIN was right.
LEMMA PinKept ==
    ASSUME PinOK, wrong' = wrong, op' = op,
           \/ pc' = "idle"
           \/ /\ pc # "idle"
              /\ op = "enrollManaged" /\ pc \in CleanupStep => pc' \in CleanupStep
    PROVE  PinOK'
BY DEF PinOK, PinIsSpared, CleanupStep

\* ... and after one whose PIN was refused.
LEMMA PinSpent ==
    ASSUME TypeOK, OpOK, PinOK, pc \in Busy, NEW e \in Failure, Fail(e),
           wrong' = wrong + 1, op' = op
    PROVE  PinOK'
<1>1. wrong \in Nat
  BY DEF TypeOK
<1>2. CASE op = "enrollManaged"
  BY <1>1, <1>2, FailLeads DEF PinOK, PinIsSpared, CleanupStep, Busy
<1>3. CASE op # "enrollManaged"
  BY <1>1, <1>3, FailLeads DEF PinOK, PinIsSpared, CleanupStep, Busy
<1> QED BY <1>2, <1>3

-----------------------------------------------------------------------------
(***************************************************************************)
(* Answers.                                                                *)
(***************************************************************************)

LEMMA HonestIsSound ==
    ASSUME TypeOK, record.id # None, NEW uv \in BOOLEAN, NEW n \in Nat
    PROVE  LET a == HonestAnswer(uv, n) IN a \in Answer /\ Sound(a) /\ a.call = n
<1> DEFINE a == HonestAnswer(uv, n)
<1>1. record.id \in CredId
  BY DEF TypeOK, Record
<1>2. a.flags \in SUBSET Flag
  BY DEF HonestAnswer, Flag
<1>3. a \in Answer
  BY <1>1, <1>2 DEF HonestAnswer, Answer, Secret, Challenge
<1>4. "UV" \in a.flags <=> uv
  BY DEF HonestAnswer
<1>5. a.secret = Secret(a.key, "UV" \in a.flags)
  <2>1. a.secret = [id |-> record.id, uv |-> uv] /\ a.key = record.id
    BY DEF HonestAnswer, Secret
  <2>2. uv = ("UV" \in a.flags)
    BY <1>4
  <2> QED BY <2>1, <2>2 DEF Secret
<1>6. a.challenge = Challenge(a.call) /\ a.call = n
  BY DEF HonestAnswer
<1> QED BY <1>3, <1>5, <1>6 DEF Sound

\* A sound answer stays sound when it names another credential, is signed with
\* another key, comes with another statement or loses its secret.
LEMMA ChangedIsSound ==
    ASSUME NEW h \in Answer, Sound(h), NEW i \in CredId, NEW k \in CredId,
           NEW uv \in BOOLEAN, uv = ("UV" \in h.flags)
    PROVE  /\ SignedBy(h, i, k, uv) \in Answer /\ Sound(SignedBy(h, i, k, uv))
           /\ Doubled(h) \in Answer /\ Sound(Doubled(h))
           /\ Secretless(h) \in Answer /\ Sound(Secretless(h))
<1>1. Secret(k, uv) \in [id : CredId, uv : BOOLEAN]
  BY DEF Secret
<1>2. SUFFICES ASSUME NEW a, a = SignedBy(h, i, k, uv)
               PROVE  a \in Answer /\ Sound(a)
  BY DEF Answer, Sound, Doubled, Secretless
<1>3. a \in Answer
  BY <1>1, <1>2 DEF Answer, SignedBy
<1>4. /\ a.key = k /\ a.secret = Secret(k, uv) /\ a.flags = h.flags
      /\ a.challenge = h.challenge /\ a.call = h.call
  BY <1>2 DEF Answer, SignedBy
<1> QED BY <1>3, <1>4 DEF Sound

LEMMA FaultyIsSound ==
    ASSUME TypeOK, dev \in Device, record.id # None, NEW uv \in BOOLEAN,
           NEW n \in Nat, NEW a \in FaultyAnswers(uv, n)
    PROVE  a \in Answer /\ Sound(a)
<1>1. PICK h \in Answer : h = HonestAnswer(uv, n) /\ Sound(h)
  BY HonestIsSound
<1>2. uv = ("UV" \in h.flags)
  <2>1. h.flags = {"UP"} \cup {f \in {"UV"} : uv}
                        \cup {f \in {"BE"} : \E c \in HeldBy(dev) : c.eligible}
    BY <1>1 DEF HonestAnswer
  <2> QED BY <2>1
<1>3. a \in Varied(h, uv) \/ a = HonestAnswer(~uv, n)
  BY <1>1 DEF FaultyAnswers
<1>4. \A c \in authenticator[dev].creds : c.id \in CredId
  BY DEF TypeOK, Authenticator, Credential
<1>5. record.id \in CredId
  BY DEF TypeOK, Record
<1>6. CASE a = HonestAnswer(~uv, n)
  BY <1>6, HonestIsSound
<1>7. CASE a \in Varied(h, uv)
  <2>1. \/ \E i \in CredId, k \in {c.id : c \in authenticator[dev].creds} :
                a = SignedBy(h, i, k, uv)
        \/ a = Doubled(h)
        \/ a = Secretless(h)
    BY <1>7 DEF Varied
  <2>2. CASE a = Doubled(h) \/ a = Secretless(h)
    BY <2>2, <1>1, <1>2, <1>5, ChangedIsSound
  <2>3. ASSUME NEW i \in CredId, NEW k \in {c.id : c \in authenticator[dev].creds},
               a = SignedBy(h, i, k, uv)
        PROVE  a \in Answer /\ Sound(a)
    <3>1. k \in CredId
      BY <1>4
    <3>2. SignedBy(h, i, k, uv) \in Answer /\ Sound(SignedBy(h, i, k, uv))
      BY <3>1, <1>1, <1>2, ChangedIsSound
    <3> QED BY <3>2, <2>3
  <2> QED BY <2>1, <2>2, <2>3
<1> QED BY <1>3, <1>6, <1>7

\* What Conclude accepts is the right answer to the right request.
LEMMA ConcludeAccepts ==
    ASSUME IInv, pc \in {"evaluate", "proof"}, NEW a \in Answer, Sound(a),
           NEW n \in Nat, Conclude(a, n)
    PROVE  accepted' \subseteq Accepted /\ AcceptedIsExact'
<1> DEFINE x == [record |-> record, for |-> pc, secret |-> a.secret, fresh |-> a.call = n]
<1>1. accepted \subseteq Accepted /\ SecretIsExact /\ ProofIsFresh
  BY DEF IInv, TypeOK, AcceptedIsExact
<1>2. record \in Record
  BY DEF IInv, TypeOK
<1>3. CASE accepted' = accepted
  BY <1>1, <1>3 DEF AcceptedIsExact, SecretIsExact, ProofIsFresh
<1>4. CASE /\ accepted' = accepted \cup {x}
           /\ IF pc = "evaluate" THEN VerifiedSecret(a, AssertedPolicy, n)
                                 ELSE VerifyIdentity(a, AssertedPolicy, n)
  <2>1. VerifyIdentity(a, AssertedPolicy, n)
    BY <1>4 DEF VerifiedSecret
  <2>2. a.key = record.id /\ a.challenge = n /\ FlagsMatch(a.flags, AssertedPolicy)
    BY <2>1 DEF VerifyIdentity, Challenge
  <2>3. a.call = n
    BY <2>2 DEF Sound, Challenge
  <2>4. a.secret \in [id : CredId, uv : BOOLEAN] \cup {None}
    BY DEF Answer
  <2>5. x \in Accepted
    BY <1>2, <2>3, <2>4 DEF Accepted
  <2>6. x.fresh
    BY <2>3
  <2>7. ASSUME pc = "evaluate"
        PROVE  a.secret = Secret(record.id, record.policy = "uv")
    <3>1. a.secret = Secret(record.id, "UV" \in a.flags)
      BY <1>4, <2>2, <2>7 DEF VerifiedSecret, Sound
    <3>2. AssertedPolicy = record.policy
      BY <2>7 DEF AssertedPolicy
    <3>3. "UV" \in a.flags <=> record.policy = "uv"
      BY <2>2, <3>2 DEF FlagsMatch
    <3>4. ("UV" \in a.flags) = (record.policy = "uv")
      BY <3>3
    <3> QED BY <3>1, <3>4
  <2>8. x.for = "evaluate" => x.secret = Secret(x.record.id, x.record.policy = "uv")
    BY <2>7
  <2>9. SecretIsExact'
    BY <1>1, <1>4, <2>8 DEF SecretIsExact, Secret
  <2>10. ProofIsFresh'
    BY <1>1, <1>4, <2>6 DEF ProofIsFresh
  <2> QED BY <1>1, <1>4, <2>5, <2>9, <2>10 DEF AcceptedIsExact
<1> QED BY <1>3, <1>4 DEF Conclude

\* Where an answer leads.
LEMMA ConcludeLeads ==
    ASSUME IInv, pc \in {"evaluate", "proof"}, NEW a, NEW n, Conclude(a, n)
    PROVE  /\ \/ /\ pc' = "idle" /\ failure' = "Failed" /\ result' \in Failure \cup {"ok"}
              \/ /\ pc' = "inventory" /\ result' = result /\ failure' = failure
                 /\ op = "enrollManaged" => pc = "evaluate"
              \/ /\ pc' = "delete" /\ op = "enrollManaged"
                 /\ result' = result /\ failure' = failure
              \/ /\ pc' = "prepare" /\ op = "enrollManaged" /\ pc = "evaluate"
                 /\ result' = result /\ failure' \in Failure
           /\ \/ records' = records
              \/ op = "enroll" /\ records' = records \cup {record}
<1>1. "AuthenticatorResponseInvalid" \in Failure /\ OpOK
  BY DEF Failure, IInv
<1>2. CASE AfterAssertion
  BY <1>2 DEF AfterAssertion, Goto, Return
<1>3. CASE Fail("AuthenticatorResponseInvalid") /\ UNCHANGED records
  BY <1>1, <1>3, FailLeads DEF Busy
<1> QED BY <1>2, <1>3 DEF Conclude

\* What the calls after the creation of a credential have in common.
LEMMA CallKeeps ==
    ASSUME IInv, pc \in Busy \ {"make"},
           op' = op, record' = record, minted' = minted,
           \/ pc' = "idle" /\ result' \in Failure \cup {"ok"}
           \/ /\ pc' \in Busy \ {"make"} /\ result' = result
              /\ op = "enrollManaged" /\ pc \in CleanupStep => pc' \in CleanupStep,
           failure' \in Failure,
           authenticator' \in [Device -> Authenticator],
           \A d \in Device : authenticator'[d].creds \subseteq authenticator[d].creds,
           \/ records' = records
           \/ /\ records' = records \cup {record}
              /\ op = "enrollManaged" => pc \notin CleanupStep,
           accepted' \subseteq Accepted, AcceptedIsExact',
           NEW n \in Nat, NEW a \in Answer \cup {None}, KeepSession(n, a),
           a # None => Sound(a),
           wrong' \in Nat, PinOK', blamed' \in BOOLEAN, faults' \in Nat
    PROVE  IInv'
<1>1. TypeOK /\ OpOK /\ RecordsOK /\ record \in Record /\ records \subseteq Record
  BY DEF IInv, TypeOK
<1>2. /\ dev' \in Device \cup {None}
      /\ pc' \notin {"idle", "open"} => dev' \in Device
      /\ pin' \in PinValue \cup {None}
      /\ challenges' \in Nat
      /\ late' \in {a, None}
  BY <1>1, SessionKept DEF TypeOK, Busy
<1>3. record.id # None
  BY <1>1 DEF OpOK, Busy
<1>4. records' \subseteq Record
  BY <1>1
<1>5. TypeOK'
  <2>1. pc' \in Step
    BY DEF Busy, Step
  <2>2. result' \in Failure \cup {"none", "ok"}
    BY <1>1 DEF TypeOK
  <2> QED BY <1>1, <1>2, <1>4, <2>1, <2>2 DEF TypeOK
<1>6. LateIsSound'
  BY <1>2 DEF LateIsSound, Sound, Challenge, Secret
<1>7. OpOK'
  BY <1>1, <1>3 DEF OpOK, Busy
<1>8. RecordsOK'
  <2>1. \A r \in records' \ records :
           /\ r = record /\ r.id # None /\ pc # "idle"
           /\ op = "enrollManaged" => pc \notin CleanupStep
    BY <1>3 DEF Busy
  <2> QED BY <1>1, <2>1, RecordsKept DEF Busy
<1> QED BY <1>5, <1>6, <1>7, <1>8 DEF IInv

-----------------------------------------------------------------------------
(***************************************************************************)
(* Authenticators.                                                         *)
(***************************************************************************)

\* A step that sets the PIN counter of one authenticator and removes some of
\* its credentials, or none.
LEMMA CounterMoves ==
    ASSUME TypeOK, NEW d \in Device, NEW a \in Authenticator,
           a.creds \subseteq authenticator[d].creds,
           authenticator' = [authenticator EXCEPT ![d] = a]
    PROVE  /\ authenticator' \in [Device -> Authenticator]
           /\ \A e \in Device : authenticator'[e].creds \subseteq authenticator[e].creds
BY DEF TypeOK

LEMMA PinSettles ==
    ASSUME TypeOK, NEW d \in Device, NEW g
    PROVE  /\ AfterPin(authenticator[d], g) \in Authenticator
           /\ AfterPin(authenticator[d], g).creds = authenticator[d].creds
           /\ AfterRefusal(authenticator[d]) \in Authenticator
           /\ AfterRefusal(authenticator[d]).creds = authenticator[d].creds
<1>1. PICK a \in Authenticator : a = authenticator[d]
  BY DEF TypeOK
<1>2. MaxRetries \in 0 .. MaxRetries /\ MaxRetries \in Nat
  BY RetriesAssumption
<1>3. a.retries \in 0 .. MaxRetries
  BY DEF Authenticator
<1>4. (IF a.retries = 0 THEN 0 ELSE a.retries - 1) \in 0 .. MaxRetries
  BY <1>2, <1>3
<1>5. AfterPin(a, g) \in Authenticator /\ AfterPin(a, g).creds = a.creds
  BY <1>2, <1>3 DEF AfterPin, Authenticator
<1>6. AfterRefusal(a) \in Authenticator /\ AfterRefusal(a).creds = a.creds
  BY <1>4 DEF AfterRefusal, Authenticator
<1> QED BY <1>1, <1>5, <1>6

\* A call whose PIN is refused changes no credential.
LEMMA RefusalKeeps ==
    ASSUME TypeOK, dev \in Device, NEW g, RefusePin(g)
    PROVE  /\ authenticator' \in [Device -> Authenticator]
           /\ \A d \in Device : authenticator'[d].creds \subseteq authenticator[d].creds
           /\ wrong' = wrong + 1 /\ wrong' \in Nat
           /\ blamed' \in BOOLEAN /\ faults' \in Nat
           /\ PinError \in Failure
<1>1. authenticator' = [authenticator EXCEPT ![dev] = AfterRefusal(authenticator[dev])]
  BY DEF RefusePin
<1>2. /\ authenticator' \in [Device -> Authenticator]
      /\ \A d \in Device : authenticator'[d].creds \subseteq authenticator[d].creds
  BY <1>1, PinSettles, CounterMoves
<1> QED BY <1>2 DEF RefusePin, Undisturbed, PinError, Failure, TypeOK

\* ... and so does one whose PIN is right, while nothing else is asked.
LEMMA SettlingKeeps ==
    ASSUME TypeOK, dev \in Device, NEW g,
           authenticator' = [authenticator EXCEPT ![dev] = AfterPin(@, g)]
    PROVE  /\ authenticator' \in [Device -> Authenticator]
           /\ \A d \in Device : authenticator'[d].creds \subseteq authenticator[d].creds
<1>1. authenticator' = [authenticator EXCEPT ![dev] = AfterPin(authenticator[dev], g)]
  OBVIOUS
<1> QED BY <1>1, PinSettles, CounterMoves

LEMMA BlameTyped ==
    ASSUME TypeOK, Undisturbed \/ Disturb
    PROVE  blamed' \in BOOLEAN /\ faults' \in Nat
<1>1. blamed \in BOOLEAN /\ faults \in Nat
  BY DEF TypeOK
<1>2. blamed' \in BOOLEAN
  BY <1>1, Zenon DEF Undisturbed, Disturb
<1>3. faults' \in Nat
  BY <1>1 DEF Undisturbed, Disturb
<1> QED BY <1>2, <1>3

-----------------------------------------------------------------------------
(***************************************************************************)
(* Every action keeps the invariant.                                       *)
(***************************************************************************)

\* The invariant, as far as the actions that talk to an authenticator need it.
LEMMA Facts ==
    ASSUME IInv, pc \notin {"idle", "open"}
    PROVE  /\ TypeOK /\ OpOK /\ PinOK /\ RecordsOK
           /\ dev \in Device /\ pin \in PinValue \cup {None}
           /\ challenges \in Nat /\ challenges + 1 \in Nat
           /\ late \in Answer \cup {None} /\ (late # None => Sound(late))
           /\ accepted \subseteq Accepted /\ AcceptedIsExact
           /\ wrong \in Nat /\ failure \in Failure
           /\ pc # "make" /\ pc # "ask" => record.id # None
BY DEF IInv, TypeOK, LateIsSound, OpOK

LEMMA AcceptedUnchanged ==
    ASSUME IInv, UNCHANGED accepted
    PROVE  accepted' \subseteq Accepted /\ AcceptedIsExact'
BY DEF IInv, TypeOK, AcceptedIsExact, SecretIsExact, ProofIsFresh, Secret

LEMMA AssertionKeeps ==
    ASSUME IInv, Assertion
    PROVE  IInv'
<1> DEFINE n == challenges + 1
           given == AssertionPin
           unasked == given = None /\ authenticator[dev].alwaysUv
           uv == given # None \/ unasked
           settled == authenticator' = [authenticator EXCEPT ![dev] = AfterPin(@, given)]
           nothing == UNCHANGED <<accepted, records>>
<1>1. pc \in {"evaluate", "proof"} /\ op' = op /\ record' = record /\ minted' = minted
  BY DEF Assertion
<1>2. /\ TypeOK /\ OpOK /\ PinOK /\ dev \in Device /\ n \in Nat
      /\ late \in Answer \cup {None} /\ (late # None => Sound(late))
      /\ wrong \in Nat /\ failure \in Failure /\ record.id # None
      /\ None \in Answer \cup {None} /\ uv \in BOOLEAN
  BY <1>1, Facts
<1>3. CASE RefusePin(given) /\ Fail(PinError) /\ nothing /\ KeepSession(n, late)
  <2>1. PinOK'
    BY <1>1, <1>2, <1>3, PinSpent, RefusalKeeps DEF Busy
  <2>2. /\ \/ pc' = "idle" /\ failure' = "Failed" /\ result' \in Failure
           \/ /\ pc' = "prepare" /\ failure' \in Failure /\ result' = result
      /\ accepted' = accepted /\ records' = records
    BY <1>1, <1>2, <1>3, FailLeads, RefusalKeeps DEF Busy
  <2> QED BY <1>1, <1>2, <1>3, <2>1, <2>2, RefusalKeeps, AcceptedUnchanged, CallKeeps
          DEF Busy, CleanupStep, Failure
<1>4. ASSUME TakePin(given), settled, Undisturbed \/ Disturb,
             NEW a \in Answer, Sound(a), Conclude(a, n),
             NEW b \in {late, None}, KeepSession(n, b)
      PROVE  IInv'
  <2>1. accepted' \subseteq Accepted /\ AcceptedIsExact'
    BY <1>1, <1>2, <1>4, ConcludeAccepts
  <2>2. /\ wrong' = wrong /\ blamed' \in BOOLEAN /\ faults' \in Nat
    BY <1>2, <1>4, BlameTyped DEF TakePin
  <2>3. /\ authenticator' \in [Device -> Authenticator]
        /\ \A d \in Device : authenticator'[d].creds \subseteq authenticator[d].creds
    BY <1>2, <1>4, SettlingKeeps
  <2>4. b \in Answer \cup {None} /\ (b # None => Sound(b))
    BY <1>2
  <2>5. /\ \/ pc' = "idle" /\ result' \in Failure \cup {"ok"}
           \/ /\ pc' \in Busy \ {"make"} /\ result' = result
              /\ op = "enrollManaged" /\ pc \in CleanupStep => pc' \in CleanupStep
        /\ failure' \in Failure
        /\ \/ records' = records
           \/ /\ records' = records \cup {record}
              /\ op = "enrollManaged" => pc \notin CleanupStep
    BY <1>1, <1>2, <1>4, ConcludeLeads DEF Busy, CleanupStep, Failure
  <2>6. PinOK'
    BY <1>1, <1>2, <2>2, <2>5, PinKept DEF CleanupStep
  <2> QED BY <1>1, <1>2, <1>4, <2>1, <2>2, <2>3, <2>4, <2>5, <2>6, CallKeeps DEF Busy
<1>5. ASSUME TakePin(given), settled, Undisturbed \/ Disturb,
             NEW e \in Failure, Fail(e), nothing,
             NEW b \in Answer \cup {None}, b # None => Sound(b), KeepSession(n, b)
      PROVE  IInv'
  <2>1. accepted' \subseteq Accepted /\ AcceptedIsExact'
    BY <1>5, AcceptedUnchanged
  <2>2. /\ wrong' = wrong /\ blamed' \in BOOLEAN /\ faults' \in Nat
    BY <1>2, <1>5, BlameTyped DEF TakePin
  <2>3. /\ authenticator' \in [Device -> Authenticator]
        /\ \A d \in Device : authenticator'[d].creds \subseteq authenticator[d].creds
    BY <1>2, <1>5, SettlingKeeps
  <2>4. /\ \/ pc' = "idle" /\ result' \in Failure \cup {"ok"}
           \/ /\ pc' \in Busy \ {"make"} /\ result' = result
              /\ op = "enrollManaged" /\ pc \in CleanupStep => pc' \in CleanupStep
        /\ failure' \in Failure /\ records' = records
    BY <1>1, <1>2, <1>5, FailLeads DEF Busy, CleanupStep, Failure
  <2>5. PinOK'
    BY <1>1, <1>2, <2>2, <2>4, PinKept DEF CleanupStep
  <2> QED BY <1>1, <1>2, <1>5, <2>1, <2>2, <2>3, <2>4, <2>5, CallKeeps DEF Busy
<1>6. HonestAnswer(uv, n) \in Answer /\ Sound(HonestAnswer(uv, n))
  BY <1>2, HonestIsSound
<1>7. \A a \in FaultyAnswers(uv, n) : a \in Answer /\ Sound(a)
  BY <1>2, FaultyIsSound
<1>8. "CredentialUnavailable" \in Failure /\ "Failed" \in Failure
  BY DEF Failure
<1>9. \/ RefusePin(given) /\ Fail(PinError) /\ nothing /\ KeepSession(n, late)
      \/ /\ TakePin(given) /\ settled /\ late # None
         /\ Conclude(late, n) /\ Undisturbed /\ KeepSession(n, None)
      \/ /\ TakePin(given) /\ settled /\ Undisturbed
         /\ Fail("CredentialUnavailable") /\ nothing /\ KeepSession(n, late)
      \/ /\ TakePin(given) /\ settled /\ Undisturbed
         /\ Conclude(HonestAnswer(uv, n), n) /\ KeepSession(n, late)
      \/ /\ TakePin(given) /\ settled /\ Undisturbed
         /\ Fail("Failed") /\ nothing /\ KeepSession(n, late)
      \/ /\ TakePin(given) /\ settled /\ Disturb
         /\ \E a \in FaultyAnswers(uv, n) : Conclude(a, n) /\ KeepSession(n, late)
      \/ /\ TakePin(given) /\ settled /\ Disturb
         /\ \E a \in {None, HonestAnswer(uv, n)} :
                Fail("Failed") /\ nothing /\ KeepSession(n, a)
  BY DEF Assertion
<1> QED BY <1>2, <1>3, <1>4, <1>5, <1>6, <1>7, <1>8, <1>9

LEMMA InventoryKeeps ==
    ASSUME IInv, Inventory
    PROVE  IInv'
<1>1. pc \in {"inventory", "prepare"} /\ op' = op /\ record' = record
      /\ minted' = minted /\ accepted' = accepted
  BY DEF Inventory
<1>2. /\ TypeOK /\ OpOK /\ PinOK /\ dev \in Device /\ challenges \in Nat
      /\ late \in Answer \cup {None} /\ (late # None => Sound(late))
      /\ wrong \in Nat /\ failure \in Failure
  BY <1>1, Facts
<1>3. accepted' \subseteq Accepted /\ AcceptedIsExact'
  BY <1>1, AcceptedUnchanged
<1>4. \/ records' = records
      \/ records' = records \cup {record} /\ op = "enrollManaged" /\ result' = "ok"
  BY DEF Inventory
<1>5. ASSUME NEW present, NEW e \in Failure \cup {"none"}, AfterInventory(present, e)
      PROVE  /\ \/ pc' = "idle" /\ result' \in Failure \cup {"ok"}
                \/ /\ pc' \in Busy \ {"make"} /\ result' = result
                   /\ op = "enrollManaged" /\ pc \in CleanupStep => pc' \in CleanupStep
             /\ failure' \in Failure
             /\ op = "enrollManaged" /\ pc \in CleanupStep => result' # "ok"
  <2>1. CASE e # "none" /\ Fail(e)
    BY <1>1, <1>2, <2>1, FailLeads DEF Busy, CleanupStep, Failure, OpOK
  <2>2. CASE Fail("CredentialUnavailable") /\ pc = "inventory"
    BY <1>1, <1>2, <2>2, FailLeads DEF Busy, CleanupStep, Failure
  <2>3. CASE Done /\ pc = "prepare"
    BY <1>1, <1>2, <2>3 DEF Done, Return, Failure
  <2>4. CASE Goto("proof") /\ pc = "prepare"
    BY <1>1, <1>2, <2>4 DEF Goto, Busy, CleanupStep, OpOK
  <2>5. CASE pc = "inventory" /\ (Goto("delete") \/ Return("ok"))
    BY <1>1, <1>2, <2>5 DEF Goto, Return, Busy, CleanupStep, Failure
  <2> QED BY <1>5, <2>1, <2>2, <2>3, <2>4, <2>5 DEF AfterInventory
<1>6. CASE RefusePin(pin) /\ AfterInventory(FALSE, PinError) /\ KeepSession(challenges, late)
  <2>1. PinError # "none" /\ PinError \in Failure
    BY DEF PinError, Failure
  <2>2. Fail(PinError)
    BY <1>6, <2>1 DEF AfterInventory
  <2>3. PinOK'
    BY <1>1, <1>2, <1>6, <2>1, <2>2, PinSpent DEF RefusePin, Busy
  <2> QED BY <1>1, <1>2, <1>3, <1>4, <1>5, <1>6, <2>1, <2>3, RefusalKeeps, CallKeeps
          DEF Busy, CleanupStep
<1>7. ASSUME TakePin(pin), Undisturbed \/ Disturb,
             \/ authenticator' = [authenticator EXCEPT ![dev] = AfterPin(@, pin)]
             \/ UNCHANGED authenticator,
             NEW present, NEW e \in Failure \cup {"none"}, AfterInventory(present, e),
             NEW b \in {late, None}, KeepSession(challenges, b)
      PROVE  IInv'
  <2>1. /\ wrong' = wrong /\ blamed' \in BOOLEAN /\ faults' \in Nat
    BY <1>2, <1>7, BlameTyped DEF TakePin
  <2>2. /\ authenticator' \in [Device -> Authenticator]
        /\ \A d \in Device : authenticator'[d].creds \subseteq authenticator[d].creds
    BY <1>2, <1>7, SettlingKeeps DEF TypeOK
  <2>3. b \in Answer \cup {None} /\ (b # None => Sound(b))
    BY <1>2
  <2>4. PinOK'
    BY <1>1, <1>2, <1>5, <1>7, <2>1, PinKept DEF CleanupStep
  <2> QED BY <1>1, <1>2, <1>3, <1>4, <1>5, <1>7, <2>1, <2>2, <2>3, <2>4, CallKeeps
          DEF Busy
<1>8. "AuthenticatorResponseInvalid" \in Failure /\ "Failed" \in Failure
  BY DEF Failure
<1>9. \/ RefusePin(pin) /\ AfterInventory(FALSE, PinError) /\ KeepSession(challenges, late)
      \/ /\ TakePin(pin) /\ Undisturbed
         /\ authenticator' = [authenticator EXCEPT ![dev] = AfterPin(@, pin)]
         /\ \/ AfterInventory(HeldBy(dev) # {}, "none") /\ KeepSession(challenges, late)
            \/ AfterInventory(FALSE, "AuthenticatorResponseInvalid")
                 /\ KeepSession(challenges, None)
      \/ /\ TakePin(pin) /\ Disturb /\ UNCHANGED authenticator
         /\ AfterInventory(FALSE, "Failed") /\ KeepSession(challenges, late)
  BY DEF Inventory
<1> QED BY <1>6, <1>7, <1>8, <1>9

LEMMA DeleteKeeps ==
    ASSUME IInv, Delete
    PROVE  IInv'
<1>1. pc = "delete" /\ op' = op /\ record' = record /\ records' = records
      /\ minted' = minted /\ accepted' = accepted /\ KeepSession(challenges, late)
  BY DEF Delete
<1>2. /\ TypeOK /\ OpOK /\ PinOK /\ dev \in Device /\ challenges \in Nat
      /\ late \in Answer \cup {None} /\ (late # None => Sound(late))
      /\ wrong \in Nat /\ failure \in Failure
  BY <1>1, Facts
<1>3. accepted' \subseteq Accepted /\ AcceptedIsExact'
  BY <1>1, AcceptedUnchanged
<1>4. CASE RefusePin(pin) /\ Fail(PinError)
  <2>1. /\ pc' = "idle" /\ failure' = "Failed" /\ result' \in Failure
    BY <1>1, <1>2, <1>4, FailLeads, RefusalKeeps DEF Busy
  <2>2. PinOK'
    BY <1>1, <1>2, <1>4, PinSpent, RefusalKeeps DEF Busy
  <2> QED BY <1>1, <1>2, <1>3, <1>4, <2>1, <2>2, RefusalKeeps, CallKeeps
          DEF Busy, Failure
<1>5. ASSUME TakePin(pin), Undisturbed \/ Disturb, NEW removed,
             authenticator' = [authenticator EXCEPT ![dev] =
                 Without(AfterPin(@, pin), removed)],
             Goto("absence") \/ Fail("Failed")
      PROVE  IInv'
  <2>1. /\ wrong' = wrong /\ blamed' \in BOOLEAN /\ faults' \in Nat
    BY <1>2, <1>5, BlameTyped DEF TakePin
  <2>2. /\ authenticator' \in [Device -> Authenticator]
        /\ \A d \in Device : authenticator'[d].creds \subseteq authenticator[d].creds
    <3>1. PICK a \in Authenticator : a = AfterPin(authenticator[dev], pin)
      BY <1>2, PinSettles
    <3>2. a.creds = authenticator[dev].creds
      BY <1>2, <3>1, PinSettles
    <3>3. Without(a, removed) \in Authenticator
          /\ Without(a, removed).creds \subseteq authenticator[dev].creds
      BY <3>2 DEF Authenticator, Without
    <3>4. authenticator' = [authenticator EXCEPT ![dev] = Without(a, removed)]
      BY <1>5, <3>1
    <3> QED BY <1>2, <3>3, <3>4, CounterMoves
  <2>3. "Failed" \in Failure
    BY DEF Failure
  <2>4. /\ \/ pc' = "idle" /\ result' \in Failure \cup {"ok"}
           \/ pc' = "absence" /\ result' = result
        /\ failure' \in Failure
    BY <1>1, <1>2, <1>5, <2>3, FailLeads DEF Goto, Busy
  <2>5. PinOK'
    BY <1>1, <1>2, <2>1, <2>4, PinKept DEF CleanupStep
  <2> QED BY <1>1, <1>2, <1>3, <2>1, <2>2, <2>4, <2>5, CallKeeps DEF Busy, CleanupStep
<1> QED BY <1>4, <1>5 DEF Delete

LEMMA AbsenceKeeps ==
    ASSUME IInv, Absence
    PROVE  IInv'
<1>1. pc = "absence" /\ op' = op /\ record' = record /\ records' = records
      /\ minted' = minted /\ accepted' = accepted /\ KeepSession(challenges, late)
  BY DEF Absence
<1>2. /\ TypeOK /\ OpOK /\ PinOK /\ dev \in Device /\ challenges \in Nat
      /\ late \in Answer \cup {None} /\ (late # None => Sound(late))
      /\ wrong \in Nat /\ failure \in Failure
  BY <1>1, Facts
<1>3. accepted' \subseteq Accepted /\ AcceptedIsExact'
  BY <1>1, AcceptedUnchanged
<1>4. "RetirementUncertain" \in Failure /\ "Failed" \in Failure
  BY DEF Failure
<1>5. pc' = "idle" /\ result' \in Failure \cup {"ok"} /\ failure' \in Failure
  <2>1. ASSUME NEW e \in Failure, Fail(e)
        PROVE  pc' = "idle" /\ result' \in Failure \cup {"ok"} /\ failure' \in Failure
    BY <1>1, <1>2, <1>4, <2>1, FailLeads DEF Busy
  <2>2. CASE Done
    BY <1>2, <1>4, <2>2 DEF Done, Return
  <2> QED BY <1>4, <2>1, <2>2 DEF Absence
<1>6. CASE RefusePin(pin) /\ Fail("RetirementUncertain")
  <2>1. PinOK'
    BY <1>1, <1>2, <1>4, <1>6, PinSpent, RefusalKeeps DEF Busy
  <2> QED BY <1>1, <1>2, <1>3, <1>5, <1>6, <2>1, RefusalKeeps, CallKeeps DEF Busy
<1>7. CASE /\ TakePin(pin) /\ (Undisturbed \/ Disturb)
           /\ authenticator' = [authenticator EXCEPT ![dev] = AfterPin(@, pin)]
  <2>1. /\ wrong' = wrong /\ blamed' \in BOOLEAN /\ faults' \in Nat
    BY <1>2, <1>7, BlameTyped DEF TakePin
  <2>2. PinOK'
    BY <1>1, <1>2, <1>5, <2>1, PinKept
  <2> QED BY <1>1, <1>2, <1>3, <1>5, <1>7, <2>1, <2>2, SettlingKeeps, CallKeeps DEF Busy
<1> QED BY <1>6, <1>7 DEF Absence

\* A new credential has an id of its own, and a record that goes on with it has
\* the credential its policy wants.
LEMMA NewIsBound ==
    ASSUME IInv, pc = "make", NEW c \in Credential, c.id \notin minted,
           c.managed = record.managed,
           record' = [record EXCEPT !.id = c.id], minted' = minted \cup {c.id},
           records' = records, op' = op,
           NEW a \in Authenticator, a.creds = authenticator[dev].creds \cup {c},
           authenticator' = [authenticator EXCEPT ![dev] = a],
           \/ pc' = "idle"
           \/ op = "enrollManaged" /\ pc' \in CleanupStep
           \/ c.prot = NativeProtection(record.policy) /\ ~c.eligible
    PROVE  RecordsOK'
<1>1. TypeOK /\ RecordsOK /\ dev \in Device /\ record \in Record
  BY Facts DEF IInv, TypeOK
<1>2. \A d \in Device : /\ authenticator[d].creds \subseteq authenticator'[d].creds
                       /\ authenticator'[d].creds \subseteq authenticator[d].creds \cup {c}
  BY <1>1 DEF TypeOK
<1>3. \A d \in Device : \A x \in authenticator'[d].creds : x.id \in minted'
  BY <1>1, <1>2 DEF RecordsOK
<1>4. \A r \in records' : Bound(r)'
  <2> SUFFICES ASSUME NEW r \in records PROVE Bound(r)'
    OBVIOUS
  <2>1. Bound(r) /\ r.id # c.id
    BY <1>1 DEF RecordsOK, Bound
  <2> QED BY <1>2, <2>1 DEF Bound
<1>5. record'.id = c.id /\ record'.policy = record.policy /\ record'.managed = record.managed
  BY <1>1 DEF Record
<1>6. ASSUME c.prot = NativeProtection(record.policy), ~c.eligible
      PROVE  Bound(record)'
  <2>1. \A d \in Device : \A x \in authenticator'[d].creds : x.id = c.id => x = c
    BY <1>1, <1>2 DEF RecordsOK
  <2> QED BY <1>5, <1>6, <2>1 DEF Bound
<1> QED BY <1>3, <1>4, <1>6 DEF RecordsOK, CleanupStep

LEMMA MakeCredentialKeeps ==
    ASSUME IInv, MakeCredential
    PROVE  IInv'
<1>1. /\ pc = "make" /\ op' = op /\ records' = records /\ accepted' = accepted
      /\ KeepSession(challenges + 1, late)
  BY DEF MakeCredential
<1>2. /\ TypeOK /\ OpOK /\ PinOK /\ RecordsOK /\ dev \in Device
      /\ challenges + 1 \in Nat /\ pin \in PinValue \cup {None}
      /\ late \in Answer \cup {None} /\ (late # None => Sound(late))
      /\ wrong \in Nat /\ failure \in Failure
  BY <1>1, Facts
<1>3. accepted' \subseteq Accepted /\ AcceptedIsExact'
  BY <1>1, AcceptedUnchanged
<1>4. /\ record \in Record /\ records' \subseteq Record /\ op' \in Operation
      /\ minted \subseteq CredId /\ record.id = None
      /\ op = "enrollManaged" <=> record.managed
      /\ op \in {"enroll", "enrollManaged"} /\ result = "none" /\ wrong = 0
  <2>1. /\ record \in Record /\ records' \subseteq Record /\ op' \in Operation
        /\ minted \subseteq CredId
    BY <1>1, <1>2 DEF TypeOK
  <2>2. record.id = None /\ result = "none" /\ op \in {"enroll", "enrollManaged"}
    BY <1>1, <1>2 DEF OpOK
  <2>3. op = "enrollManaged" <=> record.managed
    BY <1>1, <1>2, <2>2 DEF OpOK
  <2>4. wrong = 0
    BY <1>1, <1>2 DEF PinOK, CleanupStep
  <2> QED BY <2>1, <2>2, <2>3, <2>4
<1>5. /\ dev' \in Device \cup {None}
      /\ pc' \notin {"idle", "open"} => dev' \in Device
      /\ pin' \in PinValue \cup {None} /\ challenges' \in Nat
      /\ late' \in {late, None}
  BY <1>1, <1>2, SessionKept
<1>6. LateIsSound' /\ late' \in Answer \cup {None}
  BY <1>2, <1>5 DEF LateIsSound, Sound, Challenge, Secret
\* The operation ends, and no credential came of it as far as it knows.
<1>7. ASSUME pc' = "idle", result' \in Failure, failure' = "Failed",
             record' = record, minted' = minted,
             authenticator' \in [Device -> Authenticator],
             \A d \in Device : authenticator'[d].creds \subseteq authenticator[d].creds,
             wrong' \in Nat, wrong' <= 1, blamed' \in BOOLEAN, faults' \in Nat
      PROVE  IInv'
  <2>1. "Failed" \in Failure /\ pc' \in Step /\ result' \in Failure \cup {"none", "ok"}
    BY <1>7 DEF Failure, Step
  <2>2. TypeOK'
    BY <1>2, <1>3, <1>4, <1>5, <1>6, <1>7, <2>1 DEF TypeOK
  <2>3. OpOK'
    BY <1>7 DEF OpOK
  <2>4. PinOK'
    BY <1>7 DEF PinOK, PinIsSpared, CleanupStep
  <2>5. RecordsOK'
    BY <1>1, <1>2, <1>7, RecordsKept
  <2> QED BY <1>3, <1>6, <2>2, <2>3, <2>4, <2>5 DEF IInv
<1>8. CASE RefusePin(pin) /\ Fail(PinError) /\ UNCHANGED <<record, minted>>
  <2>1. pc' = "idle" /\ result' \in Failure /\ failure' = "Failed"
    BY <1>1, <1>2, <1>8, FailLeads, RefusalKeeps DEF Busy
  <2>2. wrong' = wrong + 1
    BY <1>8 DEF RefusePin
  <2> QED BY <1>2, <1>4, <1>7, <1>8, <2>1, <2>2, RefusalKeeps
<1>9. CASE /\ TakePin(pin) /\ Disturb /\ UNCHANGED <<record, minted>>
           /\ authenticator' = [authenticator EXCEPT ![dev] = AfterPin(@, pin)]
           /\ Return("Failed") \/ Return("CredentialMayRemain")
  <2>1. pc' = "idle" /\ result' \in Failure /\ failure' = "Failed"
    BY <1>9 DEF Return, Failure
  <2>2. wrong' = wrong /\ blamed' \in BOOLEAN /\ faults' \in Nat
    BY <1>2, <1>9, BlameTyped DEF TakePin
  <2>3. /\ authenticator' \in [Device -> Authenticator]
        /\ \A d \in Device : authenticator'[d].creds \subseteq authenticator[d].creds
    BY <1>2, <1>9, SettlingKeeps
  <2> QED BY <1>4, <1>7, <1>9, <2>1, <2>2, <2>3
<1>10. ASSUME TakePin(pin), Undisturbed \/ Disturb,
              NEW c \in Credential, c.id \notin minted, c.managed = record.managed,
              authenticator' = [authenticator EXCEPT ![dev] = With(AfterPin(@, pin), {c})],
              minted' = minted \cup {c.id}, record' = [record EXCEPT !.id = c.id],
              NEW verified \in BOOLEAN, AfterMake(verified),
              verified => c.prot = NativeProtection(record.policy) /\ ~c.eligible
       PROVE  IInv'
  <2>1. /\ wrong' = 0 /\ wrong' \in Nat /\ blamed' \in BOOLEAN /\ faults' \in Nat
    BY <1>2, <1>4, <1>10, BlameTyped DEF TakePin
  <2>2. \/ verified /\ pc' = "evaluate" /\ op = "enrollManaged"
                    /\ failure' = failure /\ result' = result
        \/ verified /\ pc' = "open" /\ op = "enroll"
                    /\ failure' = failure /\ result' = result
        \/ ~verified /\ pc' = "idle" /\ failure' \in Failure /\ result' \in Failure
        \/ ~verified /\ pc' = "prepare" /\ op = "enrollManaged"
                     /\ failure' \in Failure /\ result' = result
    BY <1>4, <1>10 DEF AfterMake, Goto, Return, Failure
  <2>3. PICK a \in Authenticator : a = AfterPin(authenticator[dev], pin)
    BY <1>2, PinSettles
  <2>4. /\ With(a, {c}) \in Authenticator
        /\ With(a, {c}).creds = authenticator[dev].creds \cup {c}
    <3>1. a.creds = authenticator[dev].creds
      BY <1>2, <2>3, PinSettles
    <3> QED BY <3>1 DEF With, Authenticator
  <2>5. authenticator' = [authenticator EXCEPT ![dev] = With(a, {c})]
    BY <1>10, <2>3
  <2>6. authenticator' \in [Device -> Authenticator]
    BY <1>2, <2>4, <2>5 DEF TypeOK
  <2>7. RecordsOK'
    BY <1>1, <1>10, <2>2, <2>4, <2>5, NewIsBound DEF CleanupStep
  <2>8. c.id \in CredId /\ c.id # None
    BY NoneAssumption DEF Credential
  <2>9. record' \in Record /\ record'.id = c.id /\ record'.managed = record.managed
    BY <1>4, <1>10, <2>8 DEF Record
  <2>10. TypeOK'
    <3>1. pc' \in Step /\ result' \in Failure \cup {"none", "ok"} /\ failure' \in Failure
      BY <1>2, <2>2 DEF TypeOK, Step
    <3>2. minted' \subseteq CredId
      BY <1>4, <1>10, <2>8
    <3> QED BY <1>3, <1>4, <1>5, <1>6, <2>1, <2>6, <2>9, <3>1, <3>2 DEF TypeOK
  <2>11. OpOK'
    BY <1>1, <1>4, <2>2, <2>8, <2>9 DEF OpOK
  <2>12. PinOK'
    BY <2>1 DEF PinOK, PinIsSpared
  <2> QED BY <1>3, <1>6, <2>7, <2>10, <2>11, <2>12 DEF IInv
<1>11. ASSUME TakePin(pin),
              NEW id \in CredId \ minted, NEW prot \in CredentialProtection \cup {"none"},
              NEW eligible \in BOOLEAN, NEW attested \in BOOLEAN, NEW uv \in BOOLEAN,
              Create(id, prot, eligible, attested, uv)
       PROVE  IInv'
  <2> DEFINE flags == {"UP"} \cup {f \in {"UV"} : uv} \cup {f \in {"BE"} : eligible}
             verified == CredentialVerified(attested, prot, flags)
  <2>1. PICK c : c = [id |-> id, prot |-> prot, managed |-> record.managed,
                      eligible |-> eligible]
    OBVIOUS
  <2>2. /\ c.id = id /\ c.managed = record.managed
        /\ c.prot = prot /\ c.eligible = eligible
    BY <2>1
  <2>3. c \in Credential
    BY <1>4, <2>1 DEF Credential, Record
  <2>4. verified => prot = NativeProtection(record.policy) /\ ~eligible
    BY DEF CredentialVerified, FlagsMatch
  <2>5. verified \in BOOLEAN
    BY <1>11 DEF CredentialVerified, FlagsMatch
  <2>6. /\ Undisturbed \/ Disturb
        /\ authenticator' = [authenticator EXCEPT ![dev] = With(AfterPin(@, pin), {c})]
        /\ minted' = minted \cup {id} /\ record' = [record EXCEPT !.id = id]
        /\ AfterMake(verified)
    BY <1>11, <2>1 DEF Create
  <2> HIDE DEF verified
  <2> QED BY <1>10, <1>11, <2>2, <2>3, <2>4, <2>5, <2>6
<1> QED BY <1>8, <1>9, <1>11 DEF MakeCredential

\* Where credentials, records and accepted answers stay, only the control is
\* left to check.
LEMMA ControlMoves ==
    ASSUME IInv, \A d \in Device : authenticator'[d].creds = authenticator[d].creds,
           records' = records, minted' = minted, accepted' = accepted,
           late' \in {late, None}, TypeOK', OpOK', PinOK',
           \/ pc' = "idle"
           \/ record'.id = None
           \/ op' = "enrollManaged" /\ pc' \in CleanupStep
           \/ record' \in records
           \/ /\ pc # "idle" /\ record' = record
              /\ op = "enrollManaged" => pc \notin CleanupStep
    PROVE  IInv'
<1>1. AcceptedIsExact'
  BY AcceptedUnchanged
<1>2. LateIsSound'
  BY DEF IInv, LateIsSound, Sound, Challenge, Secret
<1>3. RecordsOK'
  <2>1. RecordsOK
    BY DEF IInv
  <2>2. ASSUME NEW r, Bound(r)
        PROVE  Bound(r)'
    BY <2>2 DEF Bound
  <2>3. \A d \in Device : \A c \in authenticator'[d].creds : c.id \in minted'
    BY <2>1 DEF RecordsOK
  <2>4. \A r \in records' : Bound(r)'
    BY <2>1, <2>2 DEF RecordsOK
  <2>5. \/ pc' = "idle" \/ record'.id = None
        \/ op' = "enrollManaged" /\ pc' \in CleanupStep
        \/ Bound(record)'
    <3>1. CASE record' \in records
      <4>1. Bound(record')
        BY <2>1, <3>1 DEF RecordsOK
      <4> QED BY <4>1 DEF Bound
    <3>2. CASE /\ pc # "idle" /\ record' = record /\ record.id # None
               /\ op = "enrollManaged" => pc \notin CleanupStep
      <4>1. Bound(record)
        BY <2>1, <3>2 DEF RecordsOK
      <4> QED BY <3>2, <4>1 DEF Bound
    <3> QED BY <3>1, <3>2
  <2> QED BY <2>3, <2>4, <2>5 DEF RecordsOK
<1> QED BY <1>1, <1>2, <1>3 DEF IInv

LEMMA BeginKeeps ==
    ASSUME IInv, NEW o \in Operation, NEW r \in Record, Begin(o, r),
           \/ r.id = None /\ o = IF r.managed THEN "enrollManaged" ELSE "enroll"
           \/ r \in records /\ r.id # None /\ o \in {"recover", "verify", "retire"}
    PROVE  IInv'
<1>1. TypeOK
  BY DEF IInv
<1>2. /\ pc' = "open" /\ op' = o /\ record' = r /\ result' = "none"
      /\ wrong' = 0 /\ blamed' = FALSE
      /\ UNCHANGED <<authenticator, dev, pin, challenges, late, failure, records,
                      minted, accepted, faults>>
  BY DEF Begin, session
<1>3. TypeOK'
  BY <1>1, <1>2 DEF TypeOK, Step
<1>4. OpOK'
  BY <1>2 DEF OpOK
<1>5. PinOK'
  BY <1>2 DEF PinOK, PinIsSpared
<1> QED BY <1>2, <1>3, <1>4, <1>5, ControlMoves

LEMMA EnrollKeeps ==
    ASSUME IInv, Enroll
    PROVE  IInv'
<1>1. PICK policy \in ExactPolicy, managed \in BOOLEAN :
        Begin(IF managed THEN "enrollManaged" ELSE "enroll",
              [id |-> None, policy |-> policy, managed |-> managed])
  BY DEF Enroll
<1>2. PICK r : r = [id |-> None, policy |-> policy, managed |-> managed]
  OBVIOUS
<1>3. r \in Record /\ r.id = None /\ r.managed = managed
  BY <1>2 DEF Record
<1>4. (IF r.managed THEN "enrollManaged" ELSE "enroll") \in Operation
  BY DEF Operation
<1>5. Begin(IF r.managed THEN "enrollManaged" ELSE "enroll", r)
  BY <1>1, <1>2, <1>3
<1> QED BY <1>3, <1>4, <1>5, BeginKeeps

LEMMA UseKeeps ==
    ASSUME IInv, Use
    PROVE  IInv'
<1>1. PICK r \in records, o \in {"recover", "verify", "retire"} : Begin(o, r)
  BY DEF Use
<1>2. TypeOK /\ RecordsOK
  BY DEF IInv
<1>3. r \in Record /\ r.id # None /\ o \in Operation
  BY <1>2, NoneAssumption DEF TypeOK, RecordsOK, Bound, Operation
<1> QED BY <1>1, <1>3, BeginKeeps

LEMMA OpenKeeps ==
    ASSUME IInv, Open
    PROVE  IInv'
<1>1. TypeOK /\ OpOK /\ PinOK /\ pc = "open" /\ wrong = 0
  BY DEF IInv, Open, PinOK, CleanupStep
<1>2. UNCHANGED <<authenticator, op, record, records, minted, accepted, wrong, faults,
                  pin, challenges, late>>
  BY DEF Open, session
<1>3. /\ \/ pc' = "ask" /\ result' = result /\ failure' = failure /\ dev' \in Device
         \/ pc' = "idle" /\ result' \in Failure /\ failure' \in Failure /\ dev' = dev
      /\ blamed' \in BOOLEAN
  <2>1. blamed \in BOOLEAN
    BY <1>1 DEF TypeOK
  <2>2. blamed' \in BOOLEAN
    BY <2>1 DEF Open
  <2>3. \/ pc' = "ask" /\ result' = result /\ failure' = failure /\ dev' \in Device
        \/ pc' = "idle" /\ result' \in Failure /\ failure' \in Failure /\ dev' = dev
    BY DEF Open, Goto, Return, Failure, session
  <2> QED BY <2>2, <2>3
<1>4. TypeOK'
  BY <1>1, <1>2, <1>3 DEF TypeOK, Step
<1>5. OpOK'
  BY <1>1, <1>2, <1>3 DEF OpOK
<1>6. PinOK'
  BY <1>1, <1>2, <1>3 DEF PinOK, PinIsSpared, CleanupStep
<1> QED BY <1>1, <1>2, <1>4, <1>5, <1>6, ControlMoves DEF CleanupStep

LEMMA AskKeeps ==
    ASSUME IInv, Ask
    PROVE  IInv'
<1>1. /\ TypeOK /\ OpOK /\ PinOK /\ pc = "ask" /\ wrong = 0 /\ dev \in Device
      /\ late \in Answer \cup {None} /\ challenges \in Nat
  BY Facts DEF IInv, Ask, PinOK, CleanupStep
<1>2. UNCHANGED <<authenticator, op, record, records, minted, accepted, wrong>>
  BY DEF Ask
<1>3. /\ \/ /\ pc' = FirstCall /\ result' = result /\ failure' = failure
            /\ pin' \in PinValue \cup {None}
            /\ UNCHANGED <<dev, challenges, late>>
         \/ /\ pc' = "idle" /\ result' \in Failure /\ failure' \in Failure
            /\ dev' = None /\ pin' = None /\ challenges' = 0 /\ late' = None
      /\ Undisturbed \/ Disturb
  BY DEF Ask, Goto, Return, Failure, KeepSession
<1>4. /\ FirstCall \in {"make", "proof", "evaluate"}
      /\ FirstCall = "make" <=> record.id = None
      /\ op = "enrollManaged" => FirstCall # "proof"
  <2>1. record.id = None => op \in {"enroll", "enrollManaged"}
    BY <1>1 DEF OpOK
  <2>2. CASE record.id = None
    BY <2>1, <2>2 DEF FirstCall
  <2>3. CASE record.id # None /\ op \in {"verify", "retire"}
    BY <2>3 DEF FirstCall
  <2>4. CASE record.id # None /\ op \notin {"verify", "retire"}
    BY <2>4 DEF FirstCall
  <2> QED BY <2>2, <2>3, <2>4
<1>5. blamed' \in BOOLEAN /\ faults' \in Nat
  BY <1>1, <1>3, BlameTyped
<1>6. TypeOK'
  <2>1. pc' \in Step /\ result' \in Failure \cup {"none", "ok"} /\ failure' \in Failure
    BY <1>1, <1>3, <1>4 DEF TypeOK, Step
  <2>2. /\ dev' \in Device \cup {None} /\ (pc' # "idle" => dev' \in Device)
        /\ pin' \in PinValue \cup {None}
        /\ challenges' \in Nat /\ late' \in Answer \cup {None}
    BY <1>1, <1>3
  <2> QED BY <1>1, <1>2, <1>5, <2>1, <2>2 DEF TypeOK
<1>7. OpOK'
  BY <1>1, <1>2, <1>3, <1>4 DEF OpOK
<1>8. PinOK'
  BY <1>1, <1>2, <1>3 DEF PinOK, PinIsSpared, CleanupStep
<1>9. late' \in {late, None}
  BY <1>3
<1> QED BY <1>1, <1>2, <1>6, <1>7, <1>8, <1>9, ControlMoves DEF CleanupStep

LEMMA ForeignChangeKeeps ==
    ASSUME IInv, ForeignChange
    PROVE  IInv'
<1>1. TypeOK /\ OpOK /\ PinOK
  BY DEF IInv
<1>2. UNCHANGED <<pc, op, record, dev, pin, challenges, late, failure, records,
                  result, minted, accepted, wrong>>
  BY DEF ForeignChange, session
<1>3. blamed' \in BOOLEAN /\ faults' \in Nat
  BY <1>1, BlameTyped DEF ForeignChange
<1>4. /\ authenticator' \in [Device -> Authenticator]
      /\ \A d \in Device : authenticator'[d].creds = authenticator[d].creds
  <2>1. PICK d \in Device :
           \/ \E p \in PinValue : authenticator' = [authenticator EXCEPT
                    ![d] = [@ EXCEPT !.pin = p, !.retries = MaxRetries]]
           \/ authenticator' = [authenticator EXCEPT ![d].alwaysUv = ~@]
    BY DEF ForeignChange
  <2>2. authenticator \in [Device -> Authenticator] /\ MaxRetries \in 0 .. MaxRetries
    BY <1>1, RetriesAssumption DEF TypeOK
  <2>3. PICK a \in Authenticator : a = authenticator[d]
    BY <2>2
  <2>4. PICK b \in Authenticator : authenticator' = [authenticator EXCEPT ![d] = b]
                                 /\ b.creds = a.creds
    <3>1. CASE \E p \in PinValue : authenticator' = [authenticator EXCEPT
                    ![d] = [@ EXCEPT !.pin = p, !.retries = MaxRetries]]
      <4>1. PICK p \in PinValue : authenticator' = [authenticator EXCEPT
                    ![d] = [a EXCEPT !.pin = p, !.retries = MaxRetries]]
        BY <2>3, <3>1
      <4>2. PICK b : b = [a EXCEPT !.pin = p, !.retries = MaxRetries]
        OBVIOUS
      <4>3. b \in Authenticator /\ b.creds = a.creds
        BY <2>2, <4>2 DEF Authenticator
      <4> QED BY <4>1, <4>2, <4>3
    <3>2. CASE authenticator' = [authenticator EXCEPT ![d].alwaysUv = ~@]
      <4>1. authenticator' = [authenticator EXCEPT ![d] = [a EXCEPT !.alwaysUv = ~a.alwaysUv]]
        BY <2>2, <2>3, <3>2
      <4>2. PICK b : b = [a EXCEPT !.alwaysUv = ~a.alwaysUv]
        OBVIOUS
      <4>3. b \in Authenticator /\ b.creds = a.creds
        BY <4>2 DEF Authenticator
      <4> QED BY <4>1, <4>2, <4>3
    <3> QED BY <2>1, <3>1, <3>2
  <2> QED BY <2>2, <2>3, <2>4
<1>5. TypeOK'
  BY <1>1, <1>2, <1>3, <1>4 DEF TypeOK
<1>6. OpOK'
  BY <1>1, <1>2 DEF OpOK
<1>7. PinOK'
  BY <1>1, <1>2 DEF PinOK, PinIsSpared
<1> QED BY <1>2, <1>4, <1>5, <1>6, <1>7, ControlMoves

-----------------------------------------------------------------------------

LEMMA InitEstablishes == Init => IInv
<1> SUFFICES ASSUME Init PROVE IInv
  OBVIOUS
<1>1. TypeOK
  <2>1. \E always \in [Device -> BOOLEAN], p \in PinValue :
            authenticator = [d \in Device |->
                [pin |-> p, retries |-> MaxRetries, alwaysUv |-> always[d],
                 creds |-> {}]]
    BY DEF Init
  <2>2. authenticator \in [Device -> Authenticator]
    BY <2>1, RetriesAssumption DEF Authenticator
  <2>3. record \in Record
    BY DEF Init, Record, ExactPolicy
  <2> QED BY <2>2, <2>3 DEF Init, TypeOK, Step, Operation, Failure
<1>2. \A d \in Device : authenticator[d].creds = {}
  BY DEF Init
<1> QED
  BY <1>1, <1>2 DEF Init, IInv, AcceptedIsExact, SecretIsExact, ProofIsFresh,
     LateIsSound, OpOK, PinOK, PinIsSpared, CleanupStep, RecordsOK

LEMMA NextKeeps == IInv /\ [Next]_vars => IInv'
<1> SUFFICES ASSUME IInv, [Next]_vars PROVE IInv'
  OBVIOUS
<1>1. CASE Next
  BY <1>1, EnrollKeeps, UseKeeps, OpenKeeps, AskKeeps, MakeCredentialKeeps,
     AssertionKeeps, InventoryKeeps, DeleteKeeps, AbsenceKeeps, ForeignChangeKeeps
     DEF Next
<1>2. CASE UNCHANGED vars
  <2>1. TypeOK' /\ OpOK' /\ PinOK'
    BY <1>2 DEF vars, session, IInv, TypeOK, OpOK, PinOK, PinIsSpared
  <2> QED BY <1>2, <2>1, ControlMoves DEF vars, session, IInv, RecordsOK
<1> QED BY <1>1, <1>2

THEOREM InductiveInvariant == Spec => []IInv
BY InitEstablishes, NextKeeps, PTL DEF Spec

-----------------------------------------------------------------------------
(***************************************************************************)
(* What it establishes.                                                    *)
(***************************************************************************)

\* Every variable keeps its type: among others no step of an operation is
\* reached without an authenticator held open.
THEOREM TypeCorrect == Spec => []TypeOK
<1>1. IInv => TypeOK
  BY DEF IInv
<1> QED BY <1>1, InductiveInvariant, PTL

\* Whatever the authenticators answer, early, late or for another credential,
\* and however their PIN and settings change meanwhile: each accepted answer
\* was given to the request it concludes, and each accepted PRF secret is that
\* of the record's credential under the record's policy.
THEOREM AnswersAreExact == Spec => []AcceptedIsExact
<1>1. IInv => AcceptedIsExact
  BY DEF IInv
<1> QED BY <1>1, InductiveInvariant, PTL

\* The credential of each record that was ever returned is as its policy wants
\* it and is not eligible for backup, on whatever authenticator it lives.
THEOREM RecordsAreBound == Spec => []RecordIsDeviceBound
<1>1. IInv => RecordIsDeviceBound
  BY DEF IInv, RecordsOK, Bound, RecordIsDeviceBound
<1> QED BY <1>1, InductiveInvariant, PTL

\* No operation sends an authenticator more than one refused PIN, or two where
\* a managed enrollment takes its credential back.
THEOREM PinsAreSpared == Spec => []PinIsSpared
<1>1. IInv => PinIsSpared
  BY DEF IInv, PinOK
<1> QED BY <1>1, InductiveInvariant, PTL

-----------------------------------------------------------------------------
(***************************************************************************)
(* An operation that nothing disturbs succeeds.                            *)
(***************************************************************************)

LEMMA QuietFacts ==
    ASSUME IInv, QuietOK, ~blamed, pc \notin {"idle", "open"}
    PROVE  /\ Equipped /\ late = None /\ dev \in Device
           /\ op = "enrollManaged" => pc \notin CleanupStep
           /\ authenticator[dev] \in Authenticator
           /\ record.id # None => Bound(record)
BY Facts DEF QuietOK, RecordsOK, TypeOK

\* Its PIN is not refused.
LEMMA PinIsTaken ==
    ASSUME IInv, QuietOK, ~blamed, pc \notin {"idle", "open", "ask"},
           NEW g \in {None, pin}
    PROVE  ~RefusePin(g)
<1>1. Equipped
  BY QuietFacts
<1>2. authenticator[dev].retries # 0 /\ pin \in {None, authenticator[dev].pin}
  BY <1>1 DEF Equipped
<1> QED BY <1>2 DEF RefusePin, PinRefused

\* A step that ends an operation, or its first session, with the handle closed.
LEMMA QuietEnds ==
    ASSUME pc' \in {"idle", "open"}, late' = None,
           blamed' \/ result' \in {"none", "ok"} \/ pc' = "open",
           op' = "enrollManaged" /\ pc' = "open" => record'.id = None
    PROVE  QuietOK'
BY DEF QuietOK, UndisturbedSucceeds, CleanupStep

\* A step of an operation that was disturbed.
LEMMA QuietDisturbed ==
    ASSUME blamed', pc' \in {"idle", "open"} => late' = None,
           pc' # "evaluate" \/ op' \in {"enroll", "enrollManaged", "recover"},
           op' = "enrollManaged" /\ pc' \in {"open", "ask"} => record'.id = None
    PROVE  QuietOK'
BY DEF QuietOK

\* A step that continues an operation nothing has disturbed.
LEMMA QuietGoesOn ==
    ASSUME pc' \notin {"idle", "open", "ask"}, late' = None, Equipped',
           pc' # "evaluate" \/ op' \in {"enroll", "enrollManaged", "recover"},
           op' = "enrollManaged" => pc' \notin CleanupStep
    PROVE  QuietOK'
BY DEF QuietOK, UndisturbedSucceeds

LEMMA SettledDevice ==
    ASSUME TypeOK, dev \in Device, NEW g,
           authenticator' = [authenticator EXCEPT ![dev] = AfterPin(@, g)],
           authenticator[dev].retries > 0
    PROVE  /\ authenticator'[dev].retries > 0
           /\ authenticator'[dev].pin = authenticator[dev].pin
           /\ authenticator'[dev].alwaysUv = authenticator[dev].alwaysUv
           /\ authenticator'[dev].creds = authenticator[dev].creds
<1>1. PICK a \in Authenticator : a = authenticator[dev]
  BY DEF TypeOK
<1>2. authenticator'[dev] = AfterPin(a, g)
  BY <1>1 DEF TypeOK
<1>3. MaxRetries > 0 /\ a.retries > 0
  BY <1>1, RetriesAssumption
<1>4. PICK r : r = (IF g = None THEN a.retries ELSE MaxRetries)
  OBVIOUS
<1>5. AfterPin(a, g) = [a EXCEPT !.retries = r]
  BY <1>4 DEF AfterPin
<1>6. r > 0
  BY <1>3, <1>4
<1> QED BY <1>1, <1>2, <1>5, <1>6 DEF Authenticator

\* It stays equipped for the next call of its session.
LEMMA StaysEquipped ==
    ASSUME TypeOK, dev \in Device, Equipped, pc \notin {"ask", "absence"}, NEW g,
           authenticator' = [authenticator EXCEPT ![dev] = AfterPin(@, g)],
           dev' = dev, pin' = pin, op' = op, record' = record, record.id # None,
           pc' \notin {"ask", "absence"}, pin # None
    PROVE  Equipped'
<1>1. authenticator[dev].retries > 0 /\ SupportsPolicy(dev) /\ HeldBy(dev) # {}
      /\ pin = authenticator[dev].pin
  BY DEF Equipped
<1>2. /\ authenticator'[dev].retries > 0
      /\ authenticator'[dev].pin = authenticator[dev].pin
      /\ authenticator'[dev].alwaysUv = authenticator[dev].alwaysUv
      /\ authenticator'[dev].creds = authenticator[dev].creds
  BY <1>1, SettledDevice
<1>3. SupportsPolicy(dev)'
  BY <1>1, <1>2 DEF SupportsPolicy
<1>4. HeldBy(dev)' # {}
  BY <1>1, <1>2 DEF HeldBy
<1> QED BY <1>1, <1>2, <1>3, <1>4 DEF Equipped

\* The handle after a step that goes on.
LEMMA HandleKept ==
    ASSUME NEW n, NEW a, KeepSession(n, a)
    PROVE  /\ pc' \in {"idle", "open"} => late' = None
           /\ pc' \notin {"idle", "open"} => dev' = dev /\ pin' = pin /\ late' = a
BY DEF KeepSession

LEMMA EnrollIsQuiet ==
    ASSUME IInv, QuietOK, Enroll
    PROVE  QuietOK'
<1>1. PICK policy \in ExactPolicy, managed \in BOOLEAN :
        Begin(IF managed THEN "enrollManaged" ELSE "enroll",
              [id |-> None, policy |-> policy, managed |-> managed])
  BY DEF Enroll
<1>2. pc = "idle" /\ pc' = "open" /\ record'.id = None /\ late' = late
  BY <1>1 DEF Begin, session
<1> QED BY <1>2, QuietEnds DEF QuietOK

LEMMA UseIsQuiet ==
    ASSUME IInv, QuietOK, Use
    PROVE  QuietOK'
<1>1. PICK r \in records, o \in {"recover", "verify", "retire"} : Begin(o, r)
  BY DEF Use
<1>2. pc = "idle" /\ pc' = "open" /\ op' = o /\ late' = late
  BY <1>1 DEF Begin, session
<1> QED BY <1>2, QuietEnds DEF QuietOK

LEMMA OpenIsQuiet ==
    ASSUME IInv, QuietOK, Open
    PROVE  QuietOK'
<1>1. /\ TypeOK /\ pc = "open" /\ late = None /\ late' = late
      /\ UNCHANGED <<authenticator, op, record>>
      /\ op = "enrollManaged" => record.id = None
  BY DEF IInv, QuietOK, Open, session
<1>2. CASE Return("NoCompatibleAuthenticator") /\ blamed' = TRUE
  BY <1>1, <1>2, QuietEnds DEF Return
<1>3. ASSUME NEW d \in Device, SupportsPolicy(d), Goto("ask"), dev' = d,
             blamed' = (\/ blamed
                        \/ authenticator[d].retries = 0
                        \/ record.id # None /\ HeldBy(d) = {})
      PROVE  QuietOK'
  <2>1. CASE blamed'
    BY <1>1, <1>3, <2>1, QuietDisturbed DEF Goto
  <2>2. CASE ~blamed'
    <3>1. ~blamed /\ authenticator[d].retries # 0 /\ (record.id # None => HeldBy(d) # {})
      BY <1>3, <2>2
    <3>2. authenticator[d].retries > 0
      BY <1>1, <3>1, RetriesAssumption DEF TypeOK, Authenticator
    <3>3. SupportsPolicy(dev)' /\ (record.id # None => HeldBy(dev)' # {})
      BY <1>1, <1>3, <3>1 DEF SupportsPolicy, HeldBy
    <3>4. Equipped'
      BY <1>1, <1>3, <3>2, <3>3 DEF Equipped, Goto
    <3> QED BY <1>1, <1>3, <3>4 DEF QuietOK, UndisturbedSucceeds, Goto, CleanupStep
  <2> QED BY <2>1, <2>2
<1> QED BY <1>2, <1>3 DEF Open

LEMMA AskIsQuiet ==
    ASSUME IInv, QuietOK, Ask
    PROVE  QuietOK'
<1>1. /\ TypeOK /\ OpOK /\ RecordsOK /\ pc = "ask" /\ dev \in Device
      /\ UNCHANGED <<authenticator, op, record>>
      /\ op = "enrollManaged" => record.id = None
      /\ record.id = None => op \in {"enroll", "enrollManaged"}
  BY Facts DEF Ask, QuietOK, OpOK
<1>2. CASE Return("Failed") /\ Disturb /\ KeepSession(0, None)
  BY <1>2, QuietEnds, HandleKept DEF Return, Disturb
<1>3. ASSUME NEW entered \in PinValue, Goto(FirstCall),
             pin' = IF NeedsPin THEN entered ELSE None,
             IF NeedsPin /\ entered # authenticator[dev].pin THEN Disturb ELSE Undisturbed,
             UNCHANGED <<dev, challenges, late>>
      PROVE  QuietOK'
  <2>1. /\ pc' = FirstCall
        /\ FirstCall \in {"make", "proof", "evaluate"}
        /\ FirstCall = "make" <=> record.id = None
        /\ FirstCall = "evaluate" => op \notin {"verify", "retire"}
        /\ FirstCall = "proof" => op \in {"verify", "retire"}
    <3>1. CASE record.id = None
      BY <1>1, <1>3, <3>1 DEF FirstCall, Goto
    <3>2. CASE record.id # None /\ op \in {"verify", "retire"}
      BY <1>3, <3>2 DEF FirstCall, Goto
    <3>3. CASE record.id # None /\ op \notin {"verify", "retire"}
      BY <1>3, <3>3 DEF FirstCall, Goto
    <3> QED BY <3>1, <3>2, <3>3
  <2>2. pc' = "evaluate" => op' \in {"enroll", "enrollManaged", "recover"}
    BY <1>1, <2>1 DEF TypeOK, Operation
  <2>3. CASE blamed'
    BY <2>1, <2>2, <2>3, QuietDisturbed
  <2>4. CASE ~blamed'
    <3>1. /\ NeedsPin => entered = authenticator[dev].pin
          /\ ~blamed
      BY <1>3, <2>4 DEF Disturb, Undisturbed
    <3>2. Equipped /\ late = None
      BY <1>1, <3>1, QuietFacts
    <3>3. authenticator[dev].retries > 0 /\ SupportsPolicy(dev)
          /\ (record.id # None => HeldBy(dev) # {})
      BY <1>1, <3>2 DEF Equipped
    <3>4. SupportsPolicy(dev)' /\ (record.id # None => HeldBy(dev)' # {})
      BY <1>1, <1>3, <3>3 DEF SupportsPolicy, HeldBy
    <3>5. pin' \in {None, authenticator[dev].pin}
      BY <1>3, <3>1
    <3>6. pin' = None => /\ pc' = "evaluate" /\ op # "enrollManaged"
                         /\ record.policy = "presence"
      <4>1. ASSUME pin' = None
            PROVE  ~NeedsPin
        BY <1>3, <4>1, NoneAssumption
      <4>2. record.policy \in {"presence", "uv"}
        BY <1>1 DEF TypeOK, Record, ExactPolicy
      <4> QED BY <1>1, <2>1, <4>1, <4>2 DEF NeedsPin
    <3>7. Equipped'
      BY <1>1, <1>3, <2>1, <3>3, <3>4, <3>5, <3>6 DEF Equipped
    <3>8. op = "enrollManaged" => pc' \notin CleanupStep
      BY <2>1 DEF CleanupStep
    <3> QED BY <1>1, <1>3, <2>1, <2>2, <3>2, <3>7, <3>8, QuietGoesOn
  <2> QED BY <2>3, <2>4
<1> QED BY <1>2, <1>3 DEF Ask

LEMMA MakeCredentialIsQuiet ==
    ASSUME IInv, QuietOK, MakeCredential
    PROVE  QuietOK'
<1>1. /\ TypeOK /\ OpOK /\ pc = "make" /\ op' = op /\ dev \in Device
      /\ record.id = None /\ op \in {"enroll", "enrollManaged"}
      /\ (op = "enrollManaged" <=> record.managed) /\ record \in Record
      /\ KeepSession(challenges + 1, late)
  BY Facts DEF MakeCredential, OpOK, TypeOK
<1>2. /\ pc' \in {"idle", "open"} => late' = None
      /\ pc' \notin {"idle", "open"} => dev' = dev /\ pin' = pin /\ late' = late
  BY <1>1, HandleKept
<1>3. CASE RefusePin(pin) /\ Fail(PinError)
  <2>1. blamed' = blamed /\ pc' = "idle"
    BY <1>1, <1>3 DEF RefusePin, Undisturbed, Fail, Return, CleanupStep
  <2>2. CASE blamed'
    BY <1>2, <2>1, <2>2, QuietDisturbed
  <2>3. CASE ~blamed
    BY <1>1, <1>3, <2>3, PinIsTaken
  <2> QED BY <2>1, <2>2, <2>3
<1>4. CASE Disturb /\ (Return("Failed") \/ Return("CredentialMayRemain"))
  BY <1>2, <1>4, QuietEnds DEF Return, Disturb
<1>5. ASSUME NEW id \in CredId, NEW prot, NEW eligible, NEW attested, NEW uv \in BOOLEAN,
             Create(id, prot, eligible, attested, uv)
      PROVE  QuietOK'
  <2> DEFINE right == prot = NativeProtection(record.policy) /\ ~eligible /\ attested /\ uv
             flags == {"UP"} \cup {f \in {"UV"} : uv} \cup {f \in {"BE"} : eligible}
             verified == CredentialVerified(attested, prot, flags)
  <2>1. /\ IF right THEN Undisturbed ELSE Disturb
        /\ record' = [record EXCEPT !.id = id]
        /\ AfterMake(verified)
    BY <1>5 DEF Create
  <2>2. CASE ~right
    <3>1. blamed'
      BY <2>1, <2>2 DEF Disturb
    <3>2. pc' = "open" => ~record.managed
      BY <2>1 DEF AfterMake, Goto, Return
    <3>3. pc' # "ask"
      BY <2>1 DEF AfterMake, Goto, Return
    <3> QED BY <1>1, <1>2, <3>1, <3>2, <3>3, QuietDisturbed
  <2>3. CASE right
    <3>1. flags = {"UP", "UV"}
      BY <2>3
    <3>2. verified
      BY <2>3, <3>1 DEF CredentialVerified, FlagsMatch
    <3>3. pc' = IF record.managed THEN "evaluate" ELSE "open"
      BY <2>1, <3>2 DEF AfterMake, Goto
    <3>4. blamed' = blamed /\ result' = result
      BY <2>1, <2>3, <3>2 DEF Undisturbed, AfterMake, Goto
    <3>5. CASE ~record.managed
      BY <1>1, <1>2, <3>3, <3>5, QuietEnds
    <3>6. CASE record.managed /\ blamed
      BY <1>1, <1>2, <3>3, <3>4, <3>6, QuietDisturbed
    <3>7. CASE record.managed /\ ~blamed
      <4>1. /\ authenticator[dev].retries > 0 /\ SupportsPolicy(dev)
            /\ pin = authenticator[dev].pin /\ pin # None /\ late = None
        BY <1>1, <3>7, QuietFacts DEF Equipped
      <4>2. PICK a \in Authenticator : a = authenticator[dev]
        BY <1>1 DEF TypeOK
      <4>3. PICK c : c = [id |-> id, prot |-> prot, managed |-> record.managed,
                          eligible |-> eligible]
        OBVIOUS
      <4>4. PICK b \in Authenticator : b = AfterPin(a, pin)
        BY <1>1, <4>2, PinSettles
      <4>5. authenticator' = [authenticator EXCEPT ![dev] = With(b, {c})]
        BY <1>5, <4>2, <4>3, <4>4 DEF Create
      <4>6. authenticator'[dev] = With(b, {c})
        BY <1>1, <4>5 DEF TypeOK
      <4>7. /\ b.retries = MaxRetries /\ b.pin = a.pin /\ b.alwaysUv = a.alwaysUv
        BY <4>1, <4>4 DEF AfterPin, Authenticator
      <4>8. /\ authenticator'[dev].retries > 0 /\ authenticator'[dev].pin = pin
            /\ authenticator'[dev].alwaysUv = authenticator[dev].alwaysUv
            /\ c \in authenticator'[dev].creds
        BY <4>1, <4>2, <4>6, <4>7, RetriesAssumption DEF With, Authenticator
      <4>9. record'.id = id /\ record'.policy = record.policy /\ c.id = id
        BY <1>1, <2>1, <4>3 DEF Record
      <4>10. HeldBy(dev)' # {}
        BY <1>2, <3>3, <3>7, <4>8, <4>9 DEF HeldBy
      <4>11. SupportsPolicy(dev)'
        BY <1>1, <1>2, <3>3, <3>7, <4>1, <4>8, <4>9 DEF SupportsPolicy
      <4>12. Equipped'
        BY <1>2, <3>3, <3>7, <4>1, <4>8, <4>10, <4>11 DEF Equipped
      <4> QED BY <1>1, <1>2, <3>3, <3>7, <4>1, <4>12, QuietGoesOn DEF CleanupStep
    <3> QED BY <3>5, <3>6, <3>7
  <2> QED BY <2>2, <2>3
<1>6. \/ RefusePin(pin) /\ Fail(PinError)
      \/ Disturb /\ (Return("Failed") \/ Return("CredentialMayRemain"))
      \/ \E id \in CredId, prot \in CredentialProtection \cup {"none"},
            eligible, attested, uv \in BOOLEAN : Create(id, prot, eligible, attested, uv)
  BY DEF MakeCredential
<1> QED BY <1>3, <1>4, <1>5, <1>6

\* The answer of an authenticator that does what it was asked is accepted.
LEMMA HonestIsAccepted ==
    ASSUME record.id \in CredId, Bound(record), dev \in Device, NEW uv \in BOOLEAN, NEW n,
           uv <=> AssertedPolicy = "uv"
    PROVE  VerifiedSecret(HonestAnswer(uv, n), AssertedPolicy, n)
<1> DEFINE a == HonestAnswer(uv, n)
<1>1. \A c \in HeldBy(dev) : ~c.eligible
  BY DEF HeldBy, Bound
<1>2. a.flags = {"UP"} \cup {f \in {"UV"} : AssertedPolicy = "uv"}
  BY <1>1 DEF HonestAnswer
<1>3. /\ a.id = record.id /\ a.key = record.id /\ a.challenge = Challenge(n)
      /\ a.count = 1 /\ a.secret = Secret(record.id, uv)
  BY DEF HonestAnswer
<1>4. a.secret # None
  <2>1. Secret(record.id, uv) \in [id : CredId, uv : BOOLEAN]
    BY DEF Secret
  <2> QED BY <1>3, <2>1, NoneAssumption
<1> QED BY <1>2, <1>3, <1>4 DEF VerifiedSecret, VerifyIdentity, FlagsMatch

LEMMA AssertionIsQuiet ==
    ASSUME IInv, QuietOK, Assertion
    PROVE  QuietOK'
<1> DEFINE n == challenges + 1
           given == AssertionPin
           unasked == given = None /\ authenticator[dev].alwaysUv
           held == {c \in HeldBy(dev) : c.prot = "required" => given # None}
           uv == given # None \/ unasked
           settled == authenticator' = [authenticator EXCEPT ![dev] = AfterPin(@, given)]
           nothing == UNCHANGED <<accepted, records>>
<1>1. /\ TypeOK /\ OpOK /\ pc \in {"evaluate", "proof"} /\ dev \in Device
      /\ op' = op /\ record' = record /\ record \in Record /\ record.id \in CredId
      /\ (op = "enrollManaged" => record.managed)
      /\ given \in {None, pin}
  BY Facts DEF Assertion, OpOK, TypeOK, Record, AssertionPin
<1>2. \A a : Conclude(a, n) => pc' \notin {"open", "ask", "evaluate"}
  BY <1>1, ConcludeLeads
<1>3. \A e \in Failure : Fail(e) => pc' \notin {"open", "ask", "evaluate"}
  BY <1>1, FailLeads DEF Busy
<1>4. /\ pc' \notin {"open", "ask", "evaluate"}
      /\ pc' \in {"idle", "open"} => late' = None
      /\ pc' \notin {"idle", "open"} => dev' = dev /\ pin' = pin
  <2>1. {PinError, "AuthenticatorResponseInvalid", "CredentialUnavailable", "Failed"}
            \subseteq Failure
    BY DEF PinError, Failure
  <2>2. (\E a : Conclude(a, n)) \/ (\E e \in Failure : Fail(e))
    BY <2>1 DEF Assertion
  <2>3. \E m, a : KeepSession(m, a)
    BY DEF Assertion
  <2> QED BY <1>2, <1>3, <2>2, <2>3, HandleKept
<1>5. CASE blamed'
  BY <1>4, <1>5, QuietDisturbed
<1>6. CASE ~blamed'
  <2>1. ~Disturb /\ ~blamed
    <3>1. Disturb => blamed'
      BY DEF Disturb
    <3>2. Undisturbed => blamed' = blamed
      BY DEF Undisturbed
    <3>3. Undisturbed \/ Disturb
      BY DEF Assertion, RefusePin
    <3> QED BY <1>6, <3>1, <3>2, <3>3
  <2>2. /\ Equipped /\ late = None /\ Bound(record)
        /\ op = "enrollManaged" => pc \notin CleanupStep
    BY <1>1, <2>1, QuietFacts, NoneAssumption
  <2>3. ~RefusePin(given)
    BY <1>1, <2>1, PinIsTaken
  <2>4. /\ HeldBy(dev) # {} /\ SupportsPolicy(dev)
        /\ pin = None => /\ pc = "evaluate" /\ op # "enrollManaged"
                         /\ record.policy = "presence"
    BY <1>1, <2>2, NoneAssumption DEF Equipped
  <2>5. given # None <=> AssertedPolicy = "uv"
    BY <1>1, <2>4 DEF AssertionPin, AssertedPolicy, Record, ExactPolicy
  <2>6. held # {}
    <3>1. \A c \in HeldBy(dev) : c.prot = NativeProtection(record.policy)
      BY <1>1, <2>2 DEF HeldBy, Bound
    <3>2. record.policy = "uv" => given # None
      BY <2>5 DEF AssertedPolicy
    <3>3. \A c \in HeldBy(dev) : c.prot = "required" => given # None
      BY <3>1, <3>2 DEF NativeProtection
    <3> QED BY <2>4, <3>3
  <2>7. ~unasked
    <3>1. ASSUME given = None
          PROVE  ~authenticator[dev].alwaysUv
      <4>1. pc = "evaluate" /\ record.policy # "uv"
        BY <2>5, <3>1 DEF AssertedPolicy
      <4>2. record.policy = "presence" /\ op \in {"enroll", "enrollManaged", "recover"}
        BY <1>1, <4>1 DEF Record, ExactPolicy, QuietOK
      <4> QED BY <2>4, <4>2 DEF SupportsPolicy
    <3> QED BY <3>1
  <2>8. settled /\ Conclude(HonestAnswer(uv, n), n) /\ KeepSession(n, late)
    BY <2>1, <2>2, <2>3, <2>6, <2>7 DEF Assertion
  <2>9. uv <=> AssertedPolicy = "uv"
    BY <2>5, <2>7
  <2>10. uv \in BOOLEAN
    OBVIOUS
  <2>11. PICK a : a = HonestAnswer(uv, n) /\ VerifiedSecret(a, AssertedPolicy, n)
    BY <1>1, <2>2, <2>9, <2>10, HonestIsAccepted
  <2>12. AfterAssertion
    BY <2>8, <2>11 DEF Conclude, VerifiedSecret
  <2>13. \/ pc' = "idle" /\ result' = "ok"
         \/ pc' = "inventory" /\ (pin = None => op = "recover")
    <3>1. op = "enrollManaged" => pc = "evaluate"
      BY <1>1, <2>2 DEF CleanupStep
    <3>2. CASE op = "enrollManaged"
      BY <2>4, <2>12, <3>1, <3>2 DEF AfterAssertion, Goto
    <3>3. CASE op \in {"enroll", "recover"}
      BY <2>12, <3>3 DEF AfterAssertion, Return
    <3>4. CASE op \notin {"enrollManaged", "enroll", "recover"}
      <4>1. pc' = "inventory"
        BY <2>12, <3>4 DEF AfterAssertion, Goto
      <4>2. pc = "proof"
        BY <1>1, <3>4 DEF QuietOK
      <4> QED BY <2>4, <4>1, <4>2
    <3> QED BY <3>2, <3>3, <3>4
  <2>14. CASE pc' = "idle" /\ result' = "ok"
    BY <1>4, <2>14, QuietEnds
  <2>15. CASE pc' = "inventory"
    <3>1. op # "recover" \/ pin # None
      BY <1>1, <2>4, <2>12, <2>15 DEF AfterAssertion, Return
    <3>2. pin # None
      BY <2>13, <2>15, <3>1
    <3>3. Equipped'
      BY <1>1, <1>4, <2>2, <2>8, <2>15, <3>2, StaysEquipped, NoneAssumption
    <3>4. late' = None
      BY <2>2, <2>8, <2>15, HandleKept
    <3> QED BY <1>1, <2>15, <3>3, <3>4, QuietGoesOn DEF CleanupStep
  <2> QED BY <2>13, <2>14, <2>15
<1> QED BY <1>5, <1>6

LEMMA InventoryIsQuiet ==
    ASSUME IInv, QuietOK, Inventory
    PROVE  QuietOK'
<1>1. /\ TypeOK /\ OpOK /\ pc \in {"inventory", "prepare"} /\ dev \in Device
      /\ op' = op /\ record' = record /\ record.id # None
  BY Facts DEF Inventory
<1>2. "AuthenticatorResponseInvalid" \in Failure /\ "Failed" \in Failure
      /\ PinError \in Failure /\ PinError # "none" /\ "CredentialUnavailable" \in Failure
  BY DEF Failure, PinError
<1>3. ASSUME NEW present, NEW e \in Failure \cup {"none"}, AfterInventory(present, e)
      PROVE  pc' \notin {"open", "ask", "evaluate"}
  <2>1. CASE \E f \in Failure : Fail(f)
    BY <1>1, <2>1, FailLeads DEF Busy
  <2>2. CASE ~(\E f \in Failure : Fail(f))
    BY <1>2, <1>3, <2>2 DEF AfterInventory, Done, Goto, Return
  <2> QED BY <2>1, <2>2
<1>4. /\ pc' \notin {"open", "ask", "evaluate"}
      /\ pc' \in {"idle", "open"} => late' = None
      /\ pc' \notin {"idle", "open"} => dev' = dev /\ pin' = pin
  <2>1. \E present \in BOOLEAN, e \in Failure \cup {"none"} : AfterInventory(present, e)
    BY <1>2 DEF Inventory
  <2>2. \E a : KeepSession(challenges, a)
    BY DEF Inventory
  <2> QED BY <1>3, <2>1, <2>2, HandleKept
<1>5. CASE blamed'
  BY <1>4, <1>5, QuietDisturbed
<1>6. CASE ~blamed'
  <2>1. ~Disturb /\ ~blamed
    <3>1. Disturb => blamed'
      BY DEF Disturb
    <3>2. Undisturbed => blamed' = blamed
      BY DEF Undisturbed
    <3>3. Undisturbed \/ Disturb
      BY DEF Inventory, RefusePin
    <3> QED BY <1>6, <3>1, <3>2, <3>3
  <2>2. Equipped /\ late = None /\ (op = "enrollManaged" => pc \notin CleanupStep)
    BY <1>1, <2>1, QuietFacts
  <2>3. ~RefusePin(pin)
    BY <1>1, <2>1, PinIsTaken
  <2>4. HeldBy(dev) # {} /\ pin # None
    BY <1>1, <2>2 DEF Equipped
  <2>5. /\ authenticator' = [authenticator EXCEPT ![dev] = AfterPin(@, pin)]
        /\ AfterInventory(HeldBy(dev) # {}, "none") /\ KeepSession(challenges, late)
    BY <2>1, <2>2, <2>3 DEF Inventory
  <2>6. \/ pc' = "idle" /\ result' = "ok"
        \/ /\ pc' \in {"proof", "delete"} /\ op # "enrollManaged"
    BY <1>1, <2>2, <2>4, <2>5 DEF AfterInventory, Goto, Return, CleanupStep
  <2>7. CASE pc' = "idle" /\ result' = "ok"
    BY <1>4, <2>7, QuietEnds
  <2>8. CASE pc' \in {"proof", "delete"} /\ op # "enrollManaged"
    <3>1. Equipped'
      BY <1>1, <1>4, <2>2, <2>4, <2>5, <2>8, StaysEquipped
    <3>2. late' = None
      BY <2>2, <2>5, <2>8, HandleKept
    <3> QED BY <1>1, <2>8, <3>1, <3>2, QuietGoesOn
  <2> QED BY <2>6, <2>7, <2>8
<1> QED BY <1>5, <1>6

LEMMA DeleteIsQuiet ==
    ASSUME IInv, QuietOK, Delete
    PROVE  QuietOK'
<1>1. /\ TypeOK /\ OpOK /\ pc = "delete" /\ dev \in Device
      /\ op' = op /\ record' = record /\ record.id # None
      /\ KeepSession(challenges, late)
  BY Facts DEF Delete
<1>2. {PinError, "Failed"} \subseteq Failure
  BY DEF Failure, PinError
<1>3. /\ pc' \notin {"open", "ask", "evaluate"}
      /\ pc' \in {"idle", "open"} => late' = None
      /\ pc' \notin {"idle", "open"} => dev' = dev /\ pin' = pin /\ late' = late
  <2>1. Goto("absence") \/ \E e \in Failure : Fail(e)
    BY <1>2 DEF Delete
  <2>2. pc' \notin {"open", "ask", "evaluate"}
    BY <1>1, <2>1, FailLeads DEF Goto, Busy
  <2> QED BY <1>1, <2>2, HandleKept
<1>4. CASE blamed'
  BY <1>3, <1>4, QuietDisturbed
<1>5. CASE ~blamed'
  <2>1. ~Disturb /\ ~blamed
    <3>1. Disturb => blamed'
      BY DEF Disturb
    <3>2. Undisturbed => blamed' = blamed
      BY DEF Undisturbed
    <3>3. Undisturbed \/ Disturb
      BY DEF Delete, RefusePin
    <3> QED BY <1>5, <3>1, <3>2, <3>3
  <2>2. Equipped /\ late = None /\ (op = "enrollManaged" => pc \notin CleanupStep)
    BY <1>1, <2>1, QuietFacts
  <2>3. ~RefusePin(pin)
    BY <1>1, <2>1, PinIsTaken
  <2>4. pin = authenticator[dev].pin /\ pin # None
        /\ authenticator[dev].retries > 0 /\ SupportsPolicy(dev)
    BY <1>1, <2>2 DEF Equipped
  <2>5. PICK removed \in {{}, HeldBy(dev)} :
           /\ authenticator' = [authenticator EXCEPT ![dev] =
                  Without(AfterPin(@, pin), removed)]
           /\ removed = HeldBy(dev) /\ Goto("absence")
    BY <2>1, <2>3 DEF Delete
  <2>6. PICK a \in Authenticator : a = AfterPin(authenticator[dev], pin)
    BY <1>1, PinSettles
  <2>7. a.creds = authenticator[dev].creds
    BY <1>1, <2>6, PinSettles
  <2>8. authenticator' = [authenticator EXCEPT ![dev] = Without(a, removed)]
    BY <2>5, <2>6
  <2>9. authenticator'[dev] = Without(a, removed)
    BY <1>1, <2>8 DEF TypeOK
  <2>10. /\ a.retries = MaxRetries /\ a.pin = pin
         /\ a.alwaysUv = authenticator[dev].alwaysUv
    <3>1. PICK b \in Authenticator : b = authenticator[dev]
      BY <1>1 DEF TypeOK
    <3>2. a = AfterPin(b, pin) /\ b.pin = pin
      BY <2>4, <2>6, <3>1
    <3> QED BY <2>4, <3>1, <3>2 DEF AfterPin, Authenticator
  <2>11. /\ authenticator'[dev].retries > 0 /\ authenticator'[dev].pin = pin
         /\ authenticator'[dev].alwaysUv = authenticator[dev].alwaysUv
         /\ authenticator'[dev].creds = authenticator[dev].creds \ HeldBy(dev)
    BY <2>5, <2>7, <2>9, <2>10, RetriesAssumption DEF Without, Authenticator
  <2>12. pc' = "absence" /\ dev' = dev /\ pin' = pin /\ late' = None
    BY <1>3, <2>2, <2>5 DEF Goto
  <2>13. HeldBy(dev)' = {}
    BY <1>1, <2>11, <2>12 DEF HeldBy
  <2>14. SupportsPolicy(dev)'
    BY <1>1, <2>4, <2>11, <2>12 DEF SupportsPolicy
  <2>15. Equipped'
    BY <2>4, <2>11, <2>12, <2>13, <2>14 DEF Equipped
  <2>16. op # "enrollManaged"
    BY <1>1, <2>2 DEF CleanupStep
  <2> QED BY <1>1, <2>12, <2>15, <2>16, QuietGoesOn
<1> QED BY <1>4, <1>5

LEMMA AbsenceIsQuiet ==
    ASSUME IInv, QuietOK, Absence
    PROVE  QuietOK'
<1>1. /\ TypeOK /\ OpOK /\ pc = "absence" /\ dev \in Device
      /\ op' = op /\ record' = record /\ record.id # None
      /\ KeepSession(challenges, late)
  BY Facts DEF Absence
<1>2. {"Failed", "RetirementUncertain"} \subseteq Failure
  BY DEF Failure
<1>3. pc' = "idle" /\ late' = None
  <2>1. Done \/ \E e \in Failure : Fail(e)
    BY <1>2 DEF Absence
  <2>2. pc' = "idle"
    BY <1>1, <2>1, FailLeads DEF Done, Return, Busy
  <2> QED BY <1>1, <2>2, HandleKept
<1>4. CASE blamed'
  BY <1>3, <1>4, QuietDisturbed
<1>5. CASE ~blamed'
  <2>1. ~Disturb /\ ~blamed
    <3>1. Disturb => blamed'
      BY DEF Disturb
    <3>2. Undisturbed => blamed' = blamed
      BY DEF Undisturbed
    <3>3. Undisturbed \/ Disturb
      BY DEF Absence, RefusePin
    <3> QED BY <1>5, <3>1, <3>2, <3>3
  <2>2. Equipped /\ op # "enrollManaged"
    BY <1>1, <2>1, QuietFacts DEF CleanupStep
  <2>3. ~RefusePin(pin)
    BY <1>1, <2>1, PinIsTaken
  <2>4. HeldBy(dev) = {}
    BY <1>1, <2>2 DEF Equipped
  <2>5. Done
    BY <2>1, <2>3, <2>4 DEF Absence
  <2> QED BY <1>3, <2>2, <2>5, QuietEnds DEF Done, Return
<1> QED BY <1>4, <1>5

LEMMA ForeignChangeIsQuiet ==
    ASSUME IInv, QuietOK, ForeignChange
    PROVE  QuietOK'
BY DEF ForeignChange, Disturb, session, QuietOK

LEMMA NextIsQuiet == IInv /\ QuietOK /\ [Next]_vars => QuietOK'
<1> SUFFICES ASSUME IInv, QuietOK, [Next]_vars PROVE QuietOK'
  OBVIOUS
<1>1. CASE Next
  BY <1>1, EnrollIsQuiet, UseIsQuiet, OpenIsQuiet, AskIsQuiet, MakeCredentialIsQuiet,
     AssertionIsQuiet, InventoryIsQuiet, DeleteIsQuiet, AbsenceIsQuiet,
     ForeignChangeIsQuiet
     DEF Next
<1>2. CASE UNCHANGED vars
  <2>1. UNCHANGED <<pc, op, record, late, blamed, result, authenticator, dev, pin>>
    BY <1>2 DEF vars, session
  <2>2. /\ UndisturbedSucceeds' = UndisturbedSucceeds
        /\ HeldBy(dev)' = HeldBy(dev) /\ SupportsPolicy(dev)' = SupportsPolicy(dev)
    BY <2>1 DEF UndisturbedSucceeds, HeldBy, SupportsPolicy
  <2>3. Equipped' = Equipped
    BY <2>1, <2>2 DEF Equipped
  <2> QED BY <2>1, <2>2, <2>3 DEF QuietOK
<1> QED BY <1>1, <1>2

\* Whatever the devices, credentials and PINs: an operation whose user chose
\* the right authenticator and PIN, and during which nothing went wrong, never
\* ends in an error.  A record that was returned can therefore be recovered,
\* verified and retired.
THEOREM UndisturbedOperations == Spec => []UndisturbedSucceeds
<1>1. Init => QuietOK
  BY DEF Init, QuietOK, UndisturbedSucceeds, CleanupStep
<1>2. QuietOK => UndisturbedSucceeds
  BY DEF QuietOK, UndisturbedSucceeds
<1> QED BY <1>1, <1>2, InductiveInvariant, NextIsQuiet, PTL DEF Spec

-----------------------------------------------------------------------------
(***************************************************************************)
(* TouchSelection: capabilities.                                           *)
(***************************************************************************)

\* What a device is kept for, it does not refuse.
LEMMA KeptIsAccepted ==
    ASSUME NEW f \in SUBSET Feature, NEW r \in Request, Supports(f, r)
    PROVE  Accepts(f, r)
<1>1. r.op \in {"enroll", "evaluate", "enrollManaged", "manage"}
  BY DEF Request
<1>2. CASE r.op = "enroll"
  BY <1>2 DEF Supports, Accepts
<1>3. CASE r.op = "evaluate"
  BY <1>3 DEF Supports, Accepts, FitsPolicy
<1>4. CASE r.op = "enrollManaged"
  BY <1>4 DEF Supports, Accepts, SupportsManagedEnrollment, FitsPolicy
<1>5. CASE r.op = "manage"
  BY <1>5 DEF Supports, Accepts
<1> QED BY <1>1, <1>2, <1>3, <1>4, <1>5

LEMMA SituationTyped ==
    ASSUME SelectionTypeOK
    PROVE  /\ features \in Seq(SUBSET Feature) /\ request \in Request
           /\ Connected = 1 .. Len(features) /\ Len(features) \in Nat
           /\ \A d \in Connected : features[d] \in SUBSET Feature /\ d \in Nat /\ d # Unset
<1>1. features \in Seq(SUBSET Feature) /\ request \in Request
  BY SituationsAssumption DEF SelectionTypeOK
<1> QED BY <1>1, TimeAssumption DEF Connected

\* A device that can be enrolled can later be evaluated and managed.
LEMMA EnrolledCanBeUsed ==
    ASSUME NEW f \in SUBSET Feature, NEW p \in Policy, NEW o \in {"evaluate", "manage"},
           Supports(f, [op |-> "enrollManaged", policy |-> p])
    PROVE  Supports(f, [op |-> o, policy |-> p])
<1>1. SupportsManagedEnrollment(f, p)
  BY DEF Supports
<1>2. SupportsManagement(f) /\ FitsPolicy(f, p)
  BY <1>1 DEF SupportsManagedEnrollment
<1>3. CASE o = "evaluate"
  BY <1>2, <1>3 DEF Supports
<1>4. CASE o = "manage"
  BY <1>2, <1>4 DEF Supports
<1> QED BY <1>3, <1>4

\* A device without an issue has everything but permanent verification.
LEMMA NothingReported ==
    ASSUME NEW f \in SUBSET Feature
    PROVE  Reported(f) = {} <=> Feature \ {"alwaysUv"} \subseteq f /\ "alwaysUv" \notin f
<1>1. ASSUME Reported(f) = {} PROVE Feature \ {"alwaysUv"} \subseteq f /\ "alwaysUv" \notin f
  <2>1. /\ Feature \ (f \cup {"alwaysUv", "pinConfigured"}) = {}
        /\ {i \in {"pinConfigured"} : "pinSupported" \in f /\ i \notin f} = {}
        /\ f \cap {"alwaysUv"} = {}
    BY <1>1 DEF Reported
  <2>2. "pinSupported" \in f
    BY <2>1 DEF Feature
  <2>3. "pinConfigured" \in f
    BY <2>1, <2>2
  <2> QED BY <2>1, <2>3
<1>2. ASSUME Feature \ {"alwaysUv"} \subseteq f, "alwaysUv" \notin f PROVE Reported(f) = {}
  <2>1. "pinConfigured" \in f
    BY <1>2 DEF Feature
  <2> QED BY <1>2, <2>1 DEF Reported
<1> QED BY <1>1, <1>2

LEMMA ServesEverything ==
    ASSUME NEW f \in SUBSET Feature
    PROVE  (\A r \in Request : Supports(f, r))
                <=> Feature \ {"alwaysUv"} \subseteq f /\ "alwaysUv" \notin f
<1> DEFINE r0 == [op |-> "enrollManaged", policy |-> "presence"]
<1>1. ASSUME \A r \in Request : Supports(f, r)
      PROVE  Feature \ {"alwaysUv"} \subseteq f /\ "alwaysUv" \notin f
  <2>1. r0 \in Request
    BY DEF Request, Policy
  <2>2. Supports(f, r0)
    BY <1>1, <2>1
  <2>3. SupportsManagedEnrollment(f, "presence")
    BY <2>2 DEF Supports
  <2> QED BY <2>3 DEF SupportsManagedEnrollment, SupportsManagement, FitsPolicy,
                      Compatible, Feature
<1>2. ASSUME Feature \ {"alwaysUv"} \subseteq f, "alwaysUv" \notin f, NEW r \in Request
      PROVE  Supports(f, r)
  <2>1. \A p \in Policy : FitsPolicy(f, p)
    BY <1>2 DEF FitsPolicy, Compatible, Feature
  <2>2. SupportsManagement(f)
    BY <1>2 DEF SupportsManagement, Feature
  <2>3. \A p \in Policy : SupportsManagedEnrollment(f, p)
    BY <1>2, <2>1, <2>2 DEF SupportsManagedEnrollment, Feature
  <2>4. r.op \in {"enroll", "evaluate", "enrollManaged", "manage"} /\ r.policy \in Policy
    BY DEF Request
  <2> QED BY <2>1, <2>2, <2>3, <2>4 DEF Supports
<1> QED BY <1>1, <1>2

-----------------------------------------------------------------------------
(***************************************************************************)
(* TouchSelection: arithmetic of polls.                                    *)
(***************************************************************************)

LEMMA PollsAdd ==
    ASSUME NEW a \in Nat, NEW b \in Nat, a <= b
    PROVE  /\ a * Poll \in Nat /\ Poll \in Nat
           /\ (a + 1) * Poll = a * Poll + Poll
           /\ a * Poll <= b * Poll
BY TimeAssumption

LEMMA GreaterIs ==
    ASSUME NEW a \in Nat, NEW b \in Nat
    PROVE  Greater(a, b) \in Nat /\ a <= Greater(a, b) /\ b <= Greater(a, b)
BY DEF Greater

\* The position that is polled next.
LEMMA NextTurn ==
    ASSUME NEW n \in Nat, n > 1, NEW c \in 1 .. n
    PROVE  (c % n) + 1 = IF c = n THEN 1 ELSE c + 1
<1>1. CASE c = n
  BY <1>1
<1>2. CASE c < n
  BY <1>2
<1> QED BY <1>1, <1>2

-----------------------------------------------------------------------------
(***************************************************************************)
(* TouchSelection: the steps of a selection.                               *)
(***************************************************************************)

\* The open devices are connected, and none is listed twice.
LEMMA KeptTyped ==
    ASSUME SelectionTypeOK, DevicesOK
    PROVE  /\ Len(devices) \in Nat /\ DOMAIN devices = 1 .. Len(devices)
           /\ \A i \in DOMAIN devices : devices[i] \in Connected
           /\ Kept \subseteq Connected
           /\ \A i, j \in DOMAIN devices : devices[i] = devices[j] => i = j
           /\ Len(devices) > 0 => next \in 1 .. Len(devices) /\ Chosen \in Kept
<1>1. devices \in Seq(Connected) /\ next \in 1 .. Greater(Len(devices), 1)
  BY DEF SelectionTypeOK
<1>2. /\ Len(devices) \in Nat /\ DOMAIN devices = 1 .. Len(devices)
      /\ \A i \in DOMAIN devices : devices[i] \in Connected
  BY <1>1
<1>3. ASSUME NEW i \in DOMAIN devices, NEW j \in DOMAIN devices, devices[i] = devices[j]
      PROVE  i = j
  <2>1. devices[i] \in Nat
    BY <1>2, SituationTyped
  <2>2. i \in Nat /\ j \in Nat
    BY <1>2
  <2>3. ~(i < j) /\ ~(j < i)
    BY <1>3, <2>1 DEF DevicesOK
  <2> QED BY <2>2, <2>3
<1>4. Len(devices) > 0 => next \in 1 .. Len(devices)
  BY <1>1, <1>2 DEF Greater
<1> QED BY <1>2, <1>3, <1>4 DEF Kept, Chosen

LEMMA SameKept ==
    UNCHANGED <<features, devices>> => Kept' = Kept /\ Connected' = Connected
BY DEF Kept, Connected

LEMMA SameDevices ==
    DevicesOK /\ UNCHANGED <<features, request, devices, asking, touched, now>> => DevicesOK'
<1> SUFFICES ASSUME DevicesOK, UNCHANGED <<features, request, devices, asking, touched, now>>
             PROVE  DevicesOK'
  OBVIOUS
<1>1. Kept' = Kept /\ Connected' = Connected
  BY SameKept
<1> QED BY <1>1 DEF DevicesOK

\* Steps of the thread before a device is asked: the devices are listed, the
\* user is told to choose, or the only device is taken.
LEMMA DiscoverKeeps ==
    ASSUME SelectionInv, Discover \/ DiscoveryFails
    PROVE  SelectionInv'
<1>0. /\ SelectionTypeOK /\ DevicesOK /\ StageOK /\ WaitOK
      /\ SelectionIsBounded /\ TouchIsNoticed /\ SelectionIsClean /\ SelectedServes
  BY DEF SelectionInv
<1>1. /\ stage = "discover" /\ deadline = Unset /\ asked = Unset /\ asking = {}
      /\ selected = Unset /\ devices = <<>> /\ outcome = "none"
      /\ UNCHANGED <<features, request, next, now, deadline, until, asking, touched,
                     prompted, selected, asked>>
  BY <1>0 DEF Discover, DiscoveryFails, StageOK, clock, handles
<1>2. \A d \in Connected : touched[d] = Unset
  BY <1>0, <1>1 DEF DevicesOK, Kept
<1>3. TouchIsNoticed' /\ SelectionIsBounded' /\ WaitOK'
  BY <1>0, <1>1 DEF TouchIsNoticed, SelectionIsBounded, WaitOK, Discover, DiscoveryFails, End
<1>4. CASE DiscoveryFails
  <2>1. stage' = "done" /\ outcome' = "Unavailable" /\ UNCHANGED <<devices, timeout>>
    BY <1>4 DEF DiscoveryFails, End, handles
  <2>2. SelectionTypeOK'
    BY <1>0, <1>1, <2>1 DEF SelectionTypeOK, Connected
  <2>3. DevicesOK' /\ StageOK'
    BY <1>0, <1>1, <2>1 DEF DevicesOK, StageOK, Kept, Connected
  <2>4. SelectionIsClean' /\ SelectedServes'
    BY <1>1, <2>1 DEF SelectionIsClean, SelectedIsReady, NoRequestIsLeft, SelectedServes
  <2> QED BY <1>3, <2>2, <2>3, <2>4 DEF SelectionInv
<1>5. CASE Discover
  <2>1. PICK failed \in SUBSET Connected :
        LET fit == {d \in Connected \ failed : Supports(features[d], request)}
        IN \E kept \in InOrder(fit) :
           /\ devices' = kept
           /\ timeout' = [d \in Connected |-> IF d \in fit THEN OperationTimeout ELSE Unset]
           /\ \/ Connected = {} /\ End("NoAuthenticators")
              \/ Connected # {} /\ kept = <<>> /\ failed # {} /\ End("Unavailable")
              \/ Connected # {} /\ kept = <<>> /\ failed = {} /\ End("NoCompatible")
              \/ Len(kept) = 1 /\ stage' = "select" /\ UNCHANGED outcome
              \/ Len(kept) > 1 /\ stage' = "prompt" /\ UNCHANGED outcome
    BY <1>5 DEF Discover
  <2> DEFINE fit == {d \in Connected \ failed : Supports(features[d], request)}
  <2>2. PICK kept \in InOrder(fit) :
           /\ devices' = kept
           /\ timeout' = [d \in Connected |-> IF d \in fit THEN OperationTimeout ELSE Unset]
           /\ \/ /\ stage' = "done"
                 /\ outcome' \in {"NoAuthenticators", "Unavailable", "NoCompatible"}
              \/ Len(kept) = 1 /\ stage' = "select" /\ UNCHANGED outcome
              \/ Len(kept) > 1 /\ stage' = "prompt" /\ UNCHANGED outcome
    BY <2>1 DEF End
  <2>3. /\ kept \in Seq(Connected) /\ Len(kept) \in Nat
        /\ \A i \in DOMAIN kept : kept[i] \in fit
        /\ \A i, j \in DOMAIN kept : i < j => kept[i] < kept[j]
    <3>0. /\ kept \in UNION {[1..n -> fit] : n \in 0..Len(features)}
          /\ \A i, j \in DOMAIN kept : i < j => kept[i] < kept[j]
      BY DEF InOrder
    <3>1. PICK n \in 0..Len(features) : kept \in [1..n -> fit]
      BY <3>0
    <3>2. n \in Nat
      BY <1>0, SituationTyped
    <3>3. kept \in Seq(fit)
      BY <3>1, <3>2
    <3>4. DOMAIN kept = 1..n /\ Len(kept) = n
      BY <3>1, <3>2
    <3>5. kept \in [1..n -> Connected]
      BY <3>1
    <3>6. kept \in Seq(Connected)
      BY <3>2, <3>5
    <3> HIDE DEF fit
    <3> QED BY <3>0, <3>1, <3>2, <3>4, <3>6
  <2>4. SelectionTypeOK'
    <3>1. timeout' \in [Connected -> Time]
      BY <2>2, TimeAssumption DEF Time
    <3>2. next \in 1 .. Greater(Len(kept), 1)
      <4>1. next = 1
        BY <1>0, <1>1 DEF SelectionTypeOK, Greater
      <4> QED BY <2>3, <4>1 DEF Greater
    <3>3. stage' \in {"done", "select", "prompt"}
          /\ outcome' \in {"none", "NoAuthenticators", "Unavailable", "NoCompatible"}
      BY <1>1, <2>2
    <3>4. devices' \in Seq(Connected)
      BY <2>2, <2>3
    <3> QED BY <1>0, <1>1, <2>2, <3>1, <3>2, <3>3, <3>4 DEF SelectionTypeOK, Connected
  <2>5. DevicesOK'
    BY <1>1, <1>2, <2>2, <2>3 DEF DevicesOK, Kept, Connected
  <2>6. StageOK'
    <3>1. stage' = "select" => \A i \in DOMAIN kept : timeout'[kept[i]] = OperationTimeout
      BY <2>2, <2>3
    <3> QED BY <1>1, <2>2, <2>3, <3>1 DEF StageOK, Kept
  <2>7. SelectionIsClean' /\ SelectedServes'
    BY <1>1, <2>2 DEF SelectionIsClean, SelectedIsReady, NoRequestIsLeft, SelectedServes
  <2> QED BY <1>3, <2>4, <2>5, <2>6, <2>7 DEF SelectionInv
<1> QED BY <1>4, <1>5

LEMMA PromptKeeps ==
    ASSUME SelectionInv, Prompt
    PROVE  SelectionInv'
<1>0. /\ SelectionTypeOK /\ DevicesOK /\ StageOK /\ WaitOK
      /\ SelectionIsBounded /\ TouchIsNoticed /\ SelectionIsClean /\ SelectedServes
  BY DEF SelectionInv
<1>1. /\ stage = "prompt" /\ asked = Unset /\ asking = {} /\ selected = Unset
      /\ deadline = Unset /\ outcome = "none" /\ Len(devices) > 1
      /\ UNCHANGED <<features, request, devices, timeout, next, now, until, asking,
                     touched, selected, asked>>
  BY <1>0 DEF Prompt, StageOK, handles
<1>2. \/ stage' = "done" /\ outcome' = "Interaction" /\ UNCHANGED <<deadline, prompted>>
      \/ /\ stage' = "ask" /\ prompted' = TRUE /\ deadline' = now + SelectionTimeout
         /\ UNCHANGED outcome
  BY DEF Prompt, End
<1>3. now \in Nat /\ SelectionTimeout \in Nat /\ Unset \notin Nat
  BY <1>0, TimeAssumption DEF SelectionTypeOK
<1>4. SelectionTypeOK'
  <2>1. prompted' \in BOOLEAN
    BY <1>0, <1>2 DEF SelectionTypeOK
  <2>2. deadline' \in Time
    BY <1>0, <1>2, <1>3 DEF SelectionTypeOK, Time
  <2>3. stage' \in {"done", "ask"} /\ outcome' \in {"none", "Interaction"}
    BY <1>1, <1>2
  <2> QED BY <1>0, <1>1, <2>1, <2>2, <2>3 DEF SelectionTypeOK, Connected
<1>5. DevicesOK'
  BY <1>0, <1>1, SameDevices
<1>6. StageOK'
  BY <1>0, <1>1, <1>2, <1>3 DEF StageOK
<1>7. WaitOK' /\ TouchIsNoticed'
  BY <1>1, <1>2 DEF WaitOK, TouchIsNoticed
<1>8. SelectionIsBounded'
  BY <1>0, <1>1, <1>2, <1>3 DEF SelectionIsBounded
<1>9. SelectionIsClean' /\ SelectedServes'
  BY <1>1, <1>2 DEF SelectionIsClean, SelectedIsReady, NoRequestIsLeft, SelectedServes
<1> QED BY <1>4, <1>5, <1>6, <1>7, <1>8, <1>9 DEF SelectionInv

LEMMA SelectOnlyKeeps ==
    ASSUME SelectionInv, SelectOnly
    PROVE  SelectionInv'
<1>0. /\ SelectionTypeOK /\ DevicesOK /\ StageOK /\ WaitOK
      /\ SelectionIsBounded /\ TouchIsNoticed /\ SelectionIsClean /\ SelectedServes
  BY DEF SelectionInv
<1>1. /\ stage = "select" /\ asked = Unset /\ asking = {} /\ deadline = Unset
      /\ outcome = "none" /\ Len(devices) = 1
      /\ \A d \in Kept : timeout[d] = OperationTimeout
      /\ stage' = "operate" /\ selected' = devices[1]
      /\ UNCHANGED <<features, request, devices, timeout, next, now, deadline, until, asking,
                     touched, prompted, outcome, asked>>
  BY <1>0 DEF SelectOnly, StageOK, handles, clock
<1>2. devices[1] \in Kept /\ devices[1] \in Connected /\ devices[1] # Unset
  BY <1>0, <1>1, KeptTyped, SituationTyped DEF Kept
<1>3. SelectionTypeOK'
  BY <1>0, <1>1, <1>2 DEF SelectionTypeOK, Connected
<1>4. DevicesOK'
  BY <1>0, <1>1, SameDevices
<1>5. StageOK'
  BY <1>0, <1>1, <1>2 DEF StageOK
<1>6. WaitOK' /\ TouchIsNoticed' /\ SelectionIsBounded'
  BY <1>0, <1>1 DEF WaitOK, TouchIsNoticed, SelectionIsBounded
<1>7. SelectionIsClean' /\ SelectedServes'
  <2>1. Supports(features[devices[1]], request)
    BY <1>0, <1>2 DEF DevicesOK
  <2>2. Supports(features'[selected'], request')
    BY <1>1, <2>1
  <2>3. timeout'[selected'] = OperationTimeout
    BY <1>1, <1>2
  <2>4. ~(Len(devices') > 1)
    BY <1>1
  <2>5. SelectedIsReady'
    BY <2>2, <2>3, <2>4, Zenon DEF SelectedIsReady
  <2> QED BY <1>1, <2>5 DEF SelectionIsClean, NoRequestIsLeft, SelectedServes
<1> QED BY <1>3, <1>4, <1>5, <1>6, <1>7 DEF SelectionInv

\* The loop that asks every device for a touch takes at most one tick more than
\* the selection has left.
LEMMA AskForTouchKeeps ==
    ASSUME SelectionInv, AskForTouch
    PROVE  SelectionInv'
<1>0. /\ SelectionTypeOK /\ DevicesOK /\ StageOK /\ WaitOK
      /\ SelectionIsBounded /\ TouchIsNoticed /\ SelectionIsClean /\ SelectedServes
  BY DEF SelectionInv
<1>1. /\ stage = "ask" /\ asked = Unset /\ selected = Unset /\ deadline \in Nat
      /\ outcome = "none" /\ Len(devices) > 1 /\ prompted
      /\ UNCHANGED <<features, request, devices, deadline, until, touched, prompted, selected>>
  BY <1>0 DEF AskForTouch, StageOK
<1>2. /\ now \in Nat /\ Unset \notin Nat /\ asking \subseteq Kept
      /\ Len(devices) \in Nat /\ next \in 1 .. Len(devices)
      /\ Chosen \in Kept /\ Kept \subseteq Connected
      /\ timeout \in [Connected -> Time]
  BY <1>0, <1>1, KeptTyped, TimeAssumption DEF SelectionTypeOK, DevicesOK
<1>3. Connected' = Connected /\ Kept' = Kept
  BY <1>1, SameKept
<1>4. prompted' \in BOOLEAN /\ (prompted <=> prompted')
  BY <1>0, <1>1 DEF SelectionTypeOK
<1>5. CASE /\ deadline - now < 0 /\ End("TimedOut")
           /\ UNCHANGED <<timeout, next, now, asking, asked>>
  <2>1. stage' = "done" /\ outcome' = "TimedOut"
    BY <1>5 DEF End
  <2>2. SelectionTypeOK'
    BY <1>0, <1>1, <1>3, <1>4, <1>5, <2>1 DEF SelectionTypeOK
  <2>3. DevicesOK'
    BY <1>0, <1>1, <1>5, SameDevices
  <2>4. StageOK' /\ WaitOK' /\ TouchIsNoticed' /\ SelectionIsBounded'
    BY <1>0, <1>1, <1>5, <2>1 DEF StageOK, WaitOK, TouchIsNoticed, SelectionIsBounded
  <2>5. SelectionIsClean' /\ SelectedServes'
    BY <1>1, <1>5, <2>1 DEF SelectionIsClean, SelectedIsReady, NoRequestIsLeft, SelectedServes
  <2> QED BY <2>2, <2>3, <2>4, <2>5 DEF SelectionInv
<1>6. CASE /\ deadline - now >= 0
           /\ timeout' = [timeout EXCEPT ![Chosen] = Greater(deadline - now, 1)]
           /\ now' \in now..(now + Greater(deadline - now, 1))
           /\ \/ End("Transport") /\ asking' = {} /\ UNCHANGED <<next, asked>>
              \/ /\ asking' = asking \cup {Chosen}
                 /\ \/ next < Len(devices) /\ next' = next + 1 /\ UNCHANGED <<stage, asked>>
                    \/ next = Len(devices) /\ next' = 1 /\ stage' = "poll" /\ asked' = now'
                 /\ UNCHANGED outcome
  <2>1. now' \in Nat /\ now <= now' /\ now' <= deadline + 1
    BY <1>1, <1>2, <1>6 DEF Greater
  <2>2. timeout' \in [Connected -> Time]
    <3>1. Greater(deadline - now, 1) \in Time
      BY <1>1, <1>2, <1>6 DEF Greater, Time
    <3> QED BY <1>2, <1>6, <3>1
  <2>3. asking' \subseteq Kept
    BY <1>2, <1>6
  <2>4. next' \in 1 .. Len(devices) /\ (asked' = Unset \/ asked' = now')
    BY <1>1, <1>2, <1>6
  <2>5. \/ stage' = "done" /\ outcome' = "Transport" /\ asked' = Unset /\ asking' = {}
        \/ stage' = "ask" /\ outcome' = "none" /\ asked' = Unset
        \/ stage' = "poll" /\ outcome' = "none" /\ asked' = now'
    BY <1>1, <1>6 DEF End
  <2>6. SelectionTypeOK'
    <3>1. next' \in 1 .. Greater(Len(devices'), 1)
      BY <1>1, <1>2, <2>4 DEF Greater
    <3>2. asked' \in Time /\ asking' \subseteq Connected
      BY <1>2, <2>1, <2>3, <2>4 DEF Time
    <3>3. stage' \in {"done", "ask", "poll"} /\ outcome' \in {"none", "Transport"}
      BY <2>5
    <3> QED BY <1>0, <1>1, <1>3, <1>4, <2>1, <2>2, <3>1, <3>2, <3>3 DEF SelectionTypeOK
  <2>7. DevicesOK'
    <3>1. \A d \in Connected : touched[d] # Unset => d \in Kept /\ touched[d] <= now'
      <4> SUFFICES ASSUME NEW d \in Connected, touched[d] # Unset
                   PROVE  d \in Kept /\ touched[d] <= now'
        OBVIOUS
      <4>1. touched[d] \in Nat /\ touched[d] <= now /\ d \in Kept
        BY <1>0 DEF DevicesOK, SelectionTypeOK, Time
      <4> QED BY <1>2, <2>1, <4>1
    <3>2. /\ \A d \in Kept : Supports(features'[d], request')
          /\ \A i, j \in DOMAIN devices' : i < j => devices'[i] < devices'[j]
      BY <1>0, <1>1 DEF DevicesOK
    <3>3. touched' = touched
      BY <1>1
    <3> QED BY <1>3, <2>3, <3>1, <3>2, <3>3 DEF DevicesOK
  <2>8. StageOK'
    BY <1>1, <1>2, <1>4, <2>1, <2>5 DEF StageOK
  <2>9. WaitOK'
    <3> SUFFICES ASSUME stage' = "poll", NEW i \in DOMAIN devices, touched[devices[i]] # Unset
                 PROVE  now' - Since(devices[i])' <= Turns(i)' * Poll
      BY <1>1, <2>5 DEF WaitOK
    <3>1. asked' = now'
      BY <2>5
    <3>2. touched[devices[i]] \in Nat /\ i \in 1 .. Len(devices)
      BY <1>0, KeptTyped DEF SelectionTypeOK, Time
    <3> DEFINE since == Greater(touched[devices[i]], now')
    <3>3. Since(devices[i])' = since
      BY <1>1, <3>1 DEF Since
    <3>6. since \in Nat /\ now' <= since
      BY <2>1, <3>2, GreaterIs
    <3>4. Turns(i)' \in Nat
      <4>1. Turns(i)' = IF i < next' THEN next' - 1 - i ELSE Len(devices) + next' - 1 - i
        BY <1>1 DEF Turns
      <4> QED BY <1>2, <2>4, <3>2, <4>1
    <3>5. Turns(i)' * Poll \in Nat
      BY <3>4, PollsAdd
    <3> HIDE DEF since
    <3>7. now' - since <= Turns(i)' * Poll
      BY <2>1, <3>5, <3>6
    <3> QED BY <3>3, <3>7
  <2>10. SelectionIsBounded' /\ TouchIsNoticed'
    BY <1>1, <2>1, <2>5 DEF SelectionIsBounded, TouchIsNoticed
  <2>11. SelectionIsClean' /\ SelectedServes'
    BY <1>1, <2>5 DEF SelectionIsClean, SelectedIsReady, NoRequestIsLeft, SelectedServes
  <2> QED BY <2>6, <2>7, <2>8, <2>9, <2>10, <2>11 DEF SelectionInv
<1>7. \/ /\ deadline - now < 0 /\ End("TimedOut")
         /\ UNCHANGED <<timeout, next, now, asking, asked>>
      \/ /\ deadline - now >= 0
         /\ timeout' = [timeout EXCEPT ![Chosen] = Greater(deadline - now, 1)]
         /\ now' \in now..(now + Greater(deadline - now, 1))
         /\ \/ End("Transport") /\ asking' = {} /\ UNCHANGED <<next, asked>>
            \/ /\ asking' = asking \cup {Chosen}
               /\ \/ next < Len(devices) /\ next' = next + 1 /\ UNCHANGED <<stage, asked>>
                  \/ next = Len(devices) /\ next' = 1 /\ stage' = "poll" /\ asked' = now'
               /\ UNCHANGED outcome
  BY DEF AskForTouch
<1> QED BY <1>5, <1>6, <1>7

\* Where the thread is while it polls.
LEMMA Polling ==
    ASSUME SelectionInv, stage \in {"poll", "wait"}
    PROVE  /\ SelectionTypeOK /\ DevicesOK /\ StageOK /\ WaitOK
           /\ deadline \in Nat /\ asked \in Nat /\ asked <= now /\ selected = Unset
           /\ prompted /\ outcome = "none"
           /\ now \in Nat /\ until \in Nat /\ Poll \in Nat \ {0} /\ Unset \notin Nat
           /\ Len(devices) \in Nat /\ Len(devices) > 1 /\ next \in 1 .. Len(devices)
           /\ DOMAIN devices = 1 .. Len(devices)
           /\ Chosen \in Kept /\ Kept \subseteq Connected /\ Chosen # Unset
           /\ now <= deadline + 1
           /\ \A d \in Connected : touched[d] # Unset => touched[d] \in Nat
<1>1. /\ SelectionTypeOK /\ DevicesOK /\ StageOK /\ WaitOK /\ SelectionIsBounded
  BY DEF SelectionInv
<1>2. /\ deadline \in Nat /\ asked \in Nat /\ selected = Unset /\ prompted /\ outcome = "none"
      /\ Len(devices) > 1
  BY <1>1 DEF StageOK
<1>3. Poll \in Nat \ {0} /\ Unset \notin Nat
  BY TimeAssumption
<1>4. asked <= now /\ now <= deadline + 1
  BY <1>1, <1>2, <1>3 DEF StageOK, SelectionIsBounded
<1>5. now \in Nat /\ until \in Nat /\ \A d \in Connected : touched[d] # Unset => touched[d] \in Nat
  BY <1>1 DEF SelectionTypeOK, Time
<1>6. /\ Len(devices) \in Nat /\ next \in 1 .. Len(devices) /\ DOMAIN devices = 1 .. Len(devices)
      /\ Chosen \in Kept /\ Kept \subseteq Connected
  BY <1>1, <1>2, KeptTyped
<1>7. Chosen # Unset
  BY <1>1, <1>6, SituationTyped
<1> QED BY <1>1, <1>2, <1>3, <1>4, <1>5, <1>6, <1>7

\* The turns since a device was polled, of which there are fewer than devices.
LEMMA TurnsBounded ==
    ASSUME Len(devices) \in Nat, next \in 1 .. Len(devices), NEW i \in 1 .. Len(devices)
    PROVE  /\ Turns(i) \in Nat /\ Turns(i) <= Len(devices) - 1
           /\ i # next => Turns(i) + 1 <= Len(devices) - 1
BY DEF Turns

LEMMA SinceTyped ==
    ASSUME NEW d, touched[d] \in Nat, asked \in Nat
    PROVE  Since(d) \in Nat /\ touched[d] <= Since(d) /\ asked <= Since(d)
BY GreaterIs DEF Since

\* A selection that ends without a device, and withdraws its requests.
LEMMA GiveUpKeeps ==
    ASSUME SelectionInv, stage \in {"poll", "wait"},
           NEW r \in {"TimedOut", "Transport", "Protocol"},
           stage' = "done", outcome' = r, asking' = {},
           r = "TimedOut" => stage = "poll",
           UNCHANGED <<features, request, devices, timeout, next, now, deadline, until,
                       touched, prompted, selected, asked>>
    PROVE  SelectionInv'
<1>0. /\ SelectionTypeOK /\ DevicesOK /\ StageOK /\ WaitOK
      /\ deadline \in Nat /\ asked \in Nat /\ asked <= now /\ selected = Unset
      /\ now \in Nat /\ Poll \in Nat /\ Unset \notin Nat
      /\ Len(devices) \in Nat /\ next \in 1 .. Len(devices)
      /\ DOMAIN devices = 1 .. Len(devices) /\ now <= deadline + 1
      /\ \A d \in Connected : touched[d] # Unset => touched[d] \in Nat
  BY Polling
<1>1. Connected' = Connected /\ Kept' = Kept
  BY SameKept
<1>2. SelectionTypeOK'
  BY <1>0, <1>1 DEF SelectionTypeOK
<1>3. DevicesOK'
  BY <1>0, <1>1 DEF DevicesOK
<1>4. StageOK' /\ WaitOK' /\ SelectionIsBounded'
  BY <1>0 DEF StageOK, WaitOK, SelectionIsBounded
<1>5. TouchIsNoticed'
  <2> SUFFICES ASSUME r = "TimedOut", NEW d \in Connected, touched[d] # Unset
               PROVE  now - Greater(touched[d], asked) <= (Len(devices) - 1) * Poll
    BY <1>0, <1>1 DEF TouchIsNoticed
  <2>1. PICK i \in 1 .. Len(devices) : d = devices[i]
    BY <1>0 DEF DevicesOK, Kept
  <2>2. now - Since(d) <= Turns(i) * Poll
    BY <1>0, <2>1 DEF WaitOK
  <2>3. Turns(i) * Poll <= (Len(devices) - 1) * Poll /\ Turns(i) * Poll \in Nat
        /\ (Len(devices) - 1) * Poll \in Nat
    <3>1. Turns(i) \in Nat /\ Len(devices) - 1 \in Nat /\ Turns(i) <= Len(devices) - 1
      BY <1>0, TurnsBounded
    <3> QED BY <3>1, PollsAdd
  <2>4. Since(d) \in Nat
    BY <1>0, SinceTyped
  <2>5. now - Since(d) <= (Len(devices) - 1) * Poll
    BY <1>0, <2>2, <2>3, <2>4
  <2> QED BY <2>5 DEF Since
<1>6. SelectionIsClean' /\ SelectedServes'
  BY <1>0 DEF SelectionIsClean, SelectedIsReady, NoRequestIsLeft, SelectedServes
<1> QED BY <1>2, <1>3, <1>4, <1>5, <1>6 DEF SelectionInv

LEMMA PollFailsKeeps ==
    ASSUME SelectionInv, PollFails
    PROVE  SelectionInv'
<1>1. PICK r \in {"Transport", "Protocol"} : End(r)
  BY DEF PollFails
<1>2. /\ stage = "wait" /\ asking' = {}
      /\ UNCHANGED <<features, request, devices, timeout, next, now, deadline, until,
                     touched, prompted, selected, asked>>
  BY DEF PollFails, handles, clock
<1> QED BY <1>1, <1>2, GiveUpKeeps DEF End

\* A poll lasts until the deadline at most.
LEMMA StartPollKeeps ==
    ASSUME SelectionInv, StartPoll
    PROVE  SelectionInv'
<1>1. /\ stage = "poll"
      /\ UNCHANGED <<features, request, devices, timeout, next, now, deadline,
                     touched, prompted, selected, asked>>
  BY DEF StartPoll, handles
<1>0. /\ SelectionTypeOK /\ DevicesOK /\ StageOK /\ WaitOK
      /\ deadline \in Nat /\ asked \in Nat /\ asked <= now /\ selected = Unset
      /\ prompted /\ outcome = "none"
      /\ now \in Nat /\ Poll \in Nat \ {0} /\ Unset \notin Nat
      /\ Len(devices) \in Nat /\ Len(devices) > 1 /\ next \in 1 .. Len(devices)
      /\ DOMAIN devices = 1 .. Len(devices) /\ now <= deadline + 1
      /\ \A d \in Connected : touched[d] # Unset => touched[d] \in Nat
  BY <1>1, Polling
<1>2. CASE now >= deadline /\ End("TimedOut") /\ asking' = {} /\ UNCHANGED until
  BY <1>1, <1>2, GiveUpKeeps DEF End
<1>3. CASE /\ now < deadline
           /\ until' = now + Lesser(Poll, deadline - now)
           /\ stage' = "wait"
           /\ UNCHANGED <<asking, outcome>>
  <2>1. until' \in Nat /\ now <= until' /\ until' <= deadline /\ until' <= now + Poll
    BY <1>0, <1>3 DEF Lesser
  <2>2. Connected' = Connected
    BY <1>1 DEF Connected
  <2>3. SelectionTypeOK'
    BY <1>0, <1>1, <1>3, <2>1, <2>2 DEF SelectionTypeOK
  <2>4. DevicesOK'
    BY <1>0, <1>1, <1>3, SameDevices
  <2>5. StageOK'
    BY <1>0, <1>1, <1>3, <2>1 DEF StageOK
  <2>6. WaitOK'
    <3> SUFFICES ASSUME NEW i \in DOMAIN devices, touched[devices[i]] # Unset
                 PROVE  until' - Since(devices[i])' <= (Turns(i)' + 1) * Poll
      BY <1>1, <1>3 DEF WaitOK
    <3>1. Since(devices[i])' = Since(devices[i]) /\ Turns(i)' = Turns(i)
      BY <1>1 DEF Since, Turns
    <3>2. now - Since(devices[i]) <= Turns(i) * Poll
      BY <1>0, <1>1 DEF WaitOK
    <3>3. Since(devices[i]) \in Nat
      <4>1. devices[i] \in Connected
        BY <1>0, KeptTyped
      <4> QED BY <1>0, <4>1, SinceTyped
    <3>4. Turns(i) * Poll \in Nat /\ (Turns(i) + 1) * Poll = Turns(i) * Poll + Poll
      BY <1>0, TurnsBounded, PollsAdd
    <3>5. until' - Since(devices[i]) <= (Turns(i) + 1) * Poll
      BY <1>0, <2>1, <3>2, <3>3, <3>4
    <3> QED BY <3>1, <3>5
  <2>7. SelectionIsBounded' /\ TouchIsNoticed'
    BY <1>0, <1>1, <1>3 DEF SelectionIsBounded, TouchIsNoticed
  <2>8. SelectionIsClean' /\ SelectedServes'
    BY <1>0, <1>1, <1>3 DEF SelectionIsClean, SelectedIsReady, NoRequestIsLeft, SelectedServes
  <2> QED BY <2>3, <2>4, <2>5, <2>6, <2>7, <2>8 DEF SelectionInv
<1> QED BY <1>2, <1>3 DEF StartPoll

\* After an unanswered poll every other device has waited for one poll more.
LEMMA EndPollKeeps ==
    ASSUME SelectionInv, EndPoll
    PROVE  SelectionInv'
<1>1. /\ stage = "wait" /\ now = until /\ touched[Chosen] = Unset
      /\ next' = (next % Len(devices)) + 1 /\ stage' = "poll"
      /\ UNCHANGED <<features, request, devices, timeout, now, deadline, until, asking,
                     touched, prompted, selected, outcome, asked>>
  BY DEF EndPoll, handles, clock
<1>0. /\ SelectionTypeOK /\ DevicesOK /\ StageOK /\ WaitOK
      /\ deadline \in Nat /\ asked \in Nat /\ asked <= now /\ selected = Unset
      /\ prompted /\ outcome = "none"
      /\ now \in Nat /\ Poll \in Nat \ {0} /\ Unset \notin Nat
      /\ Len(devices) \in Nat /\ Len(devices) > 1 /\ next \in 1 .. Len(devices)
      /\ DOMAIN devices = 1 .. Len(devices) /\ now <= deadline + 1
      /\ \A d \in Connected : touched[d] # Unset => touched[d] \in Nat
  BY <1>1, Polling
<1>2. next' = IF next = Len(devices) THEN 1 ELSE next + 1
  <2> DEFINE n == Len(devices)
  <2>1. n \in Nat /\ n > 1 /\ next \in 1 .. n
    BY <1>0
  <2> HIDE DEF n
  <2>2. (next % n) + 1 = IF next = n THEN 1 ELSE next + 1
    BY <2>1, NextTurn
  <2> QED BY <1>1, <2>2 DEF n
<1>3. next' \in 1 .. Len(devices)
  <2>1. Len(devices) \in Nat /\ next \in 1 .. Len(devices)
    BY <1>0
  <2>2. CASE next = Len(devices)
    BY <1>2, <2>1, <2>2
  <2>3. CASE next # Len(devices)
    BY <1>2, <2>1, <2>3
  <2> QED BY <2>2, <2>3
<1>4. Connected' = Connected
  BY <1>1 DEF Connected
<1>5. SelectionTypeOK'
  <2>1. next' \in 1 .. Greater(Len(devices'), 1)
    BY <1>0, <1>1, <1>3 DEF Greater
  <2> QED BY <1>0, <1>1, <1>4, <2>1 DEF SelectionTypeOK
<1>6. DevicesOK'
  BY <1>0, <1>1, SameDevices
<1>7. StageOK'
  BY <1>0, <1>1 DEF StageOK
<1>8. WaitOK'
  <2> SUFFICES ASSUME NEW i \in DOMAIN devices, touched[devices[i]] # Unset
               PROVE  now - Since(devices[i])' <= Turns(i)' * Poll
    BY <1>1 DEF WaitOK
  <2>1. i # next
    BY <1>1 DEF Chosen
  <2>2. Since(devices[i])' = Since(devices[i])
    BY <1>1 DEF Since
  <2>3. Turns(i)' = Turns(i) + 1
    <3>1. Turns(i)' = IF i < next' THEN next' - 1 - i ELSE Len(devices) + next' - 1 - i
      BY <1>1 DEF Turns
    <3>2. Turns(i) = IF i < next THEN next - 1 - i ELSE Len(devices) + next - 1 - i
      BY DEF Turns
    <3>3. Len(devices) \in Nat /\ next \in 1 .. Len(devices) /\ i \in 1 .. Len(devices)
      BY <1>0
    <3>4. CASE next = Len(devices)
      BY <1>2, <2>1, <3>1, <3>2, <3>3, <3>4
    <3>5. CASE next # Len(devices)
      BY <1>2, <2>1, <3>1, <3>2, <3>3, <3>5
    <3> QED BY <3>4, <3>5
  <2>4. until - Since(devices[i]) <= (Turns(i) + 1) * Poll
    BY <1>0, <1>1, <2>1 DEF WaitOK
  <2> QED BY <1>1, <2>2, <2>3, <2>4
<1>9. SelectionIsBounded' /\ TouchIsNoticed'
  BY <1>0, <1>1 DEF SelectionIsBounded, TouchIsNoticed
<1>10. SelectionIsClean' /\ SelectedServes'
  BY <1>0, <1>1 DEF SelectionIsClean, SelectedIsReady, NoRequestIsLeft, SelectedServes
<1> QED BY <1>5, <1>6, <1>7, <1>8, <1>9, <1>10 DEF SelectionInv

LEMMA TickKeeps ==
    ASSUME SelectionInv, Tick
    PROVE  SelectionInv'
<1>1. /\ stage = "wait" /\ now < until /\ now' = now + 1
      /\ UNCHANGED <<features, request, stage, devices, timeout, next, deadline, until,
                     asking, touched, prompted, selected, outcome, asked>>
  BY DEF Tick, handles
<1>0. /\ SelectionTypeOK /\ DevicesOK /\ StageOK /\ WaitOK
      /\ deadline \in Nat /\ asked \in Nat /\ asked <= now /\ selected = Unset
      /\ prompted /\ outcome = "none" /\ Len(devices) > 1
      /\ now \in Nat /\ until \in Nat /\ Poll \in Nat /\ Unset \notin Nat
      /\ \A d \in Connected : touched[d] # Unset => touched[d] \in Nat
  BY <1>1, Polling
<1>2. until <= deadline /\ until <= now + Poll
  BY <1>0, <1>1 DEF StageOK
<1>3. Connected' = Connected /\ Kept' = Kept
  BY <1>1, SameKept
<1>4. now' \in Nat /\ now <= now' /\ now' <= until
  BY <1>0, <1>1
<1>5. SelectionTypeOK'
  BY <1>0, <1>1, <1>3, <1>4 DEF SelectionTypeOK
<1>6. DevicesOK'
  <2>1. \A d \in Connected : touched[d] # Unset => d \in Kept /\ touched[d] <= now'
    <3> SUFFICES ASSUME NEW d \in Connected, touched[d] # Unset
                 PROVE  d \in Kept /\ touched[d] <= now'
      OBVIOUS
    <3>1. touched[d] \in Nat /\ touched[d] <= now /\ d \in Kept
      BY <1>0 DEF DevicesOK
    <3> QED BY <1>0, <1>4, <3>1
  <2>2. /\ \A d \in Kept : Supports(features'[d], request')
        /\ \A i, j \in DOMAIN devices' : i < j => devices'[i] < devices'[j]
        /\ asking' \subseteq Kept /\ touched' = touched
    BY <1>0, <1>1 DEF DevicesOK
  <2> QED BY <1>3, <2>1, <2>2 DEF DevicesOK
<1>7. StageOK'
  BY <1>0, <1>1, <1>2, <1>4 DEF StageOK
<1>8. WaitOK'
  <2> SUFFICES ASSUME NEW i \in DOMAIN devices, touched[devices[i]] # Unset, i # next
               PROVE  until - Since(devices[i])' <= (Turns(i)' + 1) * Poll
    BY <1>1 DEF WaitOK
  <2>1. Since(devices[i])' = Since(devices[i]) /\ Turns(i)' = Turns(i)
    BY <1>1 DEF Since, Turns
  <2>2. until - Since(devices[i]) <= (Turns(i) + 1) * Poll
    BY <1>0, <1>1 DEF WaitOK
  <2> QED BY <2>1, <2>2
<1>9. SelectionIsBounded' /\ TouchIsNoticed'
  BY <1>0, <1>1, <1>2, <1>4 DEF SelectionIsBounded, TouchIsNoticed
<1>10. SelectionIsClean' /\ SelectedServes'
  BY <1>0, <1>1 DEF SelectionIsClean, SelectedIsReady, NoRequestIsLeft, SelectedServes
<1> QED BY <1>5, <1>6, <1>7, <1>8, <1>9, <1>10 DEF SelectionInv

\* A touch comes while the devices are asked or polled, or after a selection
\* that timed out before all of them were asked.
LEMMA TouchKeeps ==
    ASSUME SelectionInv, NEW d \in Connected, Touch(d)
    PROVE  SelectionInv'
<1>0. /\ SelectionTypeOK /\ DevicesOK /\ StageOK /\ WaitOK
      /\ SelectionIsBounded /\ TouchIsNoticed /\ SelectionIsClean /\ SelectedServes
  BY DEF SelectionInv
<1>1. /\ d \in asking /\ touched[d] = Unset /\ touched' = [touched EXCEPT ![d] = now]
      /\ UNCHANGED <<features, request, stage, devices, timeout, next, now, deadline,
                     until, asking, prompted, selected, outcome, asked>>
  BY DEF Touch, handles, clock
<1>2. /\ now \in Nat /\ Unset \notin Nat /\ touched \in [Connected -> Time]
      /\ d \in Kept
  BY <1>0, <1>1, TimeAssumption DEF SelectionTypeOK, DevicesOK
<1>3. Connected' = Connected /\ Kept' = Kept
  BY <1>1, SameKept
<1>4. touched' \in [Connected -> Time] /\ touched'[d] = now
      /\ \A e \in Connected \ {d} : touched'[e] = touched[e]
  BY <1>1, <1>2 DEF Time
<1>5. SelectionTypeOK'
  BY <1>0, <1>1, <1>3, <1>4 DEF SelectionTypeOK
<1>6. DevicesOK'
  <2>1. \A e \in Connected : touched'[e] # Unset => e \in Kept /\ touched'[e] <= now
    BY <1>0, <1>2, <1>4 DEF DevicesOK
  <2>2. /\ \A e \in Kept : Supports(features'[e], request')
        /\ \A i, j \in DOMAIN devices' : i < j => devices'[i] < devices'[j]
        /\ asking' \subseteq Kept /\ now' = now
    BY <1>0, <1>1 DEF DevicesOK
  <2> QED BY <1>3, <2>1, <2>2 DEF DevicesOK
<1>7. StageOK'
  BY <1>0, <1>1, <1>3 DEF StageOK
<1>8. WaitOK'
  <2> SUFFICES ASSUME stage \in {"poll", "wait"}, NEW i \in DOMAIN devices,
                      touched'[devices[i]] # Unset
               PROVE  /\ stage = "poll" => now - Since(devices[i])' <= Turns(i)' * Poll
                      /\ stage = "wait" /\ i # next =>
                            until - Since(devices[i])' <= (Turns(i)' + 1) * Poll
    BY <1>1 DEF WaitOK
  <2>1. /\ asked \in Nat /\ asked <= now /\ until \in Nat /\ Poll \in Nat
        /\ Len(devices) \in Nat /\ next \in 1 .. Len(devices)
        /\ DOMAIN devices = 1 .. Len(devices)
    BY Polling
  <2>2. Turns(i)' = Turns(i)
    BY <1>1 DEF Turns
  <2>3. CASE devices[i] = d
    <3>1. Since(devices[i])' = Greater(now, asked)
      BY <1>1, <1>4, <2>3 DEF Since
    <3>2. Since(devices[i])' = now
      BY <1>2, <2>1, <3>1 DEF Greater
    <3>3. Turns(i) \in Nat
      BY <2>1, TurnsBounded
    <3>4. Turns(i) * Poll \in Nat /\ (Turns(i) + 1) * Poll = Turns(i) * Poll + Poll
      BY <3>3, PollsAdd
    <3>5. stage = "wait" => until <= now + Poll
      BY <1>0 DEF StageOK
    <3>6. stage = "poll" => now - now <= Turns(i) * Poll
      BY <1>2, <3>4
    <3>7. stage = "wait" => until - now <= (Turns(i) + 1) * Poll
      BY <1>2, <2>1, <3>4, <3>5
    <3> QED BY <2>2, <3>2, <3>6, <3>7
  <2>4. CASE devices[i] # d
    <3>1. touched'[devices[i]] = touched[devices[i]]
      BY <1>0, <1>4, <2>4, KeptTyped
    <3>2. Since(devices[i])' = Since(devices[i])
      BY <1>1, <3>1 DEF Since
    <3> QED BY <1>0, <2>2, <3>1, <3>2 DEF WaitOK
  <2> QED BY <2>3, <2>4
<1>9. SelectionIsBounded' /\ SelectedServes'
  BY <1>0, <1>1 DEF SelectionIsBounded, SelectedServes
<1>10. TouchIsNoticed'
  <2>1. asked # Unset => ~(outcome = "TimedOut" \/ selected # Unset)
    BY <1>0, <1>1 DEF StageOK, SelectionIsClean, NoRequestIsLeft, SelectionTypeOK
  <2> QED BY <1>1, <2>1 DEF TouchIsNoticed
<1>11. SelectionIsClean'
  <2>1. NoRequestIsLeft'
    BY <1>0, <1>1 DEF SelectionIsClean, NoRequestIsLeft
  <2> SUFFICES ASSUME selected # Unset
               PROVE  /\ Supports(features[selected], request)
                      /\ Len(devices) > 1 => prompted /\ touched'[selected] # Unset
                      /\ timeout[selected] = OperationTimeout
    BY <1>1, <2>1 DEF SelectionIsClean, SelectedIsReady
  <2>2. selected \in Connected
    BY <1>0 DEF SelectionTypeOK
  <2>3. touched[selected] # Unset => touched'[selected] # Unset
    BY <1>2, <1>4, <2>2
  <2> QED BY <1>0, <2>3 DEF SelectionIsClean, SelectedIsReady
<1> QED BY <1>5, <1>6, <1>7, <1>8, <1>9, <1>10, <1>11 DEF SelectionInv

\* Of the devices that were not selected each was polled, or being polled, for
\* all but one poll of a round.
LEMMA SelectTouchedKeeps ==
    ASSUME SelectionInv, SelectTouched
    PROVE  SelectionInv'
<1>1. /\ stage = "wait" /\ touched[Chosen] # Unset /\ asking' = {}
      /\ UNCHANGED <<features, request, devices, next, now, deadline, until, touched,
                     prompted, asked>>
  BY DEF SelectTouched, clock
<1>0. /\ SelectionTypeOK /\ DevicesOK /\ StageOK /\ WaitOK
      /\ deadline \in Nat /\ asked \in Nat /\ asked <= now /\ selected = Unset
      /\ prompted /\ outcome = "none" /\ now <= deadline + 1
      /\ now \in Nat /\ until \in Nat /\ Poll \in Nat /\ Unset \notin Nat
      /\ Len(devices) \in Nat /\ Len(devices) > 1 /\ next \in 1 .. Len(devices)
      /\ DOMAIN devices = 1 .. Len(devices)
      /\ Chosen \in Kept /\ Kept \subseteq Connected /\ Chosen # Unset
      /\ \A d \in Connected : touched[d] # Unset => touched[d] \in Nat
  BY <1>1, Polling
<1>2. CASE End("Transport") /\ UNCHANGED <<timeout, selected>>
  BY <1>1, <1>2, GiveUpKeeps DEF End
<1>3. CASE /\ timeout' = [timeout EXCEPT ![Chosen] = OperationTimeout]
           /\ stage' = "operate" /\ selected' = Chosen /\ UNCHANGED outcome
  <2>1. Connected' = Connected /\ Kept' = Kept
    BY <1>1, SameKept
  <2>2. OperationTimeout \in Time
    BY TimeAssumption DEF Time
  <2>3. timeout \in [Connected -> Time]
    BY <1>0 DEF SelectionTypeOK
  <2>4. timeout' \in [Connected -> Time] /\ timeout'[Chosen] = OperationTimeout
    BY <1>0, <1>3, <2>2, <2>3
  <2>5. SelectionTypeOK'
    BY <1>0, <1>1, <1>3, <2>1, <2>4 DEF SelectionTypeOK
  <2>6. DevicesOK'
    BY <1>0, <1>1, <2>1 DEF DevicesOK
  <2>7. StageOK' /\ WaitOK' /\ SelectionIsBounded'
    BY <1>0, <1>1, <1>3 DEF StageOK, WaitOK, SelectionIsBounded
  <2>8. TouchIsNoticed'
    <3> SUFFICES ASSUME NEW d \in Connected, d # Chosen, touched[d] # Unset
                 PROVE  now - Greater(touched[d], asked) <= (Len(devices) - 1) * Poll
      BY <1>1, <1>3, <2>1 DEF TouchIsNoticed
    <3>1. PICK i \in 1 .. Len(devices) : d = devices[i]
      BY <1>0 DEF DevicesOK, Kept
    <3>2. i # next
      BY <3>1 DEF Chosen
    <3>3. until - Since(d) <= (Turns(i) + 1) * Poll /\ now <= until
      BY <1>0, <1>1, <3>1, <3>2 DEF WaitOK, StageOK
    <3>4. Turns(i) + 1 \in Nat /\ Len(devices) - 1 \in Nat /\ Turns(i) + 1 <= Len(devices) - 1
      BY <1>0, <3>2, TurnsBounded
    <3>5. /\ (Turns(i) + 1) * Poll <= (Len(devices) - 1) * Poll
          /\ (Turns(i) + 1) * Poll \in Nat /\ (Len(devices) - 1) * Poll \in Nat
      BY <3>4, PollsAdd
    <3>6. Since(d) \in Nat
      BY <1>0, SinceTyped
    <3>7. now - Since(d) <= (Len(devices) - 1) * Poll
      BY <1>0, <3>3, <3>5, <3>6
    <3> QED BY <3>7 DEF Since
  <2>9. SelectionIsClean' /\ SelectedServes'
    <3>1. Supports(features'[selected'], request')
      BY <1>0, <1>1, <1>3 DEF DevicesOK
    <3>2. prompted' /\ touched'[selected'] # Unset
      BY <1>0, <1>1, <1>3
    <3>3. timeout'[selected'] = OperationTimeout
      BY <1>3, <2>4
    <3>4. SelectedIsReady'
      BY <3>1, <3>2, <3>3, Zenon DEF SelectedIsReady
    <3> QED BY <1>0, <1>1, <1>3, <3>4 DEF SelectionIsClean, NoRequestIsLeft, SelectedServes
  <2> QED BY <2>5, <2>6, <2>7, <2>8, <2>9 DEF SelectionInv
<1> QED BY <1>2, <1>3 DEF SelectTouched

\* The operation accepts what the selection kept.
LEMMA OperateKeeps ==
    ASSUME SelectionInv, Operate
    PROVE  SelectionInv'
<1>0. /\ SelectionTypeOK /\ DevicesOK /\ StageOK /\ WaitOK
      /\ SelectionIsBounded /\ TouchIsNoticed /\ SelectionIsClean /\ SelectedServes
  BY DEF SelectionInv
<1>1. /\ stage = "operate" /\ stage' = "done"
      /\ outcome' = IF Accepts(features[selected], request) THEN "Ok" ELSE "Unsupported"
      /\ UNCHANGED <<features, request, devices, timeout, next, now, deadline, until,
                     asking, touched, prompted, selected, asked>>
  BY DEF Operate, End, handles, clock
<1>2. selected # Unset /\ selected \in Connected /\ outcome = "none" /\ asking = {}
  BY <1>0, <1>1 DEF StageOK, SelectionTypeOK, SelectionIsClean, NoRequestIsLeft
<1>3. Supports(features[selected], request)
  BY <1>0, <1>2 DEF SelectionIsClean, SelectedIsReady
<1>4. Accepts(features[selected], request)
  <2>1. features[selected] \in SUBSET Feature /\ request \in Request
    BY <1>0, <1>2, SituationTyped
  <2> QED BY <1>3, <2>1, KeptIsAccepted
<1>5. outcome' = "Ok"
  BY <1>1, <1>4
<1>6. Connected' = Connected
  BY <1>1 DEF Connected
<1>7. SelectionTypeOK'
  BY <1>0, <1>1, <1>5, <1>6 DEF SelectionTypeOK
<1>8. DevicesOK'
  BY <1>0, <1>1, SameDevices
<1>9. StageOK' /\ WaitOK' /\ SelectionIsBounded'
  BY <1>0, <1>1 DEF StageOK, WaitOK, SelectionIsBounded
<1>10. TouchIsNoticed'
  BY <1>0, <1>1, <1>2, <1>5, <1>6 DEF TouchIsNoticed
<1>11. SelectionIsClean' /\ SelectedServes'
  <2>1. SelectedIsReady'
    BY <1>0, <1>1 DEF SelectionIsClean, SelectedIsReady
  <2> QED BY <1>1, <1>2, <1>5, <2>1 DEF SelectionIsClean, NoRequestIsLeft, SelectedServes
<1> QED BY <1>7, <1>8, <1>9, <1>10, <1>11 DEF SelectionInv

LEMMA SelectionStutterKeeps ==
    ASSUME SelectionInv, UNCHANGED selectionVars
    PROVE  SelectionInv'
<1>1. UNCHANGED <<features, request, stage, devices, timeout, next, now, deadline, until,
                  asking, touched, prompted, selected, outcome, asked>>
  BY DEF selectionVars, handles, clock
<1>2. Connected' = Connected /\ Kept' = Kept
  BY <1>1, SameKept
<1>3. SelectionTypeOK'
  BY <1>1, <1>2 DEF SelectionInv, SelectionTypeOK
<1>4. DevicesOK'
  BY <1>1, SameDevices DEF SelectionInv
<1>5. StageOK' /\ SelectionIsBounded' /\ SelectedServes'
  BY <1>1, <1>2 DEF SelectionInv, StageOK, SelectionIsBounded, SelectedServes
<1>6. WaitOK'
  <2>1. \A i : Turns(i)' = Turns(i)
    BY <1>1 DEF Turns
  <2>2. \A d : Since(d)' = Since(d)
    BY <1>1 DEF Since
  <2> QED BY <1>1, <2>1, <2>2 DEF SelectionInv, WaitOK
<1>7. TouchIsNoticed' /\ SelectionIsClean'
  BY <1>1, <1>2 DEF SelectionInv, TouchIsNoticed, SelectionIsClean, SelectedIsReady,
                    NoRequestIsLeft
<1> QED BY <1>3, <1>4, <1>5, <1>6, <1>7 DEF SelectionInv

LEMMA SelectionStarts == SelectionInit => SelectionInv
<1> SUFFICES ASSUME SelectionInit PROVE SelectionInv
  OBVIOUS
<1>1. PICK s \in Situations : features = s.features /\ request = s.request
  BY DEF SelectionInit
<1>2. [features |-> features, request |-> request] \in Situations
  <2>1. s \in [features : Seq(SUBSET Feature), request : Request]
    BY SituationsAssumption
  <2>2. s = [features |-> s.features, request |-> s.request]
    BY <2>1
  <2> QED BY <1>1, <2>2
<1>3. SelectionTypeOK
  <2>1. timeout \in [Connected -> Time] /\ touched \in [Connected -> Time]
    BY DEF SelectionInit, Time
  <2>2. devices \in Seq(Connected) /\ next \in 1 .. Greater(Len(devices), 1)
    BY DEF SelectionInit, Greater
  <2>3. prompted \in BOOLEAN
    BY DEF SelectionInit
  <2> QED BY <1>2, <2>1, <2>2, <2>3 DEF SelectionInit, SelectionTypeOK, Time
<1>4. DevicesOK
  BY DEF SelectionInit, DevicesOK, Kept
<1>5. StageOK /\ WaitOK
  BY DEF SelectionInit, StageOK, WaitOK, Kept
<1>6. SelectionIsBounded /\ TouchIsNoticed /\ SelectionIsClean /\ SelectedServes
  BY DEF SelectionInit, SelectionIsBounded, TouchIsNoticed, SelectionIsClean,
         SelectedIsReady, NoRequestIsLeft, SelectedServes
<1> QED BY <1>3, <1>4, <1>5, <1>6 DEF SelectionInv

\* Every step of a selection, of the thread, of the clock and of the user, keeps
\* its invariant.
THEOREM SelectionInductive == SelectionSpec => []SelectionInv
<1>1. ASSUME SelectionInv, [SelectionNext]_selectionVars PROVE SelectionInv'
  BY <1>1, DiscoverKeeps, PromptKeeps, SelectOnlyKeeps, AskForTouchKeeps, StartPollKeeps,
     EndPollKeeps, PollFailsKeeps, SelectTouchedKeeps, OperateKeeps, TickKeeps,
     TouchKeeps, SelectionStutterKeeps DEF SelectionNext, Advance
<1> QED BY <1>1, SelectionStarts, PTL DEF SelectionSpec

\* Whatever the number of devices, the timeouts and the touches, a selection
\* lasts at most one tick longer than its timeout (select_by_touch).
THEOREM BoundedSelection == SelectionSpec => []SelectionIsBounded
<1>1. SelectionInv => SelectionIsBounded
  BY DEF SelectionInv
<1> QED BY <1>1, SelectionInductive, PTL

\* Whatever the number of devices, a touch is noticed within one round of polls
\* (select_by_touch).
THEOREM TouchesNoticed == SelectionSpec => []TouchIsNoticed
<1>1. SelectionInv => TouchIsNoticed
  BY DEF SelectionInv
<1> QED BY <1>1, SelectionInductive, PTL

\* A selection hands over the one device that fits or that was touched, ready for
\* the operation, and leaves no request on another (PreparedSelection::select).
THEOREM CleanSelection == SelectionSpec => []SelectionIsClean
<1>1. SelectionInv => SelectionIsClean
  BY DEF SelectionInv
<1> QED BY <1>1, SelectionInductive, PTL

\* Whatever the devices report, the operation does not refuse the device that was
\* selected for it, and what is enrolled on a device can be recovered and retired
\* on it (supports_presence_policy, supports_verified_policy, supports_managed).
THEOREM ChosenUsable == SelectionSpec => []ChosenIsUsable
<1>1. SelectionInv => ChosenIsUsable
  <2> SUFFICES ASSUME SelectionInv PROVE ChosenIsUsable
    OBVIOUS
  <2>1. EnrolledIsUsable
    <3> SUFFICES ASSUME NEW d \in Connected, NEW p \in Policy,
                        Supports(features[d], [op |-> "enrollManaged", policy |-> p]),
                        NEW o \in {"evaluate", "manage"}
                 PROVE  Supports(features[d], [op |-> o, policy |-> p])
      BY DEF EnrolledIsUsable
    <3>1. features[d] \in SUBSET Feature
      BY SituationTyped DEF SelectionInv
    <3> QED BY <3>1, EnrolledCanBeUsed
  <2> QED BY <2>1 DEF SelectionInv, ChosenIsUsable
<1> QED BY <1>1, SelectionInductive, PTL

\* Whatever the devices report, the report has no issue of exactly those that can
\* serve every request (report_for).
THEOREM ReportComplete == SelectionSpec => []ReportIsComplete
<1>1. SelectionInv => ReportIsComplete
  <2> SUFFICES ASSUME SelectionInv, NEW d \in Connected
               PROVE  Reported(features[d]) = {} <=> \A r \in Request : Supports(features[d], r)
    BY DEF ReportIsComplete
  <2>1. features[d] \in SUBSET Feature
    BY SituationTyped DEF SelectionInv
  <2> QED BY <2>1, NothingReported, ServesEverything
<1> QED BY <1>1, SelectionInductive, PTL
=============================================================================
