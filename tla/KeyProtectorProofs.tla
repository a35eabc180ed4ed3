-------------------------- MODULE KeyProtectorProofs --------------------------
(***************************************************************************)
(* Proofs about KeyProtector, for any number of envelopes, recipients,     *)
(* roots and passphrases: every issued route opens to the root its         *)
(* envelope authenticates, and unlock returns a root only for a copy that  *)
(* was issued exactly as it is; nothing that is used once is used twice,   *)
(* a change touches one route, and a passphrase is asked for only after    *)
(* the checks that protect its user.                                       *)
(*                                                                         *)
(* The argument: a change works on a copy it authenticated, so that copy   *)
(* was issued (a MAC fixes the body it is over, and every MAC in           *)
(* circulation comes from an operation); its routes open, and the change   *)
(* seals one more under the same application, envelope id and root.        *)
(***************************************************************************)
EXTENDS KeyProtector, TLAPS

\* The routes of one envelope open: RoutesOpen is this, for all issued ones.
RoutesOpenIn(e) ==
    /\ MacMatches(e, e.mac.root)
    /\ \A r \in e.recipients : LayerOpens(e, r) /\ r.sealed.root = e.mac.root

-----------------------------------------------------------------------------
(***************************************************************************)
(* What a MAC says.                                                        *)
(***************************************************************************)

\* The envelope a caller starts without is none of the envelopes.
LEMMA NoEnvelopeIsNone == NoEnvelope \notin Envelope
  BY NoneAssumption DEF NoEnvelope, Envelope

\* A MAC fixes the body it is over and the root.
LEMMA MacFixesBody ==
    ASSUME NEW e \in Envelope, NEW f \in Envelope, NEW root, NEW other,
           MacMatches(e, root), MacMatches(f, other), e.mac = f.mac
    PROVE  e = f /\ root = other
  <1>1. EnvelopeMac(e, root) = EnvelopeMac(f, other)
    BY DEF MacMatches
  <1>2. root = other /\ e.app = f.app /\ e.id = f.id /\ e.recipients = f.recipients
    BY <1>1 DEF EnvelopeMac
  <1> QED
    BY <1>2 DEF Envelope

\* A copy whose MAC matches under any root is an issued one.
LEMMA MatchingIsIssued ==
    ASSUME IInv, held # NoEnvelope, NEW root, MacMatches(held, root)
    PROVE  held \in issued /\ held.mac.root = root
  <1>1. PICK f \in issued : held.mac = f.mac
    BY DEF IInv, MacsAreIssued
  <1>2. held \in Envelope /\ f \in Envelope
    BY DEF IInv, TypeOK
  <1>3. MacMatches(f, f.mac.root)
    BY DEF IInv, RoutesOpen
  <1>4. held = f /\ root = f.mac.root
    BY <1>1, <1>2, <1>3, MacFixesBody
  <1> QED
    BY <1>4

-----------------------------------------------------------------------------
(***************************************************************************)
(* What the ways an operation goes on preserve.                            *)
(***************************************************************************)

\* An operation that returns an error leaves the invariant.
LEMMA FailSafe ==
    ASSUME IInv, Fail
    PROVE  IInv'
  <1>1. /\ held' = held /\ issued' = issued /\ pc' = "idle"
        /\ result'.status = "error" /\ result'.root = None
    BY DEF Fail, NoResult
  <1>2. TypeOK'
    BY <1>1 DEF IInv, TypeOK, Step
  <1>3. OpOK' /\ UnlockIsAuthentic'
    BY <1>1 DEF OpOK, UnlockIsAuthentic
  <1>4. MacsAreIssued' /\ RoutesOpen'
    BY <1>1 DEF IInv, MacsAreIssued, RoutesOpen, MacMatches, EnvelopeMac,
                LayerOpens, RecipientContext
  <1> QED
    BY <1>2, <1>3, <1>4 DEF IInv

\* An operation that runs on leaves it, if its locals are what the next step
\* relies on.
LEMMA ProceedSafe ==
    ASSUME IInv, NEW step \in Step, NEW o, Proceed(step, o), OpOK'
    PROVE  IInv'
  <1>1. /\ held' = held /\ issued' = issued /\ pc' = step
        /\ result'.status = "none" /\ result'.root = None
    BY DEF Proceed, NoResult
  <1>2. TypeOK'
    BY <1>1 DEF IInv, TypeOK
  <1>3. UnlockIsAuthentic'
    BY <1>1 DEF UnlockIsAuthentic
  <1>4. MacsAreIssued' /\ RoutesOpen'
    BY <1>1 DEF IInv, MacsAreIssued, RoutesOpen, MacMatches, EnvelopeMac,
                LayerOpens, RecipientContext
  <1> QED
    BY <1>2, <1>3, <1>4 DEF IInv

\* An operation that replaces the caller's envelope leaves it, if the routes of
\* the new one open.
LEMMA ReplaceSafe ==
    ASSUME IInv, NEW e \in Envelope, e.mac \in Mac, Replace(e), Decodable(e),
           RoutesOpenIn(e)
    PROVE  IInv'
  <1>1. /\ held' = e /\ issued' = issued \cup {e} /\ pc' = "idle"
        /\ result'.status = "ok" /\ result'.root = None
    BY DEF Replace, NoResult
  <1>2. TypeOK'
    BY <1>1 DEF IInv, TypeOK, Step, Decodable
  <1>3. OpOK' /\ UnlockIsAuthentic' /\ MacsAreIssued'
    BY <1>1 DEF OpOK, UnlockIsAuthentic, MacsAreIssued
  <1>4. RoutesOpen'
    BY <1>1 DEF IInv, RoutesOpen, RoutesOpenIn, MacMatches, EnvelopeMac,
                LayerOpens, RecipientContext
  <1> QED
    BY <1>2, <1>3, <1>4 DEF IInv

-----------------------------------------------------------------------------
(***************************************************************************)
(* The operations, one lemma per action.                                   *)
(***************************************************************************)

\* A draw yields a value of its pool.
LEMMA FreshIsDrawn ==
    ASSUME NEW values, NEW spent, NEW v \in Fresh(values, spent)
    PROVE  v \in values \ spent
  <1>1. ~(values \subseteq spent)
    BY DEF Fresh
  <1>2. v = CHOOSE x \in values : x \notin spent
    BY <1>1 DEF Fresh
  <1>3. \E x \in values : x \notin spent
    BY <1>1
  <1> QED
    BY <1>2, <1>3

\* The common start of an enrollment, on a new envelope or on the caller's.
LEMMA BeginEnrollSafe ==
    ASSUME IInv, NEW name, NEW base \in Envelope, NEW root \in Root,
           \/ name = "create" /\ base.recipients = {} /\ \A e \in issued : e.id # base.id
           \/ name = "add" /\ base = held /\ base \in issued /\ base.mac.root = root,
           BeginEnroll(name, base, root)
    PROVE  IInv'
  <1>1. PICK suite \in Suite, limit \in Work :
          \E work \in IF UsesPassphrase(suite) THEN Work ELSE {None} :
            IF Admitted(work, limit)
            THEN Proceed("enroll",
                    [name |-> name, root |-> root, limit |-> limit, base |-> base,
                     record |-> [NoRecord EXCEPT !.suite = suite, !.work = work],
                     word |-> None])
            ELSE Fail
    BY DEF BeginEnroll
  <1>2. PICK work \in Work \cup {None} :
            IF Admitted(work, limit)
            THEN Proceed("enroll",
                    [name |-> name, root |-> root, limit |-> limit, base |-> base,
                     record |-> [NoRecord EXCEPT !.suite = suite, !.work = work],
                     word |-> None])
            ELSE Fail
    BY <1>1
  <1>3. CASE ~Admitted(work, limit)
    BY <1>2, <1>3, FailSafe
  <1>4. CASE Admitted(work, limit)
    <2> DEFINE o == [name |-> name, root |-> root, limit |-> limit, base |-> base,
                     record |-> [NoRecord EXCEPT !.suite = suite, !.work = work],
                     word |-> None]
    <2>1. Proceed("enroll", o)
      BY <1>2, <1>4
    <2>2. [NoRecord EXCEPT !.suite = suite, !.work = work] \in Draft
      BY SuiteAssumption DEF NoRecord, Draft, NoSeal
    <2>3. o \in Op
      BY <2>2 DEF Op
    <2>4. o.name = name /\ o.base = base /\ o.root = root
      OBVIOUS
    <2>5. pc' = "enroll" /\ op' = o /\ held' = held /\ issued' = issued
      BY <2>1 DEF Proceed
    <2> HIDE DEF o
    <2>6. OpOK'
      BY <2>3, <2>4, <2>5 DEF OpOK
    <2> QED
      BY <2>1, <2>6, ProceedSafe DEF Step
  <1> QED
    BY <1>3, <1>4

\* create_root and protect_root.
LEMMA BeginCreateSafe ==
    ASSUME IInv, BeginCreate
    PROVE  IInv'
  <1>1. PICK app \in Application, root \in Root,
             id \in Fresh(EnvelopeId, {e.id : e \in issued}) :
          BeginEnroll("create",
            [app |-> app, id |-> id, recipients |-> {}, mac |-> None], root)
    BY DEF BeginCreate
  <1>2. id \in EnvelopeId /\ \A e \in issued : e.id # id
    BY FreshIsDrawn
  <1> DEFINE base == [app |-> app, id |-> id, recipients |-> {}, mac |-> None]
  <1>3. /\ base \in Envelope /\ base.recipients = {}
        /\ \A e \in issued : e.id # base.id
    BY <1>2 DEF Envelope
  <1>4. BeginEnroll("create", base, root)
    BY <1>1
  <1> HIDE DEF base
  <1> QED
    BY <1>3, <1>4, BeginEnrollSafe

\* add_recipient and its dedicated forms.
LEMMA BeginAddSafe ==
    ASSUME IInv, BeginAdd
    PROVE  IInv'
  <1>1. PICK app \in Application, root \in Root :
        \/ Authenticated(held, app, root) /\ BeginEnroll("add", held, root)
        \/ Fail
    BY DEF BeginAdd
  <1>2. CASE Fail
    BY <1>2, FailSafe
  <1>3. CASE Authenticated(held, app, root) /\ BeginEnroll("add", held, root)
    <2>1. held # NoEnvelope
      BY DEF BeginAdd
    <2>2. held \in issued /\ held.mac.root = root
      BY <1>3, <2>1, MatchingIsIssued DEF Authenticated
    <2>3. held \in Envelope
      BY <2>2 DEF IInv, TypeOK
    <2> QED
      BY <1>3, <2>2, <2>3, BeginEnrollSafe
  <1> QED
    BY <1>1, <1>2, <1>3

\* Where a drawn record goes next is a step that relies on no more.
LEMMA AfterDrawStep ==
    ASSUME NEW suite \in AllSuites
    PROVE  AfterDraw(suite) \in {"evaluate", "passphrase", "stage"}
  BY DEF AfterDraw, AllSuites, UsesFido

\* The draws of an enrollment.
LEMMA EnrollSafe ==
    ASSUME IInv, Enroll
    PROVE  IInv'
  <1>1. CASE Fail
    BY <1>1, FailSafe
  <1>2. ASSUME NEW cred \in IF UsesFido(op.record.suite)
                            THEN EnrolledCredential(op.base) ELSE {None},
               NEW id \in UniqueRecipientId(op.base),
               NEW salt \in IF UsesPassphrase(op.record.suite)
                            THEN UniqueSalt(op.base) ELSE {None},
               NEW nonce \in RandomArray,
               Proceed(AfterDraw(op.record.suite),
                [op EXCEPT !.record = [@ EXCEPT !.cred = cred, !.id = id,
                                                !.salt = salt, !.nonce = nonce],
                           !.word = IF UsesSecret(op.record.suite)
                                    THEN nonce ELSE None])
        PROVE IInv'
    <2>1. cred \in Credential \cup {None}
      BY FreshIsDrawn DEF EnrolledCredential
    <2>2. id \in RecipientId
      BY FreshIsDrawn DEF UniqueRecipientId
    <2>3. salt \in Salt \cup {None}
      BY FreshIsDrawn DEF UniqueSalt
    <2>4. nonce \in Nonce
      BY FreshIsDrawn DEF RandomArray
    <2>5. PICK word \in Nonce \cup {None} :
            word = IF UsesSecret(op.record.suite) THEN nonce ELSE None
      BY <2>4
    <2>6. /\ op \in Op /\ op.name \in {"create", "add"} /\ op.root \in Root
          /\ op.name = "create" => /\ op.base.recipients = {}
                                   /\ \A e \in issued : e.id # op.base.id
          /\ op.name = "add" => /\ op.base = held /\ op.base \in issued
                                /\ op.base.mac.root = op.root
      BY DEF IInv, OpOK, Enroll
    <2> DEFINE m == [op.record EXCEPT !.cred = cred, !.id = id,
                                      !.salt = salt, !.nonce = nonce]
               o == [op EXCEPT !.record = m, !.word = word]
    <2>7. op.record \in Draft
      BY <2>6 DEF Op
    <2>8. m \in Record
      BY <2>1, <2>2, <2>3, <2>4, <2>7 DEF Draft, Record
    <2>9. m \in Draft
      BY <2>8 DEF Record, Draft
    <2> HIDE DEF m
    <2>10. o \in Op /\ o.record = m /\ o.name = op.name /\ o.base = op.base
             /\ o.root = op.root
      BY <2>5, <2>6, <2>9 DEF Op
    <2>11. AfterDraw(op.record.suite) \in {"evaluate", "passphrase", "stage"}
      BY <2>7, AfterDrawStep DEF Draft
    <2>12. Proceed(AfterDraw(op.record.suite), o)
      BY <1>2, <2>5, <2>6 DEF m, Op
    <2> HIDE DEF o
    <2>13. pc' = AfterDraw(op.record.suite) /\ op' = o /\ held' = held /\ issued' = issued
      BY <2>12 DEF Proceed
    <2>14. OpOK'
      BY <2>6, <2>8, <2>10, <2>11, <2>13 DEF OpOK
    <2> QED
      BY <2>11, <2>12, <2>14, ProceedSafe DEF Step
  <1> QED
    BY <1>1, <1>2 DEF Enroll

\* A record of an envelope is a record, and a draft of itself.
LEMMA HeldRecords ==
    ASSUME IInv, held # NoEnvelope, NEW r \in held.recipients
    PROVE  held \in Envelope /\ r \in Record /\ r \in Draft
  <1>1. held \in Envelope
    BY DEF IInv, TypeOK
  <1>2. r \in Record
    BY <1>1 DEF Envelope
  <1> QED
    BY <1>1, <1>2 DEF Record, Draft

\* The start of a rewrap, on an authenticated copy.
LEMMA BeginRewrapSafe ==
    ASSUME IInv, BeginRewrap
    PROVE  IInv'
  <1> USE DEF BeginRewrap
  <1>1. CASE Fail
    BY <1>1, FailSafe
  <1>2. ASSUME NEW app \in Application, NEW root \in Root, NEW work \in Work,
               NEW limit \in Work, NEW r \in held.recipients,
               Authenticated(held, app, root),
               Proceed("replace",
                    [name |-> "rewrap", root |-> root, limit |-> limit,
                     base |-> held, record |-> Replacement(r, work),
                     word |-> None])
        PROVE IInv'
    <2> DEFINE o == [name |-> "rewrap", root |-> root, limit |-> limit,
                     base |-> held, record |-> Replacement(r, work),
                     word |-> None]
    <2>1. held \in issued /\ held.mac.root = root
      BY <1>2, MatchingIsIssued DEF Authenticated
    <2>2. held \in Envelope /\ r \in Record
      BY HeldRecords
    <2>3. Replacement(r, work) \in Record /\ Replacement(r, work) \in Draft
      BY <2>2 DEF Replacement, Record, Draft
    <2>4. /\ o \in Op /\ o.name = "rewrap" /\ o.base = held /\ o.root = root
          /\ o.record \in Record
      BY <2>2, <2>3 DEF Op
    <2> HIDE DEF o
    <2>5. Proceed("replace", o)
      BY <1>2 DEF o
    <2>6. pc' = "replace" /\ op' = o /\ held' = held /\ issued' = issued
      BY <2>5 DEF Proceed
    <2>7. OpOK'
      BY <2>1, <2>4, <2>6 DEF OpOK
    <2> QED
      BY <2>5, <2>7, ProceedSafe DEF Step
  <1> QED
    BY <1>1, <1>2

\* The draws of a rewrap.
LEMMA DrawReplacementSafe ==
    ASSUME IInv, DrawReplacement
    PROVE  IInv'
  <1>1. CASE Fail
    BY <1>1, FailSafe
  <1>2. ASSUME NEW salt \in UniqueSalt(op.base),
               NEW nonce \in FreshArray(op.record.nonce),
               Proceed(AfterDraw(op.record.suite),
                [op EXCEPT !.record = [@ EXCEPT !.salt = salt, !.nonce = nonce]])
        PROVE IInv'
    <2> DEFINE m == [op.record EXCEPT !.salt = salt, !.nonce = nonce]
               o == [op EXCEPT !.record = m]
    <2>1. salt \in Salt
      BY FreshIsDrawn DEF UniqueSalt
    <2>2. nonce \in Nonce
      BY FreshIsDrawn DEF FreshArray, RandomArray
    <2>3. /\ op \in Op /\ op.name = "rewrap" /\ op.root \in Root
          /\ op.record \in Record /\ op.base = held /\ op.base \in issued
          /\ op.base.mac.root = op.root
      BY DEF IInv, OpOK, DrawReplacement, Op
    <2>4. m \in Record /\ m \in Draft
      BY <2>1, <2>2, <2>3 DEF Record, Draft
    <2> HIDE DEF m
    <2>5. o \in Op /\ o.record = m /\ o.name = op.name /\ o.base = op.base
             /\ o.root = op.root
      BY <2>3, <2>4 DEF Op
    <2>6. AfterDraw(op.record.suite) \in {"evaluate", "passphrase", "stage"}
      BY <2>3, AfterDrawStep DEF Record
    <2>7. Proceed(AfterDraw(op.record.suite), o)
      BY <1>2, <2>3 DEF m, Op
    <2> HIDE DEF o
    <2>8. pc' = AfterDraw(op.record.suite) /\ op' = o /\ held' = held /\ issued' = issued
      BY <2>7 DEF Proceed
    <2>9. OpOK'
      BY <2>3, <2>4, <2>5, <2>6, <2>8 DEF OpOK
    <2> QED
      BY <2>6, <2>7, <2>9, ProceedSafe DEF Step
  <1> QED
    BY <1>1, <1>2 DEF DrawReplacement

\* The start of an unlock, through the plain or a dedicated call.
LEMMA BeginUnlockSafe ==
    ASSUME IInv, BeginUnlock
    PROVE  IInv'
  <1> USE DEF BeginUnlock
  <1>1. CASE Fail
    BY <1>1, FailSafe
  <1>2. ASSUME NEW limit \in Work, NEW call, NEW secret \in Nonce,
               NEW r \in held.recipients,
               Proceed(IF r.suite = "recovery" THEN "recover"
                                               ELSE AfterDraw(r.suite),
                        [name |-> "unlock", root |-> None, limit |-> limit,
                         base |-> held, record |-> r,
                         word |-> IF call = "secret" THEN secret ELSE None])
        PROVE IInv'
    <2>1. PICK word \in Nonce \cup {None} :
            word = IF call = "secret" THEN secret ELSE None
      OBVIOUS
    <2>2. PICK step : step = IF r.suite = "recovery" THEN "recover"
                                                     ELSE AfterDraw(r.suite)
      OBVIOUS
    <2> DEFINE o == [name |-> "unlock", root |-> None, limit |-> limit,
                     base |-> held, record |-> r, word |-> word]
    <2>3. held \in Envelope /\ r \in Record /\ r \in Draft
      BY HeldRecords
    <2>4. step \in {"recover", "evaluate", "passphrase"}
      BY <2>2, <2>3 DEF Record, AfterDraw, AllSuites, UsesFido
    <2>5. o \in Op /\ o.record = r /\ o.name = "unlock" /\ o.base = held
      BY <2>3, <2>1 DEF Op
    <2>6. Proceed(step, o)
      BY <1>2, <2>1, <2>2
    <2> HIDE DEF o
    <2>7. pc' = step /\ op' = o /\ held' = held /\ issued' = issued
      BY <2>6 DEF Proceed
    <2>8. OpOK'
      BY <2>3, <2>4, <2>5, <2>7 DEF OpOK
    <2> QED
      BY <2>4, <2>6, <2>8, ProceedSafe DEF Step
  <1> QED
    BY <1>1, <1>2

\* The PRF evaluation.
LEMMA EvaluateSafe ==
    ASSUME IInv, Evaluate
    PROVE  IInv'
  <1>1. CASE Fail
    BY <1>1, FailSafe
  <1>2. ASSUME NEW step \in {"passphrase", "recover", "stage"}, Proceed(step, op),
               step = "recover" => op.name = "unlock",
               step = "stage" => op.name # "unlock"
        PROVE IInv'
    <2>1. pc' = step /\ op' = op /\ held' = held /\ issued' = issued
      BY <1>2 DEF Proceed
    <2>2. OpOK'
      BY <1>2, <2>1 DEF IInv, OpOK, Evaluate
    <2> QED
      BY <1>2, <2>2, ProceedSafe DEF Step
  <1> QED
    BY <1>1, <1>2 DEF Evaluate

\* A passphrase prompt.
LEMMA AskPassphraseSafe ==
    ASSUME IInv, AskPassphrase
    PROVE  IInv'
  <1>1. CASE Fail
    BY <1>1, FailSafe
  <1>2. ASSUME NEW w \in Word,
               Proceed(IF op.name = "unlock" THEN "recover" ELSE "stage",
                       [op EXCEPT !.word = w])
        PROVE IInv'
    <2> DEFINE o == [op EXCEPT !.word = w]
    <2>1. PICK step \in {"recover", "stage"} :
            step = IF op.name = "unlock" THEN "recover" ELSE "stage"
      OBVIOUS
    <2>2. op \in Op
      BY DEF IInv, OpOK, AskPassphrase
    <2>3. /\ o \in Op /\ o.record = op.record /\ o.name = op.name
          /\ o.base = op.base /\ o.root = op.root
      BY <2>2 DEF Op
    <2>4. Proceed(step, o)
      BY <1>2, <2>1
    <2> HIDE DEF o
    <2>5. pc' = step /\ op' = o /\ held' = held /\ issued' = issued
      BY <2>4 DEF Proceed
    <2>6. OpOK'
      BY <2>1, <2>3, <2>5 DEF IInv, OpOK, AskPassphrase
    <2> QED
      BY <2>1, <2>4, <2>6, ProceedSafe DEF Step
  <1> QED
    BY <1>1, <1>2 DEF AskPassphrase

\* The staged envelope, and its adoption.
LEMMA StageSafe ==
    ASSUME IInv, Stage
    PROVE  IInv'
  <1> DEFINE b == op.base
             r == op.record
             others == {q \in b.recipients : q.id # r.id}
             sealed == Seal(b, r, op.word, op.root)
             e == Staged(b, r, op.word, op.root)
  <1>1. CASE Fail
    BY <1>1, FailSafe
  <1>2. CASE Decodable(e) /\ Replace(e)
    <2>1. /\ op \in Op /\ b \in Envelope /\ op.root \in Root /\ r \in Record
          /\ op.word \in Word \cup Nonce \cup {None}
      BY DEF IInv, OpOK, Stage, Op
    <2>2. b.recipients = {} \/ (b \in issued /\ b.mac.root = op.root)
      BY <2>1 DEF IInv, OpOK, Stage, Op
    <2>3. RecipientContext(b, r) \in Context
      BY <2>1 DEF RecipientContext, Context, Envelope, Record
    <2>4. /\ sealed = [r EXCEPT !.sealed = [context |-> RecipientContext(b, r),
                                     word |-> op.word, root |-> op.root]]
          /\ [context |-> RecipientContext(b, r), word |-> op.word,
              root |-> op.root] \in Sealed
      BY <2>1, <2>3 DEF Seal, Sealed
    <2>5. /\ sealed \in Record /\ sealed.sealed.root = op.root
          /\ sealed.sealed.context = RecipientContext(b, r)
          /\ RecipientContext(b, sealed) = RecipientContext(b, r)
      BY <2>1, <2>4 DEF Record, RecipientContext
    <2> HIDE DEF sealed
    <2>6. PICK body : body = [b EXCEPT !.recipients = others \cup {sealed}]
      OBVIOUS
    <2>7. others \cup {sealed} \subseteq Record
      BY <2>1, <2>5 DEF Envelope
    <2>8. /\ body \in Envelope /\ body.app = b.app /\ body.id = b.id
          /\ body.recipients = others \cup {sealed}
      BY <2>1, <2>6, <2>7 DEF Envelope
    <2>9. e = [body EXCEPT !.mac = EnvelopeMac(body, op.root)]
      BY <2>6 DEF Staged, sealed
    <2>10. EnvelopeMac(body, op.root) \in Mac
      BY <2>1, <2>8 DEF EnvelopeMac, Mac, Envelope
    <2> HIDE DEF e
    <2>11. /\ e \in Envelope /\ e.app = b.app /\ e.id = b.id
           /\ e.recipients = others \cup {sealed}
           /\ e.mac = EnvelopeMac(body, op.root) /\ e.mac.root = op.root
      BY <2>8, <2>9, <2>10 DEF Envelope, EnvelopeMac
    <2>12. MacMatches(e, e.mac.root)
      BY <2>8, <2>11 DEF MacMatches, EnvelopeMac
    <2>13. ASSUME NEW q \in e.recipients
           PROVE  LayerOpens(e, q) /\ q.sealed.root = e.mac.root
      <3>1. CASE q = sealed
        BY <3>1, <2>5, <2>11 DEF LayerOpens, RecipientContext
      <3>2. CASE q \in others
        <4>1. LayerOpens(b, q) /\ q.sealed.root = op.root
          BY <3>2, <2>2 DEF IInv, RoutesOpen
        <4> QED
          BY <4>1, <2>11 DEF LayerOpens, RecipientContext
      <3> QED
        BY <3>1, <3>2, <2>11
    <2>14. RoutesOpenIn(e)
      BY <2>12, <2>13 DEF RoutesOpenIn
    <2> QED
      BY <1>2, <2>10, <2>11, <2>14, ReplaceSafe
  <1> QED
    BY <1>1, <1>2 DEF Stage

\* The end of an unlock.
LEMMA RecoverSafe ==
    ASSUME IInv, Recover
    PROVE  IInv'
  <1>1. CASE Fail
    BY <1>1, FailSafe
  <1>2. CASE /\ MacMatches(op.base, op.record.sealed.root)
             /\ pc' = "idle"
             /\ op' = NoOp
             /\ result' = [status |-> "ok", root |-> op.record.sealed.root,
                           record |-> op.record]
             /\ UNCHANGED <<held, issued>>
    <2>1. op.base = held /\ op.record \in held.recipients
      BY DEF IInv, OpOK, Recover
    <2>2. held # NoEnvelope
      BY <2>1 DEF NoEnvelope
    <2>3. held \in issued /\ held.mac.root = op.record.sealed.root
      BY <1>2, <2>1, <2>2, MatchingIsIssued
    <2>4. held.mac.root \in Root
      BY <2>3 DEF IInv, TypeOK, Mac
    <2>5. result'.status = "ok" /\ result'.root = held.mac.root
            /\ result'.record = op.record
      BY <1>2, <2>3
    <2>6. TypeOK'
      BY <1>2, <2>4, <2>5 DEF IInv, TypeOK, Step
    <2>7. UnlockIsAuthentic' /\ OpOK'
      BY <1>2, <2>1, <2>3, <2>5 DEF UnlockIsAuthentic, OpOK
    <2>8. MacsAreIssued' /\ RoutesOpen'
      BY <1>2 DEF IInv, MacsAreIssued, RoutesOpen, MacMatches, EnvelopeMac,
                  LayerOpens, RecipientContext
    <2> QED
      BY <2>6, <2>7, <2>8 DEF IInv
  <1> QED
    BY <1>1, <1>2 DEF Recover

\* A removal.
LEMMA RemoveSafe ==
    ASSUME IInv, Remove
    PROVE  IInv'
  <1>1. CASE Fail
    BY <1>1, FailSafe
  <1>2. ASSUME NEW root \in Root, NEW id, NEW app,
               NEW body, body = [held EXCEPT !.recipients = {r \in @ : r.id # id}],
               NEW e, e = [body EXCEPT !.mac = EnvelopeMac(body, root)],
               Authenticated(held, app, root), Decodable(e), Replace(e)
        PROVE IInv'
    <2>1. held \in issued /\ held.mac.root = root
      BY <1>2, MatchingIsIssued DEF Remove, Authenticated
    <2>2. held \in Envelope
      BY <2>1 DEF IInv, TypeOK
    <2>3. /\ body \in Envelope /\ body.app = held.app /\ body.id = held.id
          /\ body.recipients = {r \in held.recipients : r.id # id}
      BY <1>2, <2>2 DEF Envelope
    <2>4. EnvelopeMac(body, root) \in Mac
      BY <2>3 DEF EnvelopeMac, Mac, Envelope
    <2>5. /\ e \in Envelope /\ e.app = held.app /\ e.id = held.id
          /\ e.recipients = body.recipients
          /\ e.mac = EnvelopeMac(body, root) /\ e.mac.root = root
      BY <1>2, <2>3, <2>4 DEF Envelope, EnvelopeMac
    <2>6. MacMatches(e, e.mac.root)
      BY <2>3, <2>5 DEF MacMatches, EnvelopeMac
    <2>7. \A q \in held.recipients : LayerOpens(held, q) /\ q.sealed.root = root
      BY <2>1 DEF IInv, RoutesOpen
    <2>8. \A q \in e.recipients : LayerOpens(e, q) /\ q.sealed.root = e.mac.root
      BY <2>3, <2>5, <2>7 DEF LayerOpens, RecipientContext
    <2>9. RoutesOpenIn(e)
      BY <2>6, <2>8 DEF RoutesOpenIn
    <2> QED
      BY <1>2, <2>4, <2>5, <2>9, ReplaceSafe
  <1> QED
    BY <1>1, <1>2 DEF Remove

\* A stored copy, whatever became of it, loaded between two operations.
LEMMA LoadSafe ==
    ASSUME IInv, Load
    PROVE  IInv'
  <1>1. PICK e \in issued, f \in issued : \E copy \in Mixed(e, f) \cup Altered(e) :
            Decodable(copy) /\ held' = copy
    BY DEF Load
  <1>2. PICK copy \in Mixed(e, f) \cup Altered(e) : Decodable(copy) /\ held' = copy
    BY <1>1
  <1>3. e \in Envelope /\ f \in Envelope
    BY DEF IInv, TypeOK
  <1>4. copy \in Envelope /\ copy.mac = e.mac /\ copy.id = e.id
    <2>1. ASSUME NEW R \in SUBSET Record, copy = [e EXCEPT !.recipients = R]
          PROVE  copy \in Envelope /\ copy.mac = e.mac /\ copy.id = e.id
      BY <1>3, <2>1 DEF Envelope
    <2>2. CASE copy \in Mixed(e, f)
      BY <1>3, <2>1, <2>2 DEF Mixed, Envelope
    <2>3. CASE copy \in Altered(e)
      <3>1. PICK r \in e.recipients, w \in Work :
              copy = [e EXCEPT !.recipients = (@ \ {r}) \cup {[r EXCEPT !.work = w]}]
        BY <2>3 DEF Altered
      <3>2. r \in Record
        BY <1>3 DEF Envelope
      <3>3. [r EXCEPT !.work = w] \in Record
        BY <3>2 DEF Record
      <3>4. PICK R : R = (e.recipients \ {r}) \cup {[r EXCEPT !.work = w]}
        OBVIOUS
      <3>5. R \in SUBSET Record
        BY <1>3, <3>3, <3>4 DEF Envelope
      <3>6. copy = [e EXCEPT !.recipients = R]
        BY <1>3, <3>1, <3>4 DEF Envelope
      <3> QED
        BY <2>1, <3>5, <3>6
    <2> QED
      BY <1>2, <2>2, <2>3
  <1>5. /\ pc' = "idle" /\ issued' = issued /\ result'.status = "none"
        /\ result'.root = None
    BY DEF Load, NoResult
  <1>6. TypeOK'
    BY <1>2, <1>4, <1>5 DEF IInv, TypeOK, Decodable, Step
  <1>7. OpOK' /\ UnlockIsAuthentic' /\ MacsAreIssued'
    BY <1>2, <1>4, <1>5 DEF OpOK, UnlockIsAuthentic, MacsAreIssued
  <1>8. RoutesOpen'
    BY <1>5 DEF IInv, RoutesOpen, MacMatches, EnvelopeMac, LayerOpens,
                RecipientContext
  <1> QED
    BY <1>6, <1>7, <1>8 DEF IInv

-----------------------------------------------------------------------------
(***************************************************************************)
(* The theorems.                                                           *)
(***************************************************************************)

\* Before the first operation there is nothing to open and nothing held.
LEMMA InitSafe == Init => IInv
  <1> SUFFICES ASSUME Init PROVE IInv
    OBVIOUS
  <1>1. TypeOK
    BY DEF Init, TypeOK, Step, NoResult
  <1>2. OpOK /\ MacsAreIssued /\ RoutesOpen /\ UnlockIsAuthentic
    BY DEF Init, OpOK, MacsAreIssued, RoutesOpen, UnlockIsAuthentic, NoResult
  <1> QED
    BY <1>1, <1>2 DEF IInv

\* Every step preserves the inductive invariant.
LEMMA NextSafe == IInv /\ [Next]_vars => IInv'
  <1> SUFFICES ASSUME IInv, [Next]_vars PROVE IInv'
    OBVIOUS
  <1>1. CASE Next
    BY <1>1, BeginCreateSafe, BeginAddSafe, BeginRewrapSafe, BeginUnlockSafe,
       EnrollSafe, DrawReplacementSafe, EvaluateSafe, AskPassphraseSafe,
       StageSafe, RecoverSafe, RemoveSafe, LoadSafe DEF Next
  <1>2. CASE UNCHANGED vars
    BY <1>2 DEF vars, IInv, TypeOK, OpOK, MacsAreIssued, RoutesOpen,
                UnlockIsAuthentic, MacMatches, EnvelopeMac, LayerOpens,
                RecipientContext, Decodable
  <1> QED
    BY <1>1, <1>2

\* The inductive invariant holds: types, what each step relies on, and that
\* every MAC in circulation was computed by an operation.
THEOREM InductiveInvariant == Spec => []IInv
  BY InitSafe, NextSafe, PTL DEF Spec

\* Every variable keeps its type, and the caller's envelope always decodes.
THEOREM TypeCorrect == Spec => []TypeOK
  <1>1. IInv => TypeOK
    BY DEF IInv
  <1> QED
    BY <1>1, InductiveInvariant, PTL

\* Every route of every issued envelope opens to the root it authenticates.
THEOREM EveryRouteOpens == Spec => []RoutesOpen
  <1>1. IInv => RoutesOpen
    BY DEF IInv
  <1> QED
    BY <1>1, InductiveInvariant, PTL

\* A root is only ever recovered from a copy that was issued exactly as it is.
THEOREM UnlockAuthenticates == Spec => []UnlockIsAuthentic
  <1>1. IInv => UnlockIsAuthentic
    BY DEF IInv
  <1> QED
    BY <1>1, InductiveInvariant, PTL

\* A step that issues an envelope under the id of the one the caller holds
\* started from an issued copy.
LEMMA NextAuthenticates ==
    ASSUME IInv, [Next]_vars, NEW n \in issued' \ issued, n.id = held.id
    PROVE  held \in issued
  <1>1. CASE Stage
    <2>1. n = Staged(op.base, op.record, op.word, op.root)
      BY <1>1 DEF Stage, Replace, Fail
    <2>2. op \in Op /\ op.name \in {"create", "add", "rewrap"}
      BY <1>1 DEF IInv, OpOK, Stage, Op
    <2>3. n.id = op.base.id
      BY <2>1, <2>2 DEF Staged, Op, Envelope
    <2>4. CASE op.name # "create"
      BY <1>1, <2>2, <2>4 DEF IInv, OpOK, Stage
    <2>5. CASE op.name = "create"
      <3>1. op.base.id \in EnvelopeId /\ \A e \in issued : e.id # op.base.id
        BY <1>1, <2>2, <2>5 DEF IInv, OpOK, Stage, Op, Envelope
      <3>2. held # NoEnvelope
        <4>1. held.id \in EnvelopeId
          BY <2>3, <3>1
        <4>2. NoEnvelope.id \notin EnvelopeId
          BY NoneAssumption DEF NoEnvelope
        <4> QED
          BY <4>1, <4>2
      <3> QED
        BY <2>3, <3>1, <3>2 DEF IInv, MacsAreIssued
    <2> QED
      BY <2>4, <2>5
  <1>2. CASE Remove
    <2>1. PICK app, root : Authenticated(held, app, root)
      BY <1>2 DEF Remove, Fail
    <2> QED
      BY <1>2, <2>1, MatchingIsIssued DEF Remove, Authenticated
  <1>3. CASE issued' = issued
    BY <1>3
  <1> QED
    BY <1>1, <1>2, <1>3 DEF Next, vars, BeginCreate, BeginAdd, BeginEnroll,
       BeginRewrap, BeginUnlock, Enroll, DrawReplacement, Evaluate,
       AskPassphrase, Recover, Load, Proceed, Fail

\* Nothing a storage fault left is ever given a new MAC: a change starts from
\* an issued copy.
THEOREM OnlyIssuedCopiesChange == Spec => ChangesAreAuthenticated
  <1>1. IInv /\ [Next]_vars =>
          [\A n \in issued' \ issued : n.id = held.id => held \in issued]_vars
    BY NextAuthenticates
  <1> QED
    BY <1>1, InductiveInvariant, PTL DEF Spec, ChangesAreAuthenticated

-----------------------------------------------------------------------------
(***************************************************************************)
(* Draws, prompts and changes: what DrawInv adds.                          *)
(***************************************************************************)

\* An operation that returns an error leaves DrawInv.
LEMMA FailDraws ==
    ASSUME DrawInv, UNCHANGED <<held, issued>>, pc' = "idle"
    PROVE  DrawInv'
  BY DEF DrawInv, WorkIsRecorded, NoReuse, NoSealReuse, SaltsAreUnique, SpentRecords

\* One that runs on leaves it, if its record is prepared for the next step.
LEMMA ProceedDraws ==
    ASSUME DrawInv, NEW step, NEW o, Proceed(step, o), Prepared(step, o)
    PROVE  DrawInv'
  <1>1. pc' = step /\ op' = o /\ held' = held /\ issued' = issued
    BY DEF Proceed
  <1>2. SpentRecords' = SpentRecords
    BY <1>1 DEF SpentRecords
  <1>3. Prepared(pc, op)'
    BY <1>1, <1>2 DEF Prepared, Unspent, Ids, LayerOpens, RecipientContext
  <1>4. NoReuse'
    BY <1>2 DEF DrawInv, NoReuse, NoSealReuse, SaltsAreUnique
  <1> QED
    BY <1>1, <1>3, <1>4 DEF DrawInv, WorkIsRecorded

\* The context of an issued record holds its nonce.
LEMMA SpentContext ==
    ASSUME IInv, NEW q \in SpentRecords
    PROVE  q.sealed.context.nonce = q.nonce
  <1>1. PICK e \in issued : q \in e.recipients
    BY DEF SpentRecords
  <1>2. q.sealed.context = RecipientContext(e, q)
    BY <1>1 DEF IInv, RoutesOpen, LayerOpens
  <1> QED
    BY <1>2 DEF RecipientContext

\* An operation that issues one more envelope, of records spent before and at
\* most one unspent one, leaves it.
LEMMA ReplaceDraws ==
    ASSUME IInv, DrawInv, NEW e, Replace(e), WorkIsRecorded(e), NEW new,
           e.recipients \subseteq SpentRecords \cup {new},
           \/ new \in SpentRecords
           \/ Unspent(new) /\ new.sealed.context.nonce = new.nonce
    PROVE  DrawInv'
  <1>1. held' = e /\ issued' = issued \cup {e} /\ pc' = "idle"
    BY DEF Replace
  <1>2. SpentRecords' \subseteq SpentRecords \cup {new}
    BY <1>1 DEF SpentRecords
  <1>3. NoSealReuse'
    <2> SUFFICES ASSUME NEW r \in SpentRecords \cup {new},
                        NEW q \in SpentRecords \cup {new},
                        r.sealed.context = q.sealed.context
                 PROVE  r.sealed = q.sealed
      BY <1>2 DEF NoSealReuse
    <2>1. CASE r \in SpentRecords /\ q \in SpentRecords
      BY <2>1 DEF DrawInv, NoReuse, NoSealReuse
    <2>2. CASE r = new /\ q = new
      BY <2>2
    <2>3. CASE new \notin SpentRecords /\ r \in SpentRecords /\ q = new
      <3>1. r.nonce # new.nonce
        BY <2>3 DEF Unspent
      <3> QED
        BY <3>1, <2>3, SpentContext
    <2>4. CASE new \notin SpentRecords /\ q \in SpentRecords /\ r = new
      <3>1. q.nonce # new.nonce
        BY <2>4 DEF Unspent
      <3> QED
        BY <3>1, <2>4, SpentContext
    <2> QED
      BY <2>1, <2>2, <2>3, <2>4
  <1>4. SaltsAreUnique'
    <2> SUFFICES ASSUME NEW r \in SpentRecords \cup {new},
                        NEW q \in SpentRecords \cup {new},
                        r.salt # None, r.salt = q.salt
                 PROVE  r = q
      BY <1>2 DEF SaltsAreUnique
    <2>1. CASE r \in SpentRecords /\ q \in SpentRecords
      BY <2>1 DEF DrawInv, NoReuse, SaltsAreUnique
    <2>2. CASE new \in SpentRecords
      BY <2>2 DEF DrawInv, NoReuse, SaltsAreUnique
    <2>3. CASE new \notin SpentRecords
      BY <2>3, <2>1 DEF Unspent
    <2> QED
      BY <2>1, <2>2, <2>3
  <1> QED
    BY <1>1, <1>3, <1>4 DEF DrawInv, NoReuse, WorkIsRecorded

\* The common start of an enrollment.
LEMMA BeginEnrollDraws ==
    ASSUME DrawInv, NEW name \in {"create", "add"}, NEW base, NEW root,
           BeginEnroll(name, base, root)
    PROVE  DrawInv'
  <1> USE DEF BeginEnroll
  <1>1. CASE Fail
    BY <1>1, FailDraws DEF Fail
  <1>2. ASSUME NEW suite \in Suite, NEW limit \in Work,
               NEW work \in IF UsesPassphrase(suite) THEN Work ELSE {None},
               Admitted(work, limit),
               Proceed("enroll",
                [name |-> name, root |-> root, limit |-> limit, base |-> base,
                 record |-> [NoRecord EXCEPT !.suite = suite, !.work = work],
                 word |-> None])
        PROVE DrawInv'
    <2> DEFINE m == [NoRecord EXCEPT !.suite = suite, !.work = work]
               o == [name |-> name, root |-> root, limit |-> limit, base |-> base,
                     record |-> m, word |-> None]
    <2>1. m.suite = suite /\ m.work = work
      BY DEF NoRecord
    <2> HIDE DEF m
    <2>2. /\ o.name = name /\ o.record.suite = suite /\ o.record.work = work
          /\ o.limit = limit
      BY <2>1
    <2>3. UsesPassphrase(suite) => work \in Work /\ work <= limit
      BY <1>2, NoneAssumption DEF Admitted
    <2>4. Proceed("enroll", o)
      BY <1>2 DEF m
    <2> HIDE DEF o
    <2>5. Prepared("enroll", o)
      BY <2>2, <2>3 DEF Prepared
    <2> QED
      BY <2>4, <2>5, ProceedDraws
  <1> QED
    BY <1>1, <1>2

\* create_root and protect_root begin.
LEMMA BeginCreateDraws == DrawInv /\ BeginCreate => DrawInv'
  BY BeginEnrollDraws DEF BeginCreate

\* add_recipient begins.
LEMMA BeginAddDraws == DrawInv /\ BeginAdd => DrawInv'
  BY BeginEnrollDraws, FailDraws DEF BeginAdd, Fail

\* The next step after the draws fits the suite.
LEMMA AfterDrawFits ==
    ASSUME NEW suite \in AllSuites
    PROVE  /\ AfterDraw(suite) \in {"evaluate", "passphrase", "stage"}
           /\ AfterDraw(suite) = "passphrase" => suite = "passphrase"
  BY DEF AfterDraw, AllSuites, UsesFido

\* The draws of an enrollment are unspent, and its id is new.
LEMMA EnrollDraws ==
    ASSUME IInv, DrawInv, Enroll
    PROVE  DrawInv'
  <1>1. CASE Fail
    BY <1>1, FailDraws DEF Fail
  <1>2. ASSUME NEW cred \in IF UsesFido(op.record.suite)
                            THEN EnrolledCredential(op.base) ELSE {None},
               NEW id \in UniqueRecipientId(op.base),
               NEW salt \in IF UsesPassphrase(op.record.suite)
                            THEN UniqueSalt(op.base) ELSE {None},
               NEW nonce \in RandomArray,
               Proceed(AfterDraw(op.record.suite),
                [op EXCEPT !.record = [@ EXCEPT !.cred = cred, !.id = id,
                                                !.salt = salt, !.nonce = nonce],
                           !.word = IF UsesSecret(op.record.suite)
                                    THEN nonce ELSE None])
        PROVE DrawInv'
    <2>1. id \notin Ids(op.base)
      BY FreshIsDrawn DEF UniqueRecipientId
    <2>2. salt # None => salt \notin {q.salt : q \in SpentRecords}
      BY FreshIsDrawn DEF UniqueSalt
    <2>3. nonce \notin {q.nonce : q \in SpentRecords}
      BY FreshIsDrawn DEF RandomArray
    <2>4. op \in Op /\ op.name \in {"create", "add"} /\ Prepared("enroll", op)
      BY DEF IInv, OpOK, Enroll, DrawInv
    <2>5. op.record \in Draft
      BY <2>4 DEF Op
    <2>6. PICK word : word = IF UsesSecret(op.record.suite) THEN nonce ELSE None
      OBVIOUS
    <2> DEFINE m == [op.record EXCEPT !.cred = cred, !.id = id,
                                      !.salt = salt, !.nonce = nonce]
               o == [op EXCEPT !.record = m, !.word = word]
    <2>7. /\ m.id = id /\ m.salt = salt /\ m.nonce = nonce
          /\ m.suite = op.record.suite /\ m.work = op.record.work
      BY <2>5 DEF Draft
    <2> HIDE DEF m
    <2>8. /\ o.record = m /\ o.name = op.name /\ o.base = op.base
          /\ o.limit = op.limit
      BY <2>4 DEF Op
    <2>9. Proceed(AfterDraw(op.record.suite), o)
      BY <1>2, <2>4, <2>6 DEF m, Op
    <2> HIDE DEF o
    <2>10. Unspent(m)
      BY <2>2, <2>3, <2>7 DEF Unspent
    <2>11. /\ AfterDraw(op.record.suite) \in {"evaluate", "passphrase", "stage"}
           /\ AfterDraw(op.record.suite) = "passphrase" => op.record.suite = "passphrase"
      BY <2>5, AfterDrawFits DEF Draft
    <2>12. Prepared(AfterDraw(op.record.suite), o)
      BY <2>1, <2>4, <2>7, <2>8, <2>10, <2>11 DEF Prepared, UsesPassphrase
    <2> QED
      BY <2>9, <2>12, ProceedDraws
  <1> QED
    BY <1>1, <1>2 DEF Enroll

\* A rewrap keeps the route and admits the new work.
LEMMA BeginRewrapDraws ==
    ASSUME IInv, DrawInv, BeginRewrap
    PROVE  DrawInv'
  <1> USE DEF BeginRewrap
  <1>1. CASE Fail
    BY <1>1, FailDraws DEF Fail
  <1>2. ASSUME NEW root \in Root, NEW work \in Work, NEW limit \in Work,
               NEW r \in held.recipients,
               Admitted(work, limit),
               Proceed("replace",
                    [name |-> "rewrap", root |-> root, limit |-> limit,
                     base |-> held, record |-> Replacement(r, work),
                     word |-> None])
        PROVE DrawInv'
    <2> DEFINE m == Replacement(r, work)
               o == [name |-> "rewrap", root |-> root, limit |-> limit,
                     base |-> held, record |-> m, word |-> None]
    <2>1. r \in Record
      BY HeldRecords
    <2>2. m.id = r.id /\ m.suite = r.suite /\ m.cred = r.cred /\ m.work = work
      BY <2>1 DEF Replacement, Record
    <2>3. work \in Work /\ work <= limit
      BY <1>2, NoneAssumption DEF Admitted
    <2> HIDE DEF m
    <2>4. o.name = "rewrap" /\ o.record = m /\ o.limit = limit /\ o.base = held
      OBVIOUS
    <2>5. Proceed("replace", o)
      BY <1>2 DEF m
    <2> HIDE DEF o
    <2>6. Prepared("replace", o)
      BY <2>2, <2>3, <2>4 DEF Prepared
    <2> QED
      BY <2>5, <2>6, ProceedDraws
  <1> QED
    BY <1>1, <1>2

\* The random fields of the replacement are unspent.
LEMMA DrawReplacementDraws ==
    ASSUME IInv, DrawInv, DrawReplacement
    PROVE  DrawInv'
  <1>1. CASE Fail
    BY <1>1, FailDraws DEF Fail
  <1>2. ASSUME NEW salt \in UniqueSalt(op.base),
               NEW nonce \in FreshArray(op.record.nonce),
               Proceed(AfterDraw(op.record.suite),
                [op EXCEPT !.record = [@ EXCEPT !.salt = salt, !.nonce = nonce]])
        PROVE DrawInv'
    <2> DEFINE m == [op.record EXCEPT !.salt = salt, !.nonce = nonce]
               o == [op EXCEPT !.record = m]
    <2>1. salt \notin {q.salt : q \in SpentRecords}
      BY FreshIsDrawn DEF UniqueSalt
    <2>2. nonce \notin {q.nonce : q \in SpentRecords}
      BY FreshIsDrawn DEF FreshArray, RandomArray
    <2>3. /\ op \in Op /\ op.name = "rewrap" /\ op.record \in Record
          /\ Prepared("replace", op)
      BY DEF IInv, OpOK, DrawReplacement, DrawInv
    <2>4. /\ m.salt = salt /\ m.nonce = nonce /\ m.suite = op.record.suite
          /\ m.work = op.record.work /\ m.id = op.record.id /\ m.cred = op.record.cred
      BY <2>3 DEF Record
    <2> HIDE DEF m
    <2>5. /\ o.record = m /\ o.name = op.name /\ o.base = op.base
          /\ o.limit = op.limit
      BY <2>3 DEF Op
    <2>6. Proceed(AfterDraw(op.record.suite), o)
      BY <1>2, <2>3 DEF m, Op
    <2> HIDE DEF o
    <2>7. Unspent(m)
      BY <2>1, <2>2, <2>4 DEF Unspent
    <2>8. /\ AfterDraw(op.record.suite) \in {"evaluate", "passphrase", "stage"}
          /\ AfterDraw(op.record.suite) = "passphrase" => op.record.suite = "passphrase"
      BY <2>3, AfterDrawFits DEF Record
    <2>9. Prepared(AfterDraw(op.record.suite), o)
      BY <2>3, <2>4, <2>5, <2>7, <2>8 DEF Prepared, UsesPassphrase
    <2> QED
      BY <2>6, <2>9, ProceedDraws
  <1> QED
    BY <1>1, <1>2 DEF DrawReplacement

\* An unlock admits the recorded work, and asks a combined route's key first.
LEMMA BeginUnlockDraws ==
    ASSUME IInv, DrawInv, BeginUnlock
    PROVE  DrawInv'
  <1> USE DEF BeginUnlock
  <1>1. CASE Fail
    BY <1>1, FailDraws DEF Fail
  <1>2. ASSUME NEW limit \in Work, NEW call, NEW secret \in Nonce,
               NEW r \in held.recipients, UnlockRoute(r, call, limit),
               Proceed(IF r.suite = "recovery" THEN "recover"
                                               ELSE AfterDraw(r.suite),
                        [name |-> "unlock", root |-> None, limit |-> limit,
                         base |-> held, record |-> r,
                         word |-> IF call = "secret" THEN secret ELSE None])
        PROVE DrawInv'
    <2>1. PICK word : word = IF call = "secret" THEN secret ELSE None
      OBVIOUS
    <2>2. PICK step : step = IF r.suite = "recovery" THEN "recover"
                                                     ELSE AfterDraw(r.suite)
      OBVIOUS
    <2> DEFINE o == [name |-> "unlock", root |-> None, limit |-> limit,
                     base |-> held, record |-> r, word |-> word]
    <2>3. r \in Record
      BY HeldRecords
    <2>4. step = "passphrase" => r.suite = "passphrase"
      BY <2>2, <2>3, AfterDrawFits DEF Record
    <2>5. UsesPassphrase(r.suite) => r.work \in Work /\ r.work <= limit
      BY <1>2, NoneAssumption DEF UnlockRoute, UsesSecret, UsesPassphrase,
         Admitted, DrawInv, WorkIsRecorded
    <2>6. o.record = r /\ o.name = "unlock" /\ o.limit = limit
      OBVIOUS
    <2>7. Proceed(step, o)
      BY <1>2, <2>1, <2>2
    <2> HIDE DEF o
    <2>8. Prepared(step, o)
      BY <2>4, <2>5, <2>6 DEF Prepared, UsesPassphrase
    <2> QED
      BY <2>7, <2>8, ProceedDraws
  <1> QED
    BY <1>1, <1>2

\* The PRF evaluation goes on only with an open outer layer.
LEMMA EvaluateDraws ==
    ASSUME IInv, DrawInv, Evaluate
    PROVE  DrawInv'
  <1>1. CASE Fail
    BY <1>1, FailDraws DEF Fail
  <1>2. ASSUME NEW step \in {"passphrase", "recover", "stage"}, Proceed(step, op),
               step = "passphrase" => op.record.suite = "combined",
               op.name = "unlock" => LayerOpens(op.base, op.record)
        PROVE DrawInv'
    <2>1. Prepared("evaluate", op)
      BY DEF DrawInv, Evaluate
    <2>2. Prepared(step, op)
      BY <1>2, <2>1 DEF Prepared, UsesPassphrase
    <2> QED
      BY <1>2, <2>2, ProceedDraws
  <1> QED
    BY <1>1, <1>2 DEF Evaluate

\* A passphrase changes nothing of the record.
LEMMA AskPassphraseDraws ==
    ASSUME IInv, DrawInv, AskPassphrase
    PROVE  DrawInv'
  <1>1. CASE Fail
    BY <1>1, FailDraws DEF Fail
  <1>2. ASSUME NEW w \in Word,
               Proceed(IF op.name = "unlock" THEN "recover" ELSE "stage",
                       [op EXCEPT !.word = w])
        PROVE DrawInv'
    <2> DEFINE o == [op EXCEPT !.word = w]
    <2>1. PICK step \in {"recover", "stage"} :
            step = IF op.name = "unlock" THEN "recover" ELSE "stage"
      OBVIOUS
    <2>2. op \in Op /\ Prepared("passphrase", op)
      BY DEF IInv, OpOK, DrawInv, AskPassphrase
    <2>3. /\ o.record = op.record /\ o.name = op.name /\ o.base = op.base
          /\ o.limit = op.limit
      BY <2>2 DEF Op
    <2>4. Proceed(step, o)
      BY <1>2, <2>1
    <2> HIDE DEF o
    <2>5. Prepared(step, o)
      BY <2>2, <2>3 DEF Prepared
    <2> QED
      BY <2>4, <2>5, ProceedDraws
  <1> QED
    BY <1>1, <1>2 DEF AskPassphrase

\* The staged envelope: the routes but one, and that one sealed anew.
LEMMA StagedRecords ==
    ASSUME IInv, Stage
    PROVE  \E new \in Record :
            /\ Staged(op.base, op.record, op.word, op.root).recipients
                = {q \in op.base.recipients : q.id # op.record.id} \cup {new}
            /\ Staged(op.base, op.record, op.word, op.root).app = op.base.app
            /\ Staged(op.base, op.record, op.word, op.root).mac.root = op.root
            /\ new.id = op.record.id /\ new.suite = op.record.suite
            /\ new.cred = op.record.cred /\ new.salt = op.record.salt
            /\ new.nonce = op.record.nonce /\ new.work = op.record.work
            /\ new.sealed.context.nonce = new.nonce
  <1> DEFINE b == op.base
             r == op.record
             others == {q \in b.recipients : q.id # r.id}
             new == Seal(b, r, op.word, op.root)
             e == Staged(b, r, op.word, op.root)
  <1>1. /\ op \in Op /\ b \in Envelope /\ op.root \in Root /\ r \in Record
        /\ op.word \in Word \cup Nonce \cup {None}
    BY DEF IInv, OpOK, Stage, Op
  <1>2. /\ RecipientContext(b, r) \in Context
        /\ RecipientContext(b, r).nonce = r.nonce
    BY <1>1 DEF RecipientContext, Context, Envelope, Record
  <1>3. /\ new = [r EXCEPT !.sealed = [context |-> RecipientContext(b, r),
                                       word |-> op.word, root |-> op.root]]
        /\ [context |-> RecipientContext(b, r), word |-> op.word,
            root |-> op.root] \in Sealed
    BY <1>1, <1>2 DEF Seal, Sealed
  <1>4. /\ new \in Record /\ new.id = r.id /\ new.suite = r.suite
        /\ new.cred = r.cred /\ new.salt = r.salt /\ new.nonce = r.nonce
        /\ new.work = r.work /\ new.sealed.context = RecipientContext(b, r)
    BY <1>1, <1>3 DEF Record
  <1> HIDE DEF new
  <1>5. PICK body : body = [b EXCEPT !.recipients = others \cup {new}]
    OBVIOUS
  <1>6. others \cup {new} \subseteq Record
    BY <1>1, <1>4 DEF Envelope
  <1>7. /\ body \in Envelope /\ body.app = b.app
        /\ body.recipients = others \cup {new}
    BY <1>1, <1>5, <1>6 DEF Envelope
  <1>8. e = [body EXCEPT !.mac = EnvelopeMac(body, op.root)]
    BY <1>5 DEF Staged, new
  <1> HIDE DEF e
  <1>9. /\ e.recipients = others \cup {new} /\ e.app = b.app
        /\ e.mac.root = op.root
    BY <1>7, <1>8 DEF Envelope, EnvelopeMac
  <1> QED
    BY <1>2, <1>4, <1>9 DEF e

\* What is staged spends the draws of one record.
LEMMA StageDraws ==
    ASSUME IInv, DrawInv, Stage
    PROVE  DrawInv'
  <1>1. CASE Fail
    BY <1>1, FailDraws DEF Fail
  <1>2. CASE Replace(Staged(op.base, op.record, op.word, op.root))
    <2>1. PICK e : e = Staged(op.base, op.record, op.word, op.root)
      OBVIOUS
    <2>2. PICK new \in Record :
            /\ e.recipients
                = {q \in op.base.recipients : q.id # op.record.id} \cup {new}
            /\ new.suite = op.record.suite /\ new.salt = op.record.salt
            /\ new.nonce = op.record.nonce /\ new.work = op.record.work
            /\ new.sealed.context.nonce = new.nonce
      BY <2>1, StagedRecords
    <2>3. op.name # "unlock" /\ Prepared("stage", op)
      BY DEF IInv, OpOK, Stage, DrawInv
    <2>4. Unspent(new)
      BY <2>2, <2>3 DEF Prepared, Unspent
    <2>5. op.base.recipients = {} \/ op.base \in issued
      BY <2>3 DEF IInv, OpOK, Stage, Op
    <2>6. e.recipients \subseteq SpentRecords \cup {new}
      BY <2>2, <2>5 DEF SpentRecords
    <2>7. WorkIsRecorded(e)
      BY <2>2, <2>3, <2>5 DEF WorkIsRecorded, Prepared, DrawInv
    <2> QED
      BY <1>2, <2>1, <2>2, <2>4, <2>6, <2>7, ReplaceDraws
  <1> QED
    BY <1>1, <1>2 DEF Stage

\* A removal seals nothing.
LEMMA RemovedRecords ==
    ASSUME IInv, Remove, ~Fail
    PROVE  \E e, id : /\ Replace(e) /\ held \in issued /\ e.app = held.app
                      /\ e.mac.root = held.mac.root
                      /\ e.recipients = {r \in held.recipients : r.id # id}
                      /\ id \in Ids(held)
  <1>1. PICK root \in Root, id \in Ids(held), app \in Application :
            LET body == [held EXCEPT !.recipients = {r \in @ : r.id # id}]
                e == [body EXCEPT !.mac = EnvelopeMac(body, root)]
            IN  Authenticated(held, app, root) /\ Replace(e)
    BY DEF Remove
  <1>2. held \in issued /\ held.mac.root = root
    BY <1>1, MatchingIsIssued DEF Remove, Authenticated
  <1>3. held \in Envelope
    BY <1>2 DEF IInv, TypeOK
  <1>4. PICK body : body = [held EXCEPT !.recipients = {r \in @ : r.id # id}]
    OBVIOUS
  <1>5. PICK e : e = [body EXCEPT !.mac = EnvelopeMac(body, root)]
    OBVIOUS
  <1>6. /\ body \in Envelope /\ body.app = held.app
        /\ body.recipients = {r \in held.recipients : r.id # id}
    BY <1>3, <1>4 DEF Envelope
  <1>7. /\ e.recipients = {r \in held.recipients : r.id # id}
        /\ e.app = held.app /\ e.mac.root = root
    BY <1>5, <1>6 DEF Envelope, EnvelopeMac
  <1>8. Replace(e)
    BY <1>1, <1>4, <1>5
  <1> QED
    BY <1>2, <1>7, <1>8

\* Neither does it spend anything.
LEMMA RemoveDraws ==
    ASSUME IInv, DrawInv, Remove
    PROVE  DrawInv'
  <1>1. CASE Fail
    BY <1>1, FailDraws DEF Fail
  <1>2. CASE ~Fail
    <2>1. PICK e, id : /\ Replace(e) /\ held \in issued
                       /\ e.recipients = {r \in held.recipients : r.id # id}
                       /\ id \in Ids(held)
      BY <1>2, RemovedRecords
    <2>2. PICK new \in held.recipients : new.id = id
      BY <2>1 DEF Ids
    <2>3. held.recipients \subseteq SpentRecords
      BY <2>1 DEF SpentRecords
    <2>4. WorkIsRecorded(e)
      BY <2>1 DEF DrawInv, WorkIsRecorded
    <2> QED
      BY <2>1, <2>2, <2>3, <2>4, ReplaceDraws
  <1> QED
    BY <1>1, <1>2

\* A stored copy records the work of its routes.
LEMMA LoadDraws ==
    ASSUME IInv, DrawInv, Load
    PROVE  DrawInv'
  <1>1. PICK e \in issued, f \in issued : \E copy \in Mixed(e, f) \cup Altered(e) :
            held' = copy
    BY DEF Load
  <1>2. PICK copy \in Mixed(e, f) \cup Altered(e) : held' = copy
    BY <1>1
  <1>3. e \in Envelope /\ f \in Envelope
    BY DEF IInv, TypeOK
  <1>4. WorkIsRecorded(copy)
    <2>1. CASE copy \in Mixed(e, f)
      <3>1. PICK R \in SUBSET (e.recipients \cup f.recipients) :
                copy = [e EXCEPT !.recipients = R]
        BY <2>1 DEF Mixed
      <3>2. copy.recipients = R
        BY <1>3, <3>1 DEF Envelope
      <3> QED
        BY <3>2 DEF DrawInv, WorkIsRecorded
    <2>2. CASE copy \in Altered(e)
      <3>1. PICK r \in e.recipients, w \in Work :
              copy = [e EXCEPT !.recipients = (@ \ {r}) \cup {[r EXCEPT !.work = w]}]
        BY <2>2 DEF Altered
      <3>2. r \in Record
        BY <1>3 DEF Envelope
      <3>3. PICK q : q = [r EXCEPT !.work = w]
        OBVIOUS
      <3>4. q.work \in Work
        BY <3>2, <3>3 DEF Record
      <3>5. PICK R : R = (e.recipients \ {r}) \cup {q}
        OBVIOUS
      <3>6. copy = [e EXCEPT !.recipients = R]
        BY <1>3, <3>1, <3>3, <3>5 DEF Envelope
      <3>7. copy.recipients = R
        BY <1>3, <3>6 DEF Envelope
      <3> QED
        BY <3>4, <3>5, <3>7 DEF DrawInv, WorkIsRecorded
    <2> QED
      BY <2>1, <2>2
  <1>5. pc' = "idle" /\ issued' = issued
    BY DEF Load
  <1> QED
    BY <1>2, <1>4, <1>5 DEF DrawInv, WorkIsRecorded, NoReuse, NoSealReuse,
       SaltsAreUnique, SpentRecords

\* Every step preserves DrawInv.
LEMMA NextDraws == IInv /\ DrawInv /\ [Next]_vars => DrawInv'
  <1> SUFFICES ASSUME IInv, DrawInv, [Next]_vars PROVE DrawInv'
    OBVIOUS
  <1>1. CASE Recover
    <2>1. UNCHANGED <<held, issued>> /\ pc' = "idle"
      BY <1>1 DEF Recover, Fail
    <2> QED
      BY <2>1, FailDraws
  <1>2. CASE Next /\ ~Recover
    BY <1>2, BeginCreateDraws, BeginAddDraws, BeginRewrapDraws, BeginUnlockDraws,
       EnrollDraws, DrawReplacementDraws, EvaluateDraws, AskPassphraseDraws,
       StageDraws, RemoveDraws, LoadDraws DEF Next
  <1>3. CASE UNCHANGED vars
    BY <1>3 DEF vars, DrawInv, WorkIsRecorded, NoReuse, NoSealReuse,
       SaltsAreUnique, SpentRecords, Prepared, Unspent, Ids, LayerOpens,
       RecipientContext
  <1> QED
    BY <1>1, <1>2, <1>3

\* The second inductive invariant holds: what is sealed is unspent, and what a
\* step relies on of the record it works on.
THEOREM DrawsAreSound == Spec => []DrawInv
  <1>1. Init => DrawInv
    BY DEF Init, DrawInv, WorkIsRecorded, NoEnvelope, NoReuse, NoSealReuse,
       SaltsAreUnique, SpentRecords
  <1> QED
    BY <1>1, NextDraws, InductiveInvariant, PTL DEF Spec

\* No key and nonce seal twice, and no salt serves two routes.
THEOREM NothingIsReused == Spec => []NoReuse
  <1>1. DrawInv => NoReuse
    BY DEF DrawInv
  <1> QED
    BY <1>1, DrawsAreSound, PTL

\* A passphrase is asked for only under the ceiling, and after the key.
THEOREM PromptsAreEarned == Spec => []PromptIsEarned
  <1>1. DrawInv => PromptIsEarned
    BY DEF DrawInv, Prepared, PromptIsEarned
  <1> QED
    BY <1>1, DrawsAreSound, PTL

\* Two envelopes with the id of a change differ in one route.
LEMMA NextChangesOne ==
    ASSUME IInv, DrawInv, [Next]_vars,
           NEW n \in issued' \ issued, n.id = held.id
    PROVE  LET differ == (n.recipients \ held.recipients) \cup
                         (held.recipients \ n.recipients)
           IN  /\ n.app = held.app /\ n.mac.root = held.mac.root
               /\ \A r, q \in differ :
                   r.id = q.id /\ r.suite = q.suite /\ r.cred = q.cred
  <1>1. held \in issued
    BY NextAuthenticates
  <1>2. held # NoEnvelope
    BY <1>1, NoEnvelopeIsNone DEF IInv, TypeOK
  <1>3. \A r, q \in held.recipients : r.id = q.id => r = q
    BY <1>2 DEF IInv, TypeOK, Decodable
  <1>4. CASE Stage
    <2>1. n = Staged(op.base, op.record, op.word, op.root)
      BY <1>4 DEF Stage, Replace, Fail
    <2>2. /\ op \in Op /\ op.name \in {"create", "add", "rewrap"}
          /\ op.record \in Record /\ Prepared("stage", op)
      BY <1>4 DEF IInv, OpOK, Stage, Op, DrawInv
    <2>3. PICK new \in Record :
            /\ n.recipients
                = {q \in op.base.recipients : q.id # op.record.id} \cup {new}
            /\ n.app = op.base.app /\ n.mac.root = op.root
            /\ new.id = op.record.id /\ new.suite = op.record.suite
            /\ new.cred = op.record.cred
      BY <1>4, <2>1, StagedRecords
    <2>4. op.name # "create"
      <3>1. n.id = op.base.id
        BY <2>1, <2>2 DEF Staged, Op, Envelope
      <3> QED
        BY <1>1, <1>4, <3>1 DEF IInv, OpOK, Stage
    <2>5. op.base = held /\ held.mac.root = op.root
      BY <1>4, <2>2, <2>4 DEF IInv, OpOK, Stage
    <2>6. CASE op.name = "add"
      <3>1. op.record.id \notin Ids(held)
        BY <2>2, <2>5, <2>6 DEF Prepared
      <3>2. n.recipients = held.recipients \cup {new}
        BY <2>3, <2>5, <3>1 DEF Ids
      <3> QED
        BY <2>3, <2>5, <3>2
    <2>7. CASE op.name = "rewrap"
      <3>1. PICK old \in held.recipients :
                /\ old.id = new.id /\ old.suite = new.suite /\ old.cred = new.cred
        BY <2>2, <2>3, <2>5, <2>7 DEF Prepared
      <3>2. n.recipients = (held.recipients \ {old}) \cup {new}
        BY <1>3, <2>3, <2>5, <3>1
      <3> QED
        BY <2>3, <2>5, <3>1, <3>2
    <2> QED
      BY <2>2, <2>4, <2>6, <2>7
  <1>5. CASE Remove
    <2>1. ~Fail
      BY DEF Fail
    <2>2. PICK e, id : /\ Replace(e) /\ e.app = held.app
                       /\ e.mac.root = held.mac.root
                       /\ e.recipients = {r \in held.recipients : r.id # id}
      BY <1>5, <2>1, RemovedRecords
    <2>3. n = e
      BY <2>2 DEF Replace
    <2> QED
      BY <1>3, <2>2, <2>3
  <1>6. CASE issued' = issued
    BY <1>6
  <1> QED
    BY <1>4, <1>5, <1>6, ZenonT(60) DEF Next, vars, BeginCreate, BeginAdd, BeginEnroll,
       BeginRewrap, BeginUnlock, Enroll, DrawReplacement, Evaluate,
       AskPassphrase, Recover, Load, Proceed, Fail

\* A change touches one route and keeps its suite and credential.
THEOREM OneRouteChanges == Spec => ChangesOneRoute
  <1> DEFINE A == \A n \in issued' \ issued : n.id = held.id =>
        LET differ == (n.recipients \ held.recipients) \cup
                      (held.recipients \ n.recipients)
        IN  /\ n.app = held.app /\ n.mac.root = held.mac.root
            /\ \A r, q \in differ :
                /\ r.id = q.id
                /\ r.suite = q.suite /\ r.cred = q.cred
  <1>1. IInv /\ DrawInv /\ [Next]_vars => [A]_vars
    BY NextChangesOne
  <1>2. ChangesOneRoute <=> [][A]_vars
    BY DEF ChangesOneRoute
  <1> QED
    BY <1>1, <1>2, InductiveInvariant, DrawsAreSound, PTL DEF Spec
=============================================================================
