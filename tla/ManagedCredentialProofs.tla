----------------------- MODULE ManagedCredentialProofs -----------------------
(***************************************************************************)
(* Proofs about ManagedCredential: types; retirement is final and no       *)
(* credential is left behind in silence; a published record is backed, and *)
(* what an operation answers is true.                                      *)
(***************************************************************************)
EXTENDS ManagedCredential, TLAPS

(***************************************************************************)
(* How the control operators move an operation.                            *)
(***************************************************************************)

\* What Goto, Return, StartCleanup, Fail and Done have in common.
Control ==
    /\ pc \in [Proc -> Step]
    /\ failure \in [Proc -> Failure]
    /\ result \in [Proc -> Outcome]

\* Return, a failing call and the end of a cleanup only touch p's registers,
\* and move it to "idle" or, for an enrollment, to "prepare".
LEMMA ReturnMoves ==
    ASSUME TypeOK, StepOK, NEW p \in Proc, NEW r \in Outcome, Return(p, r),
           kind[p] = "retire" /\ r = "ok" => pc[p] # "idle"
    PROVE  /\ Control'
           /\ pc' = [pc EXCEPT ![p] = "idle"]
           /\ ambiguous' = IF r = "CredentialMayRemain"
                           THEN ambiguous \cup {request[p].user} ELSE ambiguous
           /\ retired' = IF kind[p] = "retire" /\ r = "ok"
                         THEN retired \cup {request[p]} ELSE retired
           /\ retired' \subseteq Record
  BY DEF Return, TypeOK, Control, Step, Outcome, Failure, StepOK

\* A call that failed: a verification or retirement returns e, an enrollment
\* starts its cleanup, and a cleanup reports CredentialMayRemain.
LEMMA FailMoves ==
    ASSUME TypeOK, StepOK, NEW p \in Proc, pc[p] # "idle", NEW e \in Failure, Fail(p, e)
    PROVE  /\ Control'
           /\ retired' = retired
           /\ \/ /\ kind[p] = "enroll" /\ pc[p] \notin CleanupStep
                 /\ pc' = [pc EXCEPT ![p] = "prepare"]
                 /\ ambiguous' = ambiguous
              \/ /\ kind[p] = "enroll" /\ pc[p] \in CleanupStep
                 /\ pc' = [pc EXCEPT ![p] = "idle"]
                 /\ ambiguous' = ambiguous \cup {request[p].user}
              \/ /\ kind[p] # "enroll"
                 /\ pc' = [pc EXCEPT ![p] = "idle"]
                 /\ ambiguous \subseteq ambiguous'
                 /\ ambiguous' \subseteq ambiguous \cup {request[p].user}
  <1>1. CASE kind[p] # "enroll"
    <2>1. Return(p, e) BY <1>1 DEF Fail
    <2>2. e # "ok" BY DEF Failure
    <2> QED BY <1>1, <2>1, <2>2 DEF Return, TypeOK, Control, Step, Outcome, Failure
  <1>2. CASE kind[p] = "enroll" /\ pc[p] \notin CleanupStep
    BY <1>2 DEF Fail, StartCleanup, TypeOK, Control, Step
  <1>3. CASE kind[p] = "enroll" /\ pc[p] \in CleanupStep
    <2>1. Return(p, "CredentialMayRemain") BY <1>3 DEF Fail
    <2> QED BY <1>3, <2>1 DEF Return, TypeOK, Control, Step, Outcome, Failure
  <1> QED BY <1>1, <1>2, <1>3

\* Goto moves p alone, and changes nothing else of an operation.
LEMMA GotoMoves ==
    ASSUME TypeOK, NEW p \in Proc, NEW s \in Step, Goto(p, s)
    PROVE  /\ Control'
           /\ pc' = [pc EXCEPT ![p] = s]
           /\ UNCHANGED <<ambiguous, retired>>
  BY DEF Goto, TypeOK, Control

\* Done returns: p goes idle with a public outcome.
LEMMA DoneMoves ==
    ASSUME TypeOK, StepOK, NEW p \in Proc, pc[p] # "idle", Done(p)
    PROVE  /\ Control'
           /\ pc' = [pc EXCEPT ![p] = "idle"]
           /\ ambiguous \subseteq ambiguous'
           /\ ambiguous' \subseteq ambiguous \cup {request[p].user}
           /\ retired' = IF kind[p] = "retire"
                         THEN retired \cup {request[p]} ELSE retired
           /\ retired' \subseteq Record
  <1>1. CASE kind[p] = "enroll"
    <2>1. Return(p, failure[p]) /\ failure[p] \in Outcome
      BY <1>1 DEF Done, TypeOK, Outcome
    <2> QED BY <1>1, <2>1, ReturnMoves
  <1>2. CASE kind[p] # "enroll"
    <2>1. Return(p, "ok") /\ "ok" \in Outcome
      BY <1>2 DEF Done, Outcome
    <2>2. kind[p] = "verify" \/ kind[p] = "retire"
      BY <1>2 DEF TypeOK, Operation
    <2> QED BY <1>2, <2>1, ReturnMoves DEF Outcome
  <1> QED BY <1>1, <1>2

(***************************************************************************)
(* Types.  TypeOK needs StepOK: the record an operation publishes or       *)
(* retires is complete only because of the steps it has passed.            *)
(***************************************************************************)

\* The initial state has the types, and no operation is running.
LEMMA InitTypes == Init => TypeOK /\ StepOK
  BY DEF Init, TypeOK, StepOK, NoRequest, Request, Policy, Step, Operation,
         Status, Failure, Outcome

\* Starting an operation keeps the types and gives it its record.
LEMMA BeginTypes ==
    ASSUME TypeOK, StepOK, NEW p \in Proc, BeginEnroll(p) \/ BeginManaged(p)
    PROVE  TypeOK' /\ StepOK'
  <1>1. CASE BeginEnroll(p)
    BY <1>1 DEF BeginEnroll, Begin, TypeOK, StepOK, Request, Policy, Step,
                Operation, Status, Outcome
  <1>2. CASE BeginManaged(p)
    BY <1>2 DEF BeginManaged, Begin, TypeOK, StepOK, Request, Record, Policy,
                Step, Operation, Status, Outcome
  <1> QED BY <1>1, <1>2

\* Opening a session keeps the types and gives the operation its authenticator.
LEMMA OpenTypes ==
    ASSUME TypeOK, StepOK, NEW p \in Proc, OpenSession(p)
    PROVE  TypeOK' /\ StepOK'
  <1>1. CASE /\ \E d \in Device : dev' = [dev EXCEPT ![p] = d]
             /\ Goto(p, IF kind[p] = "enroll" THEN "make" ELSE "proof")
    BY <1>1 DEF OpenSession, Goto, TypeOK, StepOK, Request, Record, Step
  <1>2. CASE Return(p, "Failed") /\ dev' = dev
    BY <1>2 DEF OpenSession, Return, TypeOK, StepOK, Step, Failure, Outcome
  <1> QED BY <1>1, <1>2 DEF OpenSession

\* A signed assertion keeps the types and what later steps rely on.
LEMMA AssertionTypes ==
    ASSUME TypeOK, StepOK, NEW p \in Proc, Assertion(p)
    PROVE  TypeOK' /\ StepOK'
  <1>1. pc[p] # "idle" /\ pc[p] \in {"evaluate", "proof"} BY DEF Assertion
  <1>2. disturbed' \in [Proc -> BOOLEAN]
    BY DEF Assertion, Disturb, TypeOK
  <1>3. CASE Goto(p, IF pc[p] = "proof" /\ kind[p] = "enroll"
                     THEN "delete" ELSE "inventory")
    BY <1>1, <1>2, <1>3 DEF Assertion, Goto, TypeOK, StepOK, Step
  <1>4. CASE \E e \in {"CredentialUnavailable", "Failed"} : Fail(p, e)
    <2>1. PICK e \in Failure : Fail(p, e) BY <1>4 DEF Failure
    <2> QED BY <1>1, <1>2, <2>1, FailMoves
            DEF Assertion, TypeOK, StepOK, Control, CleanupStep
  <1> QED BY <1>3, <1>4 DEF Assertion

\* Checking the inventory keeps the types and what later steps rely on.
LEMMA InventoryTypes ==
    ASSUME TypeOK, StepOK, NEW p \in Proc, Inventory(p)
    PROVE  TypeOK' /\ StepOK'
  <1>1. pc[p] = "inventory" BY DEF Inventory
  <1>2. CASE \E s \in {"stage", "delete"} :
                Goto(p, s) /\ (kind[p] = IF s = "stage" THEN "enroll" ELSE "retire")
    BY <1>1, <1>2 DEF Inventory, Goto, TypeOK, StepOK, Step
  <1>3. CASE kind[p] = "verify" /\ Return(p, "ok")
    <2>1. "ok" \in Outcome BY DEF Outcome
    <2> QED BY <1>1, <1>3, <2>1, ReturnMoves DEF Inventory, TypeOK, StepOK, Control
  <1>4. CASE \E presence : Fail(p, InventoryError(presence))
                           /\ presence \in {"absent", "mismatch", "error"}
    <2>1. PICK e \in Failure : Fail(p, e) BY <1>4 DEF InventoryError, Failure
    <2> QED BY <1>1, <2>1, FailMoves
            DEF Inventory, TypeOK, StepOK, Control, CleanupStep
  <1> QED BY <1>2, <1>3, <1>4 DEF Inventory, Presence

\* Staging keeps the types: the record it publishes is complete.
LEMMA StageTypes ==
    ASSUME TypeOK, StepOK, NEW p \in Proc, Stage(p)
    PROVE  TypeOK' /\ StepOK'
  <1>1. pc[p] = "stage" /\ request[p] \in Record /\ kind[p] = "enroll"
    BY DEF Stage, StepOK
  <1>2. CASE records' = records \cup {request[p]} /\ Return(p, "ok")
    <2>1. "ok" \in Outcome BY DEF Outcome
    <2> QED BY <1>1, <1>2, <2>1, ReturnMoves DEF Stage, TypeOK, StepOK, Control
  <1>3. CASE Fail(p, "Failed") /\ UNCHANGED records
    <2>1. "Failed" \in Failure BY DEF Failure
    <2> QED BY <1>1, <1>3, <2>1, FailMoves
            DEF Stage, TypeOK, StepOK, Control, CleanupStep
  <1> QED BY <1>2, <1>3 DEF Stage

\* Starting a cleanup keeps the types and what later steps rely on.
LEMMA PrepareTypes ==
    ASSUME TypeOK, StepOK, NEW p \in Proc, PrepareCleanup(p)
    PROVE  TypeOK' /\ StepOK'
  <1>1. pc[p] = "prepare" /\ kind[p] = "enroll" BY DEF PrepareCleanup, StepOK
  <1>2. disturbed' \in [Proc -> BOOLEAN]
    BY DEF PrepareCleanup, Disturb, TypeOK
  <1>3. CASE Done(p)
    BY <1>1, <1>2, <1>3, DoneMoves DEF PrepareCleanup, TypeOK, StepOK, Control
  <1>4. CASE Goto(p, "proof")
    BY <1>1, <1>2, <1>4 DEF PrepareCleanup, Goto, TypeOK, StepOK, Step
  <1>5. CASE \E e \in Failure : Fail(p, e)
    BY <1>1, <1>2, <1>5, FailMoves
       DEF PrepareCleanup, TypeOK, StepOK, Control, CleanupStep
  <1> QED BY <1>3, <1>4, <1>5 DEF PrepareCleanup, InventoryError, Failure

\* The delete call keeps the types and what later steps rely on.
LEMMA DeleteTypes ==
    ASSUME TypeOK, StepOK, NEW p \in Proc, DeleteManaged(p)
    PROVE  TypeOK' /\ StepOK'
  <1>1. /\ pc[p] = "delete" /\ dev[p] \in Device /\ request[p] \in Record
        /\ kind[p] # "verify"
    BY DEF DeleteManaged, StepOK
  <1>2. /\ disturbed' \in [Proc -> BOOLEAN]
        /\ deleted' \in [Proc -> BOOLEAN]
        /\ store' \in [Device -> SUBSET Credential]
        /\ withdrawn' \subseteq UserId
    BY <1>1 DEF DeleteManaged, Disturb, TypeOK, Record
  <1>3. CASE Fail(p, "Failed") /\ delete' = delete
    <2>1. "Failed" \in Failure BY DEF Failure
    <2> QED BY <1>1, <1>2, <1>3, <2>1, FailMoves
            DEF DeleteManaged, TypeOK, StepOK, Control, CleanupStep
  <1>4. CASE /\ Goto(p, "absence")
             /\ \E status \in Status : delete' = [delete EXCEPT ![p] = status]
    BY <1>1, <1>2, <1>4 DEF DeleteManaged, Goto, TypeOK, StepOK, Step
  <1> QED BY <1>3, <1>4 DEF DeleteManaged, Status

\* The enumeration after a deletion keeps the types.
LEMMA AbsenceTypes ==
    ASSUME TypeOK, StepOK, NEW p \in Proc, ConfirmAbsence(p)
    PROVE  TypeOK' /\ StepOK'
  <1>1. pc[p] = "absence" /\ kind[p] # "verify" /\ request[p] \in Record
    BY DEF ConfirmAbsence, StepOK
  <1>2. disturbed' \in [Proc -> BOOLEAN]
    BY DEF ConfirmAbsence, Disturb, TypeOK
  <1>3. CASE Done(p)
    BY <1>1, <1>2, <1>3, DoneMoves DEF ConfirmAbsence, TypeOK, StepOK, Control
  <1>4. CASE \E e \in Failure : Fail(p, e)
    BY <1>1, <1>2, <1>4, FailMoves
       DEF ConfirmAbsence, TypeOK, StepOK, Control, CleanupStep
  <1>5. ASSUME NEW presence \in {"absent", "present", "mismatch", "error"}
        PROVE  RetirementOutcome(delete[p], presence) \in Failure \cup {"ok"}
    BY DEF RetirementOutcome, Failure
  <1>6. Presence(dev[p], request[p], kind[p] # "enroll")
            \in {"absent", "present", "mismatch"}
    BY DEF Presence
  <1> QED BY <1>3, <1>4, <1>5, <1>6 DEF ConfirmAbsence

\* Creating a credential keeps the types: the request becomes a full record.
LEMMA MakeTypes ==
    ASSUME TypeOK, StepOK, NEW p \in Proc, MakeCredential(p)
    PROVE  TypeOK' /\ StepOK'
  <1>1. /\ pc[p] = "make" /\ kind[p] = "enroll" /\ dev[p] \in Device
        /\ request[p].user \in UserId /\ request[p].policy \in Policy
        /\ request[p] \in Request
    BY DEF MakeCredential, StepOK, TypeOK, Request
  <1>2. PICK i \in (CredId \ usedIds) \cup {None}, prot \in Protection,
             status \in {"ok", "lost", "refused"}, stored \in BOOLEAN,
             usable \in BOOLEAN, verified \in BOOLEAN :
          MakeCredential(p)!2!(i, prot, status, stored, usable, verified)
    BY DEF MakeCredential
  <1>3. /\ store' \in [Device -> SUBSET Credential]
        /\ usedIds' \subseteq CredId
        /\ disturbed' \in [Proc -> BOOLEAN]
    BY <1>1, <1>2 DEF TypeOK, Credential
  <1>4. /\ request' \in [Proc -> Request]
        /\ \A q \in Proc \ {p} : request'[q] = request[q]
        /\ request'[p].user = request[p].user
        /\ status = "ok" /\ usable => request'[p] \in Record
    BY <1>1, <1>2 DEF TypeOK, Request, Record
  <1>5. CASE \E r \in {"Failed", "CredentialMayRemain"} : Return(p, r)
    BY <1>1, <1>3, <1>4, <1>5
       DEF MakeCredential, Return, TypeOK, StepOK, Step, Outcome, Failure
  <1>6. CASE /\ status = "ok" /\ usable
             /\ StartCleanup(p, "AuthenticatorResponseInvalid") \/ Goto(p, "evaluate")
    BY <1>1, <1>3, <1>4, <1>6
       DEF MakeCredential, StartCleanup, Goto, TypeOK, StepOK, Step, Failure
  <1> QED BY <1>2, <1>5, <1>6 DEF AfterMakeCred

\* A crash and another tool keep the types.
LEMMA EnvironmentTypes ==
    ASSUME TypeOK, StepOK, (\E p \in Proc : Crash(p)) \/ ForeignTool
    PROVE  TypeOK' /\ StepOK'
  <1>1. ASSUME NEW p \in Proc, Crash(p) PROVE TypeOK' /\ StepOK'
    <2>1. kind[p] = "enroll" => request[p].user \in UserId
      BY <1>1 DEF Crash, StepOK
    <2> QED BY <1>1, <2>1 DEF Crash, TypeOK, StepOK, Step, Outcome
  <1>2. ASSUME ForeignTool PROVE TypeOK' /\ StepOK'
    <2>0. PICK d \in Device : \E c \in store[d] :
            /\ foreign' = foreign \cup {c.user}
            /\ \/ store' = [store EXCEPT ![d] = @ \ {c}] /\ UNCHANGED usedIds
               \/ \E i \in CredId \ usedIds :
                    /\ store' = [store EXCEPT ![d] = (@ \ {c}) \cup {[c EXCEPT !.id = i]}]
                    /\ usedIds' = usedIds \cup {i}
      BY <1>2 DEF ForeignTool
    <2>1. PICK c \in store[d] :
            /\ foreign' = foreign \cup {c.user}
            /\ \/ store' = [store EXCEPT ![d] = @ \ {c}] /\ UNCHANGED usedIds
               \/ \E i \in CredId \ usedIds :
                    /\ store' = [store EXCEPT ![d] = (@ \ {c}) \cup {[c EXCEPT !.id = i]}]
                    /\ usedIds' = usedIds \cup {i}
      BY <2>0
    <2>2. c \in Credential BY <2>1 DEF TypeOK
    <2>3. \A i \in CredId : [c EXCEPT !.id = i] \in Credential
      BY <2>2 DEF Credential
    <2>4. foreign' \subseteq UserId
      BY <2>1, <2>2 DEF TypeOK, Credential
    <2>5. store' \in [Device -> SUBSET Credential] /\ usedIds' \subseteq CredId
      BY <2>1, <2>3 DEF TypeOK
    <2> QED BY <1>2, <2>4, <2>5 DEF ForeignTool, callVars, TypeOK, StepOK
  <1> QED BY <1>1, <1>2

\* Every step keeps the types and what the next one relies on.
LEMMA NextTypes == TypeOK /\ StepOK /\ [Next]_vars => TypeOK' /\ StepOK'
  <1> SUFFICES ASSUME TypeOK, StepOK, [Next]_vars PROVE TypeOK' /\ StepOK'
    OBVIOUS
  <1>1. CASE \E p \in Proc : BeginEnroll(p) \/ BeginManaged(p)
    BY <1>1, BeginTypes
  <1>2. CASE \E p \in Proc : ProcStep(p)
    BY <1>2, OpenTypes, MakeTypes, AssertionTypes, InventoryTypes, StageTypes,
       PrepareTypes, DeleteTypes, AbsenceTypes DEF ProcStep
  <1>3. CASE (\E p \in Proc : Crash(p)) \/ ForeignTool
    BY <1>3, EnvironmentTypes
  <1>4. CASE UNCHANGED vars
    BY <1>4 DEF vars, callVars, history, TypeOK, StepOK
  <1> QED BY <1>1, <1>2, <1>3, <1>4 DEF Next

\* Every reachable state is well typed, and each step of an operation finds
\* the record, the authenticator and the operation kind it relies on.
THEOREM TypeCorrect == Spec => [](TypeOK /\ StepOK)
  BY InitTypes, NextTypes, PTL DEF Spec

(***************************************************************************)
(* Retirement and orphans.  Safe is IInv without the types.                *)
(***************************************************************************)

Safe == /\ IdsAreFresh /\ AssertionLocates /\ EnrollmentOwns
        /\ RetiredIsAbsent /\ NoSilentOrphan

\* Nothing is stored, recorded or retired initially.
LEMMA InitSafe == Init => Safe
  BY NoneAssumption DEF Init, Safe, IdsAreFresh, AssertionLocates, EnrollmentOwns, Enrolling,
         RetiredIsAbsent, NoSilentOrphan, NoRequest

\* An exact or pending inventory that shows nothing: the authenticator holds
\* no credential with the request's user id or credential id.
LEMMA AbsentMeansNone ==
    ASSUME NEW d \in Device, NEW r, NEW exact \in BOOLEAN,
           Presence(d, r, exact) = "absent"
    PROVE  \A c \in store[d] : c.user # r.user /\ c.id # r.id
  BY DEF Presence

\* A step of p that adds no credential, leaves the records and p's request
\* alone and does not return keeps Safe, provided that it does not enter the steps
\* AssertionLocates speaks of without cause.
LEMMA QuietSafe ==
    ASSUME TypeOK, StepOK, Safe, NEW p \in Proc, pc[p] # "idle", NEW s \in Step \ {"idle"},
           pc' = [pc EXCEPT ![p] = s],
           \A d \in Device : store'[d] \subseteq store[d],
           UNCHANGED <<records, kind, request, usedUsers, usedIds,
                       abandoned, foreign, ambiguous, retired>>,
           \A q \in Proc \ {p} : dev'[q] = dev[q],
           dev'[p] = dev[p] \/ pc[p] = "open",
           s \in {"open", "make"} => pc[p] \in {"open", "make"},
           s \in {"inventory", "delete", "absence"} /\ kind[p] # "enroll"
                => \/ pc[p] \in {"inventory", "delete", "absence"}
                   \/ /\ dev'[p] = dev[p] /\ dev[p] \in Device
                      /\ \E c \in store[dev[p]] : c.id = request[p].id
    PROVE  Safe'
  <1>1. IdsAreFresh' BY DEF Safe, IdsAreFresh
  <1>2. AssertionLocates'
    <2> SUFFICES ASSUME NEW q \in Proc, kind[q] # "enroll",
                        pc'[q] \in {"inventory", "delete", "absence"},
                        NEW d \in Device \ {dev'[q]}, NEW c \in store'[d]
                 PROVE  c.id # request[q].id
      BY DEF AssertionLocates
    <2>1. CASE q # p BY <2>1 DEF Safe, AssertionLocates, TypeOK
    <2>2. CASE q = p /\ pc[p] \in {"inventory", "delete", "absence"}
      BY <2>2 DEF Safe, AssertionLocates
    <2>3. CASE q = p /\ pc[p] \notin {"inventory", "delete", "absence"}
      BY <2>3 DEF Safe, IdsAreFresh, TypeOK
    <2> QED BY <2>1, <2>2, <2>3
  <1>3. EnrollmentOwns'
    BY DEF Safe, EnrollmentOwns, Enrolling, TypeOK
  <1>4. RetiredIsAbsent' BY DEF Safe, RetiredIsAbsent
  <1>5. NoSilentOrphan' BY DEF Safe, NoSilentOrphan, TypeOK, Step
  <1> QED BY <1>1, <1>2, <1>3, <1>4, <1>5 DEF Safe

\* A step by which p's operation ends keeps Safe when what it leaves in the
\* stores is accounted for.
LEMMA ReturnSafe ==
    ASSUME TypeOK, StepOK, Safe, NEW p \in Proc, pc[p] # "idle",
           pc' = [pc EXCEPT ![p] = "idle"],
           \A d \in Device : store'[d] \subseteq store[d],
           UNCHANGED <<kind, request, dev, usedUsers, usedIds, foreign>>,
           abandoned \subseteq abandoned', ambiguous \subseteq ambiguous',
           records \subseteq records', records' \subseteq records \cup {request[p]},
           records' # records => request[p] \in Record,
           retired' = retired \/
                (/\ kind[p] # "enroll" /\ retired' = retired \cup {request[p]}
                 /\ \A d \in Device : \A c \in store[d] : c.id # request[p].id),
           kind[p] = "enroll" =>
                \/ request[p].user \in ambiguous' \cup abandoned'
                \/ request[p] \in records' /\ pc[p] \notin {"open", "make"}
                \/ \A d \in Device : \A c \in store[d] : c.user # request[p].user
    PROVE  Safe'
  <1>1. IdsAreFresh'
    BY NoneAssumption DEF Safe, IdsAreFresh, Record, StepOK, TypeOK
  <1>2. AssertionLocates' BY DEF Safe, AssertionLocates, TypeOK
  <1>3. EnrollmentOwns' BY DEF Safe, EnrollmentOwns, Enrolling, TypeOK
  <1>4. RetiredIsAbsent' BY DEF Safe, RetiredIsAbsent
  <1>5. NoSilentOrphan'
    <2> SUFFICES ASSUME NEW d \in Device, NEW c \in store'[d],
                        c.user \notin foreign \cup ambiguous' \cup abandoned',
                        ~ \E r \in records' : r.user = c.user /\ r.id = c.id
                 PROVE  \E q \in Proc : /\ pc'[q] # "idle" /\ kind[q] = "enroll"
                                        /\ request[q].user = c.user
      BY DEF NoSilentOrphan
    <2>1. PICK q \in Proc : /\ pc[q] # "idle" /\ kind[q] = "enroll"
                            /\ request[q].user = c.user
      BY DEF Safe, NoSilentOrphan
    <2>2. q # p BY <2>1 DEF Safe, EnrollmentOwns, Enrolling
    <2> QED BY <2>1, <2>2 DEF TypeOK
  <1> QED BY <1>1, <1>2, <1>3, <1>4, <1>5 DEF Safe

\* A call that fails keeps Safe: it starts a cleanup, reports that the
\* credential may remain, or ends a verification or retirement.
LEMMA FailSafe ==
    ASSUME TypeOK, StepOK, Safe, NEW p \in Proc, pc[p] # "idle", NEW e \in Failure,
           Fail(p, e),
           \A d \in Device : store'[d] \subseteq store[d],
           UNCHANGED <<records, kind, request, dev, usedUsers, usedIds,
                       abandoned, foreign>>
    PROVE  Safe'
  <1>1. CASE /\ kind[p] = "enroll" /\ pc[p] \notin CleanupStep
             /\ pc' = [pc EXCEPT ![p] = "prepare"] /\ ambiguous' = ambiguous
             /\ retired' = retired
    <2>1. "prepare" \in Step \ {"idle"} BY DEF Step
    <2> QED BY <1>1, <2>1, QuietSafe
  <1>2. CASE /\ kind[p] = "enroll" => request[p].user \in ambiguous'
             /\ pc' = [pc EXCEPT ![p] = "idle"]
             /\ ambiguous \subseteq ambiguous' /\ retired' = retired
    BY <1>2, ReturnSafe
  <1> QED BY <1>1, <1>2, FailMoves

\* An operation starts on a fresh user id or on a published record.
LEMMA BeginSafe ==
    ASSUME TypeOK, StepOK, Safe, NEW p \in Proc, BeginEnroll(p) \/ BeginManaged(p)
    PROVE  Safe'
  <1>1. PICK op \in Operation, r \in Request :
          /\ Begin(p, op, r)
          /\ \/ /\ op = "enroll" /\ r.user \notin usedUsers /\ r.id = None
                /\ usedUsers' = usedUsers \cup {r.user}
             \/ op # "enroll" /\ r \in records /\ usedUsers' = usedUsers
    <2>1. CASE BeginEnroll(p)
      <3>1. PICK u \in UserId \ usedUsers, policy \in Policy :
              /\ Begin(p, "enroll", [user |-> u, id |-> None, policy |-> policy])
              /\ usedUsers' = usedUsers \cup {u}
        BY <2>1 DEF BeginEnroll
      <3>2. [user |-> u, id |-> None, policy |-> policy] \in Request
        BY DEF Request
      <3> QED BY <3>1, <3>2 DEF Operation
    <2>2. CASE BeginManaged(p)
      <3>1. PICK op \in {"verify", "retire"}, r \in records :
              Begin(p, op, r) /\ usedUsers' = usedUsers
        BY <2>2 DEF BeginManaged
      <3>2. r \in Request BY DEF TypeOK, Record, Request
      <3> QED BY <3>1, <3>2 DEF Operation
    <2> QED BY <2>1, <2>2
  <1>2. /\ pc' = [pc EXCEPT ![p] = "open"] /\ kind' = [kind EXCEPT ![p] = op]
        /\ request' = [request EXCEPT ![p] = r]
        /\ pc[p] = "idle" /\ dev' = [dev EXCEPT ![p] = None]
        /\ UNCHANGED <<store, records, usedIds, ambiguous, abandoned, foreign, retired>>
    BY <1>1 DEF Begin
  <1>3. IdsAreFresh' BY <1>1, <1>2 DEF Safe, IdsAreFresh, TypeOK
  <1>4. AssertionLocates' BY <1>2 DEF Safe, AssertionLocates, TypeOK
  <1>5. EnrollmentOwns'
    <2>1. ASSUME NEW q \in Proc, q # p, Enrolling(q)'
          PROVE  Enrolling(q) /\ request'[q] = request[q] /\ dev'[q] = dev[q]
                 /\ pc'[q] = pc[q]
      BY <1>2, <2>1 DEF Enrolling, TypeOK
    <2>2. op = "enroll" => \A d \in Device : \A c \in store[d] : c.user # r.user
      BY <1>1 DEF Safe, IdsAreFresh
    <2>3. ASSUME op = "enroll", NEW q \in Proc, q # p, Enrolling(q)
          PROVE  request[q].user # r.user
      <3>1. request[q].user \in UserId BY <2>3 DEF StepOK, Enrolling
      <3> QED BY <1>1, <2>3, <3>1, NoneAssumption DEF Safe, IdsAreFresh
    <2>4. request'[p] = r /\ kind'[p] = op BY <1>2 DEF TypeOK
    <2> QED BY <1>2, <2>1, <2>2, <2>3, <2>4 DEF Safe, EnrollmentOwns, Enrolling
  <1>6. RetiredIsAbsent' BY <1>2 DEF Safe, RetiredIsAbsent
  <1>7. NoSilentOrphan' BY <1>2 DEF Safe, NoSilentOrphan, TypeOK
  <1> QED BY <1>3, <1>4, <1>5, <1>6, <1>7 DEF Safe

\* Opening a session touches no credential.
LEMMA OpenSafe ==
    ASSUME TypeOK, StepOK, Safe, NEW p \in Proc, OpenSession(p)
    PROVE  Safe'
  <1>1. pc[p] = "open" BY DEF OpenSession
  <1>2. CASE /\ \E d \in Device : dev' = [dev EXCEPT ![p] = d]
             /\ Goto(p, IF kind[p] = "enroll" THEN "make" ELSE "proof")
    <2>1. PICK s \in {"make", "proof"} : Goto(p, s) BY <1>2
    <2>2. s \in Step \ {"idle"} BY DEF Step
    <2>3. \A q \in Proc \ {p} : dev'[q] = dev[q] BY <1>2 DEF TypeOK
    <2> QED BY <1>1, <2>1, <2>2, <2>3, GotoMoves, QuietSafe DEF OpenSession
  <1>3. CASE Return(p, "Failed") /\ dev' = dev
    <2>1. "Failed" \in Outcome BY DEF Outcome, Failure
    <2>2. kind[p] = "enroll" =>
            \A d \in Device : \A c \in store[d] : c.user # request[p].user
      BY <1>1 DEF Safe, EnrollmentOwns, Enrolling
    <2> QED BY <1>1, <1>3, <2>1, <2>2, ReturnMoves, ReturnSafe DEF OpenSession
  <1> QED BY <1>2, <1>3 DEF OpenSession

\* Credential ids are on one authenticator, so a signed assertion locates
\* the credential of a retirement.
LEMMA AssertionSafe ==
    ASSUME TypeOK, StepOK, Safe, NEW p \in Proc, Assertion(p)
    PROVE  Safe'
  <1>1. pc[p] \in {"evaluate", "proof"} /\ dev[p] \in Device
    BY DEF Assertion, StepOK
  <1>2. CASE /\ \E c \in store[dev[p]] : c.id = request[p].id
             /\ Goto(p, IF pc[p] = "proof" /\ kind[p] = "enroll"
                        THEN "delete" ELSE "inventory")
    <2>1. PICK s \in {"delete", "inventory"} : Goto(p, s) BY <1>2
    <2>2. s \in Step \ {"idle"} BY DEF Step
    <2> QED BY <1>1, <1>2, <2>1, <2>2, GotoMoves, QuietSafe DEF Assertion
  <1>3. CASE \E e \in {"CredentialUnavailable", "Failed"} : Fail(p, e)
    <2>1. PICK e \in Failure : Fail(p, e) BY <1>3 DEF Failure
    <2> QED BY <1>1, <2>1, FailSafe DEF Assertion
  <1> QED BY <1>2, <1>3 DEF Assertion

\* An inventory touches no credential.
LEMMA InventorySafe ==
    ASSUME TypeOK, StepOK, Safe, NEW p \in Proc, Inventory(p)
    PROVE  Safe'
  <1>1. pc[p] = "inventory" BY DEF Inventory
  <1>2. CASE \E s \in {"stage", "delete"} : Goto(p, s)
    <2>1. PICK s \in {"stage", "delete"} : Goto(p, s) BY <1>2
    <2>2. s \in Step \ {"idle"} BY DEF Step
    <2> QED BY <1>1, <2>1, <2>2, GotoMoves, QuietSafe DEF Inventory
  <1>3. CASE kind[p] = "verify" /\ Return(p, "ok")
    <2>1. "ok" \in Outcome BY DEF Outcome
    <2> QED BY <1>1, <1>3, <2>1, ReturnMoves, ReturnSafe DEF Inventory
  <1>4. CASE \E presence \in {"absent", "mismatch", "error"} :
                Fail(p, InventoryError(presence))
    <2>1. PICK e \in Failure : Fail(p, e) BY <1>4 DEF InventoryError, Failure
    <2> QED BY <1>1, <2>1, FailSafe DEF Inventory
  <1> QED BY <1>2, <1>3, <1>4 DEF Inventory, Presence

\* A published record accounts for the credential its enrollment made.
LEMMA StageSafe ==
    ASSUME TypeOK, StepOK, Safe, NEW p \in Proc, Stage(p)
    PROVE  Safe'
  <1>1. pc[p] = "stage" /\ request[p] \in Record /\ kind[p] = "enroll"
    BY DEF Stage, StepOK
  <1>2. CASE records' = records \cup {request[p]} /\ Return(p, "ok")
    <2>1. "ok" \in Outcome BY DEF Outcome
    <2> QED BY <1>1, <1>2, <2>1, ReturnMoves, ReturnSafe DEF Stage
  <1>3. CASE Fail(p, "Failed") /\ UNCHANGED records
    <2>1. "Failed" \in Failure BY DEF Failure
    <2> QED BY <1>1, <1>3, <2>1, FailSafe DEF Stage
  <1> QED BY <1>2, <1>3 DEF Stage

\* A cleanup that finds nothing leaves nothing behind.
LEMMA PrepareSafe ==
    ASSUME TypeOK, StepOK, Safe, NEW p \in Proc, PrepareCleanup(p)
    PROVE  Safe'
  <1>1. pc[p] = "prepare" /\ kind[p] = "enroll" /\ dev[p] \in Device
    BY DEF PrepareCleanup, StepOK
  <1>2. CASE Presence(dev[p], request[p], FALSE) = "absent" /\ Done(p)
    <2>1. \A c \in store[dev[p]] : c.user # request[p].user
      BY <1>1, <1>2, AbsentMeansNone
    <2>2. \A d \in Device : \A c \in store[d] : c.user # request[p].user
      BY <1>1, <2>1 DEF Safe, EnrollmentOwns, Enrolling
    <2> QED BY <1>1, <1>2, <2>2, DoneMoves, ReturnSafe DEF PrepareCleanup
  <1>3. CASE Goto(p, "proof")
    <2>1. "proof" \in Step \ {"idle"} BY DEF Step
    <2> QED BY <1>1, <1>3, <2>1, GotoMoves, QuietSafe DEF PrepareCleanup
  <1>4. CASE \E presence \in {"mismatch", "error"} : Fail(p, InventoryError(presence))
    <2>1. PICK e \in Failure : Fail(p, e) BY <1>4 DEF InventoryError, Failure
    <2> QED BY <1>1, <2>1, FailSafe DEF PrepareCleanup
  <1> QED BY <1>2, <1>3, <1>4 DEF PrepareCleanup

\* A retirement counts as done only after a complete enumeration of the one
\* authenticator that could hold the credential.
LEMMA AbsenceSafe ==
    ASSUME TypeOK, StepOK, Safe, NEW p \in Proc, ConfirmAbsence(p)
    PROVE  Safe'
  <1>1. pc[p] = "absence" /\ kind[p] # "verify" /\ dev[p] \in Device
    BY DEF ConfirmAbsence, StepOK
  <1> DEFINE shown == Presence(dev[p], request[p], kind[p] # "enroll")
  <1>2. PICK presence \in {shown, "error"} :
          LET r == RetirementOutcome(delete[p], presence)
          IN  IF r = "ok" THEN Done(p) ELSE Fail(p, r)
    BY DEF ConfirmAbsence
  <1>3. presence \in {"absent", "present", "mismatch", "error"}
    BY DEF Presence
  <1>4. CASE presence = "absent"
    <2>1. Done(p) BY <1>2, <1>4 DEF RetirementOutcome
    <2>2. shown = "absent" BY <1>4
    <2>3. \A c \in store[dev[p]] : c.user # request[p].user /\ c.id # request[p].id
      BY <1>1, <2>2, AbsentMeansNone
    <2>4. kind[p] = "enroll" =>
            \A d \in Device : \A c \in store[d] : c.user # request[p].user
      BY <1>1, <2>3 DEF Safe, EnrollmentOwns, Enrolling
    <2>5. kind[p] # "enroll" =>
            \A d \in Device : \A c \in store[d] : c.id # request[p].id
      BY <1>1, <2>3 DEF Safe, AssertionLocates
    <2> QED BY <1>1, <2>1, <2>4, <2>5, DoneMoves, ReturnSafe DEF ConfirmAbsence
  <1>5. CASE presence # "absent"
    <2>1. RetirementOutcome(delete[p], presence) \in Failure
      BY <1>3, <1>5 DEF RetirementOutcome, Failure
    <2>2. PICK e \in Failure : Fail(p, e) BY <1>2, <2>1 DEF Failure
    <2> QED BY <1>1, <2>2, FailSafe DEF ConfirmAbsence
  <1> QED BY <1>4, <1>5

\* A deletion only takes credentials away.
LEMMA DeleteSafe ==
    ASSUME TypeOK, StepOK, Safe, NEW p \in Proc, DeleteManaged(p)
    PROVE  Safe'
  <1>1. pc[p] = "delete" /\ dev[p] \in Device BY DEF DeleteManaged, StepOK
  <1>2. \A d \in Device : store'[d] \subseteq store[d]
    BY <1>1 DEF DeleteManaged, TypeOK
  <1>3. CASE Fail(p, "Failed")
    <2>1. "Failed" \in Failure BY DEF Failure
    <2> QED BY <1>1, <1>2, <1>3, <2>1, FailSafe DEF DeleteManaged
  <1>4. CASE Goto(p, "absence")
    <2>1. "absence" \in Step \ {"idle"} BY DEF Step
    <2> QED BY <1>1, <1>2, <1>4, <2>1, GotoMoves, QuietSafe DEF DeleteManaged
  <1> QED BY <1>3, <1>4 DEF DeleteManaged

\* A created credential has a new id and belongs to the running enrollment, or
\* to one that says it may remain.
LEMMA MakeSafe ==
    ASSUME TypeOK, StepOK, Safe, NEW p \in Proc, MakeCredential(p)
    PROVE  Safe'
  <1>1. /\ pc[p] = "make" /\ kind[p] = "enroll" /\ dev[p] \in Device
        /\ request[p].user \in UserId /\ request[p] \in Request
    BY DEF MakeCredential, StepOK, TypeOK
  <1>2. PICK i \in (CredId \ usedIds) \cup {None}, prot \in Protection,
             status \in {"ok", "lost", "refused"}, stored \in BOOLEAN,
             usable \in BOOLEAN, verified \in BOOLEAN :
          MakeCredential(p)!2!(i, prot, status, stored, usable, verified)
    BY DEF MakeCredential
  <1> DEFINE made == [user |-> request[p].user, id |-> i, prot |-> prot]
  <1>3. /\ \A d \in Device : \A c \in store'[d] :
             c \in store[d] \/ (stored /\ c = made /\ d = dev[p])
        /\ stored => i \in CredId \ usedIds /\ usedIds' = usedIds \cup {i}
        /\ ~stored => usedIds' = usedIds
        /\ made.user = request[p].user /\ made.id = i
    BY <1>1, <1>2 DEF TypeOK
  <1>4. /\ \A q \in Proc \ {p} : request'[q] = request[q] /\ pc'[q] = pc[q]
        /\ request'[p].user = request[p].user
        /\ request'[p].id = IF status = "ok" /\ usable THEN i ELSE None
        /\ UNCHANGED <<records, kind, dev, usedUsers, abandoned, foreign, retired>>
        /\ ambiguous \subseteq ambiguous'
    <2>1. PICK given : /\ given = IF status = "ok" /\ usable THEN i ELSE None
                       /\ request' = [request EXCEPT ![p].id = given]
      BY <1>2
    <2>2. \A q \in Proc \ {p} : request'[q] = request[q]
      BY <2>1 DEF TypeOK
    <2>3. request'[p] = [request[p] EXCEPT !.id = given]
      BY <2>1 DEF TypeOK
    <2>4. request'[p].user = request[p].user /\ request'[p].id = given
      BY <1>1, <2>3 DEF Request
    <2>5. \A q \in Proc \ {p} : pc'[q] = pc[q]
      BY <1>2 DEF AfterMakeCred, Return, StartCleanup, Goto, TypeOK
    <2>6. retired' = retired /\ ambiguous \subseteq ambiguous'
      BY <1>1, <1>2 DEF AfterMakeCred, Return, StartCleanup, Goto
    <2> QED BY <2>1, <2>2, <2>4, <2>5, <2>6 DEF MakeCredential
  <1>5. /\ pc'[p] = "idle" => /\ status # "ok" \/ ~usable
                              /\ stored => request[p].user \in ambiguous'
        /\ pc'[p] # "idle" => /\ status = "ok" /\ usable /\ stored
                              /\ pc'[p] \in {"prepare", "evaluate"}
    BY <1>1, <1>2 DEF AfterMakeCred, Return, StartCleanup, Goto, TypeOK
  <1>6. \A d \in Device : \A c \in store[d] : c.user # request[p].user
    BY <1>1 DEF Safe, EnrollmentOwns, Enrolling
  <1>7. IdsAreFresh'
    <2>1. request[p].user \in usedUsers
      BY <1>1, NoneAssumption DEF Safe, IdsAreFresh
    <2>2. (\A d \in Device : \A c \in store[d] : c.id \in usedIds /\ c.user \in usedUsers)'
      BY <1>3, <1>4, <2>1 DEF Safe, IdsAreFresh
    <2>3. (\A d, e \in Device : \A c \in store[d], b \in store[e] : c.id = b.id => d = e)'
      BY <1>3 DEF Safe, IdsAreFresh
    <2>4. request'[p].id \in usedIds' \cup {None}
      BY <1>2, <1>3, <1>4
    <2> QED BY <1>3, <1>4, <2>2, <2>3, <2>4 DEF Safe, IdsAreFresh
  <1>8. AssertionLocates'
    <2> SUFFICES ASSUME NEW q \in Proc, kind[q] # "enroll",
                        pc'[q] \in {"inventory", "delete", "absence"},
                        NEW d \in Device \ {dev[q]}, NEW c \in store'[d]
                 PROVE  c.id # request'[q].id
      BY <1>4 DEF AssertionLocates
    <2>1. q # p /\ request'[q] = request[q] /\ pc'[q] = pc[q] BY <1>1, <1>4
    <2>2. request[q].id \in usedIds
      BY <2>1, NoneAssumption DEF Safe, IdsAreFresh, StepOK, Record
    <2> QED BY <1>3, <2>1, <2>2 DEF Safe, AssertionLocates
  <1>9. EnrollmentOwns'
    <2>1. ASSUME NEW q \in Proc, q # p, Enrolling(q)
          PROVE  request[q].user # request[p].user
      BY <1>1, <2>1 DEF Safe, EnrollmentOwns, Enrolling
    <2>2. ASSUME NEW q \in Proc, q # p, Enrolling(q)', NEW d \in Device,
                 NEW c \in store'[d], c.user = request'[q].user
          PROVE  /\ d = dev[q] /\ pc'[q] \notin {"open", "make"}
                 /\ c.id = request'[q].id \/ c.user \in foreign
      <3>1. Enrolling(q) /\ request'[q] = request[q] /\ pc'[q] = pc[q]
        BY <1>4, <2>2 DEF Enrolling
      <3>2. c \in store[d] BY <1>3, <2>1, <2>2, <3>1
      <3> QED BY <2>2, <3>1, <3>2 DEF Safe, EnrollmentOwns
    <2>3. ASSUME Enrolling(p)', NEW d \in Device, NEW c \in store'[d],
                 c.user = request'[p].user
          PROVE  d = dev[p] /\ pc'[p] \notin {"open", "make"} /\ c.id = request'[p].id
      BY <1>3, <1>4, <1>5, <1>6, <2>3 DEF Enrolling
    <2>4. ASSUME NEW q \in Proc, NEW t \in Proc, q # t, Enrolling(q)', Enrolling(t)'
          PROVE  request'[t].user # request'[q].user
      <3>1. (q # p => Enrolling(q)) /\ (t # p => Enrolling(t))
        BY <1>4, <2>4 DEF Enrolling
      <3>2. CASE q # p /\ t # p
        BY <1>4, <2>4, <3>1, <3>2 DEF Safe, EnrollmentOwns
      <3>3. CASE q = p \/ t = p BY <1>4, <2>1, <2>4, <3>1, <3>3
      <3> QED BY <3>2, <3>3
    <2> QED BY <1>4, <2>2, <2>3, <2>4 DEF EnrollmentOwns
  <1>10. RetiredIsAbsent'
    BY <1>3, <1>4 DEF Safe, RetiredIsAbsent, IdsAreFresh
  <1>11. NoSilentOrphan'
    <2> SUFFICES ASSUME NEW d \in Device, NEW c \in store'[d],
                        c.user \notin foreign \cup ambiguous' \cup abandoned,
                        ~ \E r \in records : r.user = c.user /\ r.id = c.id
                 PROVE  \E q \in Proc : /\ pc'[q] # "idle" /\ kind[q] = "enroll"
                                        /\ request'[q].user = c.user
      BY <1>4 DEF NoSilentOrphan
    <2>1. CASE c \in store[d]
      <3>1. PICK q \in Proc : /\ pc[q] # "idle" /\ kind[q] = "enroll"
                              /\ request[q].user = c.user
        BY <1>4, <2>1 DEF Safe, NoSilentOrphan
      <3>2. q # p BY <1>6, <2>1, <3>1
      <3> QED BY <1>4, <3>1, <3>2
    <2>2. CASE stored /\ c = made BY <1>1, <1>3, <1>4, <1>5, <2>2
    <2> QED BY <1>3, <2>1, <2>2
  <1> QED BY <1>7, <1>8, <1>9, <1>10, <1>11 DEF Safe

\* What a dead process leaves is counted as abandoned.
LEMMA CrashSafe ==
    ASSUME TypeOK, StepOK, Safe, NEW p \in Proc, Crash(p)
    PROVE  Safe'
  BY ReturnSafe DEF Crash

\* What another tool leaves has a new id and is counted as foreign.
LEMMA ForeignSafe ==
    ASSUME TypeOK, StepOK, Safe, ForeignTool
    PROVE  Safe'
  <1>1. PICK d \in Device : \E c \in store[d] :
          /\ foreign' = foreign \cup {c.user}
          /\ \/ store' = [store EXCEPT ![d] = @ \ {c}] /\ UNCHANGED usedIds
             \/ \E i \in CredId \ usedIds :
                  /\ store' = [store EXCEPT ![d] = (@ \ {c}) \cup {[c EXCEPT !.id = i]}]
                  /\ usedIds' = usedIds \cup {i}
    BY DEF ForeignTool
  <1>2. PICK c \in store[d] :
          /\ foreign' = foreign \cup {c.user}
          /\ \/ store' = [store EXCEPT ![d] = @ \ {c}] /\ UNCHANGED usedIds
             \/ \E i \in CredId \ usedIds :
                  /\ store' = [store EXCEPT ![d] = (@ \ {c}) \cup {[c EXCEPT !.id = i]}]
                  /\ usedIds' = usedIds \cup {i}
    BY <1>1
  <1>3. UNCHANGED <<records, pc, kind, request, dev, usedUsers, ambiguous,
                    abandoned, retired>>
    BY DEF ForeignTool, callVars
  <1>4. usedIds \subseteq usedIds' /\ foreign \subseteq foreign'
    BY <1>2
  \* The only new credential takes c's place under a fresh id.
  <1>5. \A e \in Device : \A b \in store'[e] :
            \/ b \in store[e]
            \/ /\ e = d /\ b.user = c.user /\ b.user \in foreign'
               /\ b.id \in usedIds' /\ b.id \in CredId \ usedIds
               /\ \A b2 \in store'[e] : b2 \in store[e] \/ b2 = b
    <2>1. CASE store' = [store EXCEPT ![d] = @ \ {c}] BY <2>1 DEF TypeOK
    <2>2. ASSUME NEW i \in CredId \ usedIds,
                 store' = [store EXCEPT ![d] = (@ \ {c}) \cup {[c EXCEPT !.id = i]}],
                 usedIds' = usedIds \cup {i}
          PROVE  \A e \in Device : \A b \in store'[e] :
                    \/ b \in store[e]
                    \/ /\ e = d /\ b.user = c.user /\ b.user \in foreign'
                       /\ b.id \in usedIds' /\ b.id \in CredId \ usedIds
                       /\ \A b2 \in store'[e] : b2 \in store[e] \/ b2 = b
      <3>1. c \in Credential BY DEF TypeOK
      <3>2. PICK b1 : b1 = [c EXCEPT !.id = i] OBVIOUS
      <3>3. b1.user = c.user /\ b1.id = i BY <3>1, <3>2 DEF Credential
      <3>4. store' = [store EXCEPT ![d] = (@ \ {c}) \cup {b1}]
        BY <2>2, <3>2
      <3> QED BY <1>2, <2>2, <3>3, <3>4 DEF TypeOK
    <2> QED BY <1>2, <2>1, <2>2
  <1>6. IdsAreFresh'
    <2>1. c.user \in usedUsers BY DEF Safe, IdsAreFresh
    <2>2. (\A e \in Device : \A b \in store[e] : b.id \in usedIds /\ b.user \in usedUsers)'
      BY <1>3, <1>4, <1>5, <2>1 DEF Safe, IdsAreFresh
    <2>3. (\A d1, d2 \in Device : \A b1 \in store[d1], b2 \in store[d2] :
                b1.id = b2.id => d1 = d2)'
      BY <1>5 DEF Safe, IdsAreFresh
    <2> QED BY <1>3, <1>4, <2>2, <2>3 DEF Safe, IdsAreFresh
  <1>7. AssertionLocates'
    <2> SUFFICES ASSUME NEW q \in Proc, kind[q] # "enroll",
                        pc[q] \in {"inventory", "delete", "absence"},
                        NEW e \in Device \ {dev[q]}, NEW b \in store'[e]
                 PROVE  b.id # request[q].id
      BY <1>3 DEF AssertionLocates
    <2>1. request[q].id \in usedIds
      BY NoneAssumption DEF Safe, IdsAreFresh, StepOK, Record
    <2> QED BY <1>5, <2>1 DEF Safe, AssertionLocates
  <1>8. EnrollmentOwns'
    BY <1>3, <1>4, <1>5 DEF Safe, EnrollmentOwns, Enrolling
  <1>9. RetiredIsAbsent'
    BY <1>3, <1>5 DEF Safe, RetiredIsAbsent, IdsAreFresh
  <1>10. NoSilentOrphan'
    BY <1>3, <1>4, <1>5 DEF Safe, NoSilentOrphan
  <1> QED BY <1>6, <1>7, <1>8, <1>9, <1>10 DEF Safe

\* Every step keeps the strengthened invariant.
LEMMA NextSafe == TypeOK /\ StepOK /\ Safe /\ [Next]_vars => Safe'
  <1> SUFFICES ASSUME TypeOK, StepOK, Safe, [Next]_vars PROVE Safe'
    OBVIOUS
  <1>1. CASE \E p \in Proc : BeginEnroll(p) \/ BeginManaged(p)
    BY <1>1, BeginSafe
  <1>2. CASE \E p \in Proc : ProcStep(p)
    BY <1>2, OpenSafe, MakeSafe, AssertionSafe, InventorySafe, StageSafe,
       PrepareSafe, DeleteSafe, AbsenceSafe DEF ProcStep
  <1>3. CASE \E p \in Proc : Crash(p) BY <1>3, CrashSafe
  <1>4. CASE ForeignTool BY <1>4, ForeignSafe
  <1>5. CASE UNCHANGED vars
    BY <1>5 DEF vars, callVars, history, Safe, IdsAreFresh, AssertionLocates,
                EnrollmentOwns, Enrolling, RetiredIsAbsent, NoSilentOrphan
  <1> QED BY <1>1, <1>2, <1>3, <1>4, <1>5 DEF Next

\* The inductive invariant that the safety run checks holds for any number of
\* processes, authenticators and ids.
THEOREM InductiveInvariant == Spec => []IInv
  <1>1. TypeOK /\ StepOK /\ Safe => IInv BY DEF IInv, Safe
  <1> QED BY <1>1, InitTypes, NextTypes, InitSafe, NextSafe, PTL DEF Spec

\* A retirement that returned success leaves its credential on no
\* authenticator, forever: every retained envelope copy lost the route
\* (protector.rs retire_managed_recipient, native.rs retirement_outcome).
THEOREM RetirementIsFinal == Spec => []RetiredIsAbsent
  <1>1. IInv => RetiredIsAbsent BY DEF IInv
  <1> QED BY <1>1, InductiveInvariant, PTL

\* No credential the library created is left on an authenticator without a
\* returned record, a running enrollment, a CredentialMayRemain report or a
\* dead process to account for it (protector.rs
\* cleanup_failed_managed_enrollment, native.rs Authenticator::enroll).
THEOREM OrphansAreReported == Spec => []NoSilentOrphan
  <1>1. IInv => NoSilentOrphan BY DEF IInv
  <1> QED BY <1>1, InductiveInvariant, PTL

-----------------------------------------------------------------------------
(***************************************************************************)
(* What an operation answers, and what backs a published record.           *)
(***************************************************************************)

\* The answer of p's last operation is true, and its running one knows what
\* its step relies on.
Truthful(p) ==
    /\ CallKnows(p)
    /\ result[p] = "CredentialMayRemain" => disturbed[p]
    /\ (/\ pc[p] = "idle" /\ kind[p] = "retire" /\ result[p] \in DefiniteFailure
        /\ request[p].user \notin foreign) => ~deleted[p]

\* OutcomeInv, process by process.
LEMMA OutcomeIsTruth ==
    OutcomeInv <=> IdsAreOwned /\ PublishedIsBacked /\ \A p \in Proc : Truthful(p)
  BY DEF OutcomeInv, RetireErrorIsDefinite, NoFalseAlarm, Truthful

\* What p's step leaves alone of another operation q.
Apart(p) ==
    \A q \in Proc \ {p} :
        /\ pc'[q] = pc[q] /\ kind'[q] = kind[q] /\ request'[q] = request[q]
        /\ dev'[q] = dev[q] /\ failure'[q] = failure[q] /\ result'[q] = result[q]
        /\ deleted'[q] = deleted[q] /\ disturbed'[q] = disturbed[q]

\* A return, a started cleanup, a further step.
Onward(p) ==
    \/ \E r : Return(p, r)
    \/ \E e : StartCleanup(p, e)
    \/ \E s : Goto(p, s)

\* Moving on is nobody else's affair.
LEMMA OnwardApart ==
    ASSUME TypeOK, NEW p \in Proc, NEW q \in Proc \ {p}, Onward(p)
    PROVE  pc'[q] = pc[q] /\ failure'[q] = failure[q] /\ result'[q] = result[q]
  BY DEF Onward, Return, StartCleanup, Goto, TypeOK

\* Fail and Done are among the ways to move on.
LEMMA FailIsOnward ==
    ASSUME NEW p, NEW e, Fail(p, e) \/ Done(p)
    PROVE  Onward(p)
  BY DEF Fail, Done, Onward

\* A process's step leaves every other operation alone.
LEMMA StepApart ==
    ASSUME TypeOK, NEW p \in Proc, ProcStep(p)
    PROVE  Apart(p)
  <1>1. Onward(p)
    <2>1. CASE OpenSession(p) BY <2>1 DEF OpenSession, Onward
    <2>2. CASE MakeCredential(p)
      BY <2>2 DEF MakeCredential, AfterMakeCred, Onward
    <2>3. CASE Assertion(p) BY <2>3, FailIsOnward DEF Assertion, Onward
    <2>4. CASE Inventory(p) BY <2>4, FailIsOnward DEF Inventory, Onward
    <2>5. CASE Stage(p) BY <2>5, FailIsOnward DEF Stage, Onward
    <2>6. CASE PrepareCleanup(p)
      BY <2>6, FailIsOnward DEF PrepareCleanup, Onward
    <2>7. CASE DeleteManaged(p) BY <2>7, FailIsOnward DEF DeleteManaged, Onward
    <2>8. CASE ConfirmAbsence(p) BY <2>8, FailIsOnward DEF ConfirmAbsence, Onward
    <2> QED BY <2>1, <2>2, <2>3, <2>4, <2>5, <2>6, <2>7, <2>8 DEF ProcStep
  <1>2. ASSUME NEW q \in Proc \ {p}
        PROVE  /\ kind'[q] = kind[q] /\ request'[q] = request[q]
               /\ dev'[q] = dev[q] /\ deleted'[q] = deleted[q]
               /\ disturbed'[q] = disturbed[q]
    <2>1. CASE OpenSession(p) BY <2>1 DEF OpenSession, TypeOK
    <2>2. CASE MakeCredential(p) BY <2>2 DEF MakeCredential, TypeOK
    <2>3. CASE Assertion(p) BY <2>3 DEF Assertion, Disturb, TypeOK
    <2>4. CASE Inventory(p) BY <2>4 DEF Inventory
    <2>5. CASE Stage(p) BY <2>5 DEF Stage
    <2>6. CASE PrepareCleanup(p) BY <2>6 DEF PrepareCleanup, Disturb, TypeOK
    <2>7. CASE DeleteManaged(p) BY <2>7 DEF DeleteManaged, Disturb, TypeOK
    <2>8. CASE ConfirmAbsence(p) BY <2>8 DEF ConfirmAbsence, Disturb, TypeOK
    <2> QED BY <2>1, <2>2, <2>3, <2>4, <2>5, <2>6, <2>7, <2>8 DEF ProcStep
  <1> QED BY <1>1, <1>2, OnwardApart DEF Apart

\* Neither a beginning nor a crash is anybody else's affair.
LEMMA EdgeApart ==
    ASSUME TypeOK, NEW p \in Proc, BeginEnroll(p) \/ BeginManaged(p) \/ Crash(p)
    PROVE  Apart(p)
  BY DEF BeginEnroll, BeginManaged, Begin, Crash, Apart, TypeOK

\* An operation stays truthful through what others do to the authenticators:
\* new credentials have new ids, and its own is taken only by another tool,
\* which disturbs it.
LEMMA OthersTruthful ==
    ASSUME StepOK, Safe, NEW q \in Proc, Truthful(q),
           pc'[q] = pc[q], kind'[q] = kind[q], request'[q] = request[q],
           dev'[q] = dev[q], failure'[q] = failure[q], result'[q] = result[q],
           deleted'[q] = deleted[q],
           disturbed'[q] = disturbed[q] \/ disturbed'[q] = TRUE,
           foreign \subseteq foreign',
           \/ foreign' = foreign
           \/ /\ disturbed'[q] = TRUE
              /\ Enrolling(q) /\ pc[q] \in {"open", "make"} =>
                    request[q].user \notin foreign',
           \A d \in Device : \A c \in store'[d] : c \in store[d] \/ c.id \notin usedIds,
           Enrolling(q) => \A d \in Device : \A c \in store[d] :
                c.id = request[q].id =>
                    \/ c \in store'[d]
                    \/ disturbed'[q] = TRUE /\ c.user \in foreign'
    PROVE  Truthful(q)'
  <1>1. pc[q] \notin {"idle", "open", "make"} =>
            dev[q] \in Device /\ request[q].id \in usedIds
    BY NoneAssumption DEF StepOK, Safe, IdsAreFresh, Record
  <1>2. ASSUME pc[q] # "idle", kind[q] = "enroll" PROVE EnrollmentKnows(q)'
    <2>1. EnrollmentKnows(q) BY <1>2 DEF Truthful, CallKnows
    <2>2. Enrolling(q) BY <1>2 DEF Enrolling
    <2>3. (pc[q] \in {"open", "make"} \/ ~disturbed[q]
                => request[q].user \notin foreign)'
      BY <2>1, <2>2 DEF EnrollmentKnows
    <2>4. (~disturbed[q] /\ pc[q] \in {"proof", "delete"} =>
                \E c \in store[dev[q]] : c.id = request[q].id)'
      BY <1>1, <2>1, <2>2 DEF EnrollmentKnows
    <2>5. (~disturbed[q] /\ pc[q] = "absence" =>
                \A c \in store[dev[q]] : c.id # request[q].id)'
      BY <1>1, <2>1, <2>2 DEF EnrollmentKnows
    <2>6. (pc[q] = "stage" => \/ request[q].user \in foreign
                             \/ Expected(request[q]) \in store[dev[q]])'
      <3>1. Expected(request[q]).id = request[q].id
            /\ Expected(request[q]).user = request[q].user
        BY DEF Expected
      <3>2. Expected(request[q])' = Expected(request[q])
        BY DEF Expected, NativeProtection
      <3> QED BY <1>1, <2>1, <2>2, <3>1, <3>2 DEF EnrollmentKnows
    <2>7. (pc[q] \in CleanupStep => failure[q] # "CredentialMayRemain")'
      BY <2>1 DEF EnrollmentKnows, CleanupStep
    <2> QED BY <2>3, <2>4, <2>5, <2>6, <2>7 DEF EnrollmentKnows
  <1>3. ASSUME pc[q] # "idle", kind[q] = "retire" PROVE RetirementKnows(q)'
    <2>1. RetirementKnows(q) BY <1>3 DEF Truthful, CallKnows
    <2> QED BY <1>1, <1>3, <2>1 DEF RetirementKnows
  <1>4. CallKnows(q)'
    BY <1>2, <1>3 DEF Truthful, CallKnows
  <1> QED BY <1>4 DEF Truthful

\* In particular through every step of another process that changes no store.
LEMMA QuietTruth ==
    ASSUME StepOK, Safe, NEW p \in Proc, \A q \in Proc : Truthful(q), Apart(p),
           UNCHANGED <<store, foreign>>
    PROVE  \A q \in Proc \ {p} : Truthful(q)'
  BY OthersTruthful DEF Apart

\* A failing call answers truthfully if a cleanup it ends was disturbed, and
\* a retirement it ends deleted nothing.
LEMMA FailTruth ==
    ASSUME TypeOK, StepOK, NEW p \in Proc, Truthful(p), pc[p] # "idle",
           NEW e \in Failure \ {"CredentialMayRemain"}, Fail(p, e),
           UNCHANGED <<kind, request, dev, foreign>>,
           pc[p] \in CleanupStep /\ kind[p] = "enroll" => disturbed'[p] = TRUE,
           pc[p] \notin CleanupStep => disturbed'[p] = disturbed[p],
           kind[p] = "retire" /\ e \in DefiniteFailure /\ request[p].user \notin foreign
                => ~deleted'[p]
    PROVE  Truthful(p)'
  <1>1. CASE kind[p] # "enroll"
    <2>1. pc'[p] = "idle" /\ result'[p] = e
      BY <1>1 DEF Fail, Return, TypeOK
    <2> QED BY <1>1, <2>1 DEF Truthful, CallKnows
  <1>2. CASE kind[p] = "enroll" /\ pc[p] \in CleanupStep
    <2>1. pc'[p] = "idle"
      BY <1>2 DEF Fail, Return, TypeOK
    <2> QED BY <1>2, <2>1 DEF Truthful, CallKnows
  <1>3. CASE kind[p] = "enroll" /\ pc[p] \notin CleanupStep
    <2>1. pc'[p] = "prepare" /\ failure'[p] = e /\ result'[p] = result[p]
      BY <1>3 DEF Fail, StartCleanup, TypeOK
    <2>2. EnrollmentKnows(p)'
      BY <1>3, <2>1 DEF Truthful, CallKnows, EnrollmentKnows
    <2> QED BY <1>3, <2>1, <2>2 DEF Truthful, CallKnows
  <1> QED BY <1>1, <1>2, <1>3

\* A cleanup or retirement that ended in absence answers truthfully.
LEMMA DoneTruth ==
    ASSUME TypeOK, NEW p \in Proc, Truthful(p), pc[p] \in CleanupStep, Done(p),
           UNCHANGED <<kind, request>>
    PROVE  Truthful(p)'
  <1>1. pc[p] # "idle" BY DEF CleanupStep
  <1>2. CASE kind[p] = "enroll"
    <2>1. pc'[p] = "idle" /\ result'[p] = failure[p]
      BY <1>2 DEF Done, Return, TypeOK
    <2>2. failure[p] # "CredentialMayRemain"
      BY <1>1, <1>2 DEF Truthful, CallKnows, EnrollmentKnows
    <2> QED BY <1>2, <2>1, <2>2 DEF Truthful, CallKnows
  <1>3. CASE kind[p] # "enroll"
    <2>1. pc'[p] = "idle" /\ result'[p] = "ok"
      BY <1>3 DEF Done, Return, TypeOK
    <2>2. "ok" \notin DefiniteFailure BY DEF DefiniteFailure, Failure
    <2> QED BY <2>1, <2>2 DEF Truthful, CallKnows
  <1> QED BY <1>2, <1>3

\* Going on to a step that asks nothing new of an undisturbed enrollment.
LEMMA GotoTruth ==
    ASSUME TypeOK, NEW p \in Proc, Truthful(p), pc[p] # "idle",
           NEW s \in Step \ {"idle", "absence"}, Goto(p, s),
           UNCHANGED <<kind, request, foreign>>,
           deleted'[p] = deleted[p],
           kind[p] = "retire" => pc[p] # "absence",
           kind[p] = "enroll" =>
             /\ s \in {"open", "make"} => pc[p] \in {"open", "make"}
             /\ s \in CleanupStep => pc[p] \in CleanupStep
             /\ ~disturbed'[p] /\ s \in {"proof", "delete"} =>
                    \E c \in store'[dev'[p]] : c.id = request[p].id
             /\ s = "stage" => Expected(request[p]) \in store'[dev'[p]],
           ~disturbed'[p] => ~disturbed[p] \/ pc[p] \in {"open", "make"}
    PROVE  Truthful(p)'
  <1>1. pc'[p] = s /\ failure'[p] = failure[p] /\ result'[p] = result[p]
    BY DEF Goto, TypeOK
  <1>2. result[p] = "none" BY DEF Truthful, CallKnows
  <1>3. ASSUME kind[p] = "enroll" PROVE EnrollmentKnows(p)'
    <2>1. EnrollmentKnows(p) BY <1>3 DEF Truthful, CallKnows
    <2>2. Expected(request[p])' = Expected(request[p])
      BY DEF Expected, NativeProtection
    <2> QED BY <1>1, <1>3, <2>1, <2>2 DEF EnrollmentKnows
  <1>4. ASSUME kind[p] = "retire" PROVE RetirementKnows(p)'
    <2>1. ~deleted[p] BY <1>4 DEF Truthful, CallKnows, RetirementKnows
    <2> QED BY <2>1 DEF RetirementKnows
  <1> QED BY <1>1, <1>2, <1>3, <1>4 DEF Truthful, CallKnows

\* The beginning of an operation.
LEMMA BeginTruth ==
    ASSUME TypeOK, IdsAreOwned, NEW p \in Proc, BeginEnroll(p) \/ BeginManaged(p)
    PROVE  Truthful(p)'
  <1>1. CASE BeginEnroll(p)
    <2>1. PICK u \in UserId \ usedUsers, policy \in Policy :
            Begin(p, "enroll", [user |-> u, id |-> None, policy |-> policy])
      BY <1>1 DEF BeginEnroll
    <2>2. /\ pc'[p] = "open" /\ result'[p] = "none" /\ kind'[p] = "enroll"
          /\ request'[p].user = u /\ foreign' = foreign
      BY <2>1 DEF Begin, TypeOK
    <2>3. u \notin foreign BY DEF IdsAreOwned
    <2>4. EnrollmentKnows(p)'
      BY <2>2, <2>3 DEF EnrollmentKnows, CleanupStep
    <2> QED BY <2>2, <2>4 DEF Truthful, CallKnows
  <1>2. CASE BeginManaged(p)
    <2>1. PICK op \in {"verify", "retire"}, r \in records : Begin(p, op, r)
      BY <1>2 DEF BeginManaged
    <2>2. /\ pc'[p] = "open" /\ result'[p] = "none" /\ kind'[p] = op
          /\ deleted'[p] = FALSE
      BY <2>1 DEF Begin, TypeOK
    <2> QED BY <2>2 DEF Truthful, CallKnows, RetirementKnows
  <1> QED BY <1>1, <1>2

\* A session opened or refused.
LEMMA OpenTruth ==
    ASSUME TypeOK, NEW p \in Proc, Truthful(p), OpenSession(p)
    PROVE  Truthful(p)'
  <1>1. pc[p] = "open" BY DEF OpenSession
  <1>2. CASE Goto(p, IF kind[p] = "enroll" THEN "make" ELSE "proof")
    <2>1. PICK s \in {"make", "proof"} :
            Goto(p, s) /\ (kind[p] = "enroll" => s = "make")
      BY <1>2
    <2>2. s \in Step \ {"idle", "absence"} BY DEF Step
    <2> QED BY <1>1, <2>1, <2>2, GotoTruth DEF OpenSession, CleanupStep
  <1>3. CASE Return(p, "Failed")
    <2>1. pc'[p] = "idle" /\ result'[p] = "Failed"
      BY <1>3 DEF Return, TypeOK
    <2>2. kind[p] = "retire" => ~deleted[p]
      BY <1>1 DEF Truthful, CallKnows, RetirementKnows
    <2> QED BY <2>1, <2>2 DEF Truthful, CallKnows, OpenSession
  <1> QED BY <1>2, <1>3 DEF OpenSession

\* A creation: only a lost or unreadable answer is CredentialMayRemain.
LEMMA MakeTruth ==
    ASSUME TypeOK, StepOK, NEW p \in Proc, Truthful(p), MakeCredential(p)
    PROVE  Truthful(p)'
  <1>1. pc[p] = "make" /\ kind[p] = "enroll"
    BY DEF MakeCredential, StepOK
  <1>2. PICK i \in (CredId \ usedIds) \cup {None}, prot \in Protection,
             status \in {"ok", "lost", "refused"}, stored \in BOOLEAN,
             usable \in BOOLEAN, verified \in BOOLEAN :
          MakeCredential(p)!2!(i, prot, status, stored, usable, verified)
    BY DEF MakeCredential
  <1>3. PICK valid \in BOOLEAN : AfterMakeCred(p, status, usable, valid)
    BY <1>2
  <1>4. disturbed'[p] = (status = "lost" \/ (status = "ok" /\ ~usable))
    BY <1>2 DEF TypeOK
  <1>5. /\ kind' = kind /\ foreign' = foreign
        /\ request'[p].user = request[p].user
    <2>1. PICK given : request' = [request EXCEPT ![p].id = given]
      BY <1>2
    <2>2. request'[p] = [request[p] EXCEPT !.id = given]
      BY <2>1 DEF TypeOK
    <2>3. request'[p].user = request[p].user
      BY <2>2 DEF TypeOK, Request
    <2> QED BY <2>3 DEF MakeCredential
  <1>6. request[p].user \notin foreign /\ result[p] = "none"
    BY <1>1 DEF Truthful, CallKnows, EnrollmentKnows
  <1>7. CASE \E r \in {"Failed", "CredentialMayRemain"} :
                Return(p, r) /\ (r = "CredentialMayRemain" => disturbed'[p])
    <2>1. pc'[p] = "idle" /\ (result'[p] = "CredentialMayRemain" => disturbed'[p])
      BY <1>7 DEF Return, TypeOK
    <2> QED BY <1>1, <1>5, <2>1 DEF Truthful, CallKnows
  <1>8. CASE StartCleanup(p, "AuthenticatorResponseInvalid") \/ Goto(p, "evaluate")
    <2>1. /\ pc'[p] \in {"prepare", "evaluate"} /\ result'[p] = "none"
          /\ pc'[p] = "prepare" => failure'[p] = "AuthenticatorResponseInvalid"
      BY <1>6, <1>8 DEF StartCleanup, Goto, TypeOK
    <2>2. EnrollmentKnows(p)'
      BY <1>5, <1>6, <2>1 DEF EnrollmentKnows, CleanupStep
    <2> QED BY <1>1, <1>5, <2>1, <2>2 DEF Truthful, CallKnows
  <1> QED BY <1>3, <1>4, <1>7, <1>8 DEF AfterMakeCred

\* A signed assertion: a cleanup that nothing disturbed finds its credential.
LEMMA AssertionTruth ==
    ASSUME TypeOK, StepOK, NEW p \in Proc, Truthful(p), Assertion(p)
    PROVE  Truthful(p)'
  <1>1. pc[p] \in {"evaluate", "proof"} /\ (pc[p] = "evaluate" => kind[p] = "enroll")
    BY DEF Assertion, StepOK
  <1>2. UNCHANGED <<store, kind, request, dev, foreign, deleted>>
    BY DEF Assertion
  <1>3. kind[p] = "retire" => ~deleted[p]
    BY <1>1 DEF Truthful, CallKnows, RetirementKnows
  <1>4. CASE /\ \E c \in store[dev[p]] : c.id = request[p].id
             /\ Goto(p, IF pc[p] = "proof" /\ kind[p] = "enroll"
                        THEN "delete" ELSE "inventory")
             /\ UNCHANGED disturbed
    <2>1. PICK s \in {"delete", "inventory"} :
            Goto(p, s) /\ (s = "delete" => pc[p] = "proof")
      BY <1>4
    <2>2. s \in Step \ {"idle", "absence"} BY DEF Step
    <2> QED BY <1>1, <1>2, <1>4, <2>1, <2>2, GotoTruth DEF CleanupStep
  <1>5. CASE /\ ~ \E c \in store[dev[p]] : c.id = request[p].id
             /\ Fail(p, "CredentialUnavailable") /\ UNCHANGED disturbed
    <2>1. "CredentialUnavailable" \in Failure \ {"CredentialMayRemain"}
      BY DEF Failure
    <2>2. pc[p] \in CleanupStep /\ kind[p] = "enroll" => disturbed'[p] = TRUE
      BY <1>1, <1>5 DEF Truthful, CallKnows, EnrollmentKnows, TypeOK, CleanupStep
    <2> QED BY <1>1, <1>2, <1>3, <1>5, <2>1, <2>2, FailTruth
  <1>6. CASE Fail(p, "Failed") /\ Disturb(p, TRUE)
    <2>1. "Failed" \in Failure \ {"CredentialMayRemain"} BY DEF Failure
    <2>2. /\ pc[p] \in CleanupStep => disturbed'[p] = TRUE
          /\ pc[p] \notin CleanupStep => disturbed'[p] = disturbed[p]
      BY <1>6 DEF Disturb, TypeOK
    <2> QED BY <1>1, <1>2, <1>3, <1>6, <2>1, <2>2, FailTruth
  <1> QED BY <1>4, <1>5, <1>6 DEF Assertion

\* What an inventory that shows a record exactly has seen.
LEMMA PresentMeansStored ==
    ASSUME TypeOK, NEW d \in Device, NEW r, NEW exact \in BOOLEAN,
           Presence(d, r, exact) = "present"
    PROVE  \E c \in store[d] : /\ c.user = r.user /\ c.id = r.id
                               /\ exact => c = Expected(r)
  <1>1. PICK c \in store[d] : /\ c.user = r.user /\ c.id = r.id
                              /\ exact => c.prot = NativeProtection(r.policy)
    BY DEF Presence
  <1>2. c \in Credential BY DEF TypeOK
  <1>3. exact => c = Expected(r)
    BY <1>1, <1>2 DEF Expected, Credential
  <1> QED BY <1>1, <1>3

\* The errors of an inventory are about the credential, or none of its business.
LEMMA InventoryErrors ==
    ASSUME NEW presence \in {"absent", "mismatch", "error"}
    PROVE  InventoryError(presence) \in Failure \ {"CredentialMayRemain"}
  BY DEF InventoryError, Failure

\* An inventory: what is staged is there.
LEMMA InventoryTruth ==
    ASSUME TypeOK, StepOK, NEW p \in Proc, Truthful(p), Inventory(p)
    PROVE  Truthful(p)'
  <1>1. pc[p] = "inventory" /\ dev[p] \in Device
    BY DEF Inventory, StepOK
  <1>2. UNCHANGED <<store, kind, request, dev, foreign, deleted, disturbed>>
    BY DEF Inventory
  <1>3. kind[p] = "retire" => ~deleted[p]
    BY <1>1 DEF Truthful, CallKnows, RetirementKnows
  <1>4. CASE /\ Presence(dev[p], request[p], TRUE) = "present"
             /\ kind[p] = "enroll" /\ Goto(p, "stage")
    <2>1. Expected(request[p]) \in store[dev[p]]
      BY <1>1, <1>4, PresentMeansStored
    <2>2. "stage" \in Step \ {"idle", "absence"} BY DEF Step
    <2> QED BY <1>1, <1>2, <1>4, <2>1, <2>2, GotoTruth DEF CleanupStep
  <1>5. CASE kind[p] = "retire" /\ Goto(p, "delete")
    <2>1. "delete" \in Step \ {"idle", "absence"} BY DEF Step
    <2> QED BY <1>1, <1>2, <1>5, <2>1, GotoTruth
  <1>6. CASE kind[p] = "verify" /\ Return(p, "ok")
    <2>1. pc'[p] = "idle" /\ result'[p] = "ok" BY <1>6 DEF Return, TypeOK
    <2> QED BY <1>2, <1>6, <2>1 DEF Truthful, CallKnows
  <1>7. CASE \E presence \in {"absent", "mismatch", "error"} :
                Fail(p, InventoryError(presence))
    <2>1. PICK e \in Failure \ {"CredentialMayRemain"} : Fail(p, e)
      BY <1>7, InventoryErrors
    <2> QED BY <1>1, <1>2, <1>3, <2>1, FailTruth DEF CleanupStep
  <1> QED BY <1>4, <1>5, <1>6, <1>7 DEF Inventory, Presence

\* A staged envelope, returned or given up.
LEMMA StageTruth ==
    ASSUME TypeOK, StepOK, NEW p \in Proc, Truthful(p), Stage(p)
    PROVE  Truthful(p)'
  <1>1. pc[p] = "stage" /\ kind[p] = "enroll" BY DEF Stage, StepOK
  <1>2. UNCHANGED <<kind, request, dev, foreign, disturbed>> BY DEF Stage
  <1>3. CASE Return(p, "ok")
    <2>1. pc'[p] = "idle" /\ result'[p] = "ok" BY <1>3 DEF Return, TypeOK
    <2> QED BY <1>1, <1>2, <2>1 DEF Truthful, CallKnows
  <1>4. CASE Fail(p, "Failed")
    <2>1. "Failed" \in Failure \ {"CredentialMayRemain"} BY DEF Failure
    <2> QED BY <1>1, <1>2, <1>4, <2>1, FailTruth DEF CleanupStep
  <1> QED BY <1>3, <1>4 DEF Stage

\* What an undisturbed cleanup sees is the credential it made, or nothing.
LEMMA UndisturbedSees ==
    ASSUME StepOK, Safe, IdsAreOwned, NEW p \in Proc, kind[p] = "enroll",
           pc[p] \in CleanupStep, request[p].user \notin foreign
    PROVE  /\ Presence(dev[p], request[p], FALSE) # "mismatch"
           /\ (\A c \in store[dev[p]] : c.id # request[p].id) =>
                Presence(dev[p], request[p], FALSE) = "absent"
  <1>1. /\ Enrolling(p) /\ dev[p] \in Device /\ request[p].id # None
        /\ pc[p] \notin {"open", "make"}
    BY NoneAssumption DEF StepOK, Enrolling, CleanupStep, Record
  <1>2. \A c \in store[dev[p]] : c.user = request[p].user => c.id = request[p].id
    BY <1>1 DEF Safe, EnrollmentOwns
  <1>3. \A c \in store[dev[p]] : c.id = request[p].id => c.user = request[p].user
    BY <1>1 DEF IdsAreOwned
  <1> QED BY <1>2, <1>3 DEF Presence

\* The start of a cleanup.
LEMMA PrepareTruth ==
    ASSUME TypeOK, StepOK, Safe, IdsAreOwned, NEW p \in Proc, Truthful(p),
           PrepareCleanup(p)
    PROVE  Truthful(p)'
  <1>1. /\ pc[p] = "prepare" /\ kind[p] = "enroll" /\ dev[p] \in Device
        /\ pc[p] \in CleanupStep
    BY DEF PrepareCleanup, StepOK, CleanupStep
  <1>2. UNCHANGED <<store, kind, request, dev, foreign, deleted>>
    BY DEF PrepareCleanup
  <1> DEFINE shown == Presence(dev[p], request[p], FALSE)
  <1>3. PICK presence \in {shown, "error"} :
          /\ \/ presence = "absent" /\ Done(p)
             \/ presence = "present" /\ Goto(p, "proof")
             \/ presence \in {"mismatch", "error"}
                   /\ Fail(p, InventoryError(presence))
          /\ Disturb(p, presence = "error")
    BY DEF PrepareCleanup
  <1>4. disturbed'[p] = (disturbed[p] \/ presence = "error")
    BY <1>1, <1>3 DEF Disturb, TypeOK
  <1>5. CASE Done(p)
    BY <1>1, <1>2, <1>5, DoneTruth
  <1>6. CASE presence = "present" /\ Goto(p, "proof")
    <2>1. shown = "present" BY <1>6
    <2>2. \E c \in store[dev[p]] : c.id = request[p].id
      BY <1>1, <2>1, PresentMeansStored
    <2>3. "proof" \in Step \ {"idle", "absence"} BY DEF Step
    <2> QED BY <1>1, <1>2, <1>4, <1>6, <2>2, <2>3, GotoTruth
  <1>7. CASE presence \in {"mismatch", "error"} /\ Fail(p, InventoryError(presence))
    <2>1. ~disturbed[p] => request[p].user \notin foreign
      BY <1>1 DEF Truthful, CallKnows, EnrollmentKnows
    <2>2. disturbed[p] \/ presence = "error"
      BY <1>1, <1>7, <2>1, UndisturbedSees
    <2>3. disturbed'[p] = TRUE BY <1>4, <2>2
    <2>4. PICK e \in Failure \ {"CredentialMayRemain"} : Fail(p, e)
      BY <1>7, InventoryErrors
    <2> QED BY <1>1, <1>2, <2>3, <2>4, FailTruth
  <1> QED BY <1>3, <1>5, <1>6, <1>7

\* The deletion: a status that tells nothing disturbs, a definite one is true.
LEMMA DeleteTruth ==
    ASSUME TypeOK, StepOK, NEW p \in Proc, Truthful(p), DeleteManaged(p)
    PROVE  Truthful(p)'
  <1>1. /\ pc[p] = "delete" /\ dev[p] \in Device /\ pc[p] \in CleanupStep
        /\ kind[p] # "verify"
    BY DEF DeleteManaged, StepOK, CleanupStep
  <1>2. UNCHANGED <<kind, request, dev, foreign>> BY DEF DeleteManaged
  <1> DEFINE held == {c \in store[dev[p]] : c.id = request[p].id}
  <1>3. PICK status \in {"ok", "lost", "notfound", "refused"}, acts \in BOOLEAN :
          /\ status = "ok" => acts
          /\ status = "refused" => ~acts
          /\ status = "notfound" => held = {}
          /\ store' = [store EXCEPT ![dev[p]] = @ \ {c \in held : acts}]
          /\ deleted' = [deleted EXCEPT ![p] = acts]
          /\ \/ status = "refused" /\ Fail(p, "Failed")
             \/ status # "refused" /\ Goto(p, "absence")
          /\ Disturb(p, status \in {"lost", "refused"})
    BY DEF DeleteManaged
  <1>4. /\ disturbed'[p] = (disturbed[p] \/ status \in {"lost", "refused"})
        /\ deleted'[p] = acts
        /\ store'[dev[p]] = store[dev[p]] \ {c \in held : acts}
    BY <1>1, <1>3 DEF Disturb, TypeOK
  <1>5. CASE status = "refused" /\ Fail(p, "Failed")
    <2>1. "Failed" \in Failure \ {"CredentialMayRemain"} BY DEF Failure
    <2>2. disturbed'[p] = TRUE BY <1>4, <1>5
    <2> QED BY <1>1, <1>2, <1>3, <1>4, <1>5, <2>1, <2>2, FailTruth
  <1>6. CASE status # "refused" /\ Goto(p, "absence")
    <2>1. pc'[p] = "absence" /\ failure'[p] = failure[p] /\ result'[p] = "none"
      BY <1>1, <1>6 DEF Goto, TypeOK, Truthful, CallKnows
    <2>2. acts => \A c \in store'[dev[p]] : c.id # request[p].id
      BY <1>4
    <2>3. ASSUME kind[p] = "enroll" PROVE EnrollmentKnows(p)'
      <3>1. EnrollmentKnows(p) BY <1>1, <2>3 DEF Truthful, CallKnows
      <3>2. ~disturbed'[p] => acts \/ held = {}
        BY <1>3, <1>4
      <3>3. held = {} => \A c \in store'[dev[p]] : c.id # request[p].id
        BY <1>4
      <3> QED BY <1>1, <1>2, <1>4, <2>1, <2>2, <3>1, <3>2, <3>3
              DEF EnrollmentKnows
    <2>4. ASSUME kind[p] = "retire" PROVE RetirementKnows(p)'
      BY <1>2, <1>4, <2>1, <2>2 DEF RetirementKnows
    <2> QED BY <1>1, <1>2, <2>1, <2>3, <2>4 DEF Truthful, CallKnows
  <1> QED BY <1>3, <1>5, <1>6

\* The enumeration that settles a deletion.
LEMMA AbsenceTruth ==
    ASSUME TypeOK, StepOK, Safe, IdsAreOwned, NEW p \in Proc, Truthful(p),
           ConfirmAbsence(p)
    PROVE  Truthful(p)'
  <1>1. /\ pc[p] = "absence" /\ kind[p] # "verify" /\ dev[p] \in Device
        /\ pc[p] \in CleanupStep
    BY DEF ConfirmAbsence, StepOK, CleanupStep
  <1>2. UNCHANGED <<store, kind, request, dev, foreign, deleted>>
    BY DEF ConfirmAbsence
  <1> DEFINE shown == Presence(dev[p], request[p], kind[p] # "enroll")
  <1>3. PICK presence \in {shown, "error"} :
          /\ LET r == RetirementOutcome(delete[p], presence)
             IN  IF r = "ok" THEN Done(p) ELSE Fail(p, r)
          /\ Disturb(p, presence = "error")
    BY DEF ConfirmAbsence
  <1>4. presence \in {"absent", "present", "mismatch", "error"}
    BY DEF Presence
  <1>5. CASE presence = "absent"
    <2>1. Done(p) BY <1>3, <1>5 DEF RetirementOutcome
    <2> QED BY <1>1, <1>2, <2>1, DoneTruth
  <1>6. CASE presence # "absent"
    <2>1. /\ RetirementOutcome(delete[p], presence)
                \in Failure \ {"CredentialMayRemain"}
          /\ presence = "error" =>
                RetirementOutcome(delete[p], presence) \notin DefiniteFailure
      BY <1>4, <1>6 DEF RetirementOutcome, Failure, DefiniteFailure
    <2>2. PICK e \in Failure \ {"CredentialMayRemain"} :
            Fail(p, e) /\ (presence = "error" => e \notin DefiniteFailure)
      BY <1>3, <2>1 DEF Failure
    <2>3. disturbed'[p] = (disturbed[p] \/ presence = "error")
      BY <1>1, <1>3 DEF Disturb, TypeOK
    <2>4. kind[p] = "enroll" => disturbed'[p] = TRUE
      <3>1. SUFFICES ASSUME kind[p] = "enroll", ~disturbed[p], presence # "error"
                     PROVE  FALSE
        BY <2>3
      <3>2. /\ request[p].user \notin foreign
            /\ \A c \in store[dev[p]] : c.id # request[p].id
        BY <1>1, <3>1 DEF Truthful, CallKnows, EnrollmentKnows
      <3>3. shown = "absent" BY <1>1, <3>1, <3>2, UndisturbedSees
      <3> QED BY <1>6, <3>1, <3>3
    <2>5. kind[p] = "retire" /\ e \in DefiniteFailure /\ request[p].user \notin foreign
            => ~deleted'[p]
      <3>1. SUFFICES ASSUME kind[p] = "retire", e \in DefiniteFailure,
                            request[p].user \notin foreign, deleted[p]
                     PROVE  FALSE
        BY <1>2
      <3>2. \A c \in store[dev[p]] : c.id # request[p].id
        BY <1>1, <3>1 DEF Truthful, CallKnows, RetirementKnows
      <3>3. request[p] \in records BY <1>1, <3>1 DEF StepOK
      <3>4. \A c \in store[dev[p]] : c.user # request[p].user
        BY <1>1, <3>1, <3>2, <3>3 DEF IdsAreOwned
      <3>5. shown = "absent" BY <3>2, <3>4 DEF Presence
      <3> QED BY <1>6, <2>2, <3>1, <3>5
    <2> QED BY <1>1, <1>2, <2>2, <2>4, <2>5, FailTruth
  <1> QED BY <1>5, <1>6

\* A dead process answers nothing.
LEMMA CrashTruth ==
    ASSUME TypeOK, NEW p \in Proc, Crash(p)
    PROVE  Truthful(p)'
  <1>1. pc'[p] = "idle" /\ result'[p] = "crashed" BY DEF Crash, TypeOK
  <1>2. "crashed" \notin DefiniteFailure BY DEF DefiniteFailure, Failure
  <1> QED BY <1>1, <1>2 DEF Truthful, CallKnows

\* Another process's step leaves an operation truthful: a deletion takes only
\* ids no enrollment owns.
LEMMA OthersStay ==
    ASSUME TypeOK, StepOK, Safe, IdsAreOwned, \A q \in Proc : Truthful(q),
           NEW p \in Proc, ProcStep(p)
    PROVE  \A q \in Proc \ {p} : Truthful(q)'
  <1>1. Apart(p) BY StepApart
  <1>2. CASE store' = store
    BY <1>1, <1>2, QuietTruth DEF ProcStep, OpenSession, MakeCredential, Assertion,
       Inventory, Stage, PrepareCleanup, DeleteManaged, ConfirmAbsence
  <1>3. CASE MakeCredential(p)
    <2>1. foreign' = foreign BY <1>3 DEF MakeCredential
    <2>2. dev[p] \in Device BY <1>3 DEF MakeCredential, StepOK
    <2>3. \A d \in Device : /\ store[d] \subseteq store'[d]
                            /\ \A c \in store'[d] : c \in store[d] \/ c.id \notin usedIds
      <3>1. PICK i \in (CredId \ usedIds) \cup {None}, prot \in Protection,
                 status \in {"ok", "lost", "refused"}, stored \in BOOLEAN,
                 usable \in BOOLEAN, verified \in BOOLEAN :
              MakeCredential(p)!2!(i, prot, status, stored, usable, verified)
        BY <1>3 DEF MakeCredential
      <3>2. PICK made : made = [user |-> request[p].user, id |-> i, prot |-> prot]
        OBVIOUS
      <3>3. /\ store' = [store EXCEPT ![dev[p]] = @ \cup {c \in {made} : stored}]
            /\ stored => i \notin usedIds
        BY <3>1, <3>2
      <3> QED BY <2>2, <3>2, <3>3 DEF TypeOK
    <2> QED BY <1>1, <2>1, <2>3, OthersTruthful DEF Apart
  <1>4. CASE DeleteManaged(p)
    <2>1. foreign' = foreign BY <1>4 DEF DeleteManaged
    <2>2. /\ pc[p] = "delete" /\ dev[p] \in Device /\ request[p] \in Record
          /\ kind[p] # "enroll" => request[p] \in records
      BY <1>4 DEF DeleteManaged, StepOK
    <2>3. \A d \in Device : /\ store'[d] \subseteq store[d]
                            /\ \A c \in store[d] : c.id # request[p].id => c \in store'[d]
      BY <1>4, <2>2 DEF DeleteManaged, TypeOK
    <2>4. ASSUME NEW q \in Proc \ {p}, Enrolling(q) PROVE request[q].id # request[p].id
      <3>1. CASE kind[p] = "enroll"
        <4>1. Enrolling(p) /\ request[p].id # None
          BY <2>2, <3>1, NoneAssumption DEF Enrolling, Record
        <4> QED BY <2>4, <4>1 DEF IdsAreOwned
      <3>2. CASE kind[p] # "enroll"
        BY <2>2, <2>4, <3>2 DEF IdsAreOwned
      <3> QED BY <3>1, <3>2
    <2> QED BY <1>1, <2>1, <2>3, <2>4, OthersTruthful DEF Apart
  <1> QED BY <1>2, <1>3, <1>4 DEF ProcStep, OpenSession, Assertion, Inventory,
             Stage, PrepareCleanup, ConfirmAbsence

\* Every operation stays truthful through every step of a process.
LEMMA StepTruth ==
    ASSUME TypeOK, StepOK, Safe, IdsAreOwned, \A q \in Proc : Truthful(q),
           NEW p \in Proc, ProcStep(p)
    PROVE  \A q \in Proc : Truthful(q)'
  <1>1. Truthful(p)'
    BY OpenTruth, MakeTruth, AssertionTruth, InventoryTruth, StageTruth,
       PrepareTruth, DeleteTruth, AbsenceTruth DEF ProcStep
  <1> QED BY <1>1, OthersStay

\* Through the beginning and the death of one.
LEMMA EdgeTruth ==
    ASSUME TypeOK, StepOK, Safe, IdsAreOwned, \A q \in Proc : Truthful(q),
           NEW p \in Proc, BeginEnroll(p) \/ BeginManaged(p) \/ Crash(p)
    PROVE  \A q \in Proc : Truthful(q)'
  <1>1. Truthful(p)' BY BeginTruth, CrashTruth
  <1>2. UNCHANGED <<store, foreign>>
    BY DEF BeginEnroll, BeginManaged, Begin, Crash
  <1>3. \A q \in Proc \ {p} : Truthful(q)' BY <1>2, EdgeApart, QuietTruth
  <1> QED BY <1>1, <1>3

\* What another tool does: it takes one credential away, or gives its user a
\* new one with a new id.
LEMMA ForeignMoves ==
    ASSUME TypeOK, ForeignTool
    PROVE  \E d \in Device : \E c \in store[d] :
            /\ foreign' = foreign \cup {c.user}
            /\ \A e \in Device : \A b \in store[e] : b \in store'[e] \/ b = c
            /\ \A e \in Device : \A b \in store'[e] :
                    \/ b \in store[e]
                    \/ b.user = c.user /\ b.id \notin usedIds
  <1>1. PICK d \in Device : \E c \in store[d] :
          /\ foreign' = foreign \cup {c.user}
          /\ \/ store' = [store EXCEPT ![d] = @ \ {c}]
             \/ \E i \in CredId \ usedIds :
                  store' = [store EXCEPT ![d] = (@ \ {c}) \cup {[c EXCEPT !.id = i]}]
    BY DEF ForeignTool
  <1>2. PICK c \in store[d] :
          /\ foreign' = foreign \cup {c.user}
          /\ \/ store' = [store EXCEPT ![d] = @ \ {c}]
             \/ \E i \in CredId \ usedIds :
                  store' = [store EXCEPT ![d] = (@ \ {c}) \cup {[c EXCEPT !.id = i]}]
    BY <1>1
  <1>3. CASE store' = [store EXCEPT ![d] = @ \ {c}] BY <1>2, <1>3 DEF TypeOK
  <1>4. ASSUME NEW i \in CredId \ usedIds,
               store' = [store EXCEPT ![d] = (@ \ {c}) \cup {[c EXCEPT !.id = i]}]
        PROVE  /\ \A e \in Device : \A b \in store[e] : b \in store'[e] \/ b = c
               /\ \A e \in Device : \A b \in store'[e] :
                    \/ b \in store[e]
                    \/ b.user = c.user /\ b.id \notin usedIds
    <2>1. c \in Credential BY DEF TypeOK
    <2>2. PICK new : new = [c EXCEPT !.id = i] OBVIOUS
    <2>3. new.user = c.user /\ new.id = i BY <2>1, <2>2 DEF Credential
    <2>4. store' = [store EXCEPT ![d] = (@ \ {c}) \cup {new}] BY <1>4, <2>2
    <2> QED BY <2>3, <2>4 DEF TypeOK
  <1> QED BY <1>2, <1>3, <1>4

\* Through what another tool does.
LEMMA ForeignTruth ==
    ASSUME TypeOK, StepOK, Safe, IdsAreOwned, \A q \in Proc : Truthful(q), ForeignTool
    PROVE  \A q \in Proc : Truthful(q)'
  <1> SUFFICES ASSUME NEW q \in Proc PROVE Truthful(q)'
    OBVIOUS
  <1>0. PICK d \in Device : \E c \in store[d] :
            /\ foreign' = foreign \cup {c.user}
            /\ \A e \in Device : \A b \in store[e] : b \in store'[e] \/ b = c
            /\ \A e \in Device : \A b \in store'[e] :
                    \/ b \in store[e]
                    \/ b.user = c.user /\ b.id \notin usedIds
    BY ForeignMoves
  <1>1. PICK c \in store[d] :
            /\ foreign' = foreign \cup {c.user}
            /\ \A e \in Device : \A b \in store[e] : b \in store'[e] \/ b = c
            /\ \A e \in Device : \A b \in store'[e] :
                    \/ b \in store[e]
                    \/ b.user = c.user /\ b.id \notin usedIds
    BY <1>0
  <1>2. UNCHANGED callVars /\ deleted' = deleted /\ disturbed'[q] = TRUE
    BY DEF ForeignTool
  <1>3. Enrolling(q) /\ pc[q] \in {"open", "make"} =>
            request[q].user \notin foreign /\ request[q].user # c.user
    BY DEF Truthful, CallKnows, EnrollmentKnows, Enrolling, Safe, EnrollmentOwns
  <1> QED BY <1>1, <1>2, <1>3, OthersTruthful DEF callVars

\* Ids stay owned while no operation begins, publishes or is given one.
LEMMA OwnedKept ==
    ASSUME TypeOK, StepOK, Safe, IdsAreOwned, records' = records,
           \A q \in Proc : Enrolling(q)' => Enrolling(q) /\ request'[q] = request[q],
           foreign \subseteq foreign', foreign' \subseteq usedUsers',
           \A d \in Device : \A c \in store'[d] :
                c \in store[d] \/ (c.id \notin usedIds /\ c.user \in foreign')
    PROVE  IdsAreOwned'
  <1>1. \A q \in Proc : Enrolling(q) => request[q].id \in usedIds \cup {None}
    BY DEF Safe, IdsAreFresh
  <1> QED BY <1>1 DEF IdsAreOwned

\* A new operation owns nothing yet, and its user id is new.
LEMMA BeginOwned ==
    ASSUME TypeOK, StepOK, Safe, IdsAreOwned, NEW p \in Proc,
           BeginEnroll(p) \/ BeginManaged(p)
    PROVE  IdsAreOwned'
  <1>1. /\ UNCHANGED <<store, records, foreign, usedIds>>
        /\ usedUsers \subseteq usedUsers'
    BY DEF BeginEnroll, BeginManaged, Begin
  <1>2. \A q \in Proc \ {p} : request'[q] = request[q] /\ (Enrolling(q)' => Enrolling(q))
    BY EdgeApart DEF Apart, Enrolling
  <1>3. CASE BeginManaged(p)
    <2>1. ~Enrolling(p)' BY <1>3 DEF BeginManaged, Begin, Enrolling, TypeOK
    <2> QED BY <1>1, <1>2, <2>1, OwnedKept DEF IdsAreOwned
  <1>4. CASE BeginEnroll(p)
    <2>1. PICK u \in UserId \ usedUsers, policy \in Policy :
            Begin(p, "enroll", [user |-> u, id |-> None, policy |-> policy])
      BY <1>4 DEF BeginEnroll
    <2>2. request'[p].user = u /\ request'[p].id = None
      BY <2>1 DEF Begin, TypeOK
    <2>3. \A r \in records : r.user # u /\ r.id # None
      BY NoneAssumption DEF Safe, IdsAreFresh, TypeOK, Record
    <2> QED BY <1>1, <1>2, <2>2, <2>3 DEF IdsAreOwned
  <1> QED BY <1>3, <1>4

\* A creation gives its enrollment a new id.
LEMMA MakeOwned ==
    ASSUME TypeOK, StepOK, Safe, IdsAreOwned, NEW p \in Proc, MakeCredential(p)
    PROVE  IdsAreOwned'
  <1>1. /\ pc[p] = "make" /\ kind[p] = "enroll" /\ dev[p] \in Device
        /\ Enrolling(p) /\ request[p] \in Request
    BY DEF MakeCredential, StepOK, Enrolling, TypeOK
  <1>2. PICK i \in (CredId \ usedIds) \cup {None}, prot \in Protection,
             status \in {"ok", "lost", "refused"}, stored \in BOOLEAN,
             usable \in BOOLEAN, verified \in BOOLEAN :
          MakeCredential(p)!2!(i, prot, status, stored, usable, verified)
    BY DEF MakeCredential
  <1>3. PICK given : /\ given = IF status = "ok" /\ usable THEN i ELSE None
                     /\ request' = [request EXCEPT ![p].id = given]
    BY <1>2
  <1>4. request'[p] = [request[p] EXCEPT !.id = given] BY <1>3 DEF TypeOK
  <1>5. request'[p].user = request[p].user /\ request'[p].id = given
    BY <1>1, <1>4 DEF Request
  <1>6. given \notin usedIds \/ given = None BY <1>3
  <1>7. \A d \in Device : \A c \in store'[d] :
            \/ c \in store[d]
            \/ c.user = request[p].user /\ c.id \notin usedIds
    <2>1. PICK made : made = [user |-> request[p].user, id |-> i, prot |-> prot]
      OBVIOUS
    <2>2. store' = [store EXCEPT ![dev[p]] = @ \cup {c \in {made} : stored}]
      BY <1>2, <2>1
    <2>3. stored => i \notin usedIds BY <1>2
    <2> QED BY <1>1, <2>1, <2>2, <2>3 DEF TypeOK
  <1>8. \A q \in Proc \ {p} : request'[q] = request[q] /\ (Enrolling(q)' => Enrolling(q))
    <2>1. ProcStep(p) BY DEF ProcStep
    <2> QED BY <2>1, StepApart DEF Apart, Enrolling
  <1>9. UNCHANGED <<records, foreign, usedUsers>> BY DEF MakeCredential
  <1>10. /\ \A r \in records : r.id \in usedIds /\ r.id # None
         /\ \A q \in Proc : request[q].id \in usedIds \cup {None}
         /\ \A d \in Device : \A c \in store[d] : c.id \in usedIds
    BY NoneAssumption DEF Safe, IdsAreFresh, TypeOK, Record
  <1>11. \A q \in Proc \ {p} : Enrolling(q) => request[q].user # request[p].user
    BY <1>1 DEF Safe, EnrollmentOwns
  <1>12. \A r \in records : r.user # request[p].user BY <1>1 DEF IdsAreOwned
  <1>13. ASSUME NEW q \in Proc, Enrolling(q)'
         PROVE  /\ \A r \in records : r.user # request'[q].user /\ r.id # request'[q].id
                /\ request'[q].id # None =>
                    /\ \A d \in Device : \A c \in store'[d] :
                        c.id = request'[q].id => c.user = request'[q].user
                    /\ \A t \in Proc \ {q} : Enrolling(t)' => request'[t].id # request'[q].id
    <2>1. CASE q = p
      BY <1>5, <1>6, <1>7, <1>8, <1>10, <1>12, <2>1
    <2>2. CASE q # p
      <3>1. Enrolling(q) /\ request'[q] = request[q] BY <1>8, <1>13, <2>2
      <3>2. \A t \in Proc \ {q} : request[q].id # None /\ Enrolling(t)'
                => request'[t].id # request[q].id
        BY <1>5, <1>6, <1>8, <1>10, <3>1 DEF IdsAreOwned
      <3> QED BY <1>7, <1>10, <3>1, <3>2 DEF IdsAreOwned
    <2> QED BY <2>1, <2>2
  <1>14. (\A r \in records, d \in Device : \A c \in store[d] :
            c.user = r.user => c.id = r.id \/ c.user \in foreign)'
    BY <1>7, <1>9, <1>12 DEF IdsAreOwned
  <1> QED BY <1>9, <1>13, <1>14 DEF IdsAreOwned

\* A published record takes over what its enrollment owned.
LEMMA StageOwned ==
    ASSUME TypeOK, StepOK, Safe, IdsAreOwned, NEW p \in Proc, Stage(p)
    PROVE  IdsAreOwned'
  <1>1. /\ pc[p] = "stage" /\ kind[p] = "enroll" /\ Enrolling(p)
        /\ request[p] \in Record /\ request[p].id # None
    BY NoneAssumption DEF Stage, StepOK, Enrolling, Record
  <1>2. UNCHANGED <<store, kind, request, foreign, usedUsers>> BY DEF Stage
  <1>3. \A q \in Proc \ {p} : Enrolling(q)' => Enrolling(q)
    <2>1. ProcStep(p) BY DEF ProcStep
    <2> QED BY <2>1, StepApart DEF Apart, Enrolling
  <1>4. CASE records' = records
    BY <1>1, <1>2, <1>3, <1>4, OwnedKept DEF IdsAreOwned
  <1>5. CASE records' = records \cup {request[p]} /\ Return(p, "ok")
    <2>1. ~Enrolling(p)' BY <1>5 DEF Return, TypeOK, Enrolling
    <2>2. \A q \in Proc \ {p} : Enrolling(q) =>
            request[q].user # request[p].user /\ request[q].id # request[p].id
      BY <1>1 DEF Safe, EnrollmentOwns, IdsAreOwned
    <2>3. \A d \in Device : \A c \in store[d] :
            c.user = request[p].user => c.id = request[p].id \/ c.user \in foreign
      BY <1>1 DEF Safe, EnrollmentOwns
    <2>4. \A r \in records : r.id # request[p].id BY <1>1 DEF IdsAreOwned
    <2> QED BY <1>2, <1>3, <1>5, <2>1, <2>2, <2>3, <2>4 DEF IdsAreOwned
  <1> QED BY <1>4, <1>5 DEF Stage

\* Every step of a process keeps ids owned.
LEMMA StepOwned ==
    ASSUME TypeOK, StepOK, Safe, IdsAreOwned, NEW p \in Proc, ProcStep(p)
    PROVE  IdsAreOwned'
  <1>1. CASE ~MakeCredential(p) /\ ~Stage(p)
    <2>1. UNCHANGED <<records, kind, request, foreign, usedUsers>>
      BY <1>1 DEF ProcStep, OpenSession, Assertion, Inventory, PrepareCleanup,
         DeleteManaged, ConfirmAbsence
    <2>2. \A d \in Device : store'[d] \subseteq store[d]
      <3>1. CASE DeleteManaged(p)
        BY <3>1 DEF DeleteManaged, TypeOK, StepOK
      <3>2. CASE store' = store BY <3>2
      <3> QED BY <1>1, <3>1, <3>2 DEF ProcStep, OpenSession, Assertion,
                 Inventory, PrepareCleanup, ConfirmAbsence
    <2>3. pc[p] # "idle"
      BY DEF ProcStep, OpenSession, MakeCredential, Assertion, Inventory, Stage,
         PrepareCleanup, DeleteManaged, ConfirmAbsence
    <2>4. \A q \in Proc : Enrolling(q)' => Enrolling(q)
      BY <2>1, <2>3, StepApart DEF Apart, Enrolling
    <2> QED BY <2>1, <2>2, <2>4, OwnedKept DEF IdsAreOwned
  <1> QED BY <1>1, MakeOwned, StageOwned

\* A published record stays backed: a cleanup deletes only what no record
\* names, and a retirement says what it deletes.
LEMMA StepBacked ==
    ASSUME TypeOK, StepOK, Safe, IdsAreOwned, PublishedIsBacked, NEW p \in Proc,
           Truthful(p), ProcStep(p)
    PROVE  PublishedIsBacked'
  <1>1. CASE store' = store /\ records' = records
    <2>1. foreign' = foreign /\ withdrawn \subseteq withdrawn'
      BY DEF ProcStep, OpenSession, MakeCredential, Assertion, Inventory, Stage,
         PrepareCleanup, DeleteManaged, ConfirmAbsence
    <2> QED BY <1>1, <2>1 DEF PublishedIsBacked, Expected, NativeProtection
  <1>2. CASE MakeCredential(p)
    <2>1. UNCHANGED <<records, foreign, withdrawn>> BY <1>2 DEF MakeCredential
    <2>2. \A d \in Device : store[d] \subseteq store'[d]
      BY <1>2 DEF MakeCredential, TypeOK
    <2> QED BY <2>1, <2>2 DEF PublishedIsBacked, Expected, NativeProtection
  <1>3. CASE Stage(p)
    <2>1. /\ pc[p] = "stage" /\ kind[p] = "enroll" /\ dev[p] \in Device
          /\ UNCHANGED <<store, foreign, withdrawn>>
          /\ records' \subseteq records \cup {request[p]}
      BY <1>3 DEF Stage, StepOK
    <2>2. request[p].user \in foreign \/ Expected(request[p]) \in store[dev[p]]
      BY <2>1 DEF Truthful, CallKnows, EnrollmentKnows
    <2> QED BY <2>1, <2>2 DEF PublishedIsBacked, Expected, NativeProtection
  <1>4. CASE DeleteManaged(p)
    <2>1. /\ UNCHANGED <<records, foreign>> /\ withdrawn \subseteq withdrawn'
          /\ pc[p] = "delete" /\ dev[p] \in Device /\ request[p] \in Record
          /\ kind[p] \in {"enroll", "retire"}
          /\ kind[p] # "enroll" => request[p] \in records
      BY <1>4 DEF DeleteManaged, StepOK, TypeOK, Operation
    <2>2. PICK acts \in BOOLEAN :
            /\ store' = [store EXCEPT ![dev[p]] =
                    @ \ {c \in store[dev[p]] : c.id = request[p].id /\ acts}]
            /\ acts /\ kind[p] = "retire" => request[p].user \in withdrawn'
      <3>1. PICK acts \in BOOLEAN :
              /\ store' = [store EXCEPT ![dev[p]] = @ \
                    {c \in {b \in store[dev[p]] : b.id = request[p].id} : acts}]
              /\ withdrawn' = withdrawn \cup
                    {u \in {request[p].user} : acts /\ kind[p] = "retire"}
        BY <1>4 DEF DeleteManaged
      <3>2. {c \in {b \in store[dev[p]] : b.id = request[p].id} : acts}
              = {c \in store[dev[p]] : c.id = request[p].id /\ acts}
        OBVIOUS
      <3> QED BY <3>1, <3>2
    <2>3. ASSUME NEW r \in records, NEW d \in Device, Expected(r) \in store[d],
                 Expected(r) \notin store'[d]
          PROVE  r.user \in withdrawn'
      <3>1. acts /\ r.id = request[p].id
        BY <2>1, <2>2, <2>3 DEF TypeOK, Expected
      <3>2. kind[p] = "retire"
        <4>1. kind[p] = "enroll" => Enrolling(p) BY <2>1 DEF Enrolling
        <4> QED BY <2>1, <3>1, <4>1 DEF IdsAreOwned
      <3>3. r.user = request[p].user
        BY <2>1, <3>1, <3>2 DEF IdsAreOwned
      <3> QED BY <2>2, <3>1, <3>2, <3>3
    <2>4. \A r \in records : Expected(r)' = Expected(r)
      BY DEF Expected, NativeProtection
    <2> QED BY <2>1, <2>3, <2>4 DEF PublishedIsBacked
  <1> QED BY <1>1, <1>2, <1>3, <1>4 DEF ProcStep, OpenSession, Assertion,
             Inventory, PrepareCleanup, ConfirmAbsence

\* Nothing is answered, published or owned initially.
LEMMA InitOutcome == Init => OutcomeInv
  <1> SUFFICES ASSUME Init PROVE OutcomeInv
    OBVIOUS
  <1>1. IdsAreOwned /\ PublishedIsBacked
    BY DEF Init, IdsAreOwned, PublishedIsBacked, Enrolling
  <1>2. \A p \in Proc : Truthful(p)
    BY DEF Init, Truthful, CallKnows
  <1> QED BY <1>1, <1>2, OutcomeIsTruth

\* Every step preserves OutcomeInv.
LEMMA NextOutcome == TypeOK /\ StepOK /\ Safe /\ OutcomeInv /\ [Next]_vars => OutcomeInv'
  <1> SUFFICES ASSUME TypeOK, StepOK, Safe, OutcomeInv, [Next]_vars PROVE OutcomeInv'
    OBVIOUS
  <1>0. IdsAreOwned /\ PublishedIsBacked /\ \A p \in Proc : Truthful(p)
    BY OutcomeIsTruth
  <1> SUFFICES IdsAreOwned' /\ PublishedIsBacked' /\ \A p \in Proc : Truthful(p)'
    BY DEF OutcomeInv, RetireErrorIsDefinite, NoFalseAlarm, Truthful
  <1>1. CASE \E p \in Proc : ProcStep(p)
    BY <1>0, <1>1, StepOwned, StepBacked, StepTruth
  <1>2. ASSUME NEW p \in Proc, BeginEnroll(p) \/ BeginManaged(p)
        PROVE  IdsAreOwned' /\ PublishedIsBacked' /\ \A q \in Proc : Truthful(q)'
    <2>1. UNCHANGED <<store, records, foreign, withdrawn>>
      BY <1>2 DEF BeginEnroll, BeginManaged, Begin
    <2> QED BY <1>0, <1>2, <2>1, BeginOwned, EdgeTruth
            DEF PublishedIsBacked, Expected, NativeProtection
  <1>3. ASSUME NEW p \in Proc, Crash(p)
        PROVE  IdsAreOwned' /\ PublishedIsBacked' /\ \A q \in Proc : Truthful(q)'
    <2>1. UNCHANGED <<store, records, foreign, withdrawn, kind, request, usedUsers>>
      BY <1>3 DEF Crash
    <2>2. \A q \in Proc : Enrolling(q)' => Enrolling(q)
      BY <1>3 DEF Crash, Enrolling, TypeOK
    <2>3. IdsAreOwned' BY <1>0, <2>1, <2>2, OwnedKept DEF IdsAreOwned
    <2> QED BY <1>0, <1>3, <2>1, <2>3, EdgeTruth
            DEF PublishedIsBacked, Expected, NativeProtection
  <1>4. CASE ForeignTool
    <2>0. PICK d \in Device : \E c \in store[d] :
            /\ foreign' = foreign \cup {c.user}
            /\ \A e \in Device : \A b \in store[e] : b \in store'[e] \/ b = c
            /\ \A e \in Device : \A b \in store'[e] :
                    \/ b \in store[e]
                    \/ b.user = c.user /\ b.id \notin usedIds
      BY <1>4, ForeignMoves
    <2>1. PICK c \in store[d] :
            /\ foreign' = foreign \cup {c.user}
            /\ \A e \in Device : \A b \in store[e] : b \in store'[e] \/ b = c
            /\ \A e \in Device : \A b \in store'[e] :
                    \/ b \in store[e]
                    \/ b.user = c.user /\ b.id \notin usedIds
      BY <2>0
    <2>2. UNCHANGED <<records, callVars, withdrawn, usedUsers>>
      BY <1>4 DEF ForeignTool
    <2>3. c.user \in usedUsers BY DEF Safe, IdsAreFresh
    <2>4. IdsAreOwned'
      BY <1>0, <2>1, <2>2, <2>3, OwnedKept DEF IdsAreOwned, Enrolling, callVars
    <2>5. PublishedIsBacked'
      BY <1>0, <2>1, <2>2 DEF PublishedIsBacked, Expected, NativeProtection
    <2> QED BY <1>0, <1>4, <2>4, <2>5, ForeignTruth
  <1>5. CASE UNCHANGED vars
    BY <1>0, <1>5 DEF vars, callVars, history, IdsAreOwned, Enrolling,
       PublishedIsBacked, Expected, NativeProtection, Truthful, CallKnows,
       EnrollmentKnows, RetirementKnows
  <1> QED BY <1>1, <1>2, <1>3, <1>4, <1>5 DEF Next

\* Who owns which id, and what an operation knows at each step, holds forever.
THEOREM OutcomesAreSound == Spec => []OutcomeInv
  BY InitTypes, NextTypes, InitSafe, NextSafe, InitOutcome, NextOutcome, PTL
  DEF Spec

\* A published record has its exact credential on some authenticator until a
\* retirement or another tool takes it: no cleanup does (protector.rs
\* cleanup_failed_managed_enrollment).
THEOREM RecordsAreBacked == Spec => []PublishedIsBacked
  <1>1. OutcomeInv => PublishedIsBacked BY DEF OutcomeInv
  <1> QED BY <1>1, OutcomesAreSound, PTL

\* A retirement that returned a definite error deleted nothing (native.rs
\* retirement_outcome).
THEOREM RetireErrorsAreDefinite == Spec => []RetireErrorIsDefinite
  <1>1. OutcomeInv => RetireErrorIsDefinite BY DEF OutcomeInv
  <1> QED BY <1>1, OutcomesAreSound, PTL

\* CredentialMayRemain is returned only where a call failed or another tool
\* interfered (backend.rs enroll_managed, native.rs prepare_managed_cleanup).
THEOREM AlarmsAreTrue == Spec => []NoFalseAlarm
  <1>1. OutcomeInv => NoFalseAlarm BY DEF OutcomeInv
  <1> QED BY <1>1, OutcomesAreSound, PTL

(***************************************************************************)
(* What a crash leaves behind.                                             *)
(***************************************************************************)

\* Nothing has died and nothing is stored initially.
LEMMA InitContained == Init => ContainedInv
  BY DEF Init, ContainedInv, Enrolling

\* A step of p that starts and publishes nothing, and at most takes
\* credentials away, contains what it did before.
LEMMA QuietContained ==
    ASSUME ContainedInv,
           UNCHANGED <<records, abandoned>>, usedUsers \subseteq usedUsers',
           foreign \subseteq foreign',
           \A d \in Device : store'[d] \subseteq store[d],
           \A q \in Proc : Enrolling(q)' => Enrolling(q) /\ request'[q].user = request[q].user
    PROVE  ContainedInv'
  BY DEF ContainedInv

\* An enrollment that starts has a user id nothing had before.
LEMMA BeginContained ==
    ASSUME TypeOK, StepOK, Safe, ContainedInv, NEW p \in Proc,
           BeginEnroll(p) \/ BeginManaged(p)
    PROVE  ContainedInv'
  <1>1. /\ UNCHANGED <<store, records, foreign, abandoned>>
        /\ usedUsers \subseteq usedUsers'
    BY DEF BeginEnroll, BeginManaged, Begin
  <1>2. \A q \in Proc \ {p} : request'[q] = request[q] /\ (Enrolling(q)' => Enrolling(q))
    BY EdgeApart DEF Apart, Enrolling
  <1>3. Enrolling(p)' => request'[p].user \notin abandoned
    <2>1. CASE BeginManaged(p)
      BY <2>1 DEF BeginManaged, Begin, Enrolling, TypeOK
    <2>2. CASE BeginEnroll(p)
      <3>1. PICK u \in UserId \ usedUsers, policy \in Policy :
              Begin(p, "enroll", [user |-> u, id |-> None, policy |-> policy])
        BY <2>2 DEF BeginEnroll
      <3>2. request'[p].user = u BY <3>1 DEF Begin, TypeOK
      <3> QED BY <3>2 DEF ContainedInv
    <2> QED BY <2>1, <2>2
  <1> QED BY <1>1, <1>2, <1>3 DEF ContainedInv

\* The credential an enrollment makes is the first one of its user id.
LEMMA MakeContained ==
    ASSUME TypeOK, StepOK, Safe, ContainedInv, NEW p \in Proc, MakeCredential(p)
    PROVE  ContainedInv'
  <1>1. /\ pc[p] = "make" /\ dev[p] \in Device /\ Enrolling(p)
        /\ request[p] \in Request
    BY DEF MakeCredential, StepOK, Enrolling, TypeOK
  <1>2. PICK i \in (CredId \ usedIds) \cup {None}, prot \in Protection,
             status \in {"ok", "lost", "refused"}, stored \in BOOLEAN,
             usable \in BOOLEAN, verified \in BOOLEAN :
          MakeCredential(p)!2!(i, prot, status, stored, usable, verified)
    BY DEF MakeCredential
  <1>3. PICK made : /\ made = [user |-> request[p].user, id |-> i, prot |-> prot]
                    /\ store' = [store EXCEPT ![dev[p]] = @ \cup {c \in {made} : stored}]
    BY <1>2
  <1>4. made.user = request[p].user BY <1>3
  <1>5. \A d \in Device : \A c \in store[d] : c.user # request[p].user
    BY <1>1 DEF Safe, EnrollmentOwns
  <1>6. \A d \in Device : \A c \in store'[d] :
            c \in store[d] \/ (d = dev[p] /\ c = made)
    BY <1>1, <1>3 DEF TypeOK
  <1>7. \A d, e \in Device : \A c \in store'[d], b \in store'[e] :
            c.user = b.user => (d = e /\ c = b) \/ c.user \in foreign
    BY <1>4, <1>5, <1>6 DEF ContainedInv
  <1>8. /\ UNCHANGED <<records, abandoned, foreign, usedUsers, kind>>
    BY DEF MakeCredential
  <1>9. request' = [request EXCEPT ![p].id = IF status = "ok" /\ usable THEN i ELSE None]
    BY <1>2
  <1>10. request'[p].user = request[p].user
    <2>1. request'[p] = [request[p] EXCEPT !.id =
                            IF status = "ok" /\ usable THEN i ELSE None]
      BY <1>9 DEF TypeOK
    <2> QED BY <1>1, <2>1 DEF Request
  <1>11. \A q \in Proc \ {p} : request'[q] = request[q] /\ (Enrolling(q)' => Enrolling(q))
    <2>1. ProcStep(p) BY DEF ProcStep
    <2> QED BY <2>1, StepApart DEF Apart, Enrolling
  <1> QED BY <1>1, <1>7, <1>8, <1>10, <1>11 DEF ContainedInv

\* Every step of a process: only a running enrollment publishes.
LEMMA StepContained ==
    ASSUME TypeOK, StepOK, Safe, ContainedInv, NEW p \in Proc, ProcStep(p)
    PROVE  ContainedInv'
  <1>1. CASE MakeCredential(p) BY <1>1, MakeContained
  <1>2. CASE ~MakeCredential(p)
    <2>1. UNCHANGED <<kind, request, foreign, usedUsers, abandoned>>
      BY <1>2 DEF ProcStep, OpenSession, Assertion, Inventory, Stage,
         PrepareCleanup, DeleteManaged, ConfirmAbsence
    <2>2. \A d \in Device : store'[d] \subseteq store[d]
      <3>1. CASE DeleteManaged(p)
        BY <3>1 DEF DeleteManaged, TypeOK, StepOK
      <3>2. CASE store' = store BY <3>2
      <3> QED BY <1>2, <3>1, <3>2 DEF ProcStep, OpenSession, Assertion,
                 Inventory, Stage, PrepareCleanup, ConfirmAbsence
    <2>3. pc[p] # "idle"
      BY DEF ProcStep, OpenSession, MakeCredential, Assertion, Inventory, Stage,
         PrepareCleanup, DeleteManaged, ConfirmAbsence
    <2>4. \A q \in Proc : Enrolling(q)' => Enrolling(q)
      BY <2>1, <2>3, StepApart DEF Apart, Enrolling
    <2>5. CASE records' = records
      BY <2>1, <2>2, <2>4, <2>5, QuietContained
    <2>6. CASE Stage(p)
      <3>1. records' \subseteq records \cup {request[p]} /\ Enrolling(p)
        BY <2>6 DEF Stage, StepOK, Enrolling
      <3> QED BY <2>1, <2>2, <2>4, <3>1 DEF ContainedInv
    <2> QED BY <1>2, <2>5, <2>6 DEF ProcStep, OpenSession, Assertion,
               Inventory, PrepareCleanup, DeleteManaged, ConfirmAbsence
  <1> QED BY <1>1, <1>2

\* A crash abandons a user id that no record has and no other enrollment uses.
LEMMA CrashContained ==
    ASSUME TypeOK, StepOK, Safe, IdsAreOwned, ContainedInv, NEW p \in Proc, Crash(p)
    PROVE  ContainedInv'
  <1>1. /\ UNCHANGED <<store, records, foreign, kind, request, usedUsers>>
        /\ abandoned' = abandoned \cup {u \in {request[p].user} : kind[p] = "enroll"}
        /\ pc' = [pc EXCEPT ![p] = "idle"] /\ pc[p] # "idle"
    BY DEF Crash
  <1>2. \A q \in Proc : Enrolling(q)' => Enrolling(q) /\ q # p
    BY <1>1 DEF Enrolling, TypeOK
  <1>3. CASE kind[p] # "enroll"
    <2>1. abandoned' = abandoned BY <1>1, <1>3
    <2> QED BY <1>1, <1>2, <2>1 DEF ContainedInv
  <1>4. CASE kind[p] = "enroll"
    <2>1. Enrolling(p) BY <1>1, <1>4 DEF Enrolling
    <2>2. abandoned' = abandoned \cup {request[p].user} BY <1>1, <1>4
    <2>3. request[p].user \in usedUsers
      BY <1>1, NoneAssumption DEF StepOK, Safe, IdsAreFresh
    <2>4. \A r \in records : r.user # request[p].user BY <2>1 DEF IdsAreOwned
    <2>5. \A q \in Proc \ {p} : Enrolling(q) => request[q].user # request[p].user
      BY <2>1 DEF Safe, EnrollmentOwns
    <2> QED BY <1>1, <1>2, <2>2, <2>3, <2>4, <2>5 DEF ContainedInv
  <1> QED BY <1>3, <1>4

\* What another tool touches is foreign from then on.
LEMMA ForeignContained ==
    ASSUME TypeOK, ContainedInv, ForeignTool
    PROVE  ContainedInv'
  <1>0. PICK d \in Device : \E c \in store[d] :
          /\ foreign' = foreign \cup {c.user}
          /\ \A e \in Device : \A b \in store[e] : b \in store'[e] \/ b = c
          /\ \A e \in Device : \A b \in store'[e] :
                  \/ b \in store[e]
                  \/ b.user = c.user /\ b.id \notin usedIds
    BY ForeignMoves
  <1>1. PICK c \in store[d] :
          /\ foreign' = foreign \cup {c.user}
          /\ \A e \in Device : \A b \in store'[e] :
                  b \in store[e] \/ b.user = c.user
    BY <1>0
  <1>2. UNCHANGED <<records, callVars, abandoned, usedUsers>>
    BY DEF ForeignTool
  <1> QED BY <1>1, <1>2 DEF ContainedInv, Enrolling, callVars

\* Every step preserves ContainedInv.
LEMMA NextContained ==
    TypeOK /\ StepOK /\ Safe /\ OutcomeInv /\ ContainedInv /\ [Next]_vars => ContainedInv'
  <1> SUFFICES ASSUME TypeOK, StepOK, Safe, IdsAreOwned, ContainedInv, [Next]_vars
               PROVE  ContainedInv'
    BY DEF OutcomeInv
  <1>1. CASE \E p \in Proc : ProcStep(p) BY <1>1, StepContained
  <1>2. CASE \E p \in Proc : BeginEnroll(p) \/ BeginManaged(p)
    BY <1>2, BeginContained
  <1>3. CASE \E p \in Proc : Crash(p) BY <1>3, CrashContained
  <1>4. CASE ForeignTool BY <1>4, ForeignContained
  <1>5. CASE UNCHANGED vars
    BY <1>5 DEF vars, callVars, history, ContainedInv, Enrolling
  <1> QED BY <1>1, <1>2, <1>3, <1>4, <1>5 DEF Next

\* An enrollment that died with its process left at most one credential, and
\* no envelope ever names it (protector.rs stage_enrollment publishes last).
THEOREM CrashesAreContained == Spec => []CrashIsContained
  <1>1. ContainedInv => CrashIsContained BY DEF ContainedInv, CrashIsContained
  <1> QED BY <1>1, InitTypes, NextTypes, InitSafe, NextSafe, InitOutcome,
             NextOutcome, InitContained, NextContained, PTL DEF Spec
=============================================================================
