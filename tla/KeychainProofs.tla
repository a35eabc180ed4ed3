---------------------------- MODULE KeychainProofs ----------------------------
(***************************************************************************)
(* Theorems about Keychain, for any processes and secrets.                 *)
(***************************************************************************)
EXTENDS Keychain, TLAPS

\* Every step of an operation keeps the inductive invariant.
LEMMA NextInvariant == IInv /\ [Next]_vars => IInv'
<1> SUFFICES ASSUME IInv, [Next]_vars PROVE IInv'
  OBVIOUS
<1> USE DistinctAssumption DEF Value, Operation, Step, StoreError, Outcome
<1>1. CASE UNCHANGED vars
  BY <1>1 DEF IInv, TypeOK, StepOK, AcceptedIsStored, vars, callVars
<1>2. ASSUME NEW p \in Proc, Begin(p) PROVE IInv'
  BY <1>2 DEF IInv, TypeOK, StepOK, AcceptedIsStored, Begin
<1>3. ASSUME NEW p \in Proc, Add(p) PROVE IInv'
  <2>0. pc[p] = "add" /\ op[p] = "create" /\ secret[p] \in Secret
    BY <1>3 DEF Add, IInv, StepOK
  <2>1. CASE /\ entry = None
             /\ \E v \in {secret[p], Damaged} : SetEntry(v)
             /\ put' = [put EXCEPT ![p] = TRUE]
             /\ Goto(p, "verify") \/ Goto(p, "reconcile")
             /\ UNCHANGED <<op, secret, took>>
    <3>1. PICK v \in {secret[p], Damaged} : SetEntry(v)
      BY <2>1
    <3>2. TypeOK'
      BY <2>0, <2>1, <3>1 DEF IInv, TypeOK, SetEntry, Goto
    <3>3. StepOK'
      BY <2>0, <2>1, <3>1 DEF IInv, TypeOK, StepOK, SetEntry, Goto
    <3>4. AcceptedIsStored'
      BY <2>0, <2>1, <3>1 DEF IInv, TypeOK, AcceptedIsStored, SetEntry, Goto
    <3> QED BY <3>2, <3>3, <3>4 DEF IInv
  <2>2. CASE /\ Goto(p, "duplicate") \/ Goto(p, "reconcile")
             /\ steady' \in {steady, [steady EXCEPT ![p] = FALSE]}
             /\ UNCHANGED <<entry, put, op, secret, took>>
    BY <2>0, <2>2, ZenonT(60) DEF IInv, TypeOK, StepOK, AcceptedIsStored, Goto
  <2> QED BY <1>3, <2>1, <2>2 DEF Add
<1>4. ASSUME NEW p \in Proc, VerifyCreated(p) PROVE IInv'
  BY <1>4, ZenonT(60) DEF IInv, TypeOK, StepOK, AcceptedIsStored, VerifyCreated,
                          FailWith, Return
<1>5. ASSUME NEW p \in Proc, CompareDuplicate(p) PROVE IInv'
  BY <1>5, ZenonT(60) DEF IInv, TypeOK, StepOK, AcceptedIsStored, CompareDuplicate,
                          Compare, FailWith, Return
<1>6. ASSUME NEW p \in Proc, Reconcile(p) PROVE IInv'
  BY <1>6, ZenonT(60) DEF IInv, TypeOK, StepOK, AcceptedIsStored, Reconcile,
                          Compare, FailWith, Return
<1>7. ASSUME NEW p \in Proc, Read(p) PROVE IInv'
  BY <1>7 DEF IInv, TypeOK, StepOK, AcceptedIsStored, Read, Return
<1>8. ASSUME NEW p \in Proc, Find(p) PROVE IInv'
  BY <1>8 DEF IInv, TypeOK, StepOK, AcceptedIsStored, Find, Goto, Return
<1>9. ASSUME NEW p \in Proc, Delete(p) PROVE IInv'
  BY <1>9, ZenonT(60) DEF IInv, TypeOK, StepOK, AcceptedIsStored, Delete, SetEntry
<1>10. ASSUME NEW p \in Proc, ConfirmAbsent(p) PROVE IInv'
  BY <1>10 DEF IInv, TypeOK, StepOK, AcceptedIsStored, ConfirmAbsent, Return
<1>11. ASSUME NEW p \in Proc, Crash(p) PROVE IInv'
  BY <1>11 DEF IInv, TypeOK, StepOK, AcceptedIsStored, Crash, FailWith, Return
<1> QED
  BY <1>1, <1>2, <1>3, <1>4, <1>5, <1>6, <1>7, <1>8, <1>9, <1>10, <1>11 DEF Next

\* The invariant behind the other theorems: the types, what each step relies
\* on, and the accepted secrets.
THEOREM InductiveInvariant == Spec => []IInv
<1>1. Init => IInv
  BY DistinctAssumption DEF Init, IInv, TypeOK, StepOK, AcceptedIsStored, Value,
     Operation, Step, StoreError, Outcome
<1> QED BY <1>1, NextInvariant, PTL DEF Spec

\* A secret create returned success for is the stored one until a removal.
THEOREM AcceptedStays == Spec => []AcceptedIsStored
<1>1. IInv => AcceptedIsStored
  BY DEF IInv
<1> QED BY <1>1, InductiveInvariant, PTL

-----------------------------------------------------------------------------
(***************************************************************************)
(* A repeated create.                                                      *)
(***************************************************************************)

\* Every step keeps what a steady create relies on.
LEMMA NextSteady == IInv /\ SteadyInv /\ [Next]_vars => SteadyInv'
<1> SUFFICES ASSUME IInv, SteadyInv, [Next]_vars PROVE SteadyInv'
  OBVIOUS
<1> USE DistinctAssumption DEF SteadyInv, SteadyOK, RetrySucceeds
<1>0. TypeOK /\ StepOK
  BY DEF IInv
<1>1. CASE UNCHANGED vars
  BY <1>1 DEF vars, callVars
<1>2. ASSUME NEW p \in Proc, Begin(p) PROVE SteadyInv'
  <2>1. PICK o \in Operation, s \in Secret \cup {None} :
          /\ o = "create" <=> s # None
          /\ op' = [op EXCEPT ![p] = o]
          /\ secret' = [secret EXCEPT ![p] = s]
          /\ \/ o = "create" /\ pc' = [pc EXCEPT ![p] = "add"]
             \/ o = "load" /\ pc' = [pc EXCEPT ![p] = "read"]
             \/ o = "remove" /\ pc' = [pc EXCEPT ![p] = "find"]
          /\ steady' = [steady EXCEPT ![p] = s # None /\ entry = s]
    BY <1>2 DEF Begin
  <2>2. steady'[p] => s # None /\ entry = s
    BY <1>0, <2>1, Zenon DEF TypeOK
  <2>3. \A q \in Proc \ {p} : steady'[q] = steady[q]
    BY <1>0, <2>1, Zenon DEF TypeOK
  <2>4. pc[p] = "idle" /\ UNCHANGED entry /\ result' = [result EXCEPT ![p] = "none"]
    BY <1>2 DEF Begin
  <2> QED BY <1>0, <2>1, <2>2, <2>3, <2>4 DEF TypeOK
<1>3. ASSUME NEW p \in Proc, Add(p) PROVE SteadyInv'
  BY <1>0, <1>3 DEF Add, SetEntry, Goto, TypeOK, StepOK
<1>4. ASSUME NEW p \in Proc, CompareDuplicate(p) PROVE SteadyInv'
  BY <1>0, <1>4 DEF CompareDuplicate, Compare, FailWith, Return, TypeOK, StepOK
<1>5. ASSUME NEW p \in Proc, VerifyCreated(p) \/ Reconcile(p) PROVE SteadyInv'
  BY <1>0, <1>5 DEF VerifyCreated, Reconcile, Compare, FailWith, Return, TypeOK
<1>6. ASSUME NEW p \in Proc, Read(p) \/ Find(p) \/ ConfirmAbsent(p) PROVE SteadyInv'
  BY <1>0, <1>6 DEF Read, Find, ConfirmAbsent, Goto, Return, TypeOK
<1>7. ASSUME NEW p \in Proc, Delete(p) PROVE SteadyInv'
  BY <1>0, <1>7 DEF Delete, SetEntry, TypeOK, StepOK
<1>8. ASSUME NEW p \in Proc, Crash(p) PROVE SteadyInv'
  BY <1>0, <1>8 DEF Crash, FailWith, Return, TypeOK
<1> QED
  BY <1>1, <1>2, <1>3, <1>4, <1>5, <1>6, <1>7, <1>8 DEF Next

\* Retrying a create with the secret that is stored succeeds, unless a call of
\* it fails or the entry changes meanwhile.
THEOREM RetriesSucceed == Spec => []RetrySucceeds
<1>1. Init => SteadyInv
  BY DEF Init, SteadyInv, SteadyOK, RetrySucceeds
<1>2. SteadyInv => RetrySucceeds
  BY DEF SteadyInv
<1> QED BY <1>1, <1>2, NextSteady, InductiveInvariant, PTL DEF Spec

-----------------------------------------------------------------------------
(***************************************************************************)
(* The contract of the trait.                                              *)
(***************************************************************************)

\* The running operation of a process, as the contract sees it.
Running(p) == IF pc[p] = "idle" THEN [op |-> "idle", secret |-> None]
              ELSE [op |-> op[p], secret |-> secret[p]]
Calls == [p \in Proc |-> Running(p)]

\* An operation that goes on without touching the entry is not seen.
LEMMA GoesOnStutters ==
    ASSUME NEW p \in Proc, pc \in [Proc -> Step], pc[p] # "idle",
           NEW step \in Step \ {"idle"}, pc' = [pc EXCEPT ![p] = step],
           UNCHANGED <<entry, op, secret, result, loaded, put, took>>
    PROVE  UNCHANGED Promise!vars
<1>1. Calls' = Calls
  BY DEF Calls, Running
<1> QED BY <1>1 DEF Promise!vars, Calls, Running

\* An operation that returns r with no secret answers r, if the contract allows.
LEMMA ReturnAnswers ==
    ASSUME NEW p \in Proc, IInv, pc[p] # "idle",
           NEW r \in {"Ok", "AlreadyExists", "Failed", "Missing", "Corrupt",
                      "StateUncertain", "Removed", "Absent", "Crashed"},
           NEW s \in Secret \cup {None},
           pc' = [pc EXCEPT ![p] = "idle"],
           result' = [result EXCEPT ![p] = r],
           loaded' = [loaded EXCEPT ![p] = s],
           UNCHANGED <<entry, op, secret, put, took>>,
           \/ op[p] = "create" /\ s = None /\ Promise!CreateAnswer(p, r)
           \/ op[p] = "load" /\ Promise!LoadAnswer(p, r, s)
           \/ op[p] = "remove" /\ s = None /\ Promise!RemoveAnswer(p, r)
           \/ r = "Crashed" /\ s = None
    PROVE  Promise!Answer(p)
<1>1. Calls' = [Calls EXCEPT ![p] = Promise!Idle]
  BY DEF Calls, Running, Promise!Idle, IInv, TypeOK
<1>2. Calls[p] = [op |-> op[p], secret |-> secret[p]] /\ Calls[p] # Promise!Idle
  BY DEF Calls, Running, Promise!Idle, IInv, TypeOK, Operation
<1> QED BY <1>1, <1>2 DEF Promise!Answer, Calls, Running

\* The same for an operation that ends by Return.
LEMMA ReturnIsAnswer ==
    ASSUME NEW p \in Proc, IInv, pc[p] # "idle",
           NEW r \in StoreError \cup {"Ok", "Removed", "Absent", "Crashed"},
           Return(p, r),
           UNCHANGED <<entry, op, secret, put, took>>,
           \/ op[p] = "create" /\ Promise!CreateAnswer(p, r)
           \/ op[p] = "load" /\ Promise!LoadAnswer(p, r, None)
           \/ op[p] = "remove" /\ Promise!RemoveAnswer(p, r)
           \/ r = "Crashed"
    PROVE  Promise!Answer(p)
<1>1. loaded' = [loaded EXCEPT ![p] = None]
  BY DEF Return, IInv, StepOK, TypeOK
<1>2. r \in {"Ok", "AlreadyExists", "Failed", "Missing", "Corrupt",
             "StateUncertain", "Removed", "Absent", "Crashed"}
  BY DEF StoreError
<1>3. /\ pc' = [pc EXCEPT ![p] = "idle"]
      /\ result' = [result EXCEPT ![p] = r]
  BY DEF Return
<1> QED BY <1>1, <1>2, <1>3, ReturnAnswers

\* Every step of the store is one of the contract, or invisible to it.
LEMMA StepSimulates ==
    ASSUME IInv, [Next]_vars
    PROVE  [Promise!Next]_Promise!vars
<1> USE DistinctAssumption DEF Promise!Idle
<1>0. IInv => TypeOK /\ StepOK
  BY DEF IInv
<1>1. CASE UNCHANGED vars
  <2>1. Calls' = Calls
    BY <1>1 DEF Calls, Running, vars, callVars
  <2> QED BY <1>1, <2>1 DEF Promise!vars, vars, callVars, Calls, Running
<1>2. ASSUME NEW p \in Proc, Begin(p) PROVE Promise!Begin(p)
  <2>1. PICK o \in Operation, s \in Secret \cup {None} :
            /\ o = "create" <=> s # None
            /\ op' = [op EXCEPT ![p] = o]
            /\ secret' = [secret EXCEPT ![p] = s]
            /\ \/ o = "create" /\ pc' = [pc EXCEPT ![p] = "add"]
               \/ o = "load" /\ pc' = [pc EXCEPT ![p] = "read"]
               \/ o = "remove" /\ pc' = [pc EXCEPT ![p] = "find"]
    BY <1>2 DEF Begin
  <2>2. Calls' = [Calls EXCEPT ![p] = [op |-> o, secret |-> s]]
    BY <1>0, <2>1 DEF Calls, Running, TypeOK, Operation
  <2>3. Calls[p] = Promise!Idle
    BY <1>2 DEF Calls, Running, Begin
  <2> QED BY <1>2, <2>1, <2>2, <2>3 DEF Promise!Begin, Begin, Operation, Calls, Running
<1>3. ASSUME NEW p \in Proc, Add(p)
      PROVE  Promise!Put(p) \/ UNCHANGED Promise!vars
  <2>1. CASE entry # None \/ UNCHANGED entry
    <3>1. UNCHANGED <<entry, op, secret, result, loaded, put, took>>
      BY <1>0, <1>3, <2>1 DEF Add, SetEntry, Goto, StepOK
    <3>2. PICK step \in {"duplicate", "reconcile"} : pc' = [pc EXCEPT ![p] = step]
      BY <1>0, <1>3, <2>1 DEF Add, SetEntry, Goto, StepOK
    <3> QED BY <1>0, <1>3, <3>1, <3>2, GoesOnStutters DEF TypeOK, Step, Add
  <2>2. CASE entry = None /\ entry' # entry
    <3>1. /\ entry' \in {secret[p], Damaged}
          /\ put' = [put EXCEPT ![p] = TRUE]
          /\ UNCHANGED <<op, secret, result, loaded, took>>
          /\ pc[p] = "add"
          /\ \E step \in {"verify", "reconcile"} : pc' = [pc EXCEPT ![p] = step]
      BY <1>3, <2>2 DEF Add, SetEntry, Goto
    <3>2. Calls' = Calls
      BY <1>0, <3>1 DEF Calls, Running, TypeOK
    <3>3. Calls[p] = [op |-> "create", secret |-> secret[p]]
      BY <1>0, <3>1 DEF Calls, Running, StepOK
    <3> QED BY <2>2, <3>1, <3>2, <3>3 DEF Promise!Put, Calls, Running
  <2> QED BY <2>1, <2>2
<1>4. ASSUME NEW p \in Proc,
             VerifyCreated(p) \/ CompareDuplicate(p) \/ Reconcile(p)
      PROVE  Promise!Answer(p)
  <2>1. /\ pc[p] # "idle" /\ op[p] = "create" /\ secret[p] \in Secret
        /\ Calls[p].secret = secret[p]
        /\ pc[p] = "duplicate" => ~put[p]
    BY <1>0, <1>4
       DEF VerifyCreated, CompareDuplicate, Reconcile, StepOK, Calls, Running
  <2>2. PICK r \in StoreError \cup {"Ok"} :
            /\ Return(p, r)
            /\ \/ r = "Ok" /\ entry = secret[p]
               \/ r = "AlreadyExists" /\ entry \in Secret \ {secret[p]}
               \/ r \in {"Failed", "Corrupt"} /\ ~(put[p] /\ entry = secret[p])
               \/ r = "StateUncertain"
    BY <1>4, <2>1 DEF VerifyCreated, CompareDuplicate, Reconcile, FailWith,
       Compare, StoreError
  <2>3. Promise!CreateAnswer(p, r)
    BY <2>1, <2>2 DEF Promise!CreateAnswer, Calls, Running
  <2> QED BY <1>4, <2>1, <2>2, <2>3, ReturnIsAnswer
          DEF VerifyCreated, CompareDuplicate, Reconcile
<1>5. ASSUME NEW p \in Proc, Read(p) PROVE Promise!Answer(p)
  <2>1. pc[p] # "idle" /\ op[p] = "load"
    BY <1>0, <1>5 DEF Read, StepOK
  <2>2. CASE \E r \in {"Failed", "Missing", "Corrupt"} :
                /\ Return(p, r)
                /\ r = "Missing" => entry = None
    <3>1. PICK r \in {"Failed", "Missing", "Corrupt"} :
                /\ Return(p, r)
                /\ r = "Missing" => entry = None
      BY <2>2
    <3>2. Promise!LoadAnswer(p, r, None)
      BY <3>1 DEF Promise!LoadAnswer
    <3> QED BY <1>5, <2>1, <3>1, <3>2, ReturnIsAnswer DEF Read, StoreError
  <2>3. CASE /\ entry \in Secret
             /\ pc' = [pc EXCEPT ![p] = "idle"]
             /\ result' = [result EXCEPT ![p] = "Ok"]
             /\ loaded' = [loaded EXCEPT ![p] = entry]
    <3>1. Promise!LoadAnswer(p, "Ok", entry)
      BY <2>3 DEF Promise!LoadAnswer
    <3> QED BY <1>5, <2>1, <2>3, <3>1, ReturnAnswers DEF Read
  <2> QED BY <1>5, <2>2, <2>3 DEF Read
<1>6. ASSUME NEW p \in Proc, Find(p)
      PROVE  Promise!Answer(p) \/ UNCHANGED Promise!vars
  <2>1. pc[p] # "idle" /\ op[p] = "remove" /\ ~took[p]
    BY <1>0, <1>6 DEF Find, StepOK
  <2>2. CASE Goto(p, "delete")
    BY <1>0, <1>6, <2>1, <2>2, GoesOnStutters DEF Find, Goto, TypeOK, Step
  <2>3. CASE \E r \in {"Failed", "Absent"} :
                Return(p, r) /\ (r = "Absent" => entry = None)
    <3>1. PICK r \in {"Failed", "Absent"} :
                Return(p, r) /\ (r = "Absent" => entry = None)
      BY <2>3
    <3>2. Promise!RemoveAnswer(p, r)
      BY <2>1, <3>1 DEF Promise!RemoveAnswer
    <3> QED BY <1>6, <2>1, <3>1, <3>2, ReturnIsAnswer DEF Find, StoreError
  <2> QED BY <1>6, <2>2, <2>3 DEF Find
<1>7. ASSUME NEW p \in Proc, Delete(p)
      PROVE  Promise!Take(p) \/ UNCHANGED Promise!vars
  <2>1. /\ pc[p] # "idle" /\ op[p] = "remove" /\ secret[p] = None
        /\ pc' = [pc EXCEPT ![p] = "absent"]
        /\ UNCHANGED <<op, secret, result, loaded, put>>
    BY <1>0, <1>7 DEF Delete, StepOK
  <2>2. CASE UNCHANGED <<entry, took>>
    BY <1>0, <2>1, <2>2, GoesOnStutters DEF TypeOK, Step
  <2>3. CASE entry # None /\ entry' = None /\ took' = [took EXCEPT ![p] = TRUE]
    <3>1. Calls' = Calls /\ Calls[p] = [op |-> "remove", secret |-> None]
      BY <1>0, <2>1 DEF Calls, Running, TypeOK
    <3> QED BY <2>1, <2>3, <3>1 DEF Promise!Take, Calls, Running
  <2> QED BY <1>7, <2>2, <2>3 DEF Delete, SetEntry
<1>8. ASSUME NEW p \in Proc, ConfirmAbsent(p) PROVE Promise!Answer(p)
  <2>1. pc[p] # "idle" /\ op[p] = "remove"
    BY <1>0, <1>8 DEF ConfirmAbsent, StepOK
  <2>2. PICK r \in {"StateUncertain", "Removed"} :
            Return(p, r) /\ (r = "Removed" => entry = None)
    BY <1>8 DEF ConfirmAbsent
  <2>3. Promise!RemoveAnswer(p, r)
    BY <2>2 DEF Promise!RemoveAnswer
  <2> QED BY <1>8, <2>1, <2>2, <2>3, ReturnIsAnswer DEF ConfirmAbsent, StoreError
<1>9. ASSUME NEW p \in Proc, Crash(p) PROVE Promise!Answer(p)
  BY <1>9, ReturnIsAnswer DEF Crash, FailWith
<1> QED
  BY <1>1, <1>2, <1>3, <1>4, <1>5, <1>6, <1>7, <1>8, <1>9 DEF Next, Promise!Next

\* The macOS local-secret store keeps the contract of its trait: whatever
\* processes, crashes and failing calls do, each answer is true of the entry
\* when it is given, and no create replaces or takes away an entry.
THEOREM StoreKeepsPromise == Spec => KeepsPromise
<1>1. Init => Promise!Init
  BY DEF Init, Promise!Init, Promise!Idle
<1>2. IInv /\ [Next]_vars => [Promise!Next]_Promise!vars
  BY StepSimulates
<1> QED BY <1>1, <1>2, InductiveInvariant, PTL DEF Spec, KeepsPromise, Promise!Spec
=============================================================================
