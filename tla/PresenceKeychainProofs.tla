------------------------ MODULE PresenceKeychainProofs ------------------------
(***************************************************************************)
(* Theorems about PresenceKeychain, for any processes and secrets.         *)
(***************************************************************************)
EXTENDS PresenceKeychain, TLAPS

\* What a step leaves alone that only answers, or goes on to another call.
Kept == UNCHANGED <<item, op, secret, put, took>> /\ steady' \in [Proc -> BOOLEAN]

\* An operation that returns keeps the invariant, if a create that succeeded
\* finds its secret stored.
LEMMA ReturnKeeps ==
    ASSUME NEW p \in Proc, IInv, Kept, NEW r \in Outcome, Return(p, r),
           op[p] = "create" /\ r = "Ok" => item = [value |-> secret[p], label |-> secret[p]]
    PROVE  IInv'
<1>1. TypeOK'
  BY DistinctAssumption DEF IInv, TypeOK, StepOK, Return, Idle, Kept, Step, Purpose, StoreError, Operation
<1>2. ItemOK' /\ AcceptedIsStored'
  BY DEF IInv, Return, Kept, ItemOK, AcceptedIsStored, NoItem
<1>3. StepOK'
  BY DEF IInv, TypeOK, StepOK, Return, Idle, Kept
<1> QED BY <1>1, <1>2, <1>3 DEF IInv

\* So does a load_exact that ends in an error, and the create it is part of.
LEMMA LoadFailedKeeps ==
    ASSUME NEW p \in Proc, IInv, Kept, pc[p] \in {"count", "read", "fingerprint"},
           NEW e \in {"Failed", "Missing", "Corrupt"}, LoadFailed(p, e)
    PROVE  IInv'
<1>1. CASE Rollback(p, e) /\ purpose[p] = "verify"
  <2>1. TypeOK'
    BY <1>1 DEF IInv, TypeOK, Rollback, Kept, Step, StoreError
  <2>2. ItemOK' /\ AcceptedIsStored'
    BY <1>1 DEF IInv, Rollback, Kept, ItemOK, AcceptedIsStored, NoItem
  <2>3. StepOK'
    BY <1>1 DEF IInv, TypeOK, StepOK, Rollback, Kept
  <2> QED BY <2>1, <2>2, <2>3 DEF IInv
<1>2. CASE \E r \in {e, "StateUncertain"} : Return(p, r)
  BY <1>2, ReturnKeeps DEF Outcome, StoreError
<1> QED BY <1>1, <1>2 DEF LoadFailed

\* And one that ends in the secret under whose label the item is stored.
LEMMA LoadDoneKeeps ==
    ASSUME NEW p \in Proc, IInv, Kept, pc[p] = "fingerprint",
           item.label = read[p], LoadDone(p)
    PROVE  IInv'
<1>1. read[p] \in Secret /\ item = [value |-> read[p], label |-> read[p]]
  BY DistinctAssumption DEF IInv, StepOK, ItemOK, NoItem
<1>2. CASE purpose[p] = "load"
  <2>1. TypeOK'
    BY <1>1, <1>2 DEF IInv, TypeOK, LoadDone, Idle, Kept, Step, Purpose, StoreError, Outcome
  <2>2. ItemOK' /\ AcceptedIsStored'
    BY <1>2 DEF IInv, LoadDone, Kept, ItemOK, AcceptedIsStored, NoItem
  <2>3. StepOK'
    BY <1>2 DEF IInv, TypeOK, StepOK, LoadDone, Idle, Kept
  <2> QED BY <2>1, <2>2, <2>3 DEF IInv
<1>3. CASE purpose[p] # "load"
  <2>1. CASE Rollback(p, "Corrupt") /\ purpose[p] = "verify"
    BY <2>1, LoadFailedKeeps DEF LoadFailed
  <2>2. CASE Return(p, "Ok") /\ read[p] = secret[p]
    BY <1>1, <2>2, ReturnKeeps DEF Outcome
  <2>3. CASE Return(p, "AlreadyExists")
    BY <2>3, ReturnKeeps DEF Outcome, StoreError
  <2> QED BY <1>3, <2>1, <2>2, <2>3 DEF LoadDone
<1> QED BY <1>2, <1>3

\* An operation that goes on to another call keeps the invariant, if that call
\* finds what it relies on.
LEMMA GotoKeeps ==
    ASSUME NEW p \in Proc, IInv, Kept, pc[p] # "idle",
           NEW step \in Step \ {"idle"}, Goto(p, step), StepOK'
    PROVE  IInv'
BY DEF IInv, TypeOK, Goto, Kept, ItemOK, AcceptedIsStored, NoItem

\* load_exact begins for the purpose w.
LEMMA LoadExactKeeps ==
    ASSUME NEW p \in Proc, IInv, Kept, op[p] = "create",
           NEW w \in {"compare", "settle"}, LoadExact(p, w), pc[p] # "idle",
           w = "compare" => ~put[p]
    PROVE  IInv'
<1>1. TypeOK'
  BY DEF IInv, TypeOK, LoadExact, Kept, Step, Purpose
<1>2. ItemOK' /\ AcceptedIsStored'
  BY DEF IInv, LoadExact, Kept, ItemOK, AcceptedIsStored, NoItem
<1>3. StepOK'
  BY DEF IInv, TypeOK, StepOK, LoadExact, Kept
<1> QED BY <1>1, <1>2, <1>3 DEF IInv

\* A deletion that takes the item away leaves nothing accepted.
LEMMA TakeKeeps ==
    ASSUME NEW p \in Proc, IInv, TakeItem(p)
    PROVE  /\ item' = NoItem /\ ItemOK' /\ AcceptedIsStored' /\ accepted' = {}
           /\ took' = [took EXCEPT ![p] = TRUE]
           /\ took' \in [Proc -> BOOLEAN] /\ steady' \in [Proc -> BOOLEAN]
BY DEF TakeItem, SetItem, ItemOK, AcceptedIsStored, NoItem, IInv, TypeOK

-----------------------------------------------------------------------------

\* Every step of an operation keeps the inductive invariant.
LEMMA NextInvariant == IInv /\ [Next]_vars => IInv'
<1> SUFFICES ASSUME IInv, [Next]_vars PROVE IInv'
  OBVIOUS
<1>0. \A p \in Proc : Fault(p) \/ UNCHANGED steady => steady' \in [Proc -> BOOLEAN]
  BY DEF Fault, IInv, TypeOK
<1>1. CASE UNCHANGED vars
  BY <1>1 DEF IInv, TypeOK, ItemOK, NoItem, StepOK, AcceptedIsStored, vars, callVars
<1>2. ASSUME NEW p \in Proc, Begin(p) PROVE IInv'
  <2>1. ItemOK' /\ AcceptedIsStored'
    BY <1>2 DEF IInv, ItemOK, NoItem, AcceptedIsStored, Begin
  <2>2. PICK o \in Operation, s \in Secret \cup {None} :
          /\ o = "load" <=> s = None
          /\ op' = [op EXCEPT ![p] = o]
          /\ secret' = [secret EXCEPT ![p] = s]
          /\ \/ o = "create" /\ pc' = [pc EXCEPT ![p] = "add"]
             \/ o = "load" /\ pc' = [pc EXCEPT ![p] = "count"]
             \/ o = "remove" /\ pc' = [pc EXCEPT ![p] = "present"]
          /\ steady' = [steady EXCEPT ![p] =
                          /\ item \in Item
                          /\ item.label = item.value
                          /\ s \in {None, item.value}]
    BY <1>2 DEF Begin
  <2>3. steady' \in [Proc -> BOOLEAN]
    BY <2>2, Zenon DEF IInv, TypeOK
  <2>4. TypeOK'
    BY <1>2, <2>2, <2>3 DEF IInv, TypeOK, Begin, Step, Outcome
  <2>5. StepOK'
    BY <1>2, <2>2 DEF IInv, TypeOK, StepOK, Begin, Operation
  <2> QED BY <2>1, <2>4, <2>5 DEF IInv
<1>3. ASSUME NEW p \in Proc, Add(p) PROVE IInv'
  <2>0. op[p] = "create" /\ secret[p] \in Secret /\ pc[p] = "add"
    BY <1>3 DEF Add, IInv, StepOK, TypeOK
  <2>1. CASE /\ item = NoItem
             /\ SetItem(p, [value |-> secret[p], label |-> secret[p]])
             /\ put' = [put EXCEPT ![p] = TRUE]
             /\ LoadExact(p, "verify") \/ Goto(p, "reconcile")
             /\ UNCHANGED <<op, secret, took>>
    <3>1. ItemOK' /\ AcceptedIsStored'
      <4>1. accepted = {}
        BY <2>1, DistinctAssumption DEF IInv, TypeOK, AcceptedIsStored, NoItem
      <4>2. accepted' = accepted /\ item' = [value |-> secret[p], label |-> secret[p]]
        BY <2>1 DEF SetItem, LoadExact, Goto
      <4> QED BY <2>0, <4>1, <4>2 DEF ItemOK, AcceptedIsStored
    <3>2. steady' \in [Proc -> BOOLEAN] /\ item' \in Item
      BY <2>0, <2>1 DEF SetItem, IInv, TypeOK, Item, Value
    <3>3. TypeOK'
      BY <2>1, <3>2 DEF IInv, TypeOK, LoadExact, Goto, Step, Purpose
    <3>4. StepOK'
      BY <2>0, <2>1 DEF IInv, TypeOK, StepOK, LoadExact, Goto
    <3> QED BY <3>1, <3>3, <3>4 DEF IInv
  <2>2. CASE LoadExact(p, "compare") /\ Kept
    BY <2>0, <2>2, LoadExactKeeps DEF IInv, StepOK
  <2>3. CASE Goto(p, "reconcile") /\ Kept
    <3>1. StepOK'
      BY <2>0, <2>3 DEF IInv, TypeOK, StepOK, Goto, Kept
    <3> QED BY <2>0, <2>3, <3>1, GotoKeeps DEF Step
  <2>4. CASE Return(p, "Failed") /\ Kept
    BY <2>4, ReturnKeeps DEF Outcome, StoreError
  <2> QED BY <1>0, <1>3, <2>1, <2>2, <2>3, <2>4 DEF Add, Kept, IInv, TypeOK
<1>4. ASSUME NEW p \in Proc, Reconcile(p) PROVE IInv'
  <2>0. op[p] = "create" /\ pc[p] = "reconcile" /\ Kept
    BY <1>0, <1>4 DEF Reconcile, IInv, StepOK, Kept
  <2>1. CASE LoadExact(p, "settle")
    BY <2>0, <2>1, LoadExactKeeps
  <2>2. CASE \E r \in {"StateUncertain", "Failed"} : Return(p, r)
    BY <2>0, <2>2, ReturnKeeps DEF Outcome, StoreError
  <2> QED BY <1>4, <2>1, <2>2 DEF Reconcile
<1>5. ASSUME NEW p \in Proc, Count(p) PROVE IInv'
  <2>0. pc[p] = "count" /\ Kept
    BY <1>0, <1>5 DEF Count, Kept
  <2>1. CASE Goto(p, "read")
    <3>1. StepOK'
      BY <2>0, <2>1 DEF IInv, TypeOK, StepOK, Goto, Kept
    <3> QED BY <2>0, <2>1, <3>1, GotoKeeps DEF Step
  <2>2. CASE \E e \in {"Failed", "Missing"} : LoadFailed(p, e)
    BY <2>0, <2>2, LoadFailedKeeps
  <2> QED BY <1>5, <2>1, <2>2 DEF Count
<1>6. ASSUME NEW p \in Proc, ReadValue(p) PROVE IInv'
  <2>0. pc[p] = "read" /\ UNCHANGED <<item, op, secret, put, took>>
    BY <1>6 DEF ReadValue
  <2>1. CASE \E e \in {"Failed", "Missing", "Corrupt"} :
               LoadFailed(p, e) /\ (Fault(p) \/ UNCHANGED steady)
    BY <1>0, <2>0, <2>1, LoadFailedKeeps DEF Kept
  <2>2. CASE /\ item.value \in Secret
             /\ read' = [read EXCEPT ![p] = item.value]
             /\ pc' = [pc EXCEPT ![p] = "fingerprint"]
             /\ UNCHANGED <<purpose, failure, result, loaded, accepted, steady>>
    <3>1. TypeOK'
      BY <2>0, <2>2 DEF IInv, TypeOK, Step
    <3>2. ItemOK' /\ AcceptedIsStored'
      BY <2>0, <2>2 DEF IInv, ItemOK, AcceptedIsStored, NoItem
    <3>3. StepOK'
      BY <2>0, <2>2 DEF IInv, TypeOK, StepOK
    <3> QED BY <3>1, <3>2, <3>3 DEF IInv
  <2> QED BY <1>6, <2>1, <2>2 DEF ReadValue
<1>7. ASSUME NEW p \in Proc, Fingerprint(p) PROVE IInv'
  <2>0. pc[p] = "fingerprint" /\ Kept
    BY <1>0, <1>7 DEF Fingerprint, Kept
  <2>1. CASE \E e \in {"Failed", "Corrupt"} : LoadFailed(p, e)
    BY <2>0, <2>1, LoadFailedKeeps
  <2>2. CASE item.label = read[p] /\ LoadDone(p)
    BY <2>0, <2>2, LoadDoneKeeps
  <2> QED BY <1>7, <2>1, <2>2 DEF Fingerprint
<1>8. ASSUME NEW p \in Proc, DeleteCreated(p) PROVE IInv'
  <2>1. /\ ItemOK' /\ AcceptedIsStored' /\ item' \in Item \cup {NoItem}
        /\ took' \in [Proc -> BOOLEAN] /\ steady' \in [Proc -> BOOLEAN]
        /\ accepted' \subseteq Secret
        /\ \A q \in Proc \ {p} : took'[q] = took[q]
    BY <1>8, TakeKeeps DEF DeleteCreated, IInv, TypeOK, ItemOK, AcceptedIsStored, NoItem
  <2>2. TypeOK'
    BY <1>8, <2>1 DEF DeleteCreated, IInv, TypeOK, Step
  <2>3. StepOK'
    BY <1>8, <2>1 DEF DeleteCreated, IInv, TypeOK, StepOK
  <2> QED BY <2>1, <2>2, <2>3 DEF IInv
<1>9. ASSUME NEW p \in Proc, ConfirmCleanup(p) PROVE IInv'
  <2>1. PICK r \in {"StateUncertain", failure[p]} : Return(p, r)
    BY <1>9 DEF ConfirmCleanup
  <2>2. Kept /\ r \in Outcome /\ r # "Ok"
    BY <1>0, <1>9, <2>1 DEF ConfirmCleanup, Kept, IInv, StepOK, Outcome, StoreError, TypeOK
  <2> QED BY <2>1, <2>2, ReturnKeeps
<1>10. ASSUME NEW p \in Proc, Present(p) PROVE IInv'
  <2>0. pc[p] = "present" /\ Kept
    BY <1>0, <1>10 DEF Present, Kept
  <2>1. CASE Goto(p, "delete")
    <3>1. StepOK'
      BY <2>0, <2>1 DEF IInv, TypeOK, StepOK, Goto, Kept
    <3> QED BY <2>0, <2>1, <3>1, GotoKeeps DEF Step
  <2>2. CASE \E r \in {"Failed", "Absent"} : Return(p, r)
    BY <2>0, <2>2, ReturnKeeps DEF Outcome, StoreError
  <2> QED BY <1>10, <2>1, <2>2 DEF Present
<1>11. ASSUME NEW p \in Proc, Delete(p) PROVE IInv'
  <2>1. /\ ItemOK' /\ AcceptedIsStored' /\ item' \in Item \cup {NoItem}
        /\ took' \in [Proc -> BOOLEAN] /\ steady' \in [Proc -> BOOLEAN]
        /\ accepted' \subseteq Secret
        /\ \A q \in Proc \ {p} : took'[q] = took[q]
    <3>1. CASE TakeItem(p)
      BY <3>1, TakeKeeps DEF IInv, TypeOK
    <3>2. CASE UNCHANGED <<item, took, accepted>> /\ (Fault(p) \/ UNCHANGED steady)
      BY <1>0, <3>2 DEF IInv, TypeOK, ItemOK, AcceptedIsStored, NoItem
    <3> QED BY <1>11, <3>1, <3>2 DEF Delete
  <2>2. /\ pc[p] = "delete"
        /\ pc' \in {[pc EXCEPT ![p] = "absent"], [pc EXCEPT ![p] = "settle"]}
        /\ failure' \in {failure, [failure EXCEPT ![p] = "Failed"],
                         [failure EXCEPT ![p] = "NotFound"]}
        /\ UNCHANGED <<op, secret, purpose, read, result, loaded, put>>
    BY <1>11 DEF Delete
  <2>3. TypeOK'
    BY <2>1, <2>2 DEF IInv, TypeOK, Step, StoreError
  <2>4. StepOK'
    BY <2>1, <2>2 DEF IInv, TypeOK, StepOK
  <2> QED BY <2>1, <2>3, <2>4 DEF IInv
<1>12. ASSUME NEW p \in Proc, SettleDelete(p) PROVE IInv'
  <2>1. PICK r \in {"StateUncertain", "Removed", "AlreadyExists", "Failed"} : Return(p, r)
    BY <1>12 DEF SettleDelete
  <2> QED BY <1>0, <1>12, <2>1, ReturnKeeps DEF SettleDelete, Kept, Outcome, StoreError
<1>13. ASSUME NEW p \in Proc, ConfirmRemoved(p) PROVE IInv'
  <2>1. PICK r \in {"StateUncertain", "Removed"} : Return(p, r)
    BY <1>13 DEF ConfirmRemoved
  <2> QED BY <1>0, <1>13, <2>1, ReturnKeeps DEF ConfirmRemoved, Kept, Outcome, StoreError
<1>14. ASSUME NEW p \in Proc, Crash(p) PROVE IInv'
  BY <1>0, <1>14, ReturnKeeps DEF Crash, Kept, Outcome
<1> QED
  BY <1>1, <1>2, <1>3, <1>4, <1>5, <1>6, <1>7, <1>8, <1>9, <1>10, <1>11, <1>12,
     <1>13, <1>14 DEF Next

\* The invariant behind the other theorems: the types, that a secret is stored
\* under its own label, and what each keychain call relies on.
THEOREM InductiveInvariant == Spec => []IInv
<1>1. Init => IInv
  BY DistinctAssumption DEF Init, IInv, TypeOK, ItemOK, NoItem, StepOK, AcceptedIsStored,
     Item, Value, Operation, Step, Purpose, StoreError, Outcome
<1> QED BY <1>1, NextInvariant, PTL DEF Spec

\* A secret create returned success for stays the stored one, under its own
\* fingerprint, until a delete that names it, whatever the other operations
\* that use the item, the failures and the crashes.
THEOREM AcceptedStays == Spec => []AcceptedIsStored
<1>1. IInv => AcceptedIsStored
  BY DEF IInv
<1> QED BY <1>1, InductiveInvariant, PTL

-----------------------------------------------------------------------------
(***************************************************************************)
(* An operation nothing disturbs.                                          *)
(***************************************************************************)

\* A step of p that changes no item and makes nobody steady disturbs no other
\* operation.
LEMMA OthersKeepSteady ==
    ASSUME NEW p \in Proc, IInv, SteadyInv, Kept, Fault(p) \/ UNCHANGED steady,
           \A q \in Proc \ {p} : /\ pc'[q] = pc[q] /\ purpose'[q] = purpose[q]
                                 /\ read'[q] = read[q] /\ result'[q] = result[q],
           steady'[p] /\ pc'[p] # "idle" =>
              \/ /\ pc'[p] \in {"count", "read", "fingerprint"}
                 /\ purpose'[p] \in {"load", "compare"}
                 /\ item.value \in Secret /\ item.label = item.value
                 /\ op[p] = "create" => item.value = secret[p]
                 /\ pc'[p] = "fingerprint" => read'[p] = item.value
              \/ /\ pc'[p] \in {"present", "delete"}
                 /\ item = [value |-> secret[p], label |-> secret[p]]
              \/ pc'[p] \in {"settle", "absent"} /\ item = NoItem,
           steady'[p] /\ pc'[p] = "idle" =>
              \/ op[p] \in {"create", "load"} /\ result'[p] = "Ok"
              \/ op[p] = "remove" /\ result'[p] = "Removed"
    PROVE  SteadyInv'
<1>1. \A q \in Proc \ {p} : steady'[q] = steady[q]
  BY DEF Fault, IInv, TypeOK
<1>2. SteadyOK'
  <2> SUFFICES ASSUME NEW q \in Proc, (steady[q] /\ pc[q] # "idle")'
      PROVE  SteadyOK!(q)!2'
    BY DEF SteadyOK
  <2> QED BY <1>1 DEF SteadyInv, SteadyOK, Kept, NoItem
<1>3. UndisturbedSucceeds'
  BY <1>1 DEF SteadyInv, UndisturbedSucceeds, Kept
<1> QED BY <1>2, <1>3 DEF SteadyInv

\* The same for a step that changes the item: nobody else stays steady.
LEMMA OwnKeepsSteady ==
    ASSUME NEW p \in Proc, IInv, NEW i, SetItem(p, i), pc'[p] # "idle",
           \A q \in Proc \ {p} : pc'[q] = pc[q],
           steady[p] => /\ pc'[p] \in {"settle", "absent"}
                        /\ i = NoItem
    PROVE  SteadyInv'
BY DEF SteadyInv, SteadyOK, UndisturbedSucceeds, SetItem, IInv, TypeOK

\* Every step keeps what a steady operation relies on.
LEMMA NextSteady == IInv /\ SteadyInv /\ [Next]_vars => SteadyInv'
<1> SUFFICES ASSUME IInv, SteadyInv, [Next]_vars PROVE SteadyInv'
  OBVIOUS
<1> USE DistinctAssumption
<1>0. TypeOK /\ StepOK /\ ItemOK
  BY DEF IInv
<1>a. \A q \in Proc : Fault(q) \/ UNCHANGED steady => steady' \in [Proc -> BOOLEAN]
  BY <1>0 DEF Fault, TypeOK
<1>b. \A q \in Proc : Fault(q) => ~steady'[q]
  BY <1>0 DEF Fault, TypeOK
<1>1. CASE UNCHANGED vars
  BY <1>1 DEF SteadyInv, SteadyOK, UndisturbedSucceeds, NoItem, vars, callVars
<1>2. ASSUME NEW p \in Proc, Begin(p) PROVE SteadyInv'
  <2>1. PICK o \in Operation, s \in Secret \cup {None} :
          /\ o = "load" <=> s = None
          /\ op' = [op EXCEPT ![p] = o]
          /\ secret' = [secret EXCEPT ![p] = s]
          /\ \/ o = "create" /\ pc' = [pc EXCEPT ![p] = "add"]
             \/ o = "load" /\ pc' = [pc EXCEPT ![p] = "count"]
             \/ o = "remove" /\ pc' = [pc EXCEPT ![p] = "present"]
          /\ steady' = [steady EXCEPT ![p] =
                          /\ item \in Item
                          /\ item.label = item.value
                          /\ s \in {None, item.value}]
    BY <1>2 DEF Begin
  <2>2. /\ UNCHANGED <<item, purpose, read>>
        /\ result' = [result EXCEPT ![p] = "none"]
        /\ pc[p] = "idle"
    BY <1>2 DEF Begin
  <2>3. SteadyOK'
    BY <1>0, <2>1, <2>2 DEF SteadyInv, SteadyOK, TypeOK, StepOK, ItemOK, NoItem, Item,
       Value, Operation
  <2>4. UndisturbedSucceeds'
    BY <1>0, <2>1, <2>2 DEF SteadyInv, UndisturbedSucceeds, TypeOK
  <2> QED BY <2>3, <2>4 DEF SteadyInv
<1>3. ASSUME NEW p \in Proc, Add(p) PROVE SteadyInv'
  <2>1. CASE item = NoItem /\ SetItem(p, [value |-> secret[p], label |-> secret[p]])
    <3>1. ~steady[p]
      BY <1>3, <2>1 DEF Add, SteadyInv, SteadyOK, NoItem
    <3>2. secret[p] # None
      BY <1>0, <1>3 DEF Add, StepOK
    <3>3. item' # item
      BY <2>1, <3>2 DEF SetItem, NoItem
    <3>4. pc'[p] # "idle" /\ \A q \in Proc \ {p} : pc'[q] = pc[q]
      BY <1>0, <1>3, <2>1, <3>3 DEF Add, LoadExact, Goto, TypeOK
    <3> QED BY <2>1, <3>1, <3>4, OwnKeepsSteady
  <2>2. CASE Kept /\ (Fault(p) \/ (UNCHANGED steady /\ LoadExact(p, "compare")))
    BY <1>0, <1>3, <1>b, <2>2, OthersKeepSteady
       DEF Add, SteadyInv, SteadyOK, LoadExact, Goto, Return, Idle, TypeOK, NoItem
  <2> QED BY <1>0, <1>3, <1>a, <2>1, <2>2 DEF Add, Kept, TypeOK
<1>4. ASSUME NEW p \in Proc, Reconcile(p) \/ ConfirmCleanup(p) \/ Crash(p) PROVE SteadyInv'
  <2>1. ~steady'[p]
    BY <1>4, <1>b DEF Reconcile, ConfirmCleanup, Crash, SteadyInv, SteadyOK
  <2> QED BY <1>0, <1>4, <1>a, <2>1, OthersKeepSteady
          DEF Reconcile, ConfirmCleanup, Crash, Kept, LoadExact, Return, Idle, TypeOK
<1>5. ASSUME NEW p \in Proc, Count(p) \/ ReadValue(p) \/ Fingerprint(p) PROVE SteadyInv'
  <2>1. /\ Kept /\ (Fault(p) \/ UNCHANGED steady)
        /\ \A q \in Proc \ {p} : /\ pc'[q] = pc[q] /\ purpose'[q] = purpose[q]
                                 /\ read'[q] = read[q] /\ result'[q] = result[q]
    BY <1>0, <1>5, <1>a DEF Count, ReadValue, Fingerprint, Kept, Goto, LoadFailed,
       LoadDone, Rollback, Return, Idle, TypeOK
  <2>2. CASE ~steady'[p]
    BY <2>1, <2>2, OthersKeepSteady
  <2>3. CASE steady'[p]
    <3>1. steady[p] /\ UNCHANGED steady
      BY <1>b, <2>1, <2>3
    <3>2. /\ purpose[p] \in {"load", "compare"}
          /\ item.value \in Secret /\ item.label = item.value /\ item # NoItem
          /\ op[p] = "create" => item.value = secret[p]
          /\ op[p] \in {"create", "load"}
          /\ pc[p] = "fingerprint" => read[p] = item.value
      BY <1>0, <1>5, <3>1 DEF Count, ReadValue, Fingerprint, SteadyInv, SteadyOK, StepOK, NoItem
    <3>3. \/ Goto(p, "read")
          \/ /\ pc' = [pc EXCEPT ![p] = "fingerprint"]
             /\ read' = [read EXCEPT ![p] = item.value]
             /\ UNCHANGED purpose
          \/ pc[p] = "fingerprint" /\ LoadDone(p)
      BY <1>5, <1>b, <2>3, <3>2 DEF Count, ReadValue, Fingerprint
    <3>4. CASE pc[p] = "fingerprint" /\ LoadDone(p)
      <4>1. op[p] = IF purpose[p] = "load" THEN "load" ELSE "create"
        BY <1>0, <3>4 DEF StepOK
      <4> QED BY <1>0, <2>1, <3>2, <3>4, <4>1, OthersKeepSteady DEF LoadDone, Return, Idle, TypeOK
    <3>5. CASE \/ Goto(p, "read")
               \/ /\ pc' = [pc EXCEPT ![p] = "fingerprint"]
                  /\ read' = [read EXCEPT ![p] = item.value]
                  /\ UNCHANGED purpose
      BY <1>0, <2>1, <3>2, <3>5, OthersKeepSteady DEF Goto, TypeOK
    <3> QED BY <3>3, <3>4, <3>5
  <2> QED BY <2>2, <2>3
<1>6. ASSUME NEW p \in Proc, DeleteCreated(p) PROVE SteadyInv'
  <2>1. ~steady[p] /\ pc'[p] # "idle" /\ \A q \in Proc \ {p} : pc'[q] = pc[q]
    BY <1>0, <1>6 DEF DeleteCreated, SteadyInv, SteadyOK, TypeOK
  <2>2. CASE TakeItem(p)
    BY <2>1, <2>2, OwnKeepsSteady DEF TakeItem
  <2>3. CASE UNCHANGED <<item, took, steady, accepted>>
    BY <1>0, <1>6, <2>1, <2>3, OthersKeepSteady DEF DeleteCreated, Kept, TypeOK
  <2> QED BY <1>6, <2>2, <2>3 DEF DeleteCreated
<1>7. ASSUME NEW p \in Proc, Present(p) PROVE SteadyInv'
  <2>1. /\ Kept /\ (Fault(p) \/ UNCHANGED steady)
        /\ \A q \in Proc \ {p} : /\ pc'[q] = pc[q] /\ purpose'[q] = purpose[q]
                                 /\ read'[q] = read[q] /\ result'[q] = result[q]
    BY <1>0, <1>7, <1>a DEF Present, Kept, Goto, Return, Idle, TypeOK
  <2>2. steady'[p] => /\ pc'[p] = "delete"
                      /\ item = [value |-> secret[p], label |-> secret[p]]
    <3> SUFFICES ASSUME steady'[p]
        PROVE  pc'[p] = "delete" /\ item = [value |-> secret[p], label |-> secret[p]]
      OBVIOUS
    <3>1. steady[p] /\ ~Fault(p)
      BY <1>b, <2>1
    <3>2. item = [value |-> secret[p], label |-> secret[p]] /\ secret[p] \in Secret
      BY <1>0, <1>7, <3>1 DEF Present, SteadyInv, SteadyOK, StepOK, TypeOK
    <3> QED BY <1>0, <1>7, <3>1, <3>2 DEF Present, Goto, TypeOK, NoItem
  <2> QED BY <2>1, <2>2, OthersKeepSteady
<1>8. ASSUME NEW p \in Proc, Delete(p) PROVE SteadyInv'
  <2>1. /\ pc'[p] \in {"settle", "absent"} /\ \A q \in Proc \ {p} : pc'[q] = pc[q]
        /\ UNCHANGED <<op, secret, purpose, read, result>>
    BY <1>0, <1>8 DEF Delete, TypeOK
  <2>2. CASE TakeItem(p)
    BY <2>1, <2>2, OwnKeepsSteady DEF TakeItem
  <2>3. CASE UNCHANGED <<item, took>> /\ (Fault(p) \/ (item.label # secret[p] /\ UNCHANGED steady))
    <3>1. ~steady'[p]
      BY <1>8, <1>b, <2>3 DEF Delete, SteadyInv, SteadyOK
    <3>2. Kept /\ \A q \in Proc \ {p} : /\ pc'[q] = pc[q] /\ purpose'[q] = purpose[q]
                                        /\ read'[q] = read[q] /\ result'[q] = result[q]
      BY <1>8, <1>a, <2>1, <2>3 DEF Delete, Kept
    <3> QED BY <2>1, <2>3, <3>1, <3>2, OthersKeepSteady
  <2> QED BY <1>8, <2>2, <2>3 DEF Delete
<1>9. ASSUME NEW p \in Proc, SettleDelete(p) \/ ConfirmRemoved(p) PROVE SteadyInv'
  <2>1. PICK r \in {"StateUncertain", "Removed", "AlreadyExists", "Failed"} :
          /\ Return(p, r)
          /\ \/ Fault(p)
             \/ item = NoItem /\ r = "Removed" /\ UNCHANGED steady
             \/ item # NoItem /\ UNCHANGED steady
    BY <1>9 DEF SettleDelete, ConfirmRemoved
  <2>2. steady'[p] => r = "Removed" /\ op[p] = "remove"
    BY <1>0, <1>9, <1>b, <2>1 DEF SettleDelete, ConfirmRemoved, SteadyInv, SteadyOK, StepOK
  <2>3. Kept
    BY <1>9, <1>a, <2>1 DEF SettleDelete, ConfirmRemoved, Kept
  <2> QED BY <1>0, <2>1, <2>2, <2>3, OthersKeepSteady DEF Return, Idle, TypeOK
<1> QED
  BY <1>1, <1>2, <1>3, <1>4, <1>5, <1>6, <1>7, <1>8, <1>9 DEF Next

\* An operation that needs nothing but what is stored succeeds, although it is
\* several calls and other processes run between them, unless a call of its own
\* fails or the item changes.
THEOREM UndisturbedOperations == Spec => []UndisturbedSucceeds
<1>1. Init => SteadyInv
  BY DEF Init, SteadyInv, SteadyOK, UndisturbedSucceeds
<1>2. SteadyInv => UndisturbedSucceeds
  BY DEF SteadyInv
<1> QED BY <1>1, <1>2, NextSteady, InductiveInvariant, PTL DEF Spec

-----------------------------------------------------------------------------
(***************************************************************************)
(* The contract of the trait.                                              *)
(***************************************************************************)

\* The running operation of a process, as the contract sees it.
Running(p) == IF pc[p] = "idle" THEN [op |-> "idle", secret |-> None]
              ELSE [op |-> op[p], secret |-> secret[p]]
Calls == [p \in Proc |-> Running(p)]

\* An operation that goes on without touching the item is not seen.
LEMMA GoesOnStutters ==
    ASSUME NEW p \in Proc, IInv, pc[p] # "idle",
           NEW step \in Step \ {"idle"}, pc' = [pc EXCEPT ![p] = step],
           UNCHANGED <<item, op, secret, result, loaded, put, took>>
    PROVE  UNCHANGED Promise!vars
<1>1. Calls' = Calls
  BY DEF Calls, Running, IInv, TypeOK
<1> QED BY <1>1 DEF Promise!vars, Calls, Running

\* An operation that ends by Return answers, if the contract allows.
LEMMA ReturnIsAnswer ==
    ASSUME NEW p \in Proc, IInv, pc[p] # "idle",
           NEW r \in StoreError \cup {"Ok", "Removed", "Absent", "Crashed"},
           NEW s \in Secret \cup {None},
           pc' = [pc EXCEPT ![p] = "idle"],
           result' = [result EXCEPT ![p] = r],
           loaded' = [loaded EXCEPT ![p] = s],
           UNCHANGED <<item, op, secret, put, took>>,
           \/ op[p] = "create" /\ s = None /\ Promise!CreateAnswer(p, r)
           \/ op[p] = "load" /\ Promise!LoadAnswer(p, r, s)
           \/ op[p] = "remove" /\ s = None /\ Promise!RemoveAnswer(p, r)
           \/ r = "Crashed" /\ s = None
    PROVE  Promise!Answer(p)
<1>1. Calls' = [Calls EXCEPT ![p] = Promise!Idle]
  BY DEF Calls, Running, Promise!Idle, IInv, TypeOK
<1>2. Calls[p] = [op |-> op[p], secret |-> secret[p]] /\ Calls[p] # Promise!Idle
  BY DEF Calls, Running, Promise!Idle, IInv, TypeOK, Operation
<1>3. r \in {"Ok", "AlreadyExists", "Failed", "Missing", "Corrupt",
             "StateUncertain", "Removed", "Absent", "Crashed"}
  BY DEF StoreError
<1> QED BY <1>1, <1>2, <1>3 DEF Promise!Answer, Calls, Running

\* What Return does, for the lemma above.
LEMMA ReturnEnds ==
    ASSUME NEW p \in Proc, IInv, pc[p] # "idle", NEW r, Return(p, r)
    PROVE  /\ pc' = [pc EXCEPT ![p] = "idle"]
           /\ result' = [result EXCEPT ![p] = r]
           /\ loaded' = [loaded EXCEPT ![p] = None]
BY DEF Return, Idle, IInv, StepOK, TypeOK

\* A load_exact that fails is the end of a load or a create, or goes on to the
\* cleanup.
LEMMA LoadFailedSimulates ==
    ASSUME NEW p \in Proc, IInv, pc[p] \in {"count", "read", "fingerprint"},
           NEW e \in {"Failed", "Missing", "Corrupt"}, LoadFailed(p, e),
           UNCHANGED <<item, op, secret, put, took>>,
           e = "Missing" => item = NoItem
    PROVE  Promise!Answer(p) \/ UNCHANGED Promise!vars
<1>0. /\ op[p] = IF purpose[p] = "load" THEN "load" ELSE "create"
      /\ purpose[p] = "compare" => ~put[p]
  BY DEF IInv, StepOK
<1>1. CASE Rollback(p, e)
  BY <1>1, GoesOnStutters DEF Rollback, Step
<1>2. CASE purpose[p] \in {"load", "compare"} /\ Return(p, e)
  <2>1. \/ op[p] = "create" /\ Promise!CreateAnswer(p, e)
        \/ op[p] = "load" /\ Promise!LoadAnswer(p, e, None)
    BY <1>0, <1>2 DEF Promise!CreateAnswer, Promise!LoadAnswer, NoItem
  <2> QED BY <1>2, <2>1, ReturnEnds, ReturnIsAnswer DEF StoreError
<1>3. CASE purpose[p] = "settle" /\ Return(p, "StateUncertain")
  <2>1. op[p] = "create" /\ Promise!CreateAnswer(p, "StateUncertain")
    BY <1>0, <1>3 DEF Promise!CreateAnswer
  <2> QED BY <1>3, <2>1, ReturnEnds, ReturnIsAnswer DEF StoreError
<1> QED BY <1>1, <1>2, <1>3 DEF LoadFailed

\* A load_exact that found the label of what it read answers the truth.
LEMMA LoadDoneSimulates ==
    ASSUME NEW p \in Proc, IInv, pc[p] = "fingerprint", LoadDone(p),
           UNCHANGED <<item, op, secret, put, took>>, item.label = read[p]
    PROVE  Promise!Answer(p) \/ UNCHANGED Promise!vars
<1>0. /\ op[p] = IF purpose[p] = "load" THEN "load" ELSE "create"
      /\ read[p] \in Secret /\ item.value = read[p]
      /\ Promise!Idle = [op |-> "idle", secret |-> None]
  BY DistinctAssumption DEF IInv, StepOK, ItemOK, NoItem, Promise!Idle
<1>1. CASE purpose[p] = "load"
  <2>1. Promise!LoadAnswer(p, "Ok", read[p]) /\ read[p] \in Secret \cup {None}
    BY <1>0, DistinctAssumption DEF Promise!LoadAnswer
  <2> QED BY <1>0, <1>1, <2>1, ReturnIsAnswer DEF LoadDone, Idle
<1>2. CASE purpose[p] # "load" /\ read[p] = secret[p] /\ Return(p, "Ok")
  <2>1. op[p] = "create" /\ Promise!CreateAnswer(p, "Ok")
    BY <1>0, <1>2 DEF Promise!CreateAnswer
  <2> QED BY <1>2, <2>1, ReturnEnds, ReturnIsAnswer
<1>3. CASE purpose[p] # "load" /\ read[p] # secret[p] /\ Return(p, "AlreadyExists")
  <2>1. op[p] = "create" /\ Promise!CreateAnswer(p, "AlreadyExists")
    BY <1>0, <1>3 DEF Promise!CreateAnswer
  <2> QED BY <1>3, <2>1, ReturnEnds, ReturnIsAnswer DEF StoreError
<1>4. CASE Rollback(p, "Corrupt")
  BY <1>4, GoesOnStutters DEF Rollback, Step
<1> QED BY <1>1, <1>2, <1>3, <1>4 DEF LoadDone

\* A deletion that takes the item away takes away the secret it names.
LEMMA TakeSimulates ==
    ASSUME NEW p \in Proc, IInv, TakeItem(p),
           NEW step \in Step \ {"idle"}, pc' = [pc EXCEPT ![p] = step], pc[p] # "idle",
           op[p] = "remove" \/ (op[p] = "create" /\ put[p]),
           UNCHANGED <<op, secret, result, loaded, put>>
    PROVE  Promise!Take(p)
<1>1. Calls' = Calls /\ Calls[p] = [op |-> op[p], secret |-> secret[p]]
  BY DEF Calls, Running, IInv, TypeOK
<1>2. secret[p] \in Secret /\ item.value = secret[p] /\ item' = NoItem
  BY DistinctAssumption DEF IInv, StepOK, TypeOK, ItemOK, NoItem, TakeItem, SetItem
<1> QED BY <1>1, <1>2, DistinctAssumption DEF Promise!Take, Calls, Running, TakeItem, NoItem

\* Every step of the store is one of the contract, or invisible to it.
LEMMA StepSimulates ==
    ASSUME IInv, [Next]_vars
    PROVE  [Promise!Next]_Promise!vars
<1> USE DistinctAssumption DEF Promise!Idle
<1>0. TypeOK /\ StepOK /\ ItemOK
  BY DEF IInv
<1>1. CASE UNCHANGED vars
  <2>1. Calls' = Calls
    BY <1>1 DEF Calls, Running, vars, callVars
  <2> QED BY <1>1, <2>1 DEF Promise!vars, vars, callVars, Calls, Running
<1>2. ASSUME NEW p \in Proc, Begin(p) PROVE Promise!Begin(p)
  <2>1. PICK o \in Operation, s \in Secret \cup {None} :
          /\ o = "load" <=> s = None
          /\ op' = [op EXCEPT ![p] = o]
          /\ secret' = [secret EXCEPT ![p] = s]
          /\ \/ o = "create" /\ pc' = [pc EXCEPT ![p] = "add"]
             \/ o = "load" /\ pc' = [pc EXCEPT ![p] = "count"]
             \/ o = "remove" /\ pc' = [pc EXCEPT ![p] = "present"]
    BY <1>2 DEF Begin
  <2>2. Calls' = [Calls EXCEPT ![p] = [op |-> o, secret |-> s]]
    BY <1>0, <2>1 DEF Calls, Running, TypeOK, Operation
  <2>3. Calls[p] = Promise!Idle
    BY <1>2 DEF Calls, Running, Begin
  <2> QED BY <1>2, <2>1, <2>2, <2>3 DEF Promise!Begin, Begin, Operation, Calls, Running
<1>3. ASSUME NEW p \in Proc, Add(p) PROVE [Promise!Next]_Promise!vars
  <2>0. pc[p] = "add" /\ op[p] = "create" /\ secret[p] \in Secret /\ ~put[p]
    BY <1>0, <1>3 DEF Add, StepOK, TypeOK
  <2>1. CASE /\ item = NoItem
             /\ SetItem(p, [value |-> secret[p], label |-> secret[p]])
             /\ put' = [put EXCEPT ![p] = TRUE]
             /\ LoadExact(p, "verify") \/ Goto(p, "reconcile")
             /\ UNCHANGED <<op, secret, took>>
    <3>1. Calls' = Calls /\ Calls[p] = [op |-> "create", secret |-> secret[p]]
      BY <1>0, <2>0, <2>1 DEF Calls, Running, TypeOK, LoadExact, Goto
    <3>2. Promise!Put(p)
      BY <2>1, <3>1 DEF Promise!Put, Calls, Running, SetItem, LoadExact, Goto, NoItem
    <3> QED BY <3>2 DEF Promise!Next
  <2>2. CASE /\ LoadExact(p, "compare") \/ Goto(p, "reconcile")
             /\ UNCHANGED <<item, op, secret, put, took>>
    BY <2>0, <2>2, GoesOnStutters DEF LoadExact, Goto, Step
  <2>3. CASE Return(p, "Failed") /\ UNCHANGED <<item, op, secret, put, took>>
    <3>1. Promise!CreateAnswer(p, "Failed")
      BY <2>0 DEF Promise!CreateAnswer
    <3>2. Promise!Answer(p)
      BY <2>0, <2>3, <3>1, ReturnEnds, ReturnIsAnswer DEF StoreError
    <3> QED BY <3>2 DEF Promise!Next
  <2> QED BY <1>3, <2>1, <2>2, <2>3 DEF Add
<1>4. ASSUME NEW p \in Proc, Reconcile(p) PROVE Promise!Answer(p) \/ UNCHANGED Promise!vars
  <2>0. /\ pc[p] = "reconcile" /\ op[p] = "create" /\ secret[p] \in Secret
        /\ UNCHANGED <<item, op, secret, put, took>>
    BY <1>0, <1>4 DEF Reconcile, StepOK, TypeOK
  <2>1. CASE LoadExact(p, "settle")
    BY <2>0, <2>1, GoesOnStutters DEF LoadExact, Step
  <2>2. CASE \E r \in {"StateUncertain", "Failed"} :
               Return(p, r) /\ (r = "Failed" => item = NoItem)
    <3>1. PICK r \in {"StateUncertain", "Failed"} :
               Return(p, r) /\ (r = "Failed" => item = NoItem)
      BY <2>2
    <3>2. Promise!CreateAnswer(p, r)
      BY <2>0, <3>1 DEF Promise!CreateAnswer, NoItem
    <3> QED BY <2>0, <3>1, <3>2, ReturnEnds, ReturnIsAnswer DEF StoreError
  <2> QED BY <1>4, <2>1, <2>2 DEF Reconcile
<1>5. ASSUME NEW p \in Proc, Count(p) \/ ReadValue(p) \/ Fingerprint(p)
      PROVE  Promise!Answer(p) \/ UNCHANGED Promise!vars
  <2>0. /\ pc[p] \in {"count", "read", "fingerprint"}
        /\ UNCHANGED <<item, op, secret, put, took>>
    BY <1>5 DEF Count, ReadValue, Fingerprint
  <2>1. CASE \E e \in {"Failed", "Missing", "Corrupt"} :
               LoadFailed(p, e) /\ (e = "Missing" => item = NoItem)
    BY <2>0, <2>1, LoadFailedSimulates
  <2>2. CASE \E step \in {"read", "fingerprint"} : pc' = [pc EXCEPT ![p] = step]
               /\ UNCHANGED <<result, loaded>>
    BY <2>0, <2>2, GoesOnStutters DEF Step
  <2>3. CASE pc[p] = "fingerprint" /\ item.label = read[p] /\ LoadDone(p)
    BY <2>0, <2>3, LoadDoneSimulates
  <2> QED BY <1>5, <2>1, <2>2, <2>3 DEF Count, ReadValue, Fingerprint, Goto
<1>6. ASSUME NEW p \in Proc, DeleteCreated(p) PROVE Promise!Take(p) \/ UNCHANGED Promise!vars
  <2>1. /\ pc[p] # "idle" /\ op[p] = "create" /\ put[p]
        /\ pc' = [pc EXCEPT ![p] = "confirm"]
        /\ UNCHANGED <<op, secret, result, loaded, put>>
    BY <1>0, <1>6 DEF DeleteCreated, StepOK
  <2>2. CASE TakeItem(p)
    BY <2>1, <2>2, TakeSimulates DEF Step
  <2>3. CASE UNCHANGED <<item, took>>
    BY <2>1, <2>3, GoesOnStutters DEF Step
  <2> QED BY <1>6, <2>2, <2>3 DEF DeleteCreated
<1>7. ASSUME NEW p \in Proc, ConfirmCleanup(p) PROVE Promise!Answer(p)
  <2>1. /\ pc[p] # "idle" /\ op[p] = "create" /\ secret[p] \in Secret
        /\ failure[p] \in {"Failed", "Missing", "Corrupt"}
        /\ UNCHANGED <<item, op, secret, put, took>>
    BY <1>0, <1>7 DEF ConfirmCleanup, StepOK, TypeOK
  <2>2. PICK r \in {"StateUncertain", failure[p]} :
          Return(p, r) /\ (r # "StateUncertain" => item = NoItem)
    BY <1>7 DEF ConfirmCleanup
  <2>3. Promise!CreateAnswer(p, r)
    BY <2>1, <2>2 DEF Promise!CreateAnswer, NoItem
  <2> QED BY <2>1, <2>2, <2>3, ReturnEnds, ReturnIsAnswer DEF StoreError
<1>8. ASSUME NEW p \in Proc, Present(p) PROVE Promise!Answer(p) \/ UNCHANGED Promise!vars
  <2>0. /\ pc[p] = "present" /\ op[p] = "remove" /\ ~took[p]
        /\ UNCHANGED <<item, op, secret, put, took>>
    BY <1>0, <1>8 DEF Present, StepOK
  <2>1. CASE Goto(p, "delete")
    BY <2>0, <2>1, GoesOnStutters DEF Goto, Step
  <2>2. CASE \E r \in {"Failed", "Absent"} : Return(p, r) /\ (r = "Absent" => item = NoItem)
    <3>1. PICK r \in {"Failed", "Absent"} : Return(p, r) /\ (r = "Absent" => item = NoItem)
      BY <2>2
    <3>2. Promise!RemoveAnswer(p, r)
      BY <2>0, <3>1 DEF Promise!RemoveAnswer, NoItem
    <3> QED BY <2>0, <3>1, <3>2, ReturnEnds, ReturnIsAnswer DEF StoreError
  <2> QED BY <1>8, <2>1, <2>2 DEF Present
<1>9. ASSUME NEW p \in Proc, Delete(p) PROVE Promise!Take(p) \/ UNCHANGED Promise!vars
  <2>1. /\ pc[p] # "idle" /\ op[p] = "remove"
        /\ UNCHANGED <<op, secret, result, loaded, put>>
    BY <1>0, <1>9 DEF Delete, StepOK
  <2>2. PICK step \in {"settle", "absent"} : pc' = [pc EXCEPT ![p] = step]
    BY <1>9 DEF Delete
  <2>3. CASE TakeItem(p)
    BY <2>1, <2>2, <2>3, TakeSimulates DEF Step
  <2>4. CASE UNCHANGED <<item, took>>
    BY <2>1, <2>2, <2>4, GoesOnStutters DEF Step
  <2> QED BY <1>9, <2>3, <2>4 DEF Delete
<1>10. ASSUME NEW p \in Proc, SettleDelete(p) \/ ConfirmRemoved(p) PROVE Promise!Answer(p)
  <2>1. /\ pc[p] # "idle" /\ op[p] = "remove"
        /\ UNCHANGED <<item, op, secret, put, took>>
    BY <1>0, <1>10 DEF SettleDelete, ConfirmRemoved, StepOK
  <2>2. PICK r \in {"StateUncertain", "Removed", "AlreadyExists", "Failed"} :
          /\ Return(p, r)
          /\ r = "Removed" => item = NoItem
          /\ r \in {"AlreadyExists", "Failed"} => item # NoItem
    BY <1>10 DEF SettleDelete, ConfirmRemoved
  <2>3. item # NoItem => item.value # None
    BY <1>0 DEF ItemOK
  <2>4. Promise!RemoveAnswer(p, r)
    BY <2>2, <2>3 DEF Promise!RemoveAnswer, NoItem
  <2> QED BY <2>1, <2>2, <2>4, ReturnEnds, ReturnIsAnswer DEF StoreError
<1>11. ASSUME NEW p \in Proc, Crash(p) PROVE Promise!Answer(p)
  BY <1>11, ReturnEnds, ReturnIsAnswer DEF Crash
<1> QED
  BY <1>1, <1>2, <1>3, <1>4, <1>5, <1>6, <1>7, <1>8, <1>9, <1>10, <1>11
     DEF Next, Promise!Next

\* The macOS recovery-secret store keeps the contract of its trait: each answer
\* is true of the item when it is given, although load is three keychain calls
\* and create reads back what it stored; no create replaces an item, and only
\* material under the label of the secret a call names is taken away.
THEOREM StoreKeepsPromise == Spec => KeepsPromise
<1>1. Init => Promise!Init
  BY DEF Init, Promise!Init, Promise!Idle, NoItem
<1>2. IInv /\ [Next]_vars => [Promise!Next]_Promise!vars
  BY StepSimulates
<1> QED BY <1>1, <1>2, InductiveInvariant, PTL DEF Spec, KeepsPromise, Promise!Spec
=============================================================================
