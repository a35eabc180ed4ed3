--------------------------- MODULE SecretStoreProofs ---------------------------
(***************************************************************************)
(* Proofs about SecretStore, for any number of processes, recipients,      *)
(* secrets and items: competing creates agree on one secret and keep it,   *)
(* a load returns what was accepted, duplicates are reported, and answers  *)
(* are true of the items an operation leaves.                              *)
(***************************************************************************)
EXTENDS SecretStore, FiniteSetTheorems, TLAPS

-----------------------------------------------------------------------------
(***************************************************************************)
(* Steps that leave the items alone.                                       *)
(***************************************************************************)

LEMMA SameEntry ==
    ASSUME NEW e \in Entry, NEW f \in Entry, e.recipient = f.recipient, e.secret = f.secret
    PROVE  e = f
BY DEF Entry

\* What every call but those that add or delete an item leaves unchanged.
Quiet == UNCHANGED <<items, op, request, used, withdrawn, undone, made, acted,
                     before, known>>

\* The process p is at step s with the item path.
At(p, s, path) ==
    /\ pc' = [pc EXCEPT ![p] = s]
    /\ item' = [item EXCEPT ![p] = path]
    /\ failure' \in [Proc -> StoreError]

\* The item p made, if it is still there, is the only one of its recipient.
NoPairs(p) ==
    \A i, j \in items :
        i.recipient = j.recipient /\ made[p] \in {i.path, j.path} => i = j

\* The items of the other processes are theirs as before, and so is what they
\* know.
LEMMA QuietOthers ==
    ASSUME IInv, NEW p \in Proc, NEW s \in Step, NEW path \in Item \cup {None},
           Quiet, At(p, s, path), accepted \subseteq accepted',
           NEW q \in Proc, q # p
    PROVE  OwnOK(q)' /\ StepOK(q)' /\ pc'[q] = pc[q] /\ item'[q] = item[q]
<1>1. pc'[q] = pc[q] /\ item'[q] = item[q]
  BY DEF IInv, TypeOK, At
<1>2. OwnOK(q)'
  BY <1>1 DEF IInv, OwnOK, Quiet
<1>3. StepOK(q)'
  <2>1. StepOK(q)
    BY DEF IInv
  <2> QED BY <1>1, <2>1 DEF StepOK, Holds, Quiet
<1> QED BY <1>1, <1>2, <1>3

\* A step of p to another call, with the item it will concern.
LEMMA MoveKeeps ==
    ASSUME IInv, NEW p \in Proc, NEW s \in Step \ {"idle"}, NEW path \in Item \cup {None},
           pc[p] # "idle", Quiet, At(p, s, path),
           UNCHANGED <<result, loaded, accepted, unsettled>>,
           path # None => path \in used,
           \A i \in items : i.path = path => i.recipient = request[p].recipient,
           StepOK(p)',
           s \in Comparing => \A i \in items : i.path = path => Found(request[p].recipient) = {i},
           pc[p] \in Cleaning \cup {"reconcile"} => s \in Cleaning \cup {"reconcile"} \/ NoPairs(p)
    PROVE  IInv'
<1>0. /\ TypeOK /\ PathsOK /\ ComparedOK /\ PairsOK /\ \A q \in Proc : OwnOK(q) /\ StepOK(q)
      /\ AcceptedIsKept /\ LoadReturnsAccepted /\ AnswersAreDefinite
  BY DEF IInv
<1>1. TypeOK'
  BY <1>0 DEF TypeOK, At, Quiet
<1>2. pc'[p] = s /\ item'[p] = path
  BY <1>0 DEF TypeOK, At
<1>3. \A q \in Proc \ {p} : OwnOK(q)' /\ StepOK(q)' /\ pc'[q] = pc[q] /\ item'[q] = item[q]
  BY QuietOthers
<1>4. PathsOK'
  BY <1>0, <1>2, <1>3 DEF PathsOK, Quiet
<1>5. OwnOK(p)'
  BY <1>0, <1>2 DEF OwnOK, Quiet
<1>6. ComparedOK'
  <2> SUFFICES ASSUME NEW q \in Proc, pc'[q] \in Comparing, NEW i \in items, i.path = item'[q]
               PROVE  /\ \A r \in Proc, j \in items :
                            pc'[r] \in Comparing /\ j.path = item'[r]
                                /\ j.recipient = i.recipient => j = i
                      /\ \A e \in accepted : Live(e) /\ e.recipient = i.recipient
                            => i.value = e.secret
    BY DEF ComparedOK, Holds, Quiet, Live
  <2>1. CASE q = p
    <3>1. Found(request[p].recipient) = {i} /\ i.recipient = request[p].recipient
      BY <1>2, <2>1
    <3>2. \A j \in items : j.recipient = i.recipient => j = i
      BY <3>1 DEF Found
    <3>3. ASSUME NEW e \in accepted, Live(e), e.recipient = i.recipient
          PROVE  i.value = e.secret
      BY <1>0, <3>2, <3>3 DEF AcceptedIsKept, AcceptedIsStored, Live
    <3> QED BY <3>2, <3>3
  <2>2. CASE q # p
    <3>1. pc[q] \in Comparing /\ Holds(q, i)
      BY <1>3, <2>2 DEF Holds
    <3>2. \A e \in accepted : Live(e) /\ e.recipient = i.recipient => i.value = e.secret
      BY <1>0, <3>1 DEF ComparedOK
    <3>3. ASSUME NEW r \in Proc, NEW j \in items, pc'[r] \in Comparing, j.path = item'[r],
                 j.recipient = i.recipient
          PROVE  j = i
      <4>1. CASE r = p
        <5>1. Found(request[p].recipient) = {j} /\ j.recipient = request[p].recipient
          BY <1>2, <3>3, <4>1
        <5> QED BY <3>3, <5>1 DEF Found
      <4>2. CASE r # p
        BY <1>0, <1>3, <3>1, <3>3, <4>2 DEF ComparedOK, Holds
      <4> QED BY <4>1, <4>2
    <3> QED BY <3>2, <3>3
  <2> QED BY <2>1, <2>2
<1>7. PairsOK'
  <2> SUFFICES ASSUME NEW i \in items, NEW j \in items, i # j, i.recipient = j.recipient,
                      i.recipient \notin unsettled
               PROVE  \E q \in Proc : /\ pc'[q] \in Cleaning \cup {"reconcile"}
                                      /\ made[q] \in {i.path, j.path}
    BY DEF PairsOK, Quiet
  <2>1. PICK q \in Proc : pc[q] \in Cleaning \cup {"reconcile"} /\ made[q] \in {i.path, j.path}
    BY <1>0 DEF PairsOK
  <2>2. CASE q = p
    BY <1>2, <2>1, <2>2 DEF NoPairs
  <2>3. CASE q # p
    BY <1>3, <2>1, <2>3
  <2> QED BY <2>2, <2>3
<1>8. AcceptedIsKept' /\ LoadReturnsAccepted'
  BY <1>0 DEF AcceptedIsKept, AcceptedIsStored, NoSecondSecret, LoadReturnsAccepted, Quiet
<1>9. AnswersAreDefinite'
  BY <1>0, <1>2, <1>3 DEF AnswersAreDefinite, CreateErrorIsDefinite, RemoveIsComplete,
                          RemoveErrorIsDefinite, Quiet
<1> QED BY <1>1, <1>3, <1>4, <1>5, <1>6, <1>7, <1>8, <1>9 DEF IInv

\* The end of an operation of p, which returns r.
LEMMA ReturnKeeps ==
    ASSUME IInv, NEW p \in Proc, NEW r \in StoreError \cup {"Ok", "Removed", "Absent"},
           pc[p] # "idle", Quiet, Return(p, r),
           r = "Ok" /\ op[p] = "create" =>
                \E i \in items :
                    /\ i.recipient = request[p].recipient /\ i.value = request[p].secret
                    /\ \/ Found(request[p].recipient) = {i}
                       \/ pc[p] \in Comparing /\ Holds(p, i),
           op[p] = "create" /\ r \in StoreError \ {"Ambiguous", "StateUncertain"} =>
                \A i \in items : i.path = made[p] => i.value = Damaged /\ r = "Corrupt",
           r \in {"Removed", "Absent"} => Found(request[p].recipient) = {},
           op[p] = "remove" /\ r \in StoreError \ {"StateUncertain"} => ~acted[p],
           pc[p] \in Cleaning \cup {"reconcile"} => r \in {"Ambiguous", "StateUncertain"} \/ NoPairs(p)
    PROVE  IInv'
<1>0. /\ TypeOK /\ PathsOK /\ ComparedOK /\ PairsOK /\ \A q \in Proc : OwnOK(q) /\ StepOK(q)
      /\ AcceptedIsKept /\ LoadReturnsAccepted /\ AnswersAreDefinite
  BY DEF IInv
<1>1. /\ pc' = [pc EXCEPT ![p] = "idle"] /\ item' = [item EXCEPT ![p] = None]
      /\ failure' = [failure EXCEPT ![p] = "Failed"]
      /\ result' = [result EXCEPT ![p] = r]
      /\ loaded' = loaded
      /\ accepted' = accepted \cup {e \in {request[p]} : r = "Ok" /\ op[p] = "create"}
      /\ unsettled' = unsettled \cup
            {q \in {request[p].recipient} :
                op[p] = "create" /\ r \in {"StateUncertain", "Ambiguous"}}
  BY DEF Return, Idle
<1>2. op[p] = "create" => request[p] \in Entry
  BY <1>0 DEF OwnOK
<1>3. /\ accepted \subseteq accepted' /\ accepted' \subseteq Entry
      /\ unsettled \subseteq unsettled' /\ unsettled' \subseteq Recipient
  BY <1>0, <1>1, <1>2 DEF TypeOK, Entry
<1>4. TypeOK'
  <2>1. /\ pc' \in [Proc -> Step] /\ item' \in [Proc -> Item \cup {None}]
        /\ failure' \in [Proc -> StoreError] /\ result' \in [Proc -> Outcome]
    BY <1>0, <1>1 DEF TypeOK, Step, StoreError, Outcome
  <2> QED BY <1>0, <1>1, <1>3, <2>1 DEF TypeOK, Quiet
<1>5. pc'[p] = "idle" /\ item'[p] = None /\ result'[p] = r
  BY <1>0, <1>1 DEF TypeOK
<1>6. \A q \in Proc \ {p} : /\ OwnOK(q)' /\ StepOK(q)' /\ pc'[q] = pc[q] /\ item'[q] = item[q]
                            /\ result'[q] = result[q]
  <2>1. At(p, "idle", None)
    BY <1>1, <1>4 DEF At, TypeOK
  <2>2. "idle" \in Step
    BY DEF Step
  <2> QED BY <1>0, <1>1, <1>3, <2>1, <2>2, QuietOthers DEF TypeOK
<1>7. PathsOK'
  BY <1>0, <1>5, <1>6 DEF PathsOK, Quiet
<1>8. OwnOK(p)' /\ StepOK(p)'
  <2>1. OwnOK(p)'
    <3>1. \A i \in items : i.path # None
      BY <1>0, DistinctAssumption DEF TypeOK, Stored
    <3> QED BY <1>0, <1>3, <1>5, <3>1 DEF OwnOK, Quiet
  <2>2. StepOK(p)'
    BY <1>5 DEF StepOK, Comparing, Cleaning
  <2> QED BY <2>1, <2>2
\* What an entry that is accepted now shares with the items and with the entries
\* accepted before.
<1>9. ASSUME r = "Ok", op[p] = "create"
      PROVE  /\ \E i \in items : i.recipient = request[p].recipient /\ i.value = request[p].secret
             /\ \A e \in accepted : Live(e) /\ e.recipient = request[p].recipient => e = request[p]
             /\ \A q \in Proc, j \in items :
                    pc[q] \in Comparing /\ Holds(q, j) /\ j.recipient = request[p].recipient
                        => j.value = request[p].secret
  <2>1. PICK i \in items :
            /\ i.recipient = request[p].recipient /\ i.value = request[p].secret
            /\ Found(request[p].recipient) = {i} \/ (pc[p] \in Comparing /\ Holds(p, i))
    BY <1>9
  <2>2. ASSUME NEW e \in accepted, Live(e), e.recipient = request[p].recipient
        PROVE  e = request[p]
    <3>1. PICK j \in items : j.recipient = e.recipient /\ j.value = e.secret
      BY <1>0, <2>2 DEF AcceptedIsKept, AcceptedIsStored, Live
    <3>2. i.value = e.secret
      BY <1>0, <2>1, <2>2, <3>1 DEF Found, ComparedOK
    <3>3. e \in Entry /\ request[p] \in Entry /\ e.secret = request[p].secret
      BY <1>0, <1>2, <1>9, <2>1, <3>2 DEF TypeOK
    <3> QED BY <2>2, <3>3, SameEntry
  <2>3. ASSUME NEW q \in Proc, NEW j \in items, pc[q] \in Comparing, Holds(q, j),
               j.recipient = request[p].recipient
        PROVE  j.value = request[p].secret
    BY <1>0, <2>1, <2>3 DEF Found, ComparedOK
  <2> QED BY <2>1, <2>2, <2>3
<1>10. ComparedOK'
  <2> SUFFICES ASSUME NEW q \in Proc, pc'[q] \in Comparing, NEW i \in items, i.path = item'[q]
               PROVE  /\ \A t \in Proc, j \in items :
                            pc'[t] \in Comparing /\ j.path = item'[t]
                                /\ j.recipient = i.recipient => j = i
                      /\ \A e \in accepted' : Live(e) /\ e.recipient = i.recipient
                            => i.value = e.secret
    BY DEF ComparedOK, Holds, Quiet, Live
  <2>1. \A t \in Proc : pc'[t] \in Comparing => pc[t] \in Comparing /\ item'[t] = item[t]
    BY <1>5, <1>6 DEF Comparing
  <2>2. pc[q] \in Comparing /\ Holds(q, i)
    BY <2>1 DEF Holds
  <2>3. \A t \in Proc, j \in items :
            pc'[t] \in Comparing /\ j.path = item'[t] /\ j.recipient = i.recipient => j = i
    BY <1>0, <2>1, <2>2 DEF ComparedOK, Holds
  <2>4. ASSUME NEW e \in accepted', Live(e), e.recipient = i.recipient
        PROVE  i.value = e.secret
    BY <1>0, <1>1, <1>9, <2>2, <2>4 DEF ComparedOK
  <2> QED BY <2>3, <2>4
<1>11. PairsOK'
  <2> SUFFICES ASSUME NEW i \in items, NEW j \in items, i # j, i.recipient = j.recipient,
                      i.recipient \notin unsettled'
               PROVE  \E q \in Proc : /\ pc'[q] \in Cleaning \cup {"reconcile"}
                                      /\ made[q] \in {i.path, j.path}
    BY DEF PairsOK, Quiet
  <2>1. PICK q \in Proc : pc[q] \in Cleaning \cup {"reconcile"} /\ made[q] \in {i.path, j.path}
    BY <1>0, <1>3 DEF PairsOK
  <2>2. CASE q = p
    <3>1. ~NoPairs(p)
      BY <2>1, <2>2 DEF NoPairs
    <3>2. op[p] = "create" /\ r \in {"Ambiguous", "StateUncertain"}
      BY <1>0, <2>1, <2>2, <3>1 DEF StepOK
    <3>3. i.recipient = request[p].recipient
      BY <1>0, <2>1, <2>2 DEF OwnOK
    <3> QED BY <1>1, <3>2, <3>3
  <2>3. CASE q # p
    BY <1>6, <2>1, <2>3
  <2> QED BY <2>2, <2>3
<1>12. AcceptedIsKept'
  <2>1. AcceptedIsStored'
    BY <1>0, <1>1, <1>9 DEF AcceptedIsKept, AcceptedIsStored, Quiet
  <2>2. NoSecondSecret'
    BY <1>0, <1>1, <1>9 DEF AcceptedIsKept, NoSecondSecret, Live, Quiet
  <2> QED BY <2>1, <2>2 DEF AcceptedIsKept
<1>13. LoadReturnsAccepted'
  BY <1>0, <1>1 DEF LoadReturnsAccepted, Quiet
<1>14. AnswersAreDefinite'
  <2>1. CreateErrorIsDefinite'
    BY <1>0, <1>5, <1>6 DEF AnswersAreDefinite, CreateErrorIsDefinite, Quiet
  <2>2. RemoveIsComplete'
    <3> SUFFICES ASSUME NEW q \in Proc, result'[q] \in {"Removed", "Absent"}, NEW i \in items
                 PROVE  i.path \notin before[q]
      BY DEF RemoveIsComplete, Quiet
    <3>1. CASE q = p
      BY <1>0, <1>5, <3>1 DEF OwnOK, Found
    <3>2. CASE q # p
      BY <1>0, <1>6, <3>2 DEF AnswersAreDefinite, RemoveIsComplete
    <3> QED BY <3>1, <3>2
  <2>3. RemoveErrorIsDefinite'
    BY <1>0, <1>5, <1>6 DEF AnswersAreDefinite, RemoveErrorIsDefinite, Quiet
  <2> QED BY <2>1, <2>2, <2>3 DEF AnswersAreDefinite
<1> QED BY <1>4, <1>6, <1>7, <1>8, <1>10, <1>11, <1>12, <1>13, <1>14 DEF IInv

\* A load of p ends with the secret of the item that was found.
LEMMA LoadKeeps ==
    ASSUME IInv, NEW p \in Proc, NEW i \in items,
           pc[p] = "compare", op[p] = "load", Holds(p, i), i.value \in Secret,
           Quiet, ReturnSecret(p, i.value)
    PROVE  IInv'
<1>0. /\ TypeOK /\ PathsOK /\ ComparedOK /\ PairsOK /\ \A q \in Proc : OwnOK(q) /\ StepOK(q)
      /\ AcceptedIsKept /\ LoadReturnsAccepted /\ AnswersAreDefinite
  BY DEF IInv
<1>1. /\ pc' = [pc EXCEPT ![p] = "idle"] /\ item' = [item EXCEPT ![p] = None]
      /\ failure' = [failure EXCEPT ![p] = "Failed"]
      /\ result' = [result EXCEPT ![p] = "Ok"]
      /\ loaded' = [loaded EXCEPT ![p] = i.value]
      /\ UNCHANGED <<accepted, unsettled>>
  BY DEF ReturnSecret, Idle
<1>2. TypeOK'
  <2>1. /\ pc' \in [Proc -> Step] /\ item' \in [Proc -> Item \cup {None}]
        /\ failure' \in [Proc -> StoreError] /\ result' \in [Proc -> Outcome]
        /\ loaded' \in [Proc -> Secret \cup {None}]
    BY <1>0, <1>1 DEF TypeOK, Step, StoreError, Outcome
  <2> QED BY <1>0, <1>1, <2>1 DEF TypeOK, Quiet
<1>3. pc'[p] = "idle" /\ item'[p] = None /\ result'[p] = "Ok" /\ loaded'[p] = i.value
  BY <1>0, <1>1 DEF TypeOK
<1>4. \A q \in Proc \ {p} : /\ OwnOK(q)' /\ StepOK(q)' /\ pc'[q] = pc[q] /\ item'[q] = item[q]
                            /\ result'[q] = result[q] /\ loaded'[q] = loaded[q]
  <2>1. At(p, "idle", None)
    BY <1>1, <1>2 DEF At, TypeOK
  <2>2. "idle" \in Step
    BY DEF Step
  <2> QED BY <1>0, <1>1, <2>1, <2>2, QuietOthers DEF TypeOK
<1>5. PathsOK'
  BY <1>0, <1>3, <1>4 DEF PathsOK, Quiet
<1>6. OwnOK(p)' /\ StepOK(p)'
  <2>1. \A j \in items : j.path # None
    BY <1>0, DistinctAssumption DEF TypeOK, Stored
  <2>2. OwnOK(p)'
    BY <1>0, <1>1, <1>3, <2>1 DEF OwnOK, Quiet
  <2>3. StepOK(p)'
    BY <1>3 DEF StepOK, Comparing, Cleaning
  <2> QED BY <2>2, <2>3
<1>7. ComparedOK'
  <2>1. \A t \in Proc : pc'[t] \in Comparing => pc[t] \in Comparing /\ item'[t] = item[t]
    BY <1>3, <1>4 DEF Comparing
  <2> QED BY <1>0, <1>1, <2>1 DEF ComparedOK, Holds, Live, Quiet
<1>8. PairsOK'
  <2>1. \A q \in Proc : pc[q] \in Cleaning \cup {"reconcile"} => pc'[q] = pc[q]
    BY <1>3, <1>4 DEF Cleaning
  <2> QED BY <1>0, <1>1, <2>1 DEF PairsOK, Quiet
<1>9. AcceptedIsKept'
  BY <1>0, <1>1 DEF AcceptedIsKept, AcceptedIsStored, NoSecondSecret, Quiet
<1>10. LoadReturnsAccepted'
  <2> SUFFICES ASSUME NEW q \in Proc, loaded'[q] # None, NEW e \in known[q],
                      e.recipient = request[q].recipient, Live(e)
               PROVE  e.secret = loaded'[q]
    BY DEF LoadReturnsAccepted, Quiet, Live
  <2>1. CASE q = p
    <3>1. e \in accepted /\ i.recipient = request[p].recipient
      BY <1>0, <2>1 DEF OwnOK, Holds
    <3>2. i.value = e.secret
      BY <1>0, <2>1, <3>1 DEF ComparedOK, Comparing
    <3> QED BY <1>3, <2>1, <3>2
  <2>2. CASE q # p
    BY <1>0, <1>4, <2>2 DEF LoadReturnsAccepted, Live
  <2> QED BY <2>1, <2>2
<1>11. AnswersAreDefinite'
  BY <1>0, <1>3, <1>4 DEF AnswersAreDefinite, CreateErrorIsDefinite, RemoveIsComplete,
                          RemoveErrorIsDefinite, Quiet
<1> QED BY <1>2, <1>4, <1>5, <1>6, <1>7, <1>8, <1>9, <1>10, <1>11 DEF IInv

\* A process that dies leaves what it was doing unsettled.
LEMMA CrashKeeps ==
    ASSUME IInv, NEW p \in Proc, Crash(p)
    PROVE  IInv'
<1>0. /\ TypeOK /\ PathsOK /\ ComparedOK /\ PairsOK /\ \A q \in Proc : OwnOK(q) /\ StepOK(q)
      /\ AcceptedIsKept /\ LoadReturnsAccepted /\ AnswersAreDefinite
  BY DEF IInv
<1>1. /\ pc' = [pc EXCEPT ![p] = "idle"] /\ item' = [item EXCEPT ![p] = None]
      /\ failure' = [failure EXCEPT ![p] = "Failed"]
      /\ result' = [result EXCEPT ![p] = "Crashed"]
      /\ UNCHANGED <<loaded, accepted>> /\ Quiet
      /\ unsettled' = unsettled \cup {r \in {request[p].recipient} : op[p] = "create"}
  BY DEF Crash, Idle, Quiet
<1>2. TypeOK'
  <2>1. /\ pc' \in [Proc -> Step] /\ item' \in [Proc -> Item \cup {None}]
        /\ failure' \in [Proc -> StoreError] /\ result' \in [Proc -> Outcome]
    BY <1>0, <1>1 DEF TypeOK, Step, StoreError, Outcome
  <2>2. unsettled' \subseteq Recipient
    BY <1>0, <1>1 DEF TypeOK, OwnOK, Entry
  <2> QED BY <1>0, <1>1, <2>1, <2>2 DEF TypeOK, Quiet
<1>3. pc'[p] = "idle" /\ item'[p] = None /\ result'[p] = "Crashed"
  BY <1>0, <1>1 DEF TypeOK
<1>4. \A q \in Proc \ {p} : /\ OwnOK(q)' /\ StepOK(q)' /\ pc'[q] = pc[q] /\ item'[q] = item[q]
                            /\ result'[q] = result[q]
  <2>1. At(p, "idle", None)
    BY <1>1, <1>2 DEF At, TypeOK
  <2>2. "idle" \in Step
    BY DEF Step
  <2> QED BY <1>0, <1>1, <2>1, <2>2, QuietOthers DEF TypeOK
<1>5. PathsOK'
  BY <1>0, <1>1, <1>3, <1>4 DEF PathsOK, Quiet
<1>6. OwnOK(p)' /\ StepOK(p)'
  <2>1. \A j \in items : j.path # None
    BY <1>0, DistinctAssumption DEF TypeOK, Stored
  <2>2. OwnOK(p)'
    BY <1>0, <1>1, <1>3, <2>1 DEF OwnOK, Quiet
  <2>3. StepOK(p)'
    BY <1>3 DEF StepOK, Comparing, Cleaning
  <2> QED BY <2>2, <2>3
<1>7. ComparedOK'
  <2>1. \A t \in Proc : pc'[t] \in Comparing => pc[t] \in Comparing /\ item'[t] = item[t]
    BY <1>3, <1>4 DEF Comparing
  <2> QED BY <1>0, <1>1, <2>1 DEF ComparedOK, Holds, Live, Quiet
<1>8. PairsOK'
  <2> SUFFICES ASSUME NEW i \in items, NEW j \in items, i # j, i.recipient = j.recipient,
                      i.recipient \notin unsettled'
               PROVE  \E q \in Proc : /\ pc'[q] \in Cleaning \cup {"reconcile"}
                                      /\ made[q] \in {i.path, j.path}
    BY <1>1 DEF PairsOK, Quiet
  <2>1. PICK q \in Proc : pc[q] \in Cleaning \cup {"reconcile"} /\ made[q] \in {i.path, j.path}
    BY <1>0, <1>1 DEF PairsOK
  <2>2. CASE q = p
    <3>1. op[p] = "create" /\ i.recipient = request[p].recipient
      BY <1>0, <2>1, <2>2 DEF OwnOK, StepOK
    <3> QED BY <1>1, <3>1
  <2>3. CASE q # p
    BY <1>4, <2>1, <2>3
  <2> QED BY <2>2, <2>3
<1>9. AcceptedIsKept' /\ LoadReturnsAccepted'
  BY <1>0, <1>1 DEF AcceptedIsKept, AcceptedIsStored, NoSecondSecret, LoadReturnsAccepted, Quiet
<1>10. AnswersAreDefinite'
  <2>1. \A q \in Proc \ {p} : pc'[q] = pc[q] /\ result'[q] = result[q]
    BY <1>4
  <2>2. result'[p] \notin StoreError \cup {"Removed", "Absent"}
    BY <1>3 DEF StoreError
  <2> QED BY <1>0, <1>1, <2>1, <2>2 DEF AnswersAreDefinite, CreateErrorIsDefinite,
                                        RemoveIsComplete, RemoveErrorIsDefinite, Quiet
<1> QED BY <1>2, <1>4, <1>5, <1>6, <1>7, <1>8, <1>9, <1>10 DEF IInv

-----------------------------------------------------------------------------
(***************************************************************************)
(* Steps that begin an operation, and that add or delete an item.          *)
(***************************************************************************)

LEMMA BeginKeeps ==
    ASSUME IInv, NEW p \in Proc, Begin(p)
    PROVE  IInv'
<1>0. /\ TypeOK /\ PathsOK /\ ComparedOK /\ PairsOK /\ \A q \in Proc : OwnOK(q) /\ StepOK(q)
      /\ AcceptedIsKept /\ LoadReturnsAccepted /\ AnswersAreDefinite
  BY DEF IInv
<1>1. PICK r \in Recipient, o \in Operation :
        /\ op' = [op EXCEPT ![p] = o]
        /\ \E s \in IF o = "create" THEN Secret ELSE {None} :
              request' = [request EXCEPT ![p] = [recipient |-> r, secret |-> s]]
        /\ before' = [before EXCEPT ![p] = {i.path : i \in Found(r)}]
  BY DEF Begin
<1>2. PICK s \in IF o = "create" THEN Secret ELSE {None} :
        request' = [request EXCEPT ![p] = [recipient |-> r, secret |-> s]]
  BY <1>1
<1>3. /\ pc' = [pc EXCEPT ![p] = "search"] /\ item' = [item EXCEPT ![p] = None]
      /\ result' = [result EXCEPT ![p] = "none"] /\ loaded' = [loaded EXCEPT ![p] = None]
      /\ made' = [made EXCEPT ![p] = None] /\ acted' = [acted EXCEPT ![p] = FALSE]
      /\ known' = [known EXCEPT ![p] = accepted]
      /\ pc[p] = "idle"
      /\ UNCHANGED <<items, failure, used, accepted, withdrawn, undone, unsettled>>
  BY DEF Begin
<1>4. TypeOK'
  <2>1. /\ pc' \in [Proc -> Step] /\ result' \in [Proc -> Outcome]
        /\ op' \in [Proc -> Operation] /\ item' \in [Proc -> Item \cup {None}]
        /\ loaded' \in [Proc -> Secret \cup {None}] /\ made' \in [Proc -> Item \cup {None}]
        /\ acted' \in [Proc -> BOOLEAN] /\ known' \in [Proc -> SUBSET Entry]
    BY <1>0, <1>1, <1>3 DEF TypeOK, Step, Outcome
  <2>2. request' \in [Proc -> [recipient : Recipient \cup {None}, secret : Secret \cup {None}]]
    BY <1>0, <1>2 DEF TypeOK
  <2>3. {i.path : i \in Found(r)} \subseteq Item
    BY <1>0 DEF TypeOK, Found, Stored
  <2>4. before' \in [Proc -> SUBSET Item]
    BY <1>0, <1>1, <2>3 DEF TypeOK
  <2> QED BY <1>0, <1>3, <2>1, <2>2, <2>4 DEF TypeOK
<1>5. /\ pc'[p] = "search" /\ op'[p] = o /\ item'[p] = None /\ result'[p] = "none"
      /\ loaded'[p] = None /\ made'[p] = None /\ ~acted'[p] /\ known'[p] = accepted
      /\ request'[p] = [recipient |-> r, secret |-> s]
      /\ before'[p] = {i.path : i \in Found(r)}
  BY <1>0, <1>1, <1>2, <1>3 DEF TypeOK
<1>6. \A q \in Proc \ {p} :
        /\ pc'[q] = pc[q] /\ op'[q] = op[q] /\ item'[q] = item[q] /\ result'[q] = result[q]
        /\ loaded'[q] = loaded[q] /\ made'[q] = made[q] /\ acted'[q] = acted[q]
        /\ known'[q] = known[q] /\ request'[q] = request[q] /\ before'[q] = before[q]
  BY <1>0, <1>1, <1>2, <1>3 DEF TypeOK
<1>7. \A i \in items : i.path \in Item /\ i.path # None
  BY <1>0, DistinctAssumption DEF TypeOK, Stored
<1>8. PathsOK'
  BY <1>0, <1>3, <1>5, <1>6 DEF PathsOK, Found
<1>9. OwnOK(p)' /\ StepOK(p)'
  <2>1. o = "create" => request'[p] \in Entry
    BY <1>2, <1>5 DEF Entry
  <2>2. \A i \in items : i.path \in before'[p] => i.recipient = r
    BY <1>0, <1>5 DEF PathsOK, Found
  <2>3. OwnOK(p)'
    BY <1>3, <1>5, <1>7, <2>1, <2>2 DEF OwnOK
  <2>4. StepOK(p)'
    BY <1>5 DEF StepOK, Cleaning
  <2> QED BY <2>3, <2>4
<1>10. ASSUME NEW q \in Proc, q # p PROVE OwnOK(q)' /\ StepOK(q)'
  <2>1. OwnOK(q) /\ StepOK(q)
    BY <1>0
  <2>2. OwnOK(q)'
    BY <1>3, <1>6, <1>10, <2>1 DEF OwnOK
  <2>3. StepOK(q)'
    BY <1>3, <1>6, <1>10, <2>1 DEF StepOK, Holds
  <2> QED BY <2>2, <2>3
<1>11. ComparedOK'
  <2>1. \A t \in Proc : pc'[t] \in Comparing => pc[t] \in Comparing /\ item'[t] = item[t]
    BY <1>5, <1>6 DEF Comparing
  <2> QED BY <1>0, <1>3, <2>1 DEF ComparedOK, Holds, Live
<1>12. PairsOK'
  <2>1. \A q \in Proc : pc[q] \in Cleaning \cup {"reconcile"}
                            => pc'[q] = pc[q] /\ made'[q] = made[q]
    BY <1>3, <1>6 DEF Cleaning
  <2> QED BY <1>0, <1>3, <2>1 DEF PairsOK
<1>13. AcceptedIsKept' /\ LoadReturnsAccepted'
  BY <1>0, <1>3, <1>5, <1>6
     DEF AcceptedIsKept, AcceptedIsStored, NoSecondSecret, LoadReturnsAccepted
<1>14. AnswersAreDefinite'
  BY <1>0, <1>3, <1>5, <1>6 DEF AnswersAreDefinite, CreateErrorIsDefinite,
                                RemoveIsComplete, RemoveErrorIsDefinite
<1> QED BY <1>4, <1>8, <1>9, <1>10, <1>11, <1>12, <1>13, <1>14 DEF IInv

\* The service stores an item under a new path, or none, and p learns of it or
\* has to ask.
LEMMA AddKeeps ==
    ASSUME IInv, NEW p \in Proc, AddItem(p)
    PROVE  IInv'
<1>0. /\ TypeOK /\ PathsOK /\ ComparedOK /\ PairsOK /\ \A q \in Proc : OwnOK(q) /\ StepOK(q)
      /\ AcceptedIsKept /\ LoadReturnsAccepted /\ AnswersAreDefinite
  BY DEF IInv
<1>1. PICK new \in (Item \ used) \cup {None}, value \in {request[p].secret, Damaged},
           status \in {"ok", "lost", "refused"} :
        /\ status = "ok" => new # None
        /\ items' = items \cup {[path |-> j, recipient |-> request[p].recipient,
                                 value |-> value] : j \in {new} \ {None}}
        /\ used' = used \cup ({new} \ {None})
        /\ made' = [made EXCEPT ![p] = new]
        /\ \/ status = "ok" /\ GotoItem(p, "readback", new)
           \/ status # "ok" /\ Goto(p, "reconcile")
  BY DEF AddItem
<1>2. /\ pc[p] = "add"
      /\ UNCHANGED <<failure, result, loaded, accepted, unsettled>>
      /\ UNCHANGED <<op, request, withdrawn, undone, acted, before, known>>
  BY <1>1 DEF AddItem, Goto, GotoItem
<1>3. PICK s \in {"readback", "reconcile"}, path \in Item \cup {None} :
        /\ pc' = [pc EXCEPT ![p] = s] /\ item' = [item EXCEPT ![p] = path]
        /\ s = "readback" => path = new /\ new # None
        /\ s = "reconcile" => path = item[p]
  BY <1>0, <1>1 DEF Goto, GotoItem, TypeOK
<1>4. op[p] = "create" /\ request[p] \in Entry /\ made[p] = None
  BY <1>0, <1>2 DEF OwnOK, StepOK
<1>5. items' \subseteq Stored
  BY <1>0, <1>1, <1>4 DEF TypeOK, Stored, Value, Entry
<1>6. \A i \in items' : i \in items \/ (/\ i.path = new /\ new \notin used /\ new # None
                                       /\ i.recipient = request[p].recipient
                                       /\ i.value \in {request[p].secret, Damaged})
  BY <1>1
<1>7. /\ items \subseteq items' /\ used \subseteq used' /\ {new} \ {None} \subseteq used'
      /\ \A i, j \in items' : i \notin items /\ j \notin items => i = j
      /\ \A i \in items : i.path \in used /\ i.path # None
  BY <1>0, <1>1, DistinctAssumption DEF PathsOK, TypeOK, Stored
<1>8. TypeOK'
  <2>1. used' \subseteq Item /\ made' \in [Proc -> Item \cup {None}]
        /\ pc' \in [Proc -> Step] /\ item' \in [Proc -> Item \cup {None}]
    BY <1>0, <1>1, <1>3 DEF TypeOK, Step
  <2> QED BY <1>0, <1>2, <1>5, <2>1 DEF TypeOK
<1>9. pc'[p] = s /\ item'[p] = path /\ made'[p] = new
  BY <1>0, <1>1, <1>3 DEF TypeOK
<1>10. \A q \in Proc \ {p} : pc'[q] = pc[q] /\ item'[q] = item[q] /\ made'[q] = made[q]
  BY <1>0, <1>1, <1>3 DEF TypeOK
<1>11. PathsOK'
  <2>1. \A i \in items' : i.path \in used'
    BY <1>1, <1>6, <1>7
  <2>2. \A i, j \in items' : i.path = j.path => i = j
    BY <1>0, <1>6, <1>7 DEF PathsOK
  <2>3. \A q \in Proc : ({made'[q], item'[q]} \ {None}) \cup before[q] \subseteq used'
    BY <1>0, <1>3, <1>7, <1>9, <1>10 DEF PathsOK
  <2> QED BY <1>2, <2>1, <2>2, <2>3 DEF PathsOK
\* No operation but p has the new path.
<1>12. ASSUME NEW q \in Proc, NEW i \in items', i \notin items
       PROVE  /\ i.path \notin before[q]
              /\ q # p => i.path \notin {made'[q], item'[q]}
  <2>1. i.path = new /\ new \notin used /\ new # None
    BY <1>6, <1>12
  <2>2. ({made[q], item[q]} \ {None}) \cup before[q] \subseteq used
    BY <1>0 DEF PathsOK
  <2> QED BY <1>10, <2>1, <2>2
<1>13. OwnOK(p)'
  <2>1. OwnOK(p)
    BY <1>0
  <2>2. \A i \in items' : i.path \in {new, path} \cup before[p] => i.recipient = request[p].recipient
    <3> SUFFICES ASSUME NEW i \in items', i.path \in {new, path} \cup before[p], i \in items
                 PROVE  i.recipient = request[p].recipient
      BY <1>6
    <3>1. i.path \in {item[p]} \cup before[p]
      BY <1>3, <1>7
    <3> QED BY <2>1, <3>1 DEF OwnOK
  <2>3. \A i \in items' : i.path = new => i.value \in {request[p].secret, Damaged}
    BY <1>6, <1>7
  <2> QED BY <1>2, <1>4, <1>9, <2>1, <2>2, <2>3 DEF OwnOK
<1>14. StepOK(p)'
  BY <1>2, <1>3, <1>4, <1>9 DEF StepOK, Cleaning
<1>15. ASSUME NEW q \in Proc, q # p PROVE OwnOK(q)' /\ StepOK(q)'
  <2>1. OwnOK(q) /\ StepOK(q)
    BY <1>0
  <2>2. OwnOK(q)'
    BY <1>2, <1>10, <1>12, <1>15, <2>1 DEF OwnOK
  <2>3. StepOK(q)'
    BY <1>2, <1>10, <1>12, <1>15, <2>1 DEF StepOK, Holds
  <2> QED BY <2>2, <2>3
<1>16. ComparedOK'
  <2>1. \A t \in Proc, i \in items' : pc'[t] \in Comparing /\ i.path = item'[t]
            => pc[t] \in Comparing /\ item'[t] = item[t] /\ i \in items
    <3>1. \A t \in Proc : pc'[t] \in Comparing => t # p
      BY <1>9 DEF Comparing
    <3> QED BY <1>10, <1>12, <3>1
  <2> QED BY <1>0, <1>2, <2>1 DEF ComparedOK, Holds, Live
<1>17. PairsOK'
  <2> SUFFICES ASSUME NEW i \in items', NEW j \in items', i # j, i.recipient = j.recipient,
                      i.recipient \notin unsettled
               PROVE  \E q \in Proc : /\ pc'[q] \in Cleaning \cup {"reconcile"}
                                      /\ made'[q] \in {i.path, j.path}
    BY <1>2 DEF PairsOK
  <2>1. CASE i \in items /\ j \in items
    <3>1. PICK q \in Proc : pc[q] \in Cleaning \cup {"reconcile"} /\ made[q] \in {i.path, j.path}
      BY <1>0, <2>1 DEF PairsOK
    <3>2. q # p
      BY <1>2, <3>1 DEF Cleaning
    <3> QED BY <1>10, <3>1, <3>2
  <2>2. CASE i \notin items \/ j \notin items
    <3>1. made'[p] \in {i.path, j.path}
      BY <1>6, <1>9, <2>2
    <3> QED BY <1>9, <3>1 DEF Cleaning
  <2> QED BY <2>1, <2>2
<1>18. AcceptedIsKept' /\ LoadReturnsAccepted'
  BY <1>0, <1>2, <1>7 DEF AcceptedIsKept, AcceptedIsStored, NoSecondSecret, LoadReturnsAccepted
<1>19. AnswersAreDefinite'
  <2>1. CreateErrorIsDefinite'
    <3> SUFFICES ASSUME NEW q \in Proc, pc'[q] = "idle", op[q] = "create",
                        result[q] \in StoreError \ {"Ambiguous", "StateUncertain"},
                        NEW i \in items', i.path = made'[q]
                 PROVE  i.value = Damaged /\ result[q] = "Corrupt"
      BY <1>2 DEF CreateErrorIsDefinite
    <3>1. q # p
      BY <1>9
    <3>2. i \in items
      BY <1>12, <3>1
    <3> QED BY <1>0, <1>10, <3>1, <3>2 DEF AnswersAreDefinite, CreateErrorIsDefinite
  <2>2. RemoveIsComplete'
    BY <1>0, <1>2, <1>12 DEF AnswersAreDefinite, RemoveIsComplete
  <2>3. RemoveErrorIsDefinite'
    <3>1. \A q \in Proc : pc'[q] = "idle" => pc[q] = "idle"
      BY <1>9, <1>10
    <3> QED BY <1>0, <1>2, <3>1 DEF AnswersAreDefinite, RemoveErrorIsDefinite
  <2> QED BY <2>1, <2>2, <2>3 DEF AnswersAreDefinite
<1> QED BY <1>8, <1>11, <1>13, <1>14, <1>15, <1>16, <1>17, <1>18, <1>19 DEF IInv

\* The service deletes the item of p, or not.  What p deletes it takes back, or
\* it is a removal.
LEMMA DeleteKeeps ==
    ASSUME IInv, NEW p \in Proc, NEW s \in {"confirm", "settle", "absent"}, NEW acts \in BOOLEAN,
           pc[p] # "idle",
           items' = {i \in items : acts => i.path # item[p]},
           pc' = [pc EXCEPT ![p] = s],
           UNCHANGED <<item, failure, result, loaded, accepted, unsettled>>,
           UNCHANGED <<op, request, used, made, before, known>>,
           withdrawn \subseteq withdrawn', withdrawn' \subseteq Recipient,
           undone \subseteq undone', undone' \subseteq Entry,
           acted' \in [Proc -> BOOLEAN], \A q \in Proc \ {p} : acted'[q] = acted[q],
           acts => \/ request[p].recipient \in withdrawn'
                   \/ request[p] \in undone' /\ op[p] = "create" /\ item[p] = made[p],
           StepOK(p)',
           pc[p] \in Cleaning \cup {"reconcile"} => s = "confirm"
    PROVE  IInv'
<1>0. /\ TypeOK /\ PathsOK /\ ComparedOK /\ PairsOK /\ \A q \in Proc : OwnOK(q) /\ StepOK(q)
      /\ AcceptedIsKept /\ LoadReturnsAccepted /\ AnswersAreDefinite
  BY DEF IInv
<1>1. items' \subseteq items
  OBVIOUS
<1>2. TypeOK'
  <2>1. pc' \in [Proc -> Step]
    BY <1>0 DEF TypeOK, Step
  <2> QED BY <1>0, <1>1, <2>1 DEF TypeOK
<1>3. pc'[p] = s /\ \A q \in Proc \ {p} : pc'[q] = pc[q]
  BY <1>0 DEF TypeOK
<1>4. \A e : Live(e)' => Live(e)
  BY DEF Live
<1>5. PathsOK'
  BY <1>0, <1>1 DEF PathsOK
<1>6. \A q \in Proc : OwnOK(q)'
  BY <1>0, <1>1 DEF OwnOK
<1>7. \A q \in Proc \ {p} : StepOK(q)'
  BY <1>0, <1>1, <1>3 DEF StepOK, Holds
<1>8. ComparedOK'
  <2>1. \A t \in Proc : pc'[t] \in Comparing => pc[t] \in Comparing
    BY <1>3 DEF Comparing
  <2> QED BY <1>0, <1>1, <1>4, <2>1 DEF ComparedOK, Holds
<1>9. PairsOK'
  <2>1. \A q \in Proc : pc[q] \in Cleaning \cup {"reconcile"} => pc'[q] \in Cleaning \cup {"reconcile"}
    BY <1>3 DEF Cleaning
  <2> QED BY <1>0, <1>1, <2>1 DEF PairsOK
<1>10. AcceptedIsKept'
  <2>1. AcceptedIsStored'
    <3> SUFFICES ASSUME NEW e \in accepted, Live(e)'
                 PROVE  \E i \in items' : i.recipient = e.recipient /\ i.value = e.secret
      BY DEF AcceptedIsStored, Live
    <3>1. PICK i \in items : i.recipient = e.recipient /\ i.value = e.secret
      BY <1>0, <1>4 DEF AcceptedIsKept, AcceptedIsStored, Live
    <3>2. ASSUME acts, i.path = item[p] PROVE FALSE
      <4>1. i.recipient = request[p].recipient
        BY <1>0, <3>2 DEF OwnOK
      <4>2. request[p] \in undone' /\ op[p] = "create" /\ i.path = made[p]
        BY <3>1, <3>2, <4>1 DEF Live
      <4>3. e \in Entry /\ request[p] \in Entry /\ i.value \in {request[p].secret, Damaged}
        BY <1>0, <4>2 DEF TypeOK, OwnOK
      <4>4. e.secret # Damaged
        BY <4>3, DistinctAssumption DEF Entry
      <4>5. e = request[p]
        BY <3>1, <4>1, <4>3, <4>4, SameEntry
      <4> QED BY <4>2, <4>5 DEF Live
    <3> QED BY <3>1, <3>2
  <2>2. NoSecondSecret'
    BY <1>0 DEF AcceptedIsKept, NoSecondSecret
  <2> QED BY <2>1, <2>2 DEF AcceptedIsKept
<1>11. LoadReturnsAccepted'
  BY <1>0 DEF LoadReturnsAccepted
<1>12. AnswersAreDefinite'
  <2>1. \A q \in Proc : pc'[q] = "idle" => pc[q] = "idle" /\ acted'[q] = acted[q]
    BY <1>3
  <2> QED BY <1>0, <1>1, <2>1 DEF AnswersAreDefinite, CreateErrorIsDefinite,
                                  RemoveIsComplete, RemoveErrorIsDefinite
<1> QED BY <1>2, <1>5, <1>6, <1>7, <1>8, <1>9, <1>10, <1>11, <1>12 DEF IInv

-----------------------------------------------------------------------------
(***************************************************************************)
(* The calls.                                                              *)
(***************************************************************************)

\* A search that found one item, and one that found several.
LEMMA FoundOne ==
    ASSUME NEW r, NEW i \in items, Found(r) = {i}
    PROVE  i.recipient = r /\ \A j \in items : j.recipient = r => j = i
BY DEF Found

LEMMA FoundMany ==
    ASSUME NEW r, Cardinality(Found(r)) > 1
    PROVE  \E i, j \in items : i # j /\ i.recipient = r /\ j.recipient = r
<1> SUFFICES ASSUME \A i, j \in Found(r) : i = j PROVE FALSE
  BY DEF Found
<1>1. CASE Found(r) = {}
  BY <1>1, FS_EmptySet
<1>2. CASE Found(r) # {}
  <2>1. PICK i : i \in Found(r)
    BY <1>2
  <2>2. Found(r) = {i}
    BY <2>1
  <2>3. Cardinality({i}) = 1
    BY FS_Singleton
  <2> QED BY <2>2, <2>3
<1> QED BY <1>1, <1>2

\* A step to another call moves p there.
LEMMA GotoIsAt ==
    ASSUME TypeOK, NEW p \in Proc, NEW s, NEW path, GotoItem(p, s, path)
    PROVE  At(p, s, path) /\ UNCHANGED <<result, loaded, accepted, unsettled>>
BY DEF GotoItem, At, TypeOK

\* So does the start of a cleanup.
LEMMA RollbackIsAt ==
    ASSUME TypeOK, NEW p \in Proc, NEW error \in StoreError, Rollback(p, error)
    PROVE  At(p, "rollback", item[p]) /\ UNCHANGED <<result, loaded, accepted, unsettled>>
BY DEF Rollback, At, TypeOK

LEMMA SearchKeeps ==
    ASSUME IInv, NEW p \in Proc, Search(p)
    PROVE  IInv'
<1> DEFINE found == Found(request[p].recipient)
<1>0. TypeOK /\ PathsOK /\ OwnOK(p) /\ StepOK(p)
  BY DEF IInv
<1>1. Quiet /\ pc[p] = "search" /\ made[p] = None /\ ~acted[p]
  BY <1>0 DEF Search, Quiet, StepOK
<1>2. \A i \in items : i.path # None /\ i.path \in Item /\ i.path \in used
  BY <1>0, DistinctAssumption DEF TypeOK, Stored, PathsOK
<1>3. \A i \in items : i.path # made[p]
  BY <1>1, <1>2
<1>4. pc[p] \notin Cleaning \cup {"reconcile"} /\ op[p] \in Operation
  BY <1>0, <1>1 DEF Cleaning, TypeOK
<1>5. ASSUME NEW r \in {"Failed", "Missing", "Ambiguous"}, Return(p, r)
      PROVE  IInv'
  BY <1>1, <1>3, <1>4, <1>5, ReturnKeeps DEF StoreError
<1>6. CASE found = {} /\ op[p] = "create" /\ Goto(p, "add")
  <2>1. At(p, "add", item[p]) /\ UNCHANGED <<result, loaded, accepted, unsettled>>
    BY <1>0, <1>6, GotoIsAt DEF Goto
  <2>2. item[p] \in Item \cup {None} /\ "add" \in Step \ {"idle"} /\ "add" \notin Comparing
    BY <1>0 DEF TypeOK, Step, Comparing
  <2>3. item[p] # None => item[p] \in used
    BY <1>0 DEF PathsOK
  <2>4. \A i \in items : i.path = item[p] => i.recipient = request[p].recipient
    BY <1>0 DEF OwnOK
  <2>5. StepOK(p)'
    <3>1. pc'[p] = "add"
      BY <1>0, <2>1 DEF At, TypeOK
    <3> QED BY <1>1, <1>6, <3>1 DEF StepOK, Cleaning, Quiet
  <2> QED BY <1>1, <1>4, <2>1, <2>2, <2>3, <2>4, <2>5, MoveKeeps
<1>7. CASE found = {} /\ op[p] = "remove" /\ Return(p, "Absent")
  BY <1>1, <1>4, <1>7, ReturnKeeps DEF StoreError
<1>8. ASSUME NEW i \in found, found = {i},
             GotoItem(p, IF op[p] = "remove" THEN "delete" ELSE "compare", i.path)
      PROVE  IInv'
  <2> DEFINE s == IF op[p] = "remove" THEN "delete" ELSE "compare"
  <2>1. At(p, s, i.path) /\ UNCHANGED <<result, loaded, accepted, unsettled>>
    BY <1>0, <1>8, GotoIsAt
  <2>2. i \in items /\ i.recipient = request[p].recipient
    BY <1>8 DEF Found
  <2>3. i.path \in Item \cup {None} /\ s \in Step \ {"idle"} /\ i.path \in used
    BY <1>2, <2>2 DEF Step
  <2>4. \A j \in items : j.path = i.path => j = i
    BY <1>0, <2>2 DEF PathsOK
  <2>5. StepOK(p)'
    <3>1. pc'[p] = s
      BY <1>0, <2>1 DEF At, TypeOK
    <3> QED BY <1>1, <3>1 DEF StepOK, Cleaning, Quiet
  <2> HIDE DEF s
  <2> QED BY <1>1, <1>4, <1>8, <2>1, <2>2, <2>3, <2>4, <2>5, MoveKeeps
<1> QED
  BY <1>5, <1>6, <1>7, <1>8 DEF Search

LEMMA CompareKeeps ==
    ASSUME IInv, NEW p \in Proc, CompareExisting(p)
    PROVE  IInv'
<1>0. TypeOK /\ PathsOK /\ OwnOK(p) /\ StepOK(p)
  BY DEF IInv
<1>1. Quiet /\ pc[p] = "compare" /\ made[p] = None /\ op[p] # "remove"
  BY <1>0 DEF CompareExisting, Quiet, StepOK
<1>2. \A i \in items : i.path # made[p]
  BY <1>0, <1>1, DistinctAssumption DEF TypeOK, Stored
<1>3. pc[p] \notin Cleaning \cup {"reconcile"} /\ pc[p] \in Comparing
  BY <1>1 DEF Cleaning, Comparing
<1>4. ASSUME NEW r \in StoreError, Return(p, r)
      PROVE  IInv'
  BY <1>1, <1>2, <1>3, <1>4, ReturnKeeps DEF StoreError
<1>5. ASSUME NEW i \in items, Holds(p, i), op[p] = "create", i.value = request[p].secret,
             Return(p, "Ok")
      PROVE  IInv'
  <2>1. i.recipient = request[p].recipient
    BY <1>0, <1>5 DEF OwnOK, Holds
  <2> QED BY <1>1, <1>2, <1>3, <1>5, <2>1, ReturnKeeps DEF StoreError
<1>6. ASSUME NEW i \in items, Holds(p, i), op[p] = "load", i.value \in Secret,
             ReturnSecret(p, i.value)
      PROVE  IInv'
  BY <1>1, <1>6, LoadKeeps
<1>7. \A value \in Read(item[p]) : \E i \in items : Holds(p, i) /\ i.value = value
  BY DEF Read, Holds
<1>8. {"Failed", "AlreadyExists", "Corrupt"} \subseteq StoreError
  BY DEF StoreError
<1> QED
  BY <1>4, <1>5, <1>6, <1>7, <1>8 DEF CompareExisting, Compare

LEMMA ReadBackKeeps ==
    ASSUME IInv, NEW p \in Proc, ReadBack(p)
    PROVE  IInv'
<1>0. TypeOK /\ PathsOK /\ OwnOK(p) /\ StepOK(p)
  BY DEF IInv
<1>1. /\ Quiet /\ pc[p] = "readback" /\ op[p] = "create"
      /\ item[p] = made[p] /\ made[p] # None
  BY <1>0 DEF ReadBack, Quiet, StepOK, Cleaning
<1>2. item[p] \in Item \cup {None} /\ item[p] \in used
  BY <1>0, <1>1 DEF TypeOK, PathsOK
<1>3. \A i \in items : i.path = item[p] => i.recipient = request[p].recipient
  BY <1>0 DEF OwnOK
<1>4. ASSUME NEW error \in StoreError, Rollback(p, error)
      PROVE  IInv'
  <2>1. At(p, "rollback", item[p]) /\ UNCHANGED <<result, loaded, accepted, unsettled>>
    BY <1>0, <1>4, RollbackIsAt
  <2>2. "rollback" \in Step \ {"idle"} /\ "rollback" \in Cleaning /\ "rollback" \notin Comparing
    BY DEF Step, Cleaning, Comparing
  <2>3. StepOK(p)'
    <3>1. pc'[p] = "rollback" /\ item'[p] = item[p]
      BY <1>0, <2>1 DEF At, TypeOK
    <3> QED BY <1>1, <3>1 DEF StepOK, Cleaning, Quiet
  <2> QED BY <1>1, <1>2, <1>3, <2>1, <2>2, <2>3, MoveKeeps
<1>5. ASSUME NEW i \in items, Holds(p, i), i.value = request[p].secret, Goto(p, "inventory")
      PROVE  IInv'
  <2>1. At(p, "inventory", item[p]) /\ UNCHANGED <<result, loaded, accepted, unsettled>>
    BY <1>0, <1>5, GotoIsAt DEF Goto
  <2>2. "inventory" \in Step \ {"idle"} /\ "inventory" \in Cleaning /\ "inventory" \notin Comparing
    BY DEF Step, Cleaning, Comparing
  <2>3. StepOK(p)'
    <3>1. pc'[p] = "inventory" /\ item'[p] = item[p]
      BY <1>0, <2>1 DEF At, TypeOK
    <3>2. \A j \in items : j.path = item[p] => j = i
      BY <1>0, <1>5 DEF PathsOK, Holds
    <3> QED BY <1>1, <1>5, <3>1, <3>2 DEF StepOK, Cleaning, Quiet, Holds
  <2> QED BY <1>1, <1>2, <1>3, <2>1, <2>2, <2>3, MoveKeeps
<1>6. \A value \in Read(item[p]) : \E i \in items : Holds(p, i) /\ i.value = value
  BY DEF Read, Holds
<1>7. {"Failed", "Corrupt"} \subseteq StoreError
  BY DEF StoreError
<1> QED BY <1>4, <1>5, <1>6, <1>7 DEF ReadBack

LEMMA InventoryKeeps ==
    ASSUME IInv, NEW p \in Proc, Inventory(p)
    PROVE  IInv'
<1>0. TypeOK /\ PathsOK /\ OwnOK(p) /\ StepOK(p)
  BY DEF IInv
<1>1. /\ Quiet /\ pc[p] = "inventory" /\ op[p] = "create"
      /\ item[p] = made[p] /\ made[p] # None
  BY <1>0 DEF Inventory, Quiet, StepOK, Cleaning
<1>2. item[p] \in Item \cup {None} /\ item[p] \in used
  BY <1>0, <1>1 DEF TypeOK, PathsOK
<1>3. \A i \in items : i.path = item[p] => i.recipient = request[p].recipient
  BY <1>0 DEF OwnOK
<1>4. ASSUME NEW error \in StoreError, Rollback(p, error)
      PROVE  IInv'
  <2>1. At(p, "rollback", item[p]) /\ UNCHANGED <<result, loaded, accepted, unsettled>>
    BY <1>0, <1>4, RollbackIsAt
  <2>2. "rollback" \in Step \ {"idle"} /\ "rollback" \in Cleaning /\ "rollback" \notin Comparing
    BY DEF Step, Cleaning, Comparing
  <2>3. StepOK(p)'
    <3>1. pc'[p] = "rollback" /\ item'[p] = item[p]
      BY <1>0, <2>1 DEF At, TypeOK
    <3> QED BY <1>1, <3>1 DEF StepOK, Cleaning, Quiet
  <2> QED BY <1>1, <1>2, <1>3, <2>1, <2>2, <2>3, MoveKeeps
<1>5. ASSUME {i.path : i \in Found(request[p].recipient)} = {item[p]}, Return(p, "Ok")
      PROVE  IInv'
  <2>1. PICK i \in items : i.recipient = request[p].recipient /\ Holds(p, i)
    BY <1>5 DEF Found, Holds
  <2>2. Found(request[p].recipient) = {i}
    BY <1>0, <1>5, <2>1 DEF Found, Holds, PathsOK
  <2>3. i.value = request[p].secret
    BY <1>0, <1>1, <2>1 DEF StepOK
  <2>4. NoPairs(p)
    BY <1>1, <1>3, <2>1, <2>2 DEF NoPairs, Found
  <2> QED BY <1>1, <1>5, <2>1, <2>2, <2>3, <2>4, ReturnKeeps DEF StoreError
<1>6. {"Failed", "Ambiguous"} \subseteq StoreError
  BY DEF StoreError
<1> QED BY <1>4, <1>5, <1>6 DEF Inventory

LEMMA DeleteCreatedKeeps ==
    ASSUME IInv, NEW p \in Proc, DeleteCreated(p)
    PROVE  IInv'
<1>0. TypeOK /\ OwnOK(p) /\ StepOK(p)
  BY DEF IInv
<1>1. PICK acts \in BOOLEAN :
        /\ items' = {i \in items : acts => i.path # item[p]}
        /\ undone' = undone \cup {e \in {request[p]} : acts}
  BY DEF DeleteCreated
<1>2. /\ pc[p] = "rollback" /\ op[p] = "create" /\ item[p] = made[p] /\ made[p] # None
      /\ request[p] \in Entry
      /\ UNCHANGED <<op, request, used, withdrawn, made, acted, before, known>>
      /\ Goto(p, "confirm")
  BY <1>0 DEF DeleteCreated, StepOK, Cleaning, OwnOK
<1>3. /\ pc' = [pc EXCEPT ![p] = "confirm"] /\ item' = item
      /\ UNCHANGED <<failure, result, loaded, accepted, unsettled>>
  BY <1>0, <1>2 DEF Goto, GotoItem, TypeOK
<1>4. undone \subseteq undone' /\ undone' \subseteq Entry /\ (acts => request[p] \in undone')
  BY <1>0, <1>1, <1>2 DEF TypeOK
<1>5. withdrawn' \subseteq Recipient /\ acted' \in [Proc -> BOOLEAN]
  BY <1>0, <1>2 DEF TypeOK
<1>6. StepOK(p)'
  <2>1. pc'[p] = "confirm"
    BY <1>0, <1>3 DEF TypeOK
  <2> QED BY <1>2, <1>3, <2>1 DEF StepOK, Cleaning
<1> QED BY <1>1, <1>2, <1>3, <1>4, <1>5, <1>6, DeleteKeeps

LEMMA ConfirmRollbackKeeps ==
    ASSUME IInv, NEW p \in Proc, ConfirmRollback(p)
    PROVE  IInv'
<1>0. TypeOK /\ PathsOK /\ OwnOK(p) /\ StepOK(p)
  BY DEF IInv
<1>1. /\ Quiet /\ pc[p] = "confirm" /\ op[p] = "create" /\ item[p] = made[p]
      /\ failure[p] \in StoreError
  BY <1>0 DEF ConfirmRollback, Quiet, StepOK, Cleaning, TypeOK
<1>2. CASE Return(p, "StateUncertain")
  BY <1>1, <1>2, ReturnKeeps DEF StoreError
<1>3. CASE /\ item[p] \notin {i.path : i \in Found(request[p].recipient)}
           /\ Return(p, failure[p])
  <2>1. \A i \in items : i.path # made[p]
    BY <1>0, <1>1, <1>3 DEF Found, OwnOK
  <2>2. NoPairs(p)
    BY <2>1 DEF NoPairs
  <2>3. failure[p] \notin {"Ok", "Removed", "Absent"}
    BY <1>1 DEF StoreError
  <2> QED BY <1>1, <1>3, <2>1, <2>2, <2>3, ReturnKeeps
<1> QED BY <1>2, <1>3 DEF ConfirmRollback

LEMMA ReconcileKeeps ==
    ASSUME IInv, NEW p \in Proc, Reconcile(p)
    PROVE  IInv'
<1> DEFINE found == Found(request[p].recipient)
<1>0. TypeOK /\ PathsOK /\ OwnOK(p) /\ StepOK(p)
  BY DEF IInv
<1>1. Quiet /\ pc[p] = "reconcile" /\ op[p] = "create"
  BY <1>0 DEF Reconcile, Quiet, StepOK
<1>2. ASSUME NEW r \in {"StateUncertain", "Ambiguous"}, Return(p, r)
      PROVE  IInv'
  BY <1>1, <1>2, ReturnKeeps DEF StoreError
<1>3. CASE found = {} /\ Return(p, "Failed")
  <2>1. \A i \in items : i.path # made[p]
    BY <1>0, <1>3 DEF Found, OwnOK
  <2>2. NoPairs(p)
    BY <2>1 DEF NoPairs
  <2> QED BY <1>1, <1>3, <2>1, <2>2, ReturnKeeps DEF StoreError
<1>4. ASSUME NEW i \in found, found = {i}, GotoItem(p, "recompare", i.path)
      PROVE  IInv'
  <2>1. At(p, "recompare", i.path) /\ UNCHANGED <<result, loaded, accepted, unsettled>>
    BY <1>0, <1>4, GotoIsAt
  <2>2. /\ i \in items /\ i.recipient = request[p].recipient
        /\ \A j \in items : j.recipient = request[p].recipient => j = i
    BY <1>4, FoundOne DEF Found
  <2>3. /\ i.path \in Item \cup {None} /\ "recompare" \in Step \ {"idle"} /\ i.path \in used
        /\ \A j \in items : j.path = i.path => j = i
    BY <1>0, <2>2 DEF Step, TypeOK, Stored, PathsOK
  <2>4. \A j \in items : j.path = made[p] => j = i
    BY <1>0, <2>2 DEF OwnOK
  <2>5. StepOK(p)'
    <3>1. pc'[p] = "recompare" /\ item'[p] = i.path
      BY <1>0, <2>1 DEF At, TypeOK
    <3> QED BY <1>1, <2>4, <3>1 DEF StepOK, Cleaning, Quiet, Holds
  <2>6. NoPairs(p)
    BY <2>2, <2>4 DEF NoPairs
  <2> QED BY <1>1, <1>4, <2>1, <2>2, <2>3, <2>5, <2>6, MoveKeeps
<1> QED BY <1>2, <1>3, <1>4 DEF Reconcile

LEMMA CompareReconciledKeeps ==
    ASSUME IInv, NEW p \in Proc, CompareReconciled(p)
    PROVE  IInv'
<1>0. TypeOK /\ PathsOK /\ OwnOK(p) /\ StepOK(p)
  BY DEF IInv
<1>1. /\ Quiet /\ pc[p] = "recompare" /\ op[p] = "create" /\ request[p] \in Entry
      /\ pc[p] \notin Cleaning \cup {"reconcile"} /\ pc[p] \in Comparing
  BY <1>0 DEF CompareReconciled, Quiet, StepOK, OwnOK, Cleaning, Comparing
<1>2. CASE Return(p, "StateUncertain")
  BY <1>1, <1>2, ReturnKeeps DEF StoreError
<1>3. ASSUME NEW i \in items, Holds(p, i), Compare(p, i.value)
      PROVE  IInv'
  <2>1. i.recipient = request[p].recipient
    BY <1>0, <1>3 DEF OwnOK, Holds
  <2>2. \A j \in items : j.path = made[p] =>
            j = i /\ j.value \in {request[p].secret, Damaged}
    BY <1>0, <1>1, <1>3 DEF StepOK, OwnOK, PathsOK, Holds
  <2>3. CASE i.value = request[p].secret /\ Return(p, "Ok")
    BY <1>1, <1>3, <2>1, <2>3, ReturnKeeps DEF StoreError
  <2>4. CASE i.value \in Secret \ {request[p].secret} /\ Return(p, "AlreadyExists")
    <3>1. \A j \in items : j.path # made[p]
      BY <2>2, <2>4, DistinctAssumption
    <3> QED BY <1>1, <2>4, <3>1, ReturnKeeps DEF StoreError
  <2>5. CASE i.value = Damaged /\ Return(p, "Corrupt")
    BY <1>1, <2>2, <2>5, ReturnKeeps DEF StoreError
  <2> QED BY <1>3, <2>3, <2>4, <2>5 DEF Compare
<1>4. \A value \in Read(item[p]) : \E i \in items : Holds(p, i) /\ i.value = value
  BY DEF Read, Holds
<1> QED BY <1>2, <1>3, <1>4 DEF CompareReconciled

LEMMA RemovalKeeps ==
    ASSUME IInv, NEW p \in Proc, Delete(p)
    PROVE  IInv'
<1>0. TypeOK /\ OwnOK(p) /\ StepOK(p)
  BY DEF IInv
<1>1. PICK acts \in BOOLEAN, status \in {"ok", "failed"} :
        /\ acts => Read(item[p]) # {}
        /\ items' = {i \in items : acts => i.path # item[p]}
        /\ withdrawn' = withdrawn \cup {r \in {request[p].recipient} : acts}
        /\ acted' = [acted EXCEPT ![p] = acts]
        /\ Goto(p, IF status = "ok" THEN "absent" ELSE "settle")
  BY DEF Delete
<1>2. /\ pc[p] = "delete" /\ op[p] = "remove"
      /\ UNCHANGED <<op, request, used, undone, made, before, known>>
  BY <1>0 DEF Delete, StepOK
<1>3. PICK s \in {"settle", "absent"} : Goto(p, s)
  BY <1>1
<1>4. /\ pc' = [pc EXCEPT ![p] = s] /\ item' = item
      /\ UNCHANGED <<failure, result, loaded, accepted, unsettled>>
  BY <1>0, <1>3 DEF Goto, GotoItem, TypeOK
<1>5. request[p].recipient \in Recipient \/ ~acts
  <2>1. ASSUME acts PROVE request[p].recipient \in Recipient
    <3>1. PICK i \in items : i.path = item[p]
      BY <1>1, <2>1 DEF Read
    <3>2. request[p].recipient = i.recipient
      BY <1>0, <3>1 DEF OwnOK
    <3> QED BY <1>0, <3>1, <3>2 DEF TypeOK, Stored
  <2> QED BY <2>1
<1>6. /\ withdrawn \subseteq withdrawn' /\ withdrawn' \subseteq Recipient
      /\ acts => request[p].recipient \in withdrawn'
      /\ undone' \subseteq Entry
  BY <1>0, <1>1, <1>2, <1>5 DEF TypeOK
<1>7. /\ acted' \in [Proc -> BOOLEAN] /\ acted'[p] = acts
      /\ \A q \in Proc \ {p} : acted'[q] = acted[q]
  BY <1>0, <1>1 DEF TypeOK
<1>8. StepOK(p)'
  <2>1. pc'[p] = s
    BY <1>0, <1>4 DEF TypeOK
  <2> QED BY <1>1, <1>2, <1>4, <1>7, <2>1 DEF StepOK, Cleaning, Holds
<1>9. pc[p] \notin Cleaning \cup {"reconcile"}
  BY <1>2 DEF Cleaning
<1> QED BY <1>1, <1>2, <1>4, <1>6, <1>7, <1>8, <1>9, DeleteKeeps

LEMMA SettleKeeps ==
    ASSUME IInv, NEW p \in Proc, SettleDelete(p) \/ ConfirmAbsent(p)
    PROVE  IInv'
<1> DEFINE found == Found(request[p].recipient)
<1>0. TypeOK /\ OwnOK(p) /\ StepOK(p)
  BY DEF IInv
<1>1. /\ Quiet /\ pc[p] \in {"settle", "absent"} /\ op[p] = "remove"
      /\ pc[p] \notin Cleaning \cup {"reconcile"}
  BY <1>0 DEF SettleDelete, ConfirmAbsent, Quiet, StepOK, Cleaning
<1>2. CASE Return(p, "StateUncertain")
  BY <1>1, <1>2, ReturnKeeps DEF StoreError
<1>3. CASE found = {} /\ Return(p, "Removed")
  BY <1>1, <1>3, ReturnKeeps DEF StoreError
<1>4. CASE {i.path : i \in found} = {item[p]} /\ Return(p, "Failed")
  <2>1. PICK i \in items : Holds(p, i)
    BY <1>4 DEF Found, Holds
  <2>2. ~acted[p]
    BY <1>0, <1>1, <2>1 DEF StepOK
  <2> QED BY <1>1, <1>4, <2>2, ReturnKeeps DEF StoreError
<1>5. {i.path : i \in found} = {} => found = {}
  OBVIOUS
<1> QED BY <1>2, <1>3, <1>4, <1>5 DEF SettleDelete, ConfirmAbsent

-----------------------------------------------------------------------------
(***************************************************************************)
(* The theorems.                                                           *)
(***************************************************************************)

LEMMA StutterKeeps == IInv /\ UNCHANGED vars => IInv'
<1> SUFFICES ASSUME IInv, UNCHANGED vars PROVE IInv'
  OBVIOUS
<1>1. /\ UNCHANGED <<items, pc, op, request, item, failure, result, loaded>>
      /\ UNCHANGED <<used, accepted, withdrawn, undone, unsettled, made, acted, before, known>>
  BY DEF vars, callVars, history
<1>2. TypeOK' /\ PathsOK' /\ ComparedOK' /\ PairsOK'
  BY <1>1 DEF IInv, TypeOK, PathsOK, ComparedOK, PairsOK, Holds, Live
<1>3. \A p \in Proc : OwnOK(p)' /\ StepOK(p)'
  BY <1>1 DEF IInv, OwnOK, StepOK, Holds
<1>4. AcceptedIsKept' /\ LoadReturnsAccepted'
  BY <1>1 DEF IInv, AcceptedIsKept, AcceptedIsStored, NoSecondSecret, LoadReturnsAccepted
<1>5. AnswersAreDefinite'
  BY <1>1 DEF IInv, AnswersAreDefinite, CreateErrorIsDefinite, RemoveIsComplete, RemoveErrorIsDefinite
<1> QED BY <1>2, <1>3, <1>4, <1>5 DEF IInv

LEMMA NextKeeps == IInv /\ [Next]_vars => IInv'
<1> SUFFICES ASSUME IInv, [Next]_vars PROVE IInv'
  OBVIOUS
<1>1. ASSUME NEW p \in Proc, Begin(p) \/ ProcStep(p) \/ Crash(p) PROVE IInv'
  BY <1>1, BeginKeeps, CrashKeeps, SearchKeeps, CompareKeeps, AddKeeps, ReadBackKeeps,
     InventoryKeeps, DeleteCreatedKeeps, ConfirmRollbackKeeps, ReconcileKeeps,
     CompareReconciledKeeps, RemovalKeeps, SettleKeeps DEF ProcStep
<1> QED BY <1>1, StutterKeeps DEF Next

LEMMA InitHolds == Init => IInv
<1> SUFFICES ASSUME Init PROVE IInv
  OBVIOUS
<1>1. TypeOK
  BY DEF Init, TypeOK, Step, Operation, StoreError, Outcome
<1>2. PathsOK /\ ComparedOK /\ PairsOK
  BY DEF Init, PathsOK, ComparedOK, PairsOK
<1>3. \A p \in Proc : OwnOK(p) /\ StepOK(p)
  BY DEF Init, OwnOK, StepOK, Cleaning
<1>4. AcceptedIsKept /\ LoadReturnsAccepted
  BY DEF Init, AcceptedIsKept, AcceptedIsStored, NoSecondSecret, LoadReturnsAccepted
<1>5. AnswersAreDefinite
  BY DEF Init, AnswersAreDefinite, CreateErrorIsDefinite, RemoveIsComplete, RemoveErrorIsDefinite
<1> QED BY <1>1, <1>2, <1>3, <1>4, <1>5 DEF IInv

\* Object paths name one item each, two comparisons of one recipient read the
\* same item, and every duplicate has a create that has yet to search for it.
THEOREM InductiveInvariant == Spec => []IInv
BY InitHolds, NextKeeps, PTL DEF Spec

\* However many creates compete, those that succeed agree on one secret, and it
\* stays until it is removed or its own creator takes it back.
THEOREM AcceptedStays == Spec => []AcceptedIsKept
<1>1. IInv => AcceptedIsKept
  BY DEF IInv
<1> QED BY <1>1, InductiveInvariant, PTL

\* A load returns the secret that was accepted before it began, although it
\* reads the item in a call after the search that found it.
THEOREM LoadsAgree == Spec => []LoadReturnsAccepted
<1>1. IInv => LoadReturnsAccepted
  BY DEF IInv
<1> QED BY <1>1, InductiveInvariant, PTL

\* When several items of a recipient are left, a create told its caller so, died
\* or is still running.
THEOREM DuplicatesReported == Spec => []DuplicatesAreReported
<1>1. IInv => DuplicatesAreReported
  <2> SUFFICES ASSUME IInv, NEW r \in Recipient, Cardinality(Found(r)) > 1, r \notin unsettled
               PROVE  \E p \in Proc : /\ pc[p] # "idle" /\ op[p] = "create"
                                      /\ request[p].recipient = r
    BY DEF DuplicatesAreReported
  <2>1. PICK i \in items, j \in items : i # j /\ i.recipient = r /\ j.recipient = r
    BY FoundMany
  <2>2. PICK p \in Proc : pc[p] \in Cleaning \cup {"reconcile"} /\ made[p] \in {i.path, j.path}
    BY <2>1 DEF IInv, PairsOK
  <2>3. request[p].recipient = r
    BY <2>1, <2>2 DEF IInv, OwnOK
  <2>4. op[p] = "create" /\ pc[p] # "idle"
    BY <2>2 DEF IInv, StepOK, Cleaning
  <2> QED BY <2>3, <2>4
<1> QED BY <1>1, InductiveInvariant, PTL

\* What an operation returns is true of the items it leaves, although answers are
\* lost and cleanups fail.
THEOREM AnswersHold == Spec => []AnswersAreDefinite
<1>1. IInv => AnswersAreDefinite
  BY DEF IInv
<1> QED BY <1>1, InductiveInvariant, PTL
=============================================================================
