--------------------------- MODULE ToolStorageProofs ---------------------------
(***************************************************************************)
(* Proofs about what fkw-tool keeps: ToolStorage, how a file reaches the   *)
(* disk, SecretFile, the bytes of that file, and WireFormats, the envelope *)
(* among them.                                                             *)
(*                                                                         *)
(* ToolStorage, for any number of tools, names and files: a destination    *)
(* leads to a whole container whenever the power fails, and a secret       *)
(* reported as saved stays.  A destination entry is made only by the hard  *)
(* link, and only to a file whose content was synced; contents of synced   *)
(* files never change.  A success is reported only after the directory     *)
(* was written back with that entry in it, and no seal overwrites an       *)
(* entry.                                                                  *)
(*                                                                         *)
(* WireFormats, for any recipients enrolled in any order, secrets of any   *)
(* permitted lengths and any number of changes: what was written is read   *)
(* as it was, and what decodes is canonical and valid.  The proof goes     *)
(* from the loop of decode and the layout of an encoding, each by          *)
(* induction over the number of records, to the round trip, and from the   *)
(* bytes of the largest record to the limit on an envelope.                *)
(*                                                                         *)
(* SecretFile, for bytes of any base, fields and files of any length: a    *)
(* file unseals exactly if it is what seal wrote, since the fields decode  *)
(* takes are slices that meet and end where the file ends, and a length    *)
(* has one encoding.                                                       *)
(***************************************************************************)
EXTENDS ToolStorage, WireFormats, SecretFile, WellFoundedInduction,
        FiniteSetTheorems, SequenceTheorems, TLAPS

USE DEF Name, Save

-----------------------------------------------------------------------------
(***************************************************************************)
(* Type correctness.                                                       *)
(***************************************************************************)

\* Goto and Report keep the types of what they change.
LEMMA ControlTypes ==
    ASSUME TypeOK, NEW p \in Proc,
           \/ \E step \in Step : Goto(p, step)
           \/ \E r \in Outcome : Report(p, r) /\ (r \in {"saved", "unsynced"} =>
                                    path[p] \in Path /\ file[p] \in File)
    PROVE  /\ pc' \in [Proc -> Step] /\ result' \in [Proc -> Outcome]
           /\ saved' \subseteq Save /\ unsynced' \subseteq Save
BY DEF TypeOK, Goto, Report, Outcome, Step

\* What the steps of a seal rely on, beside the types.
CallsOK ==
    \A p \in Proc :
        /\ pc[p] # "idle" => path[p] \in Path
        /\ pc[p] \in {"write", "sync", "link", "discard", "unlink", "syncdir"}
                => file[p] \in used /\ temp[p] \in Temp
        /\ pc[p] = "sync" => data[file[p]] = "whole"
        /\ pc[p] \in {"link", "unlink", "syncdir"} => file[p] \in synced
        /\ pc[p] \in {"unlink", "syncdir"} => names[path[p]] = file[p] \/ file[p] \in removed

\* The rest of the invariant: directory entries of destinations, written back
\* or not, and what has been reported as saved.
EntriesOK ==
    /\ \A d \in Path : {names[d], disk[d]} \ {None} \subseteq synced \cap used
    /\ \A f \in synced : data[f] = "whole"
    /\ synced \subseteq used
    /\ \A s \in saved :
        s.file \in removed \/ (names[s.path] = s.file /\ disk[s.path] = s.file
                                /\ s.file \in synced)

\* The invariant in the parts the proof preserves one by one.
LEMMA Parts == TypeOK /\ CallsOK /\ EntriesOK => IInv
<1> SUFFICES ASSUME TypeOK, CallsOK, EntriesOK PROVE IInv
  OBVIOUS
<1>1. DestinationIsWhole
  BY DEF DestinationIsWhole, EntriesOK
<1>2. SavedIsDurable
  BY DEF SavedIsDurable, EntriesOK
<1> QED
  BY <1>1, <1>2 DEF IInv, CallsOK, EntriesOK

\* The invariant holds initially.
LEMMA InitParts == Init => TypeOK /\ CallsOK /\ EntriesOK
BY NoneAssumption DEF Init, TypeOK, CallsOK, EntriesOK, Step, Outcome, Content

\* Every step keeps the types.
LEMMA NextTypes == TypeOK /\ CallsOK /\ [Next]_vars => TypeOK'
<1> SUFFICES ASSUME TypeOK, CallsOK, [Next]_vars PROVE TypeOK'
  OBVIOUS
<1> USE DEF TypeOK
<1>1. ASSUME NEW p \in Proc, Begin(p) PROVE TypeOK'
  BY <1>1 DEF Begin, dirVars, history, Step, Outcome
<1>2. ASSUME NEW p \in Proc, EnsureAbsent(p) \/ Prepare(p) PROVE TypeOK'
  BY <1>2, ControlTypes DEF EnsureAbsent, Prepare, dirVars, Step, Outcome
<1>3. ASSUME NEW p \in Proc, CreateTemporary(p) PROVE TypeOK'
  BY <1>3, ControlTypes DEF CreateTemporary, Step, Outcome
<1>4. ASSUME NEW p \in Proc, Write(p) PROVE TypeOK'
  BY <1>4, ControlTypes DEF Write, CallsOK, Step, Content
<1>5. ASSUME NEW p \in Proc, SyncTemporary(p) PROVE TypeOK'
  BY <1>5, ControlTypes DEF SyncTemporary, CallsOK, Step
<1>6. ASSUME NEW p \in Proc, Link(p) PROVE TypeOK'
  BY <1>6, ControlTypes DEF Link, CallsOK, Step
<1>7. ASSUME NEW p \in Proc, Discard(p) \/ Unlink(p) PROVE TypeOK'
  BY <1>7, ControlTypes DEF Discard, Unlink, RemoveTemporary, CallsOK, Step, Outcome
<1>8. ASSUME NEW p \in Proc, SyncParent(p) PROVE TypeOK'
  BY <1>8, ControlTypes DEF SyncParent, CallsOK, Step, Outcome
<1>9. ASSUME NEW p \in Proc, Open(p) \/ ReadFile(p) PROVE TypeOK'
  BY <1>9, ControlTypes DEF Open, ReadFile, CallsOK, dirVars, Step, Outcome
<1>10. ASSUME NEW p \in Proc, Kill(p) PROVE TypeOK'
  BY <1>10 DEF Kill, Leaves, CallsOK, dirVars, Step
<1>11. ASSUME NEW d \in Path, RemoveSealed(d) PROVE TypeOK'
  BY <1>11 DEF RemoveSealed, callVars
<1>12. ASSUME NEW n \in Name, WriteBack(n) PROVE TypeOK'
  BY <1>12 DEF WriteBack, callVars, history
<1>13. CASE PowerLoss
  <2>1. names' \in [Name -> File \cup {None}] /\ disk' \in [Name -> File \cup {None}]
    BY <1>13 DEF PowerLoss
  <2>2. data' \in [File -> Content]
    BY <1>13 DEF PowerLoss, Content
  <2>3. stray' \subseteq File /\ lost' \subseteq File
    BY <1>13 DEF PowerLoss, Leaves, CallsOK
  <2>4. pc' \in [Proc -> Step]
    BY <1>13 DEF PowerLoss, Step
  <2> QED
    BY <1>13, <2>1, <2>2, <2>3, <2>4 DEF PowerLoss
<1>14. CASE UNCHANGED vars
  BY <1>14 DEF vars, dirVars, callVars, history
<1> QED
  BY <1>1, <1>2, <1>3, <1>4, <1>5, <1>6, <1>7, <1>8, <1>9, <1>10, <1>11, <1>12,
     <1>13, <1>14 DEF Next, ProcStep

-----------------------------------------------------------------------------
(***************************************************************************)
(* The steps of a seal and of the environment.                             *)
(***************************************************************************)

\* A step that changes no entry, content or sync, and moves p at most to a
\* step with the same or weaker needs, keeps the rest.
LEMMA QuietParts ==
    ASSUME TypeOK, CallsOK, EntriesOK, NEW p \in Proc,
           UNCHANGED <<dirVars, used, removed, saved, path, temp>>,
           \A q \in Proc \ {p} : pc'[q] = pc[q] /\ file'[q] = file[q],
           pc'[p] \in {"idle", "prepare", "create", "read"},
           pc'[p] # "idle" => pc[p] # "idle"
    PROVE  CallsOK' /\ EntriesOK'
BY DEF TypeOK, CallsOK, EntriesOK, dirVars

\* Every step keeps what the calls rely on and what the entries lead to.
LEMMA NextParts ==
    TypeOK /\ CallsOK /\ EntriesOK /\ [Next]_vars => CallsOK' /\ EntriesOK'
<1> SUFFICES ASSUME TypeOK, CallsOK, EntriesOK, [Next]_vars
             PROVE  CallsOK' /\ EntriesOK'
  OBVIOUS
<1> USE NoneAssumption, NamesAssumption
<1>1. ASSUME NEW p \in Proc, Begin(p) PROVE CallsOK' /\ EntriesOK'
  BY <1>1 DEF Begin, dirVars, history, TypeOK, CallsOK, EntriesOK
<1>2. ASSUME NEW p \in Proc, EnsureAbsent(p) \/ Prepare(p) \/ Open(p) \/ ReadFile(p)
      PROVE  CallsOK' /\ EntriesOK'
  <2>1. UNCHANGED <<dirVars, used, removed, saved, path, temp>>
    BY <1>2 DEF EnsureAbsent, Prepare, Open, ReadFile, Goto, Report
  <2>2. \A q \in Proc \ {p} : pc'[q] = pc[q] /\ file'[q] = file[q]
    BY <1>2 DEF EnsureAbsent, Prepare, Open, ReadFile, Goto, Report, TypeOK
  <2>3. pc'[p] \in {"idle", "prepare", "create", "read"} /\ pc[p] # "idle"
    BY <1>2 DEF EnsureAbsent, Prepare, Open, ReadFile, Goto, Report, TypeOK
  <2> QED
    BY <2>1, <2>2, <2>3, QuietParts
<1>3. ASSUME NEW p \in Proc, CreateTemporary(p) PROVE CallsOK' /\ EntriesOK'
  <2>1. CASE Report(p, "error") /\ UNCHANGED <<names, temp, file, used>>
    BY <1>3, <2>1, QuietParts DEF CreateTemporary, Report, TypeOK, dirVars
  <2>2. ASSUME NEW n \in Temp, NEW f \in File \ used,
               names[n] = None, names' = [names EXCEPT ![n] = f],
               temp' = [temp EXCEPT ![p] = n], file' = [file EXCEPT ![p] = f],
               used' = used \cup {f}, Goto(p, "write")
        PROVE  CallsOK' /\ EntriesOK'
    BY <1>3, <2>2 DEF CreateTemporary, Goto, TypeOK, CallsOK, EntriesOK
  <2> QED
    BY <1>3, <2>1, <2>2 DEF CreateTemporary
<1>4. ASSUME NEW p \in Proc, Write(p) PROVE CallsOK' /\ EntriesOK'
  BY <1>4 DEF Write, Goto, TypeOK, CallsOK, EntriesOK
<1>5. ASSUME NEW p \in Proc, SyncTemporary(p) PROVE CallsOK' /\ EntriesOK'
  BY <1>5 DEF SyncTemporary, Goto, TypeOK, CallsOK, EntriesOK
<1>6. ASSUME NEW p \in Proc, Link(p) PROVE CallsOK' /\ EntriesOK'
  <2>1. CASE Goto(p, "discard") /\ UNCHANGED names
    BY <1>6, <2>1 DEF Link, Goto, TypeOK, CallsOK, EntriesOK
  <2>2. CASE /\ names[path[p]] = None
             /\ names' = [names EXCEPT ![path[p]] = file[p]]
             /\ Goto(p, "unlink")
    <3>1. path[p] \in Path /\ file[p] \in synced /\ file[p] \in used
      BY <1>6 DEF Link, CallsOK
    <3>2. CallsOK'
      BY <1>6, <2>2, <3>1 DEF Link, Goto, TypeOK, CallsOK
    <3>3. EntriesOK'
      BY <1>6, <2>2, <3>1 DEF Link, Goto, TypeOK, EntriesOK
    <3> QED
      BY <3>2, <3>3
  <2> QED
    BY <1>6, <2>1, <2>2 DEF Link
<1>7. ASSUME NEW p \in Proc, Discard(p) \/ Unlink(p) PROVE CallsOK' /\ EntriesOK'
  <2>1. temp[p] \in Temp /\ path[p] \in Path
    BY <1>7 DEF Discard, Unlink, CallsOK
  <2>2. \A d \in Path : names'[d] = names[d]
    BY <1>7, <2>1 DEF Discard, Unlink, RemoveTemporary, TypeOK
  <2>3. UNCHANGED <<disk, data, synced, path, temp, file, used, saved, removed>>
    BY <1>7 DEF Discard, Unlink, Goto, Report
  <2>4. EntriesOK'
    BY <2>2, <2>3 DEF EntriesOK, TypeOK
  <2>5. CallsOK'
    BY <1>7, <2>1, <2>2, <2>3 DEF Discard, Unlink, Goto, Report, CallsOK, TypeOK
  <2> QED
    BY <2>4, <2>5
<1>8. ASSUME NEW p \in Proc, SyncParent(p) PROVE CallsOK' /\ EntriesOK'
  <2>1. CASE disk' = names /\ Report(p, "saved")
    BY <1>8, <2>1 DEF SyncParent, Report, TypeOK, CallsOK, EntriesOK
  <2>2. CASE Report(p, "unsynced") /\ UNCHANGED disk
    BY <1>8, <2>2, QuietParts DEF SyncParent, Report, TypeOK, dirVars
  <2> QED
    BY <1>8, <2>1, <2>2 DEF SyncParent
<1>9. ASSUME NEW p \in Proc, Kill(p) PROVE CallsOK' /\ EntriesOK'
  BY <1>9 DEF Kill, dirVars, TypeOK, CallsOK, EntriesOK
<1>10. ASSUME NEW d \in Path, RemoveSealed(d) PROVE CallsOK' /\ EntriesOK'
  <2>1. UNCHANGED <<disk, data, synced, pc, path, temp, file, used, saved>>
    BY <1>10 DEF RemoveSealed, callVars
  <2>2. names' = [names EXCEPT ![d] = None] /\ removed' = removed \cup {names[d]}
    BY <1>10 DEF RemoveSealed
  <2>3. CallsOK'
    BY <2>1, <2>2 DEF CallsOK, TypeOK
  <2>4. EntriesOK'
    BY <2>1, <2>2 DEF EntriesOK, TypeOK
  <2> QED
    BY <2>3, <2>4
<1>11. ASSUME NEW n \in Name, WriteBack(n) PROVE CallsOK' /\ EntriesOK'
  BY <1>11 DEF WriteBack, callVars, history, TypeOK, CallsOK, EntriesOK
<1>12. CASE PowerLoss
  <2>1. UNCHANGED <<synced, used, saved, removed>>
    BY <1>12 DEF PowerLoss
  <2>2. \A n \in Name : names'[n] = disk'[n] /\ names'[n] \in {names[n], disk[n]}
    BY <1>12 DEF PowerLoss
  <2>3. \A f \in synced : data'[f] = data[f]
    BY <1>12 DEF PowerLoss, TypeOK
  <2>4. EntriesOK'
    BY <2>1, <2>2, <2>3 DEF EntriesOK, TypeOK
  <2>5. CallsOK'
    BY <1>12 DEF PowerLoss, CallsOK
  <2> QED
    BY <2>4, <2>5
<1>13. CASE UNCHANGED vars
  BY <1>13 DEF vars, dirVars, callVars, history, CallsOK, EntriesOK
<1> QED
  BY <1>1, <1>2, <1>3, <1>4, <1>5, <1>6, <1>7, <1>8, <1>9, <1>10, <1>11, <1>12,
     <1>13 DEF Next, ProcStep

-----------------------------------------------------------------------------
(***************************************************************************)
(* The theorems.                                                           *)
(***************************************************************************)

\* The strengthened invariant holds for every number of tools, paths, names
\* and files.
THEOREM InductiveInvariant == Spec => []IInv
<1>1. TypeOK /\ CallsOK /\ EntriesOK /\ [Next]_vars => (TypeOK /\ CallsOK /\ EntriesOK)'
  BY NextTypes, NextParts
<1> QED
  BY <1>1, InitParts, Parts, PTL DEF Spec

\* A destination never leads to an incomplete container, through kills and
\* power losses (storage.rs create_atomic_with_sync, write_temporary).
THEOREM PublishedWhole == Spec => []DestinationIsWhole
<1>1. IInv => DestinationIsWhole
  BY DEF IInv
<1> QED
  BY <1>1, InductiveInvariant, PTL

\* A secret reported as saved stays at its destination until the user removes
\* it (app.rs seal, storage.rs sync_parent).
THEOREM SavedStays == Spec => []SavedIsDurable
<1>1. IInv => SavedIsDurable
  BY DEF IInv
<1> QED
  BY <1>1, InductiveInvariant, PTL

-----------------------------------------------------------------------------
(***************************************************************************)
(* What a seal answers.                                                    *)
(***************************************************************************)

\* A step of p that touches no destination entry and leaves its temporary name
\* and file alone, or reports an error before it has one.
LEMMA QuietAnswers ==
    ASSUME TypeOK, CallsOK, EntriesOK, AnswerInv, NEW p \in Proc,
           UNCHANGED <<names, disk, path, temp, used, removed, lost, stray, unsynced>>,
           \A q \in Proc \ {p} : pc'[q] = pc[q] /\ file'[q] = file[q] /\ result'[q] = result[q],
           temp[p] # None => file'[p] = file[p],
           pc'[p] # "idle" => result'[p] = "none",
           pc'[p] \in {"check", "prepare", "create", "open", "read"} => temp[p] = None,
           pc[p] \in Holding => pc'[p] \in Holding,
           temp[p] # None /\ (pc'[p] \in Holding \ {"unlink"} \/ (pc'[p] = "idle" /\ result'[p] = "error"))
                => pc[p] \in Holding \ {"unlink"}
    PROVE  AnswerInv'
<1>1. FilesAreOwn'
  BY DEF AnswerInv, FilesAreOwn
<1>2. \A q \in Proc : Unpublished(q)' => \A d \in Path : (file[q] \notin {names[d], disk[d]})'
  BY DEF AnswerInv, Unpublished
<1>3. TemporariesAreOwned'
  <2> SUFFICES ASSUME NEW n \in Temp, names[n] # None, names[n] \notin stray
      PROVE  \E q \in Proc : (pc[q] \in Holding /\ temp[q] = n /\ file[q] = names[n])'
    BY DEF TemporariesAreOwned
  <2>1. PICK q \in Proc : pc[q] \in Holding /\ temp[q] = n /\ file[q] = names[n]
    BY DEF AnswerInv, TemporariesAreOwned
  <2>2. pc'[q] \in Holding /\ file'[q] = file[q]
    BY <2>1, NoneAssumption
  <2> QED BY <2>1, <2>2
<1>4. UnsyncedIsSaved'
  BY DEF AnswerInv, UnsyncedIsSaved
<1> QED BY <1>1, <1>2, <1>3, <1>4 DEF AnswerInv

\* Every step keeps the invariant of the answers.
LEMMA NextAnswers ==
    TypeOK /\ CallsOK /\ EntriesOK /\ AnswerInv /\ [Next]_vars => AnswerInv'
<1> SUFFICES ASSUME TypeOK, CallsOK, EntriesOK, AnswerInv, [Next]_vars
             PROVE  AnswerInv'
  OBVIOUS
<1> USE NoneAssumption, NamesAssumption DEF Holding
<1>1. ASSUME NEW p \in Proc, Begin(p) PROVE AnswerInv'
  <2>1. UNCHANGED <<dirVars, history>> /\ \A q \in Proc \ {p} :
            /\ pc'[q] = pc[q] /\ file'[q] = file[q] /\ result'[q] = result[q]
            /\ temp'[q] = temp[q]
    BY <1>1 DEF Begin, TypeOK
  <2>2. /\ temp'[p] = None /\ result'[p] = "none" /\ pc'[p] \in {"check", "open"}
        /\ pc[p] = "idle"
    BY <1>1 DEF Begin, TypeOK
  <2>3. FilesAreOwn' /\ UnsyncedIsSaved'
    BY <2>1, <2>2 DEF AnswerInv, FilesAreOwn, UnsyncedIsSaved, history, dirVars
  <2>4. TemporariesAreOwned'
    BY <2>1, <2>2 DEF AnswerInv, TemporariesAreOwned, history, dirVars
  <2> QED BY <2>1, <2>2, <2>3, <2>4 DEF AnswerInv, Unpublished, history, dirVars
<1>2. ASSUME NEW p \in Proc, EnsureAbsent(p) \/ Prepare(p) \/ Open(p) \/ ReadFile(p)
      PROVE  AnswerInv'
  <2>1. temp[p] = None /\ result[p] = "none"
    BY <1>2 DEF EnsureAbsent, Prepare, Open, ReadFile, AnswerInv
  <2>2. UNCHANGED <<names, disk, path, temp, used, removed, lost, stray, unsynced>>
    BY <1>2 DEF EnsureAbsent, Prepare, Open, ReadFile, Goto, Report, dirVars
  <2>3. \A q \in Proc \ {p} : pc'[q] = pc[q] /\ file'[q] = file[q] /\ result'[q] = result[q]
    BY <1>2 DEF EnsureAbsent, Prepare, Open, ReadFile, Goto, Report, TypeOK
  <2>4. /\ pc[p] \in {"check", "prepare", "open", "read"}
        /\ pc'[p] \in {"idle", "prepare", "create", "read"}
        /\ pc'[p] # "idle" => result'[p] = "none"
    BY <1>2, <2>1 DEF EnsureAbsent, Prepare, Open, ReadFile, Goto, Report, TypeOK
  <2> QED BY <2>1, <2>2, <2>3, <2>4, QuietAnswers
<1>3. ASSUME NEW p \in Proc, CreateTemporary(p) PROVE AnswerInv'
  <2>0. temp[p] = None /\ result[p] = "none" /\ pc[p] = "create"
    BY <1>3 DEF CreateTemporary, AnswerInv
  <2>1. CASE Report(p, "error") /\ UNCHANGED <<names, temp, file, used>>
    <3>1. UNCHANGED <<names, disk, path, temp, used, removed, lost, stray, unsynced>>
      BY <1>3, <2>1 DEF CreateTemporary, Report
    <3>2. \A q \in Proc \ {p} : pc'[q] = pc[q] /\ file'[q] = file[q] /\ result'[q] = result[q]
      BY <2>1 DEF Report, TypeOK
    <3>3. pc'[p] = "idle"
      BY <2>1 DEF Report, TypeOK
    <3> QED BY <2>0, <2>1, <3>1, <3>2, <3>3, QuietAnswers
  <2>2. ASSUME NEW n \in Temp, NEW f \in File \ used,
               names[n] = None, names' = [names EXCEPT ![n] = f],
               temp' = [temp EXCEPT ![p] = n], file' = [file EXCEPT ![p] = f],
               used' = used \cup {f}, Goto(p, "write")
        PROVE  AnswerInv'
    <3>1. /\ UNCHANGED <<disk, path, removed, lost, stray, unsynced, result>>
          /\ pc' = [pc EXCEPT ![p] = "write"]
      BY <1>3, <2>2 DEF CreateTemporary, Goto
    <3>2. \A d \in Path : names'[d] = names[d] /\ f \notin {names[d], disk[d]}
      BY <2>2 DEF TypeOK, EntriesOK
    <3>3. FilesAreOwn'
      BY <2>2 DEF AnswerInv, FilesAreOwn, TypeOK
    <3>4. UnsyncedIsSaved'
      BY <3>1, <3>2 DEF AnswerInv, UnsyncedIsSaved, TypeOK
    <3>5. TemporariesAreOwned'
      BY <2>0, <2>2, <3>1 DEF AnswerInv, TemporariesAreOwned, TypeOK
    <3>6. \A q \in Proc : Unpublished(q)' => \A d \in Path : (file[q] \notin {names[d], disk[d]})'
      BY <2>2, <3>1, <3>2 DEF AnswerInv, Unpublished, TypeOK
    <3> QED BY <2>0, <2>2, <3>1, <3>3, <3>4, <3>5, <3>6 DEF AnswerInv, TypeOK
  <2> QED BY <1>3, <2>1, <2>2 DEF CreateTemporary
<1>4. ASSUME NEW p \in Proc, Write(p) \/ SyncTemporary(p) PROVE AnswerInv'
  <2>1. UNCHANGED <<names, disk, path, temp, file, used, removed, lost, stray, unsynced, result>>
    BY <1>4 DEF Write, SyncTemporary, Goto
  <2>2. /\ \A q \in Proc \ {p} : pc'[q] = pc[q]
        /\ pc[p] \in {"write", "sync"} /\ pc'[p] \in {"sync", "link", "discard"}
    BY <1>4 DEF Write, SyncTemporary, Goto, TypeOK
  <2> QED BY <2>1, <2>2, QuietAnswers DEF AnswerInv
<1>5. ASSUME NEW p \in Proc, Link(p) PROVE AnswerInv'
  <2>1. CASE Goto(p, "discard") /\ UNCHANGED names
    <3>1. UNCHANGED <<names, disk, path, temp, file, used, removed, lost, stray, unsynced, result>>
      BY <1>5, <2>1 DEF Link, Goto
    <3>2. /\ \A q \in Proc \ {p} : pc'[q] = pc[q]
          /\ pc[p] = "link" /\ pc'[p] = "discard"
      BY <1>5, <2>1 DEF Link, Goto, TypeOK
    <3> QED BY <3>1, <3>2, QuietAnswers DEF AnswerInv
  <2>2. CASE /\ names[path[p]] = None
             /\ names' = [names EXCEPT ![path[p]] = file[p]]
             /\ Goto(p, "unlink")
    <3>1. /\ UNCHANGED <<disk, path, temp, file, used, removed, lost, stray, unsynced, result>>
          /\ pc' = [pc EXCEPT ![p] = "unlink"] /\ pc[p] = "link"
          /\ path[p] \in Path /\ temp[p] \in Temp /\ temp[p] # None
      BY <1>5, <2>2 DEF Link, Goto, CallsOK
    <3>2. \A n \in Temp : names'[n] = names[n]
      BY <2>2, <3>1 DEF TypeOK
    <3>3. FilesAreOwn'
      BY <3>1 DEF AnswerInv, FilesAreOwn
    <3>4. UnsyncedIsSaved'
      BY <2>2, <3>1 DEF AnswerInv, UnsyncedIsSaved, TypeOK
    <3>5. TemporariesAreOwned'
      BY <3>1, <3>2 DEF AnswerInv, TemporariesAreOwned, TypeOK
    <3>6. \A q \in Proc : Unpublished(q)' => \A d \in Path : (file[q] \notin {names[d], disk[d]})'
      BY <2>2, <3>1 DEF AnswerInv, Unpublished, FilesAreOwn, TypeOK
    <3> QED BY <3>1, <3>3, <3>4, <3>5, <3>6 DEF AnswerInv, TypeOK
  <2> QED BY <1>5, <2>1, <2>2 DEF Link
<1>6. ASSUME NEW p \in Proc, Discard(p) \/ Unlink(p) PROVE AnswerInv'
  <2>1. /\ temp[p] \in Temp /\ temp[p] # None /\ file[p] \in File
        /\ pc[p] \in {"discard", "unlink"} /\ result[p] = "none"
    BY <1>6 DEF Discard, Unlink, CallsOK, AnswerInv, TypeOK
  <2>2. /\ UNCHANGED <<disk, path, temp, file, used, removed, lost>>
        /\ unsynced' = unsynced
        /\ \A q \in Proc \ {p} : pc'[q] = pc[q] /\ result'[q] = result[q]
        /\ \/ pc[p] = "discard" /\ pc'[p] = "idle"
           \/ pc[p] = "unlink" /\ pc'[p] = "syncdir" /\ result'[p] = "none"
    BY <1>6, <2>1 DEF Discard, Unlink, Goto, Report, TypeOK
  <2>3. /\ \A d \in Path : names'[d] = names[d]
        /\ \/ names' = [names EXCEPT ![temp[p]] = None] /\ stray' = stray
           \/ names' = names /\ stray' = stray \cup {file[p]}
    BY <1>6, <2>1 DEF Discard, Unlink, RemoveTemporary, TypeOK
  <2>4. FilesAreOwn' /\ UnsyncedIsSaved'
    BY <2>2, <2>3 DEF AnswerInv, FilesAreOwn, UnsyncedIsSaved, TypeOK
  <2>5. TemporariesAreOwned'
    <3> SUFFICES ASSUME NEW n \in Temp, names'[n] # None, names'[n] \notin stray'
        PROVE  \E q \in Proc : (pc[q] \in Holding /\ temp[q] = n /\ file[q] = names[n])'
      BY DEF TemporariesAreOwned
    <3>1. names'[n] = names[n] /\ names[n] \notin stray /\ ~(n = temp[p] /\ names[n] = file[p])
      BY <2>1, <2>3 DEF TypeOK
    <3>2. PICK q \in Proc : pc[q] \in Holding /\ temp[q] = n /\ file[q] = names[n]
      BY <3>1 DEF AnswerInv, TemporariesAreOwned
    <3>3. q # p
      BY <3>1, <3>2
    <3> QED BY <2>2, <3>1, <3>2, <3>3
  <2>6. \A q \in Proc : Unpublished(q)' => \A d \in Path : (file[q] \notin {names[d], disk[d]})'
    BY <2>1, <2>2, <2>3 DEF AnswerInv, Unpublished
  <2> QED BY <2>1, <2>2, <2>4, <2>5, <2>6 DEF AnswerInv
<1>7. ASSUME NEW p \in Proc, SyncParent(p) PROVE AnswerInv'
  <2>1. /\ UNCHANGED <<names, path, temp, file, used, removed, lost, stray>>
        /\ \A q \in Proc \ {p} : pc'[q] = pc[q] /\ result'[q] = result[q]
        /\ pc[p] = "syncdir" /\ pc'[p] = "idle" /\ result'[p] \in {"saved", "unsynced"}
        /\ disk' \in {disk, names}
        /\ unsynced' \subseteq unsynced \cup {[path |-> path[p], file |-> file[p]]}
    BY <1>7 DEF SyncParent, Report, TypeOK
  <2>2. UnsyncedIsSaved'
    BY <2>1 DEF AnswerInv, UnsyncedIsSaved, CallsOK
  <2>3. FilesAreOwn' /\ TemporariesAreOwned'
    BY <2>1 DEF AnswerInv, FilesAreOwn, TemporariesAreOwned
  <2>4. \A q \in Proc : Unpublished(q)' => \A d \in Path : (file[q] \notin {names[d], disk[d]})'
    BY <2>1 DEF AnswerInv, Unpublished
  <2> QED BY <2>1, <2>2, <2>3, <2>4 DEF AnswerInv
<1>8. ASSUME NEW p \in Proc, Kill(p) PROVE AnswerInv'
  <2>1. /\ UNCHANGED <<names, disk, path, temp, file, result, used, removed, lost, unsynced>>
        /\ pc' = [pc EXCEPT ![p] = "idle"] /\ pc[p] # "idle" /\ result[p] = "none"
        /\ stray' = stray \cup Leaves(p)
    BY <1>8 DEF Kill, dirVars, AnswerInv
  <2>2. TemporariesAreOwned'
    BY <2>1 DEF AnswerInv, TemporariesAreOwned, Leaves, TypeOK
  <2>3. FilesAreOwn' /\ UnsyncedIsSaved'
    BY <2>1 DEF AnswerInv, FilesAreOwn, UnsyncedIsSaved
  <2>4. \A q \in Proc : Unpublished(q)' => \A d \in Path : (file[q] \notin {names[d], disk[d]})'
    BY <2>1 DEF AnswerInv, Unpublished, TypeOK
  <2> QED BY <2>1, <2>2, <2>3, <2>4 DEF AnswerInv, TypeOK
<1>9. ASSUME NEW d \in Path, RemoveSealed(d) PROVE AnswerInv'
  <2>1. /\ UNCHANGED <<disk, path, temp, file, result, pc, used, lost, stray, unsynced>>
        /\ removed' = removed \cup {names[d]} /\ names' = [names EXCEPT ![d] = None]
    BY <1>9 DEF RemoveSealed, callVars
  <2>2. \A n \in Temp : names'[n] = names[n]
    BY <2>1 DEF TypeOK
  <2>3. TemporariesAreOwned'
    BY <2>1, <2>2 DEF AnswerInv, TemporariesAreOwned
  <2>4. FilesAreOwn' /\ UnsyncedIsSaved'
    BY <2>1 DEF AnswerInv, FilesAreOwn, UnsyncedIsSaved, TypeOK
  <2>5. \A q \in Proc : Unpublished(q)' => \A e \in Path : (file[q] \notin {names[e], disk[e]})'
    <3> SUFFICES ASSUME NEW q \in Proc, Unpublished(q), NEW e \in Path
        PROVE  file[q] \notin {names'[e], disk[e]}
      BY <2>1 DEF Unpublished
    <3>1. file[q] \in used /\ file[q] \in File
      BY DEF Unpublished, AnswerInv, FilesAreOwn, TypeOK
    <3> QED BY <2>1, <3>1 DEF AnswerInv, TypeOK
  <2> QED BY <2>1, <2>3, <2>4, <2>5 DEF AnswerInv
<1>10. ASSUME NEW n \in Name, WriteBack(n) PROVE AnswerInv'
  BY <1>10 DEF WriteBack, callVars, history, AnswerInv, FilesAreOwn, Unpublished,
     TemporariesAreOwned, UnsyncedIsSaved, TypeOK
<1>11. CASE PowerLoss
  <2>1. /\ UNCHANGED <<path, temp, file, result, used, removed, unsynced>>
        /\ pc' = [p \in Proc |-> "idle"]
        /\ lost' = lost \cup ({names[d] : d \in {e \in Path : names[e] # disk[e]}} \ {None})
        /\ stray' = stray \cup (UNION {Leaves(p) : p \in Proc})
                          \cup ({disk[n] : n \in Temp} \ {None})
    BY <1>11 DEF PowerLoss
  <2>2. \A n \in Name : names'[n] = disk'[n] /\ names'[n] \in {names[n], disk[n]}
    BY <1>11 DEF PowerLoss
  <2>3. TemporariesAreOwned'
    <3> SUFFICES ASSUME NEW n \in Temp, names'[n] # None PROVE names'[n] \in stray'
      BY DEF TemporariesAreOwned
    <3>1. CASE names'[n] = disk[n]
      BY <2>1, <3>1
    <3>2. CASE names'[n] = names[n]
      BY <2>1, <3>2 DEF AnswerInv, TemporariesAreOwned, Leaves
    <3> QED BY <2>2, <3>1, <3>2
  <2>4. UnsyncedIsSaved'
    <3> SUFFICES ASSUME NEW s \in unsynced, s.file \notin removed \cup lost'
        PROVE  names'[s.path] = s.file
      BY <2>1 DEF UnsyncedIsSaved
    <3>1. names[s.path] = s.file /\ s.path \in Path /\ s.file # None
      BY <2>1 DEF AnswerInv, UnsyncedIsSaved, TypeOK
    <3> QED BY <2>1, <2>2, <3>1
  <2>5. FilesAreOwn'
    BY <2>1 DEF AnswerInv, FilesAreOwn
  <2>6. \A q \in Proc : Unpublished(q)' => \A d \in Path : (file[q] \notin {names[d], disk[d]})'
    <3> SUFFICES ASSUME NEW q \in Proc, Unpublished(q)', NEW d \in Path
        PROVE  file[q] \notin {names'[d], disk'[d]}
      BY <2>1
    <3>1. temp[q] # None /\ result[q] = "error"
      BY <2>1 DEF Unpublished
    <3>2. Unpublished(q)
      BY <3>1 DEF Unpublished, AnswerInv
    <3> QED BY <2>2, <3>2 DEF AnswerInv
  <2> QED BY <2>1, <2>3, <2>4, <2>5, <2>6 DEF AnswerInv
<1>12. CASE UNCHANGED vars
  BY <1>12 DEF vars, dirVars, callVars, history, AnswerInv, FilesAreOwn, Unpublished,
     TemporariesAreOwned, UnsyncedIsSaved
<1> QED
  BY <1>1, <1>2, <1>3, <1>4, <1>5, <1>6, <1>7, <1>8, <1>9, <1>10, <1>11, <1>12
     DEF Next, ProcStep

\* What a seal reports of its destination is true through kills and power
\* losses: an error saved nothing, a success that was not synced is there until
\* the power fails, and no temporary name is left but where its removal was not
\* tried or refused (app.rs seal, storage.rs create_atomic_with_sync).
THEOREM AnswersHold == Spec => []AnswersAreDefinite
<1>1. Init => AnswerInv
  BY DEF Init, AnswerInv, FilesAreOwn, Unpublished, TemporariesAreOwned, UnsyncedIsSaved
<1>2. TypeOK /\ CallsOK /\ AnswerInv => AnswersAreDefinite
  <2> SUFFICES ASSUME TypeOK, CallsOK, AnswerInv PROVE AnswersAreDefinite
    OBVIOUS
  <2>1. ErrorSavesNothing
    BY DEF AnswerInv, ErrorSavesNothing, Unpublished
  <2>2. NoStrayTemporary
    BY DEF AnswerInv, NoStrayTemporary, TemporariesAreOwned, Holding
  <2> QED BY <2>1, <2>2 DEF AnswerInv, AnswersAreDefinite
<1>3. TypeOK /\ CallsOK /\ EntriesOK /\ AnswerInv /\ [Next]_vars
        => (TypeOK /\ CallsOK /\ EntriesOK /\ AnswerInv)'
  BY NextTypes, NextParts, NextAnswers
<1> QED
  BY <1>1, <1>2, <1>3, InitParts, PTL DEF Spec

HIDE DEF Name, Save

-----------------------------------------------------------------------------
(***************************************************************************)
(* Induction over numbers, from the well-foundedness of their order.       *)
(***************************************************************************)

LEMMA LeastNumber ==
    ASSUME NEW T \in SUBSET Nat, T # {}
    PROVE  \E m \in T : \A k \in T : ~(k < m)
<1> DEFINE R == OpToRel(<, Nat)
<1>1. IsWellFoundedOn(R, Nat)
  BY NatLessThanWellFounded
<1>2. R = {ss \in Nat \X Nat : ss[1] < ss[2]}
  BY DEF OpToRel
<1> HIDE DEF R
<1>3. \E x \in T : \A y \in T : ~ (<<y, x>> \in R)
  BY <1>1, WFMin
<1>4. PICK m \in T : \A k \in T : ~(<<k, m>> \in R)
  BY <1>3
<1>5. \A x, y \in Nat : x < y => <<x, y>> \in R
  BY <1>2
<1> QED BY <1>4, <1>5

\* A set with 0 and the successor of each of its members below n has all of 0 .. n.
LEMMA UpTo ==
    ASSUME NEW n \in Nat, NEW S, 0 \in S,
           \A i \in 0 .. n : i \in S /\ i < n => i + 1 \in S
    PROVE  0 .. n \subseteq S
<1> DEFINE T == {i \in 0 .. n : i \notin S}
<1> SUFFICES ASSUME T # {} PROVE FALSE
  OBVIOUS
<1>1. T \in SUBSET Nat
  OBVIOUS
<1>2. PICK m \in T : \A k \in T : ~(k < m)
  <2> HIDE DEF T
  <2> QED BY <1>1, LeastNumber
<1>3. m # 0 /\ m \in Nat /\ m <= n
  BY <1>2
<1>4. m - 1 \in 0 .. n /\ m - 1 < m
  BY <1>3
<1>5. m - 1 \in S
  BY <1>2, <1>4
<1>6. (m - 1) + 1 = m /\ m - 1 < n
  BY <1>3
<1> QED BY <1>2, <1>4, <1>5, <1>6

-----------------------------------------------------------------------------
(***************************************************************************)
(* Reading the records.                                                    *)
(***************************************************************************)

\* The loop of decode, as a recursive function, is defined by its steps.
LEMMA ReadIsDefined ==
    ASSUME NEW items, NEW count \in Nat
    PROVE  \E read : read = [i \in 0 .. count |->
                        IF i = 0 THEN [at |-> 7, list |-> <<>>] ELSE ReadNext(items, read[i - 1])]
<1> DEFINE start == [at |-> 7, list |-> <<>>]
           Loop(f, i) == IF i = 0 THEN start ELSE ReadNext(items, f[i - 1])
           S == {n \in 0 .. count : \E f : f = [i \in 0 .. n |-> Loop(f, i)]}
<1>1. 0 \in S
  <2> DEFINE g == [i \in 0 .. 0 |-> start]
  <2>1. g = [i \in 0 .. 0 |-> Loop(g, i)]
    OBVIOUS
  <2> HIDE DEF g
  <2>2. \E f : f = [i \in 0 .. 0 |-> Loop(f, i)]
    BY <2>1
  <2> QED BY <2>2
<1>2. ASSUME NEW n \in 0 .. count, n \in S, n < count
      PROVE  n + 1 \in S
  <2>1. PICK f : f = [i \in 0 .. n |-> Loop(f, i)]
    BY <1>2
  <2> DEFINE g == [i \in 0 .. n + 1 |-> IF i = n + 1 THEN ReadNext(items, f[n]) ELSE f[i]]
  <2>2. ASSUME NEW i \in 0 .. n + 1 PROVE g[i] = Loop(g, i)
    <3>1. CASE i = n + 1
      <4>1. g[n] = f[n]
        OBVIOUS
      <4> QED BY <3>1, <4>1
    <3>2. CASE i # n + 1 /\ i # 0
      <4>1. i \in 0 .. n /\ i - 1 \in 0 .. n
        BY <3>2
      <4>2. g[i] = f[i] /\ g[i - 1] = f[i - 1]
        BY <4>1
      <4> HIDE DEF g
      <4> QED BY <2>1, <3>2, <4>1, <4>2
    <3>3. CASE i = 0
      BY <2>1, <3>3
    <3> QED BY <3>1, <3>2, <3>3
  <2>3. g = [i \in 0 .. n + 1 |-> Loop(g, i)]
    BY <2>2
  <2> HIDE DEF g
  <2>4. \E h : h = [i \in 0 .. n + 1 |-> Loop(h, i)]
    BY <2>3
  <2>5. n + 1 \in 0 .. count
    BY <1>2
  <2> HIDE DEF Loop
  <2> QED BY <2>4, <2>5
<1>3. count \in S
  <2> HIDE DEF S
  <2> QED BY <1>1, <1>2, UpTo
<1> QED BY <1>3

\* What was read after each record.
ReadSteps(items, count, read) ==
    /\ ReadRecipients(items, count) = read[count]
    /\ read[0] = [at |-> 7, list |-> <<>>]
    /\ \A i \in 1 .. count : read[i] = ReadNext(items, read[i - 1])

\* The loop of decode, step by step.
LEMMA ReadUnfolds ==
    ASSUME NEW items, NEW count \in Nat
    PROVE  \E read : ReadSteps(items, count, read)
<1> DEFINE read == CHOOSE read : read = [i \in 0 .. count |->
                      IF i = 0 THEN [at |-> 7, list |-> <<>>] ELSE ReadNext(items, read[i - 1])]
<1>1. ReadRecipients(items, count) = read[count]
  BY DEF ReadRecipients
<1>2. read = [i \in 0 .. count |->
                 IF i = 0 THEN [at |-> 7, list |-> <<>>] ELSE ReadNext(items, read[i - 1])]
  BY SMTT(40), ReadIsDefined
<1> HIDE DEF read
<1>3. /\ read[0] = [at |-> 7, list |-> <<>>]
      /\ \A i \in 1 .. count : read[i] = ReadNext(items, read[i - 1])
  BY <1>2
<1>4. ReadSteps(items, count, read)
  BY <1>1, <1>3 DEF ReadSteps
<1> QED BY <1>4

-----------------------------------------------------------------------------
(***************************************************************************)
(* The fields of a record.                                                 *)
(***************************************************************************)

FieldName == {"id", "label", "credential", "key", "policy", "prfNonce", "nonce", "wrapped",
              "wrappedTwice", "kdf", "argon2id", "memory", "passes", "lanes", "salt"}

\* Every record begins with an id and a label, and has neither twice.
LEMMA FieldsTyped ==
    ASSUME NEW suite \in Suite
    PROVE  /\ Len(Fields(suite)) \in Nat /\ Len(Fields(suite)) >= 2 /\ Len(Fields(suite)) <= 15
           /\ DOMAIN Fields(suite) = 1 .. Len(Fields(suite))
           /\ Fields(suite)[1] = "id" /\ Fields(suite)[2] = "label"
           /\ \A i \in DOMAIN Fields(suite) :
                /\ Fields(suite)[i] \in FieldName
                /\ Fields(suite)[i] = "id" => i = 1
                /\ Fields(suite)[i] = "label" => i = 2
<1> DEFINE Named(f, n) ==
              /\ Len(f) = n /\ DOMAIN f = 1 .. n /\ f[1] = "id" /\ f[2] = "label"
              /\ \A i \in 1 .. n : /\ f[i] \in FieldName
                                   /\ f[i] = "id" => i = 1
                                   /\ f[i] = "label" => i = 2
<1> USE DEF PassphraseSuite, RecoverySecretSuite, FidoSuite, ManagedFidoSuite,
            FidoAndPassphraseSuite, FidoAndLocalSecretSuite, FieldName
<1> SUFFICES \E n \in Nat : n >= 2 /\ n <= 15 /\ Named(Fields(suite), n)
  OBVIOUS
<1>1. CASE suite = PassphraseSuite
  <2> DEFINE t == <<"id", "label">> \o KdfFields \o <<"nonce", "wrapped">>
  <2>1. Named(t, 10)
    BY DEF KdfFields
  <2>2. Fields(suite) = t
    BY <1>1 DEF Fields
  <2> HIDE DEF t
  <2>3. Named(Fields(suite), 10)
    BY <2>1, <2>2
  <2> QED BY <2>3
<1>2. CASE suite = RecoverySecretSuite
  <2> DEFINE t == <<"id", "label", "nonce", "wrapped">>
  <2>1. Named(t, 4)
    OBVIOUS
  <2>2. Fields(suite) = t
    BY <1>2 DEF Fields
  <2> HIDE DEF t
  <2>3. Named(Fields(suite), 4)
    BY <2>1, <2>2
  <2> QED BY <2>3
<1>3. CASE suite \in {FidoSuite, ManagedFidoSuite}
  <2> DEFINE t == FidoFields \o <<"wrapped">>
  <2>1. Named(t, 8)
    BY DEF FidoFields
  <2>2. Fields(suite) = t
    BY <1>3 DEF Fields
  <2> HIDE DEF t
  <2>3. Named(Fields(suite), 8)
    BY <2>1, <2>2
  <2> QED BY <2>3
<1>4. CASE suite = FidoAndPassphraseSuite
  <2> DEFINE t == FidoFields \o KdfFields \o <<"nonce", "wrappedTwice">>
  <2>1. Named(t, 15)
    BY DEF FidoFields, KdfFields
  <2>2. Fields(suite) = t
    BY <1>4 DEF Fields
  <2> HIDE DEF t
  <2>3. Named(Fields(suite), 15)
    BY <2>1, <2>2
  <2> QED BY <2>3
<1>5. CASE suite = FidoAndLocalSecretSuite
  <2> DEFINE t == <<"id", "label", "credential", "key", "prfNonce", "nonce", "wrapped">>
  <2>1. Named(t, 7)
    OBVIOUS
  <2>2. Fields(suite) = t
    BY <1>5 DEF Fields
  <2> HIDE DEF t
  <2>3. Named(Fields(suite), 7)
    BY <2>1, <2>2
  <2> QED BY <2>3
<1> QED BY <1>1, <1>2, <1>3, <1>4, <1>5 DEF Suite

\* The value of a field that a record has once is the one at its position.
LEMMA ValueAt ==
    ASSUME NEW r, NEW field, NEW i \in DOMAIN Fields(r.suite), Fields(r.suite)[i] = field,
           \A j \in DOMAIN Fields(r.suite) : Fields(r.suite)[j] = field => j = i
    PROVE  Value(r, field) = r.values[i]
<1> DEFINE at == {j \in DOMAIN Fields(r.suite) : Fields(r.suite)[j] = field}
<1>1. at = {i}
  OBVIOUS
<1>2. (CHOOSE j \in at : TRUE) = i
  <2> HIDE DEF at
  <2> QED BY <1>1
<1>3. Value(r, field) = IF at = {} THEN NoValue ELSE r.values[CHOOSE j \in at : TRUE]
  BY DEF Value
<1> HIDE DEF at
<1> QED BY <1>1, <1>2, <1>3

\* What the decoder takes an item for depends on its type, length and content.
LEMMA ReadsItem ==
    ASSUME NEW field \in FieldName, NEW i \in Items, Reads(field, i)
    PROVE  Reads(field, Item(TypeOf(field), i.n, i.x))
<1> DEFINE j == Item(TypeOf(field), i.n, i.x)
<1>1. j.n = i.n /\ j.x = i.x /\ j.t = TypeOf(field)
  BY DEF Item
<1>2. i.t = TypeOf(field)
  BY DEF Reads, TypeOf, FieldName, ExactBytes
<1> HIDE DEF j
<1>3. Reads(field, j)
  BY <1>1, <1>2, ZenonT(60) DEF Reads, ExactBytes, FieldName
<1> QED BY <1>3 DEF j

-----------------------------------------------------------------------------
(***************************************************************************)
(* What decode accepts.                                                    *)
(***************************************************************************)

LEMMA RecordRead ==
    ASSUME NEW items \in Seq(Items), NEW p \in Nat \ {0}, ReadsRecipient(items, p),
           ParametersRead(RecipientAt(items, p))
    PROVE  RecipientAt(items, p) \in Records
<1> DEFINE suite == items[p + 1].n
           fields == Fields(suite)
           r == RecipientAt(items, p)
<1>1. /\ suite \in Suite /\ p + 1 + Len(fields) <= Len(items)
      /\ \A f \in DOMAIN fields : Reads(fields[f], items[p + 1 + f])
  BY DEF ReadsRecipient
<1>2. /\ Len(fields) \in Nat /\ DOMAIN fields = 1 .. Len(fields)
      /\ \A f \in DOMAIN fields : fields[f] \in FieldName
  BY <1>1, FieldsTyped
<1>3. Len(items) \in Nat /\ DOMAIN items = 1 .. Len(items)
  OBVIOUS
<1>4. \A f \in DOMAIN fields : items[p + 1 + f] \in Items
  <2> SUFFICES ASSUME NEW f \in DOMAIN fields PROVE items[p + 1 + f] \in Items
    OBVIOUS
  <2>1. p + 1 + f \in 1 .. Len(items)
    BY <1>1, <1>2, <1>3
  <2> QED BY <2>1
<1>5. r = [suite |-> suite,
           values |-> [f \in DOMAIN fields |->
                         [n |-> items[p + 1 + f].n, x |-> items[p + 1 + f].x]]]
  BY DEF RecipientAt
<1> HIDE DEF r, suite, fields
<1>6. r.suite = suite /\ fields = Fields(r.suite)
  BY <1>5 DEF fields
<1>7. r.values \in [1 .. Len(fields) -> [n : Nat, x : Nat]]
  BY <1>2, <1>4, <1>5 DEF Items
<1>8. r.values \in Seq([n : Nat, x : Nat]) /\ Len(r.values) = Len(fields)
      /\ DOMAIN r.values = DOMAIN fields
  <2> DEFINE v == r.values
             n == Len(fields)
             V == [n : Nat, x : Nat]
  <2>1. v \in [1 .. n -> V] /\ n \in Nat
    BY <1>2, <1>7
  <2> HIDE DEF v, n, V
  <2>2. v \in Seq(V) /\ Len(v) = n /\ DOMAIN v = 1 .. n
    BY <2>1
  <2> QED BY <1>2, <2>2 DEF v, n, V
<1>9. \A f \in DOMAIN fields : Reads(fields[f], Item(TypeOf(fields[f]), r.values[f].n, r.values[f].x))
  <2> SUFFICES ASSUME NEW f \in DOMAIN fields
               PROVE  Reads(fields[f], Item(TypeOf(fields[f]), r.values[f].n, r.values[f].x))
    OBVIOUS
  <2>1. r.values[f].n = items[p + 1 + f].n /\ r.values[f].x = items[p + 1 + f].x
    BY <1>5
  <2>2. Reads(fields[f], Item(TypeOf(fields[f]), items[p + 1 + f].n, items[p + 1 + f].x))
    BY <1>1, <1>2, <1>4, ReadsItem
  <2> QED BY <2>1, <2>2
<1>10. ParametersRead(r)
  BY DEF r
<1>11. r \in [suite : Suite, values : Seq([n : Nat, x : Nat])]
  BY <1>1, <1>5, <1>8
<1> QED BY <1>6, <1>8, <1>9, <1>10, <1>11 DEF Records, r

Reading == [at : Nat, list : Seq(Records)]

LEMMA ReadNextTyped ==
    ASSUME NEW items \in Seq(Items), NEW done \in Reading
    PROVE  ReadNext(items, done) \in Reading
<1>1. CASE done.at = 0 \/ ~ReadsRecipient(items, done.at)
  BY <1>1 DEF ReadNext, Reading
<1>2. CASE done.at # 0 /\ ReadsRecipient(items, done.at)
  <2> DEFINE r == RecipientAt(items, done.at)
  <2>1. CASE ~ParametersRead(r)
    BY <1>2, <2>1 DEF ReadNext, Reading
  <2>2. CASE ParametersRead(r)
    <3>1. r \in Records
      BY <1>2, <2>2, RecordRead DEF Reading
    <3>2. ReadNext(items, done) = [at |-> done.at + 2 + Len(r.values), list |-> Append(done.list, r)]
      BY <1>2, <2>2 DEF ReadNext
    <3> HIDE DEF r
    <3>3. Len(r.values) \in Nat
      BY <3>1 DEF Records
    <3> QED BY <3>1, <3>2, <3>3 DEF Reading
  <2> QED BY <2>1, <2>2
<1> QED BY <1>1, <1>2

LEMMA ReadTyped ==
    ASSUME NEW items \in Seq(Items), NEW count \in Nat
    PROVE  ReadRecipients(items, count) \in Reading
<1>0. PICK read : ReadSteps(items, count, read)
  BY ReadUnfolds
<1>1. /\ ReadRecipients(items, count) = read[count]
      /\ read[0] = [at |-> 7, list |-> <<>>]
      /\ \A i \in 1 .. count : read[i] = ReadNext(items, read[i - 1])
  BY <1>0 DEF ReadSteps
<1> DEFINE S == {i \in 0 .. count : read[i] \in Reading}
<1>2. 0 \in S
  <2>1. [at |-> 7, list |-> <<>>] \in Reading
    BY DEF Reading
  <2> QED BY <1>1, <2>1
<1>3. ASSUME NEW i \in 0 .. count, i \in S, i < count PROVE i + 1 \in S
  <2>1. i + 1 \in 1 .. count /\ (i + 1) - 1 = i
    BY <1>3
  <2>2. read[i + 1] = ReadNext(items, read[i])
    BY <1>1, <2>1
  <2>3. read[i + 1] \in Reading
    BY <1>3, <2>2, ReadNextTyped
  <2> QED BY <2>1, <2>3
<1> HIDE DEF S
<1>4. 0 .. count \subseteq S
  BY <1>2, <1>3, UpTo
<1> QED BY <1>1, <1>4 DEF S

LEMMA RecordTyped ==
    ASSUME NEW r \in Records
    PROVE  /\ r.suite \in Suite /\ r.values \in Seq([n : Nat, x : Nat])
           /\ Len(r.values) = Len(Fields(r.suite)) /\ Len(r.values) \in Nat
           /\ Value(r, "id") = r.values[1] /\ Value(r, "label") = r.values[2]
           /\ RecipientId(r) \in Nat /\ Value(r, "label").x # 0
<1>1. /\ r.suite \in Suite /\ r.values \in Seq([n : Nat, x : Nat])
      /\ Len(r.values) = Len(Fields(r.suite))
      /\ \A f \in DOMAIN r.values :
            LET field == Fields(r.suite)[f]
            IN  Reads(field, Item(TypeOf(field), r.values[f].n, r.values[f].x))
  BY DEF Records
<1>2. /\ Len(Fields(r.suite)) \in Nat /\ Len(Fields(r.suite)) >= 2
      /\ DOMAIN Fields(r.suite) = 1 .. Len(Fields(r.suite))
      /\ Fields(r.suite)[1] = "id" /\ Fields(r.suite)[2] = "label"
      /\ \A i \in DOMAIN Fields(r.suite) : /\ Fields(r.suite)[i] = "id" => i = 1
                                           /\ Fields(r.suite)[i] = "label" => i = 2
  BY <1>1, FieldsTyped
<1>3. DOMAIN r.values = 1 .. Len(Fields(r.suite)) /\ 1 \in DOMAIN r.values /\ 2 \in DOMAIN r.values
  BY <1>1, <1>2
<1>4. Value(r, "id") = r.values[1]
  BY <1>2, <1>3, ValueAt
<1>5. Value(r, "label") = r.values[2]
  BY <1>2, <1>3, ValueAt
<1>6. r.values[1].x \in Nat
  <2> DEFINE v == r.values
             V == [n : Nat, x : Nat]
  <2>1. v \in Seq(V) /\ 1 \in DOMAIN v
    BY <1>1, <1>3
  <2> HIDE DEF v, V
  <2>2. v[1] \in V
    BY <2>1
  <2> QED BY <2>2 DEF v, V
<1>7. Reads("label", Item(TypeOf("label"), r.values[2].n, r.values[2].x))
  BY <1>1, <1>2, <1>3
<1>8. r.values[2].x # 0
  BY <1>7 DEF Reads, Item
<1> QED BY <1>1, <1>2, <1>4, <1>5, <1>6, <1>8 DEF RecipientId

\* Sorted neighbours make a sorted list.
LEMMA SortedThroughout ==
    ASSUME NEW list \in Seq(Records),
           \A i \in 1 .. Len(list) - 1 : RecipientId(list[i]) < RecipientId(list[i + 1])
    PROVE  \A i, j \in DOMAIN list : i < j => RecipientId(list[i]) < RecipientId(list[j])
<1> DEFINE id(i) == RecipientId(list[i])
           n == Len(list)
           S == {j \in 0 .. n : \A i \in 1 .. n : i < j => id(i) < id(j)}
<1>1. n \in Nat /\ DOMAIN list = 1 .. n
  OBVIOUS
<1>2. \A i \in 1 .. n : id(i) \in Nat
  <2> SUFFICES ASSUME NEW i \in 1 .. n PROVE id(i) \in Nat
    OBVIOUS
  <2>1. list[i] \in Records
    OBVIOUS
  <2> QED BY <2>1, RecordTyped
<1>3. \A i \in 1 .. n - 1 : id(i) < id(i + 1)
  OBVIOUS
<1> HIDE DEF id, n
<1>4. 0 \in S
  BY <1>1
<1>5. ASSUME NEW j \in 0 .. n, j \in S, j < n PROVE j + 1 \in S
  <2>1. j + 1 \in 1 .. n
    BY <1>1, <1>5
  <2> SUFFICES ASSUME NEW i \in 1 .. n, i < j + 1 PROVE id(i) < id(j + 1)
    BY <2>1
  <2>2. j \in 1 .. n - 1 /\ j \in 1 .. n
    BY <1>1, <1>5
  <2>3. id(j) < id(j + 1)
    BY <1>3, <2>2
  <2>4. i = j \/ (i < j /\ id(i) < id(j))
    BY <1>1, <1>5, <2>2
  <2> QED BY <1>2, <2>1, <2>2, <2>3, <2>4
<1>6. 0 .. n \subseteq S
  <2> HIDE DEF S
  <2> QED BY <1>1, <1>4, <1>5, UpTo
<1> QED BY <1>1, <1>6 DEF id

\* No value twice, counted.
LEMMA NoneTwice ==
    ASSUME NEW e, NEW field, NEW n \in Nat, DOMAIN e.recipients = 1 .. n,
           \A i, j \in 1 .. n : i < j =>
                (Value(e.recipients[i], field) = Value(e.recipients[j], field)
                    => Value(e.recipients[i], field) = NoValue)
    PROVE  Distinct(e, field)
<1> DEFINE v(i) == Value(e.recipients[i], field)
           with == {i \in DOMAIN e.recipients : v(i) # NoValue}
           all == {v(i) : i \in with}
           f == [i \in with |-> v(i)]
<1>1. IsFiniteSet(with)
  <2>1. IsFiniteSet(1 .. n)
    BY FS_Interval
  <2>2. with \in SUBSET (1 .. n)
    OBVIOUS
  <2> HIDE DEF with
  <2> QED BY <2>1, <2>2, FS_Subset
<1>2. f \in Surjection(with, all)
  BY DEF Surjection
<1>3. f \in Injection(with, all)
  <2>1. ASSUME NEW a \in with, NEW b \in with, f[a] = f[b] PROVE a = b
    <3>1. a \in 1 .. n /\ b \in 1 .. n /\ v(a) = v(b) /\ v(a) # NoValue
      BY <2>1
    <3>2. ~(a < b) /\ ~(b < a)
      BY <3>1
    <3> QED BY <3>1, <3>2
  <2>2. f \in [with -> all]
    OBVIOUS
  <2> HIDE DEF f, with, all
  <2>3. \A a, b \in with : f[a] = f[b] => a = b
    BY <2>1
  <2> QED BY <2>2, <2>3 DEF Injection, IsInjective
<1>4. Cardinality(all) = Cardinality(with)
  <2> HIDE DEF f, with, all
  <2> QED BY <1>1, <1>2, <1>3, FS_Surjection
<1>5. with = {i \in DOMAIN e.recipients : Value(e.recipients[i], field) # NoValue}
  OBVIOUS
<1>6. all = {Value(e.recipients[i], field) : i \in with}
  OBVIOUS
<1> HIDE DEF with, all, v
<1> QED BY <1>4, <1>5, <1>6 DEF Distinct

LEMMA MemoryTyped == MinMemory \in Nat /\ MaxMemory \in Nat
BY SMT DEF MinMemory, MaxMemory

\* Memory in whole units of four blocks for each lane.
LEMMA WholeBlocks ==
    ASSUME NEW memory, NEW passes, NEW lanes, ValidParameters(memory, passes, lanes)
    PROVE  memory = 4 * lanes * (memory \div (4 * lanes))
<1> USE MemoryTyped
<1>0. lanes \in 1 .. 4 /\ memory \in MinMemory .. MaxMemory /\ memory % (4 * lanes) = 0
  BY DEF ValidParameters
<1>1. lanes \in {1, 2, 3, 4} /\ memory \in Nat /\ memory % (4 * lanes) = 0
  <2>1. lanes \in {1, 2, 3, 4}
    BY <1>0
  <2>2. memory \in Nat
    BY <1>0
  <2> QED BY <1>0, <2>1, <2>2
<1>2. CASE lanes = 1
  BY <1>1, <1>2
<1>3. CASE lanes = 2
  BY <1>1, <1>3
<1>4. CASE lanes = 3
  BY <1>1, <1>4
<1>5. CASE lanes = 4
  BY <1>1, <1>5
<1> QED BY <1>1, <1>2, <1>3, <1>4, <1>5

LEMMA EnvelopesValid ==
    ASSUME NEW e \in Envelopes, Len(e.recipients) # 0
    PROVE  ValidEnvelope(e)
<1>1. /\ e.recipients \in Seq(Records) /\ Len(e.recipients) <= MaxRecipients
      /\ ValidRecipientSet(e.recipients)
  BY DEF Envelopes
<1> DEFINE n == Len(e.recipients)
<1>2. n \in Nat /\ DOMAIN e.recipients = 1 .. n
  BY <1>1
<1>3. \A i, j \in DOMAIN e.recipients :
            i < j => RecipientId(e.recipients[i]) < RecipientId(e.recipients[j])
  BY <1>1, SortedThroughout DEF ValidRecipientSet
<1>4. Distinct(e, "credential") /\ Distinct(e, "salt")
  <2>1. Distinct(e, "credential")
    <3>1. \A i, j \in 1 .. n : i < j =>
            (Value(e.recipients[i], "credential") = Value(e.recipients[j], "credential")
                => Value(e.recipients[i], "credential") = NoValue)
      BY <1>1, <1>2 DEF ValidRecipientSet
    <3> QED BY <1>2, <3>1, NoneTwice
  <2>2. Distinct(e, "salt")
    <3>1. \A i, j \in 1 .. n : i < j =>
            (Value(e.recipients[i], "salt") = Value(e.recipients[j], "salt")
                => Value(e.recipients[i], "salt") = NoValue)
      BY <1>1, <1>2 DEF ValidRecipientSet
    <3> QED BY <1>2, <3>1, NoneTwice
  <2> QED BY <2>1, <2>2
<1>5. ASSUME NEW r \in Records
      PROVE  /\ Len(r.values) = Len(Fields(r.suite))
             /\ Value(r, "label").x # 0
             /\ Value(r, "kdf") # NoValue =>
                    \E lanes \in 1 .. 4, passes \in 3 .. 6 :
                        /\ Value(r, "lanes").n = lanes
                        /\ Value(r, "passes").n = passes
                        /\ Value(r, "memory").n \in MinMemory .. MaxMemory
                        /\ Value(r, "memory").n = 4 * lanes * (Value(r, "memory").n \div (4 * lanes))
  <2>1. Len(r.values) = Len(Fields(r.suite)) /\ Value(r, "label").x # 0
    BY RecordTyped
  <2>2. Value(r, "kdf") # NoValue =>
            ValidParameters(Value(r, "memory").n, Value(r, "passes").n, Value(r, "lanes").n)
    BY DEF Records, ParametersRead
  <2> DEFINE m == Value(r, "memory").n
             p == Value(r, "passes").n
             l == Value(r, "lanes").n
  <2>3. ASSUME ValidParameters(m, p, l)
        PROVE  l \in 1 .. 4 /\ p \in 3 .. 6 /\ m \in MinMemory .. MaxMemory
               /\ m = 4 * l * (m \div (4 * l))
    <3> HIDE DEF m, p, l
    <3>1. l \in 1 .. 4 /\ p \in 3 .. 6 /\ m \in MinMemory .. MaxMemory
      BY <2>3 DEF ValidParameters
    <3> QED BY <2>3, <3>1, WholeBlocks
  <2>4. Value(r, "kdf") # NoValue => ValidParameters(m, p, l)
    BY <2>2
  <2> HIDE DEF m, p, l
  <2>5. Value(r, "kdf") # NoValue =>
            \E lanes \in 1 .. 4, passes \in 3 .. 6 :
                l = lanes /\ p = passes /\ m \in MinMemory .. MaxMemory
                /\ m = 4 * lanes * (m \div (4 * lanes))
    BY <2>3, <2>4
  <2> QED BY <2>1, <2>5 DEF m, p, l
<1>6. \A i \in DOMAIN e.recipients : e.recipients[i] \in Records
  BY <1>1
<1>7. n \in 1 .. MaxRecipients
  <2>1. n # 0 /\ n <= MaxRecipients
    BY <1>1
  <2> HIDE DEF n
  <2> QED BY <1>2, <2>1 DEF MaxRecipients
<1> HIDE DEF n
<1> QED BY <1>3, <1>4, <1>5, <1>6, <1>7 DEF ValidEnvelope, n

\* Whatever the items are, what decode makes of them is an envelope, and the
\* items are its encoding.
LEMMA DecodeTyped ==
    ASSUME NEW items \in Seq(Items), Decode(items) # Invalid
    PROVE  /\ Decode(items) \in Envelopes /\ Len(Decode(items).recipients) # 0
           /\ Encode(Decode(items)) = items
<1> DEFINE read == ReadRecipients(items, items[6].n)
           e == [application |-> [n |-> items[4].n, x |-> items[4].x],
                 envelopeId |-> items[5].x,
                 recipients |-> read.list,
                 mac |-> items[Len(items)].x]
<1>1. /\ Size(items) <= MaxEnvelopeSize \/ TRUE
      /\ ReadsHeader(items)
      /\ read.at = Len(items)
      /\ ExactBytes(items[read.at], 32)
      /\ ValidRecipientSet(read.list)
      /\ Encode(e) = items
      /\ Decode(items) = e
  BY DEF Decode
<1>2. /\ Len(items) \in Nat /\ DOMAIN items = 1 .. Len(items) /\ Len(items) >= 6
      /\ items[4].n \in MinApplicationId .. MaxApplicationId /\ items[4].x # 0
      /\ items[6].n \in 1 .. MaxRecipients
  BY <1>1 DEF ReadsHeader
<1>3. \A i \in 1 .. Len(items) : items[i].n \in Nat /\ items[i].x \in Nat
  <2>1. \A i \in 1 .. Len(items) : items[i] \in Items
    OBVIOUS
  <2> QED BY <2>1 DEF Items
<1>4. read \in Reading
  <2>1. items[6].n \in Nat
    BY <1>2, <1>3
  <2> QED BY <2>1, ReadTyped
<1>5. read.list \in Seq(Records)
  BY <1>4 DEF Reading
<1> HIDE DEF read
<1>6. Len(read.list) = items[6].n
  <2>1. Encode(e)[6] = ArrayOf(Len(e.recipients))
    BY DEF Encode
  <2>2. items[6] = ArrayOf(Len(read.list))
    BY <1>1, <2>1
  <2> QED BY <2>2 DEF ArrayOf, Item
<1>7. e \in [application : [n : MinApplicationId .. MaxApplicationId, x : Nat \ {0}],
             envelopeId : Nat, recipients : Seq(Records), mac : Nat]
  BY SMTT(40), <1>2, <1>3, <1>5
<1>8. e.recipients = read.list
  OBVIOUS
<1> HIDE DEF e
<1>9. e \in Envelopes /\ Len(e.recipients) # 0
  <2>1. Len(e.recipients) <= MaxRecipients /\ Len(e.recipients) # 0
    <3> DEFINE c == items[6].n
    <3>1. Len(e.recipients) = c /\ c \in 1 .. MaxRecipients
      BY <1>2, <1>6, <1>8
    <3> HIDE DEF c
    <3> QED BY <3>1 DEF MaxRecipients
  <2>2. ValidRecipientSet(e.recipients)
    BY <1>1, <1>8
  <2> QED BY <1>7, <2>1, <2>2 DEF Envelopes
<1> QED BY <1>1, <1>9

-----------------------------------------------------------------------------
(***************************************************************************)
(* The records of an encoding, one after the other.                        *)
(***************************************************************************)

LEMMA FlattenIsDefined ==
    ASSUME NEW seqs, NEW n \in Nat
    PROVE  \E flatten : flatten = [i \in 1 .. n |->
                IF i = 1 THEN seqs[i] ELSE flatten[i - 1] \o seqs[i]]
<1> DEFINE Loop(f, i) == IF i = 1 THEN seqs[i] ELSE f[i - 1] \o seqs[i]
           S == {k \in 0 .. n : \E f : f = [i \in 1 .. k |-> Loop(f, i)]}
<1>1. 0 \in S
  <2> DEFINE g == [i \in {} |-> 0]
  <2>1. g = [i \in 1 .. 0 |-> Loop(g, i)]
    OBVIOUS
  <2> HIDE DEF g, Loop
  <2>2. \E f : f = [i \in 1 .. 0 |-> Loop(f, i)]
    BY <2>1
  <2>3. 0 \in 0 .. n
    OBVIOUS
  <2> QED BY <2>2, <2>3
<1>2. ASSUME NEW k \in 0 .. n, k \in S, k < n
      PROVE  k + 1 \in S
  <2>1. PICK f : f = [i \in 1 .. k |-> Loop(f, i)]
    BY <1>2
  <2> DEFINE g == [i \in 1 .. k + 1 |-> IF i = k + 1 THEN Loop(f, i) ELSE f[i]]
  <2>2. ASSUME NEW i \in 1 .. k + 1 PROVE g[i] = Loop(g, i)
    <3>1. CASE i = 1
      BY <2>1, <3>1
    <3>2. CASE i # 1
      <4>1. i - 1 \in 1 .. k /\ i - 1 # k + 1
        BY <3>2
      <4>2. g[i - 1] = f[i - 1]
        BY <4>1
      <4>3. g[i] = IF i = k + 1 THEN f[i - 1] \o seqs[i] ELSE f[i]
        BY <3>2
      <4>4. i # k + 1 => f[i] = f[i - 1] \o seqs[i]
        <5>1. i # k + 1 => i \in 1 .. k
          OBVIOUS
        <5> QED BY <2>1, <3>2, <5>1
      <4> HIDE DEF g
      <4> QED BY <3>2, <4>2, <4>3, <4>4
    <3> QED BY <3>1, <3>2
  <2> HIDE DEF Loop
  <2>3. g = [i \in 1 .. k + 1 |-> Loop(g, i)]
    BY <2>2
  <2> HIDE DEF g
  <2>4. \E h : h = [i \in 1 .. k + 1 |-> Loop(h, i)]
    BY <2>3
  <2>5. k + 1 \in 0 .. n
    BY <1>2
  <2> QED BY <2>4, <2>5
<1>3. 0 .. n \subseteq S
  <2> HIDE DEF S
  <2> QED BY <1>1, <1>2, UpTo
<1>4. n \in S
  <2> HIDE DEF S
  <2>1. n \in 0 .. n
    OBVIOUS
  <2> QED BY <1>3, <2>1
<1> QED BY <1>4

\* The lists of all the parts up to each.
LEMMA FlattenUnfolds ==
    ASSUME NEW X, NEW seqs \in Seq(Seq(X))
    PROVE  \E f \in [0 .. Len(seqs) -> Seq(X)] :
             /\ f[0] = <<>> /\ FlattenSeq(seqs) = f[Len(seqs)]
             /\ \A i \in 1 .. Len(seqs) : f[i] = f[i - 1] \o seqs[i]
<1> DEFINE n == Len(seqs)
           flatten == CHOOSE flatten : flatten = [i \in 1 .. n |->
                IF i = 1 THEN seqs[i] ELSE flatten[i - 1] \o seqs[i]]
           f == [i \in 0 .. n |-> IF i = 0 THEN <<>> ELSE flatten[i]]
<1>1. n \in Nat /\ \A i \in 1 .. n : seqs[i] \in Seq(X)
  OBVIOUS
<1>2. FlattenSeq(seqs) = IF n = 0 THEN seqs ELSE flatten[n]
  BY DEF FlattenSeq
<1>3. flatten = [i \in 1 .. n |->
                IF i = 1 THEN seqs[i] ELSE flatten[i - 1] \o seqs[i]]
  BY <1>1, FlattenIsDefined
<1>4. n = 0 => seqs = <<>>
  BY EmptySeq
<1> HIDE DEF flatten, n
<1>5. f[0] = <<>> /\ FlattenSeq(seqs) = f[n]
  BY <1>1, <1>2, <1>4
<1>6. ASSUME NEW i \in 1 .. n PROVE f[i] = f[i - 1] \o seqs[i]
  <2>1. CASE i = 1
    <3>1. f[i] = seqs[i] /\ f[i - 1] = <<>>
      <4>1. 1 \in 1 .. n /\ 1 \in 0 .. n /\ 0 \in 0 .. n /\ 1 - 1 = 0
        BY <2>1, <1>1
      <4>2. flatten[1] = seqs[1]
        BY <1>3, <4>1
      <4>3. f[1] = flatten[1] /\ f[0] = <<>>
        BY <4>1
      <4> HIDE DEF f
      <4> QED BY <2>1, <4>1, <4>2, <4>3
    <3>2. <<>> \o seqs[i] = seqs[i]
      BY <1>1, ConcatEmptySeq
    <3> QED BY <3>1, <3>2
  <2>2. CASE i # 1
    <3>1. i - 1 \in 1 .. n
      BY <2>2, <1>1
    <3>2. f[i] = flatten[i] /\ f[i - 1] = flatten[i - 1]
      BY <3>1, <1>1
    <3> HIDE DEF f
    <3> QED BY <1>3, <2>2, <3>2
  <2> QED BY <2>1, <2>2
<1> DEFINE S == {k \in 0 .. n : f[k] \in Seq(X)}
<1>7. 0 \in S
  BY <1>1, <1>5
<1>8. ASSUME NEW k \in 0 .. n, k \in S, k < n PROVE k + 1 \in S
  <2>1. k + 1 \in 1 .. n /\ (k + 1) - 1 = k
    BY <1>1, <1>8
  <2> HIDE DEF f
  <2>2. f[k + 1] = f[k] \o seqs[k + 1]
    BY <1>6, <2>1
  <2>3. f[k] \in Seq(X) /\ seqs[k + 1] \in Seq(X)
    BY <1>1, <1>8, <2>1
  <2>4. f[k + 1] \in Seq(X)
    BY <2>2, <2>3, ConcatProperties
  <2> QED BY <2>1, <2>4
<1>9. 0 .. n \subseteq S
  <2> HIDE DEF S
  <2> QED BY <1>1, <1>7, <1>8, UpTo
<1>10. f \in [0 .. n -> Seq(X)]
  <2>1. \A k \in 0 .. n : f[k] \in Seq(X)
    BY <1>9
  <2>2. f = [i \in 0 .. n |-> f[i]]
    OBVIOUS
  <2> HIDE DEF f
  <2> QED BY <2>1, <2>2
<1> HIDE DEF f
<1> QED BY <1>5, <1>6, <1>10, SMTT(40) DEF n

-----------------------------------------------------------------------------
(***************************************************************************)
(* What enrollment writes.                                                 *)
(***************************************************************************)

\* The fields of the key-derivation function stand together, once or not at
\* all; the credential follows the label.
KdfAt(f, k) ==
    /\ k + 5 <= Len(f)
    /\ f[k] = "kdf" /\ f[k + 2] = "memory" /\ f[k + 3] = "passes" /\ f[k + 4] = "lanes"
    /\ f[k + 5] = "salt"
    /\ \A i \in DOMAIN f : /\ f[i] = "kdf" => i = k
                           /\ f[i] = "memory" => i = k + 2
                           /\ f[i] = "passes" => i = k + 3
                           /\ f[i] = "lanes" => i = k + 4
                           /\ f[i] = "salt" => i = k + 5

NoKdf(f) == \A i \in DOMAIN f : f[i] \notin {"kdf", "memory", "passes", "lanes", "salt"}

LEMMA FieldsOnce ==
    ASSUME NEW suite \in Suite
    PROVE  /\ \A i \in DOMAIN Fields(suite) : Fields(suite)[i] = "credential" => i = 3
           /\ NoKdf(Fields(suite)) \/ KdfAt(Fields(suite), 3) \/ KdfAt(Fields(suite), 8)
<1> DEFINE Good(f) ==
              /\ \A i \in DOMAIN f : f[i] = "credential" => i = 3
              /\ NoKdf(f) \/ KdfAt(f, 3) \/ KdfAt(f, 8)
<1> USE DEF PassphraseSuite, RecoverySecretSuite, FidoSuite, ManagedFidoSuite,
            FidoAndPassphraseSuite, FidoAndLocalSecretSuite
<1> SUFFICES Good(Fields(suite))
  OBVIOUS
<1>1. CASE suite = PassphraseSuite
  <2> DEFINE t == <<"id", "label">> \o KdfFields \o <<"nonce", "wrapped">>
  <2>1. KdfAt(t, 3)
    BY DEF KdfFields, KdfAt
  <2>2. \A i \in DOMAIN t : t[i] # "credential"
    BY DEF KdfFields
  <2>3. Fields(suite) = t
    BY <1>1 DEF Fields
  <2> HIDE DEF t
  <2> QED BY <2>1, <2>2, <2>3
<1>2. CASE suite = RecoverySecretSuite
  <2> DEFINE t == <<"id", "label", "nonce", "wrapped">>
  <2>1. NoKdf(t) /\ \A i \in DOMAIN t : t[i] # "credential"
    BY DEF NoKdf
  <2>2. Fields(suite) = t
    BY <1>2 DEF Fields
  <2> HIDE DEF t
  <2> QED BY <2>1, <2>2
<1>3. CASE suite \in {FidoSuite, ManagedFidoSuite}
  <2> DEFINE t == FidoFields \o <<"wrapped">>
  <2>1. NoKdf(t) /\ \A i \in DOMAIN t : t[i] = "credential" => i = 3
    BY DEF NoKdf, FidoFields
  <2>2. Fields(suite) = t
    BY <1>3 DEF Fields
  <2> HIDE DEF t
  <2> QED BY <2>1, <2>2
<1>4. CASE suite = FidoAndPassphraseSuite
  <2> DEFINE t == FidoFields \o KdfFields \o <<"nonce", "wrappedTwice">>
  <2>1. KdfAt(t, 8)
    BY DEF KdfAt, KdfFields, FidoFields
  <2>2. \A i \in DOMAIN t : t[i] = "credential" => i = 3
    BY DEF KdfFields, FidoFields
  <2>3. Fields(suite) = t
    BY <1>4 DEF Fields
  <2> HIDE DEF t
  <2> QED BY <2>1, <2>2, <2>3
<1>5. CASE suite = FidoAndLocalSecretSuite
  <2> DEFINE t == <<"id", "label", "credential", "key", "prfNonce", "nonce", "wrapped">>
  <2>1. NoKdf(t) /\ \A i \in DOMAIN t : t[i] = "credential" => i = 3
    BY DEF NoKdf
  <2>2. Fields(suite) = t
    BY <1>5 DEF Fields
  <2> HIDE DEF t
  <2> QED BY <2>1, <2>2
<1> QED BY <1>1, <1>2, <1>3, <1>4, <1>5 DEF Suite

LEMMA ValueAbsent ==
    ASSUME NEW r, NEW field, \A i \in DOMAIN Fields(r.suite) : Fields(r.suite)[i] # field
    PROVE  Value(r, field) = NoValue
BY DEF Value

Enrollment == [suite : Suite, id : Nat \ {0}, wide : BOOLEAN]

LEMMA NewRecordAt ==
    ASSUME NEW r \in Enrollment
    PROVE  /\ NewRecord(r).suite = r.suite /\ r.suite \in Suite
           /\ DOMAIN NewRecord(r).values = DOMAIN Fields(r.suite)
           /\ \A i \in DOMAIN Fields(r.suite) :
                NewRecord(r).values[i] = NewValue(r, Fields(r.suite)[i])
BY DEF NewRecord, Enrollment

LEMMA NewValueRead ==
    ASSUME NEW r \in Enrollment, NEW field \in FieldName
    PROVE  /\ NewValue(r, field) \in [n : Nat, x : Nat]
           /\ Reads(field, Item(TypeOf(field), NewValue(r, field).n, NewValue(r, field).x))
<1> DEFINE v == NewValue(r, field)
           i == Item(TypeOf(field), v.n, v.x)
<1>1. r.id \in Nat \ {0} /\ r.wide \in BOOLEAN
  BY DEF Enrollment
<1>2. i.t = TypeOf(field) /\ i.n = v.n /\ i.x = v.x
  BY DEF Item
<1>3. v \in [n : Nat, x : Nat]
  BY <1>1, MemoryTyped DEF NewValue, FieldName, MaxLabel, MaxCredentialId
<1>4. v.n = CASE field = "id" -> 32
              [] field = "label" -> IF r.wide THEN 64 ELSE 1
              [] field = "credential" -> IF r.wide THEN 1024 ELSE 1
              [] field = "key" -> 64
              [] field = "policy" -> IF r.wide THEN 2 ELSE 1
              [] field = "prfNonce" -> 32
              [] field = "nonce" -> 12
              [] field = "wrapped" -> 48
              [] field = "wrappedTwice" -> 64
              [] field = "kdf" -> 5
              [] field = "argon2id" -> 1
              [] field = "salt" -> 16
              [] OTHER -> v.n
  BY DEF NewValue, FieldName, MaxLabel, MaxCredentialId
<1>5. field \in {"label", "key"} => v.x # 0
  BY <1>1 DEF NewValue
<1> HIDE DEF v, i
<1>6. Reads(field, i)
  <2>1. i.t = CASE field = "label" -> "str"
                [] field = "kdf" -> "array"
                [] field \in {"argon2id", "memory", "passes", "lanes", "policy"} -> "uint"
                [] OTHER -> "bytes"
    BY <1>2 DEF TypeOf
  <2>2. CASE field \in {"label", "credential", "key", "policy"}
    <3>1. field = "label" => i.t = "str" /\ i.n \in 1 .. 64 /\ i.x # 0
      BY <1>2, <1>4, <1>5, <2>1
    <3>2. field = "credential" => i.t = "bytes" /\ i.n \in 1 .. 1024
      BY <1>2, <1>4, <2>1
    <3>3. field = "key" => i.t = "bytes" /\ i.n = 64 /\ i.x # 0
      BY <1>2, <1>4, <1>5, <2>1
    <3>4. field = "policy" => i.t = "uint" /\ i.n \in {1, 2}
      BY <1>2, <1>4, <2>1
    <3>5. CASE field \in {"label", "credential"}
      BY <3>5, <3>1, <3>2, ZenonT(60) DEF Reads, MaxLabel, MaxCredentialId
    <3>6. CASE field = "key"
      BY <3>6, <3>3 DEF Reads, ExactBytes
    <3>7. CASE field = "policy"
      BY <3>7, <3>4 DEF Reads
    <3> QED BY <2>2, <3>5, <3>6, <3>7
  <2>3. CASE field \in {"id", "prfNonce", "nonce", "wrapped", "wrappedTwice", "salt"}
    <3>1. i.t = "bytes"
      BY <2>1, <2>3
    <3>2. i.n = CASE field = "id" -> 32 [] field = "prfNonce" -> 32 [] field = "nonce" -> 12
                  [] field = "wrapped" -> 48 [] field = "wrappedTwice" -> 64 [] field = "salt" -> 16
      BY <1>2, <1>4, <2>3
    <3> QED BY <2>3, <3>1, <3>2 DEF Reads, ExactBytes
  <2>4. CASE field \in {"kdf", "argon2id", "memory", "passes", "lanes"}
    <3>1. i.t = IF field = "kdf" THEN "array" ELSE "uint"
      BY <2>1, <2>4
    <3>2. field = "kdf" => i.n = 5
      BY <1>2, <1>4
    <3>3. field = "argon2id" => i.n = 1
      BY <1>2, <1>4
    <3> QED BY <2>4, <3>1, <3>2, <3>3 DEF Reads
  <2> QED BY <2>2, <2>3, <2>4 DEF FieldName
<1> QED BY <1>3, <1>6 DEF v, i

LEMMA NewParameters ==
    /\ ValidParameters(MinMemory, 3, 1)
    /\ ValidParameters(MaxMemory, 6, 4)
<1>1. ValidParameters(MinMemory, 3, 1)
  BY SMT DEF ValidParameters, MinMemory, MaxMemory
<1>2. ValidParameters(MaxMemory, 6, 4)
  BY SMT DEF ValidParameters, MinMemory, MaxMemory
<1> QED BY <1>1, <1>2

\* What the protector builds is a record that the decoder reads back, with a
\* credential id and a salt of its own.
LEMMA NewRecordRead ==
    ASSUME NEW r \in Enrollment
    PROVE  /\ NewRecord(r) \in Records /\ RecipientId(NewRecord(r)) = r.id
           /\ Linked(NewRecord(r))
<1> DEFINE s == r.suite
           f == Fields(s)
           new == NewRecord(r)
           n == Len(f)
<1>1. /\ new.suite = s /\ s \in Suite /\ DOMAIN new.values = DOMAIN f
      /\ \A i \in DOMAIN f : new.values[i] = NewValue(r, f[i])
  BY NewRecordAt
<1>2. /\ n \in Nat /\ n >= 2 /\ DOMAIN f = 1 .. n /\ f[1] = "id" /\ f[2] = "label"
      /\ \A i \in DOMAIN f : /\ f[i] \in FieldName
                             /\ f[i] = "id" => i = 1
                             /\ f[i] = "label" => i = 2
  BY <1>1, FieldsTyped
<1>3. /\ \A i \in DOMAIN f : f[i] = "credential" => i = 3
      /\ NoKdf(f) \/ KdfAt(f, 3) \/ KdfAt(f, 8)
  BY <1>1, FieldsOnce
<1>4. f = Fields(new.suite)
  BY <1>1
<1>5. new = [suite |-> s, values |-> [i \in DOMAIN f |-> NewValue(r, f[i])]]
  BY DEF NewRecord
<1> HIDE DEF n, f, s, new
<1>6. new.values \in Seq([n : Nat, x : Nat]) /\ Len(new.values) = n
  <2> DEFINE v == new.values
             V == [n : Nat, x : Nat]
  <2>1. \A i \in 1 .. n : v[i] \in V
    <3> SUFFICES ASSUME NEW i \in 1 .. n PROVE v[i] \in V
      OBVIOUS
    <3>1. f[i] \in FieldName /\ v[i] = NewValue(r, f[i])
      BY <1>1, <1>2
    <3>2. NewValue(r, f[i]) \in V
      BY <3>1, NewValueRead
    <3> HIDE DEF v, V
    <3> QED BY <3>1, <3>2
  <2>2. v = [i \in 1 .. n |-> NewValue(r, f[i])]
    BY <1>2, <1>5
  <2> HIDE DEF v, V
  <2>3. v \in [1 .. n -> V]
    BY <2>1, <2>2
  <2>4. v \in Seq(V) /\ Len(v) = n
    BY <1>2, <2>3
  <2> QED BY <2>4 DEF v, V
<1>7. \A i \in DOMAIN new.values :
        LET field == Fields(new.suite)[i]
        IN  Reads(field, Item(TypeOf(field), new.values[i].n, new.values[i].x))
  BY <1>1, <1>2, <1>4, NewValueRead
<1>8. \A field : (\A i \in DOMAIN f : f[i] # field) => Value(new, field) = NoValue
  BY <1>4, ValueAbsent
<1>9. \A field : \A k \in DOMAIN f : f[k] = field /\ (\A i \in DOMAIN f : f[i] = field => i = k)
            => Value(new, field) = NewValue(r, field)
  BY <1>1, <1>4, ValueAt
<1>10. ASSUME NEW k \in {3, 8}, KdfAt(f, k)
       PROVE  /\ Value(new, "memory") = NewValue(r, "memory")
              /\ Value(new, "passes") = NewValue(r, "passes")
              /\ Value(new, "lanes") = NewValue(r, "lanes")
              /\ Value(new, "salt") = NewValue(r, "salt")
  <2>1. k + 5 <= n
    BY <1>10 DEF KdfAt, n
  <2>2. k + 2 \in DOMAIN f /\ k + 3 \in DOMAIN f /\ k + 4 \in DOMAIN f /\ k + 5 \in DOMAIN f
    BY <1>2, <2>1
  <2> QED BY <1>9, <1>10, <2>2 DEF KdfAt
<1>11. ParametersRead(new)
  <2> SUFFICES ASSUME Value(new, "kdf") # NoValue
               PROVE  ValidParameters(Value(new, "memory").n, Value(new, "passes").n,
                                      Value(new, "lanes").n)
    BY DEF ParametersRead
  <2>1. ~NoKdf(f)
    BY <1>8 DEF NoKdf
  <2>2. /\ Value(new, "memory") = NewValue(r, "memory")
        /\ Value(new, "passes") = NewValue(r, "passes")
        /\ Value(new, "lanes") = NewValue(r, "lanes")
    BY <1>3, <1>10, <2>1
  <2>3. /\ NewValue(r, "memory").n = IF r.wide THEN MaxMemory ELSE MinMemory
        /\ NewValue(r, "passes").n = IF r.wide THEN 6 ELSE 3
        /\ NewValue(r, "lanes").n = IF r.wide THEN 4 ELSE 1
    BY DEF NewValue
  <2> QED BY <2>2, <2>3, NewParameters
<1>12. RecipientId(new) = r.id
  <2>1. Value(new, "id") = NewValue(r, "id")
    BY <1>2, <1>9
  <2> QED BY <2>1 DEF RecipientId, NewValue
<1>13. Linked(new)
  <2>1. Value(new, "credential") # NoValue => Value(new, "credential").x = r.id
    <3>1. CASE \A i \in DOMAIN f : f[i] # "credential"
      BY <1>8, <3>1
    <3>2. CASE \E i \in DOMAIN f : f[i] = "credential"
      <4>1. Value(new, "credential") = NewValue(r, "credential")
        BY <1>3, <1>9, <3>2
      <4> QED BY <4>1 DEF NewValue
    <3> QED BY <3>1, <3>2
  <2>2. Value(new, "salt") # NoValue => Value(new, "salt").x = r.id
    <3>1. CASE NoKdf(f)
      BY <1>8, <3>1 DEF NoKdf
    <3>2. CASE ~NoKdf(f)
      <4>1. Value(new, "salt") = NewValue(r, "salt")
        BY <1>3, <1>10, <3>2
      <4> QED BY <4>1 DEF NewValue
    <3> QED BY <3>1, <3>2
  <2> QED BY <1>12, <2>1, <2>2 DEF Linked
<1>14. new \in [suite : Suite, values : Seq([n : Nat, x : Nat])]
  BY <1>1, <1>5, <1>6
<1>15. new \in Records
  BY <1>4, <1>6, <1>7, <1>11, <1>14 DEF Records, n
<1> QED BY <1>12, <1>13, <1>15 DEF new

\* Where each part begins and ends in the whole.
LEMMA FlattenLayout ==
    ASSUME NEW X, NEW seqs \in Seq(Seq(X))
    PROVE  /\ FlattenSeq(seqs) \in Seq(X)
           /\ \E at \in [0 .. Len(seqs) -> Nat] :
                /\ at[0] = 0 /\ at[Len(seqs)] = Len(FlattenSeq(seqs))
                /\ \A i \in 1 .. Len(seqs) :
                    /\ at[i] = at[i - 1] + Len(seqs[i]) /\ at[i] <= at[Len(seqs)]
                    /\ \A j \in 1 .. Len(seqs[i]) : FlattenSeq(seqs)[at[i - 1] + j] = seqs[i][j]
<1> DEFINE n == Len(seqs)
<1>1. n \in Nat /\ \A i \in 1 .. n : seqs[i] \in Seq(X) /\ Len(seqs[i]) \in Nat
  OBVIOUS
<1>2. PICK f \in [0 .. n -> Seq(X)] :
        /\ f[0] = <<>> /\ FlattenSeq(seqs) = f[n]
        /\ \A i \in 1 .. n : f[i] = f[i - 1] \o seqs[i]
  BY FlattenUnfolds
<1> HIDE DEF n
<1>3. \A i \in 0 .. n : f[i] \in Seq(X) /\ Len(f[i]) \in Nat
  BY <1>2
<1>4. ASSUME NEW i \in 1 .. n
      PROVE  /\ i \in 0 .. n /\ i - 1 \in 0 .. n
             /\ Len(f[i]) = Len(f[i - 1]) + Len(seqs[i])
             /\ \A j \in 1 .. Len(f[i - 1]) : f[i][j] = f[i - 1][j]
             /\ \A j \in 1 .. Len(seqs[i]) : f[i][Len(f[i - 1]) + j] = seqs[i][j]
  <2>1. i \in 0 .. n /\ i - 1 \in 0 .. n
    BY <1>1
  <2> DEFINE s == f[i - 1]
             t == seqs[i]
             u == f[i]
  <2>2. s \in Seq(X) /\ t \in Seq(X) /\ u = s \o t /\ Len(s) \in Nat /\ Len(t) \in Nat
    BY <1>1, <1>2, <1>3, <2>1
  <2> HIDE DEF s, t, u
  <2>3. /\ Len(u) = Len(s) + Len(t)
        /\ \A j \in 1 .. Len(s) + Len(t) : u[j] = IF j <= Len(s) THEN s[j] ELSE t[j - Len(s)]
    BY <2>2, ConcatProperties
  <2>4. \A j \in 1 .. Len(s) : u[j] = s[j]
    BY <2>2, <2>3
  <2>5. ASSUME NEW j \in 1 .. Len(t) PROVE u[Len(s) + j] = t[j]
    <3>1. Len(s) + j \in 1 .. Len(s) + Len(t) /\ ~(Len(s) + j <= Len(s))
          /\ (Len(s) + j) - Len(s) = j
      BY <2>2
    <3> QED BY <2>3, <3>1
  <2> QED BY <2>1, <2>3, <2>4, <2>5 DEF s, t, u
<1>5. ASSUME NEW i \in 0 .. n
      PROVE  Len(f[i]) <= Len(f[n]) /\ \A j \in 1 .. Len(f[i]) : f[n][j] = f[i][j]
  <2> DEFINE Prefix(k) == i <= k => Len(f[i]) <= Len(f[k])
                                    /\ \A j \in 1 .. Len(f[i]) : f[k][j] = f[i][j]
             S == {k \in 0 .. n : Prefix(k)}
  <2>0. i \in Nat /\ i <= n /\ Len(f[i]) \in Nat
    BY <1>1, <1>3
  <2>1. 0 \in S
    BY <1>1, <2>0
  <2>2. ASSUME NEW k \in 0 .. n, k \in S, k < n PROVE k + 1 \in S
    <3>1. k + 1 \in 1 .. n /\ (k + 1) - 1 = k /\ k + 1 \in 0 .. n /\ k \in Nat
      BY <1>1, <2>2
    <3>2. CASE i <= k
      <4>1. Len(f[i]) <= Len(f[k]) /\ \A j \in 1 .. Len(f[i]) : f[k][j] = f[i][j]
        BY <2>2, <3>2
      <4>2. /\ Len(f[k + 1]) = Len(f[k]) + Len(seqs[k + 1])
            /\ \A j \in 1 .. Len(f[k]) : f[k + 1][j] = f[k][j]
        <5> DEFINE m == k + 1
        <5>1. m \in 1 .. n /\ m - 1 = k
          BY <3>1
        <5> HIDE DEF m
        <5>2. /\ Len(f[m]) = Len(f[m - 1]) + Len(seqs[m])
              /\ \A j \in 1 .. Len(f[m - 1]) : f[m][j] = f[m - 1][j]
          BY <1>4, <5>1
        <5>3. /\ Len(f[m]) = Len(f[k]) + Len(seqs[m])
              /\ \A j \in 1 .. Len(f[k]) : f[m][j] = f[k][j]
          BY <5>1, <5>2
        <5> QED BY <5>3 DEF m
      <4>3. Len(f[k]) \in Nat /\ Len(seqs[k + 1]) \in Nat
        BY <1>1, <1>3, <3>1
      <4>4. Prefix(k + 1)
        BY <2>0, <4>1, <4>2, <4>3, SMTT(40)
      <4> QED BY <3>1, <4>4
    <3>3. CASE ~(i <= k)
      <4>1. i <= k + 1 => i = k + 1
        BY <2>0, <3>1, <3>3
      <4>2. Prefix(k + 1)
        BY <2>0, <4>1
      <4> QED BY <3>1, <4>2
    <3> QED BY <3>2, <3>3
  <2> HIDE DEF S
  <2>3. 0 .. n \subseteq S
    BY <1>1, <2>1, <2>2, UpTo
  <2>4. n \in S
    BY <1>1, <2>3
  <2> QED BY <2>0, <2>4 DEF S
<1> DEFINE at == [i \in 0 .. n |-> Len(f[i])]
<1>6. at \in [0 .. n -> Nat] /\ \A i \in 0 .. n : at[i] = Len(f[i])
  BY <1>3
<1> HIDE DEF at
<1>7. at[0] = 0 /\ at[n] = Len(f[n])
  BY <1>1, <1>2, <1>6, EmptySeq
<1>8. ASSUME NEW i \in 1 .. n
      PROVE  /\ at[i] = at[i - 1] + Len(seqs[i]) /\ at[i] <= at[n]
             /\ \A j \in 1 .. Len(seqs[i]) : f[n][at[i - 1] + j] = seqs[i][j]
  <2>1. i \in 0 .. n /\ i - 1 \in 0 .. n /\ n \in 0 .. n
    BY <1>1, <1>4
  <2>2. at[i] = at[i - 1] + Len(seqs[i]) /\ at[i] <= at[n]
    BY <1>4, <1>5, <1>6, <2>1
  <2>3. ASSUME NEW j \in 1 .. Len(seqs[i])
        PROVE  f[n][at[i - 1] + j] = seqs[i][j]
    <3>1. at[i - 1] + j \in 1 .. Len(f[i])
      BY <1>1, <1>6, <2>1, <2>2, SMTT(40)
    <3>2. f[n][at[i - 1] + j] = f[i][at[i - 1] + j]
      BY <1>5, <2>1, <3>1
    <3>3. f[i][at[i - 1] + j] = seqs[i][j]
      BY <1>4, <1>6, <2>1
    <3> QED BY <3>2, <3>3
  <2> QED BY <2>2, <2>3
<1>9. f[n] \in Seq(X)
  BY <1>1, <1>3
<1> QED BY <1>2, <1>6, <1>7, <1>8, <1>9 DEF n

-----------------------------------------------------------------------------
(***************************************************************************)
(* What encode writes.                                                     *)
(***************************************************************************)

LEMMA ItemTyped ==
    ASSUME NEW t \in {"magic", "array", "uint", "str", "bytes"}, NEW n \in Nat, NEW x \in Nat
    PROVE  Item(t, n, x) \in Items
BY DEF Item, Items

LEMMA RecipientEncoded ==
    ASSUME NEW r \in Records
    PROVE  /\ EncodeRecipient(r) \in Seq(Items)
           /\ Len(EncodeRecipient(r)) = 2 + Len(r.values)
           /\ EncodeRecipient(r)[1] = ArrayOf(RecordLength(r.suite))
           /\ EncodeRecipient(r)[2] = Uint(r.suite)
           /\ \A i \in 1 .. Len(r.values) : EncodeRecipient(r)[2 + i] =
                Item(TypeOf(Fields(r.suite)[i]), r.values[i].n, r.values[i].x)
<1> DEFINE n == Len(r.values)
           V == [n : Nat, x : Nat]
           v == r.values
           type(i) == TypeOf(Fields(r.suite)[i])
           a == <<ArrayOf(RecordLength(r.suite)), Uint(r.suite)>>
           b == [i \in DOMAIN v |-> Item(type(i), v[i].n, v[i].x)]
<1>1. r.suite \in Suite /\ v \in Seq(V) /\ n = Len(Fields(r.suite)) /\ n \in Nat
  BY RecordTyped
<1>2. DOMAIN v = 1 .. n /\ \A i \in 1 .. n : v[i] \in V
  <2> HIDE DEF v, V
  <2> QED BY <1>1 DEF n, v
<1>3. \A i \in 1 .. n : v[i].n \in Nat /\ v[i].x \in Nat
  BY <1>2
<1>4. \A i : type(i) \in {"magic", "array", "uint", "str", "bytes"}
  BY DEF TypeOf
<1>5. ArrayOf(RecordLength(r.suite)) \in Items /\ Uint(r.suite) \in Items
  <2>1. RecordLength(r.suite) \in Nat /\ r.suite \in Nat
    BY <1>1 DEF Suite, RecordLength, PassphraseSuite, RecoverySecretSuite, FidoSuite,
                ManagedFidoSuite, FidoAndPassphraseSuite, FidoAndLocalSecretSuite
  <2> QED BY <2>1, ItemTyped DEF ArrayOf, Uint
<1>6. EncodeRecipient(r) = a \o b
  BY DEF EncodeRecipient
<1>7. a[1] = ArrayOf(RecordLength(r.suite)) /\ a[2] = Uint(r.suite) /\ Len(a) = 2
      /\ a \in Seq(Items)
  BY <1>5
<1> HIDE DEF a, v, n, type
<1>8. \A i \in 1 .. n : b[i] = Item(type(i), v[i].n, v[i].x) /\ b[i] \in Items
  BY <1>2, <1>3, <1>4, ItemTyped
<1>9. b \in [1 .. n -> Items]
  BY <1>2, <1>8
<1> HIDE DEF b
<1>10. b \in Seq(Items) /\ Len(b) = n
  BY <1>1, <1>9
<1>11. /\ a \o b \in Seq(Items) /\ Len(a \o b) = 2 + n
       /\ \A i \in 1 .. 2 + n : (a \o b)[i] = IF i <= 2 THEN a[i] ELSE b[i - 2]
  <2>1. /\ a \o b \in Seq(Items) /\ Len(a \o b) = Len(a) + Len(b)
        /\ \A i \in 1 .. Len(a) + Len(b) : (a \o b)[i] =
                IF i <= Len(a) THEN a[i] ELSE b[i - Len(a)]
    BY <1>7, <1>10, ConcatProperties
  <2> QED BY <1>7, <1>10, <2>1
<1>12. (a \o b)[1] = a[1] /\ (a \o b)[2] = a[2]
  <2>1. 1 \in 1 .. 2 + n /\ 2 \in 1 .. 2 + n
    BY <1>1
  <2> QED BY <1>11, <2>1
<1>13. ASSUME NEW i \in 1 .. n PROVE (a \o b)[2 + i] = b[i]
  <2>1. 2 + i \in 1 .. 2 + n /\ ~(2 + i <= 2) /\ (2 + i) - 2 = i
    BY <1>1
  <2> QED BY <1>11, <2>1
<1> QED BY <1>6, <1>7, <1>8, <1>11, <1>12, <1>13 DEF n, v, type

\* What an enrollment encodes: an envelope, whatever its records.
Drafts == [application : [n : Nat, x : Nat], envelopeId : Nat, recipients : Seq(Records),
           mac : Nat]

\* The items of an encoded envelope, record after record.
LEMMA EncodeLayout ==
    ASSUME NEW e \in Drafts
    PROVE  /\ Encode(e) \in Seq(Items)
           /\ \E at \in [0 .. Len(e.recipients) -> Nat] :
                /\ at[0] = 7 /\ Len(Encode(e)) = at[Len(e.recipients)]
                /\ Encode(e)[Len(Encode(e))] = Item("bytes", 32, e.mac)
                /\ \A i \in 1 .. Len(e.recipients) :
                    /\ at[i] = at[i - 1] + 2 + Len(e.recipients[i].values)
                    /\ at[i] <= Len(Encode(e)) /\ at[i - 1] >= 7
                    /\ \A j \in 1 .. 2 + Len(e.recipients[i].values) :
                        Encode(e)[at[i - 1] + j - 1] = EncodeRecipient(e.recipients[i])[j]
           /\ Encode(e)[1] = Magic /\ Encode(e)[2] = ArrayOf(5) /\ Encode(e)[3] = Uint(1)
           /\ Encode(e)[4] = Item("str", e.application.n, e.application.x)
           /\ Encode(e)[5] = Item("bytes", 32, e.envelopeId)
           /\ Encode(e)[6] = ArrayOf(Len(e.recipients))
<1> DEFINE n == Len(e.recipients)
           parts == [i \in DOMAIN e.recipients |-> EncodeRecipient(e.recipients[i])]
           h1 == Magic
           h2 == ArrayOf(5)
           h3 == Uint(1)
           h4 == Item("str", e.application.n, e.application.x)
           h5 == Item("bytes", 32, e.envelopeId)
           h6 == ArrayOf(n)
           head == <<h1, h2, h3, h4, h5, h6>>
           last == Item("bytes", 32, e.mac)
           flat == FlattenSeq(parts)
<1>1. /\ e.recipients \in Seq(Records) /\ n \in Nat /\ DOMAIN e.recipients = 1 .. n
      /\ e.application.n \in Nat /\ e.application.x \in Nat /\ e.envelopeId \in Nat /\ e.mac \in Nat
      /\ \A i \in 1 .. n : e.recipients[i] \in Records
  BY DEF Drafts
<1>2. h1 \in Items /\ h2 \in Items /\ h3 \in Items /\ h4 \in Items /\ h5 \in Items /\ h6 \in Items
      /\ last \in Items
  BY <1>1, ItemTyped DEF Magic, ArrayOf, Uint
<1>3. Encode(e) = head \o flat \o <<last>>
  BY DEF Encode
<1> HIDE DEF h1, h2, h3, h4, h5, h6, last
<1>4. /\ Len(head) = 6 /\ head \in Seq(Items)
      /\ head[1] = h1 /\ head[2] = h2 /\ head[3] = h3 /\ head[4] = h4 /\ head[5] = h5 /\ head[6] = h6
  BY <1>2
<1>5. parts \in [1 .. n -> Seq(Items)] /\ \A i \in 1 .. n : parts[i] = EncodeRecipient(e.recipients[i])
  BY <1>1, RecipientEncoded
<1> HIDE DEF parts, head, flat, n
<1>6. parts \in Seq(Seq(Items)) /\ Len(parts) = n
  BY <1>1, <1>5
<1>7. flat \in Seq(Items)
  BY <1>6, FlattenLayout DEF flat
<1>8. PICK b \in [0 .. n -> Nat] :
        /\ b[0] = 0 /\ b[n] = Len(flat)
        /\ \A i \in 1 .. n :
            /\ b[i] = b[i - 1] + Len(parts[i]) /\ b[i] <= b[n]
            /\ \A j \in 1 .. Len(parts[i]) : flat[b[i - 1] + j] = parts[i][j]
  <2>1. \E b \in [0 .. Len(parts) -> Nat] :
          /\ b[0] = 0 /\ b[Len(parts)] = Len(flat)
          /\ \A i \in 1 .. Len(parts) :
              /\ b[i] = b[i - 1] + Len(parts[i]) /\ b[i] <= b[Len(parts)]
              /\ \A j \in 1 .. Len(parts[i]) : flat[b[i - 1] + j] = parts[i][j]
    BY <1>6, FlattenLayout, ZenonT(60) DEF flat
  <2> QED BY <1>6, <2>1
<1>9. /\ head \o flat \in Seq(Items) /\ Len(head \o flat) = 6 + b[n]
      /\ \A i \in 1 .. 6 + b[n] : (head \o flat)[i] = IF i <= 6 THEN head[i] ELSE flat[i - 6]
  <2>1. /\ head \o flat \in Seq(Items) /\ Len(head \o flat) = Len(head) + Len(flat)
        /\ \A i \in 1 .. Len(head) + Len(flat) : (head \o flat)[i] =
                IF i <= Len(head) THEN head[i] ELSE flat[i - Len(head)]
    BY <1>4, <1>7, ConcatProperties
  <2> QED BY <1>4, <1>8, <2>1
<1> DEFINE front == head \o flat
<1>10. b[n] \in Nat
  BY <1>1
<1> HIDE DEF front
<1>11. /\ Encode(e) \in Seq(Items) /\ Len(Encode(e)) = 7 + b[n]
       /\ \A i \in 1 .. 6 + b[n] : Encode(e)[i] = IF i <= 6 THEN head[i] ELSE flat[i - 6]
       /\ Encode(e)[7 + b[n]] = last
  <2>1. front \in Seq(Items) /\ Len(front) = 6 + b[n]
    BY <1>9 DEF front
  <2>2. <<last>> \in Seq(Items) /\ Len(<<last>>) = 1 /\ <<last>>[1] = last
    BY <1>2
  <2> DEFINE l == <<last>>
  <2> HIDE DEF l
  <2>3. /\ front \o l \in Seq(Items) /\ Len(front \o l) = Len(front) + Len(l)
        /\ \A i \in 1 .. Len(front) + Len(l) : (front \o l)[i] =
              IF i <= Len(front) THEN front[i] ELSE l[i - Len(front)]
    BY <2>1, <2>2, ConcatProperties DEF l
  <2>4. Encode(e) = front \o l
    BY <1>3 DEF front, l
  <2>5. Len(Encode(e)) = 7 + b[n]
    BY <1>10, <2>1, <2>2, <2>3, <2>4 DEF l
  <2>6. \A i \in 1 .. 6 + b[n] : Encode(e)[i] = front[i]
    BY <1>10, <2>1, <2>2, <2>3, <2>4 DEF l
  <2>7. Encode(e)[7 + b[n]] = last
    <3>1. 7 + b[n] \in 1 .. Len(front) + Len(l) /\ ~(7 + b[n] <= Len(front))
          /\ (7 + b[n]) - Len(front) = 1
      BY <1>10, <2>1, <2>2 DEF l
    <3> QED BY <2>2, <2>3, <2>4, <3>1 DEF l
  <2> QED BY <1>9, <2>3, <2>4, <2>5, <2>6, <2>7 DEF front
<1> DEFINE at == [i \in 0 .. n |-> 7 + b[i]]
<1>12. at \in [0 .. n -> Nat] /\ \A i \in 0 .. n : at[i] = 7 + b[i] /\ at[i] >= 7
  OBVIOUS
<1> HIDE DEF at
<1>13. at[0] = 7 /\ Len(Encode(e)) = at[n] /\ Encode(e)[Len(Encode(e))] = last
  BY <1>1, <1>8, <1>11, <1>12
<1>14. ASSUME NEW i \in 1 .. n
       PROVE  /\ at[i] = at[i - 1] + 2 + Len(e.recipients[i].values)
              /\ at[i] <= Len(Encode(e)) /\ at[i - 1] >= 7
              /\ \A j \in 1 .. 2 + Len(e.recipients[i].values) :
                    Encode(e)[at[i - 1] + j - 1] = EncodeRecipient(e.recipients[i])[j]
  <2> DEFINE r == e.recipients[i]
             m == Len(r.values)
  <2>1. i \in 0 .. n /\ i - 1 \in 0 .. n /\ n \in 0 .. n
    BY <1>1
  <2>2. r \in Records /\ m \in Nat /\ Len(parts[i]) = 2 + m /\ parts[i] = EncodeRecipient(r)
    BY <1>1, <1>5, RecordTyped, RecipientEncoded
  <2> HIDE DEF r, m
  <2>3. b[i] \in Nat /\ b[i - 1] \in Nat /\ b[i] = b[i - 1] + 2 + m /\ b[i] <= b[n]
    <3>1. b[i] \in Nat /\ b[i - 1] \in Nat
      BY <1>8, <2>1
    <3>2. b[i] = b[i - 1] + Len(parts[i]) /\ b[i] <= b[n]
      BY <1>8
    <3> QED BY <2>2, <3>1, <3>2
  <2>4. at[i] = at[i - 1] + 2 + m /\ at[i] <= Len(Encode(e)) /\ at[i - 1] >= 7
    BY <1>10, <1>11, <1>12, <2>1, <2>2, <2>3, SMTT(40)
  <2>5. ASSUME NEW j \in 1 .. 2 + m PROVE Encode(e)[at[i - 1] + j - 1] = parts[i][j]
    <3> DEFINE p == at[i - 1] + j - 1
    <3>1. p = 6 + b[i - 1] + j /\ p \in 1 .. 6 + b[n] /\ ~(p <= 6) /\ p - 6 = b[i - 1] + j
      <4>1. at[i - 1] = 7 + b[i - 1]
        BY <1>12, <2>1
      <4>2. j \in Nat /\ j >= 1 /\ j <= 2 + m
        BY <2>2
      <4>3. p = 6 + b[i - 1] + j
        BY <2>3, <4>1, <4>2
      <4> DEFINE x == b[i - 1]
                 y == b[n]
      <4>4. x \in Nat /\ y \in Nat /\ x + 2 + m <= y /\ p = 6 + x + j
        BY <1>10, <2>3, <4>3
      <4> HIDE DEF p, x, y
      <4>5. p = 6 + x + j /\ p \in 1 .. 6 + y /\ ~(p <= 6) /\ p - 6 = x + j
        BY <2>2, <4>2, <4>4
      <4> QED BY <4>5 DEF x, y
    <3> HIDE DEF p
    <3>2. Encode(e)[p] = flat[b[i - 1] + j]
      BY <1>11, <3>1
    <3>3. flat[b[i - 1] + j] = parts[i][j]
      BY <1>8, <2>2
    <3> QED BY <3>2, <3>3 DEF p
  <2> QED BY <2>2, <2>4, <2>5 DEF r, m
<1>15. /\ Encode(e)[1] = h1 /\ Encode(e)[2] = h2 /\ Encode(e)[3] = h3
       /\ Encode(e)[4] = h4 /\ Encode(e)[5] = h5 /\ Encode(e)[6] = h6
  <2>1. 1 \in 1 .. 6 + b[n] /\ 2 \in 1 .. 6 + b[n] /\ 3 \in 1 .. 6 + b[n]
        /\ 4 \in 1 .. 6 + b[n] /\ 5 \in 1 .. 6 + b[n] /\ 6 \in 1 .. 6 + b[n]
    BY <1>10
  <2>2. \A p \in 1 .. 6 + b[n] : p <= 6 => Encode(e)[p] = head[p]
    BY ONLY <1>11
  <2>3. /\ Encode(e)[1] = head[1] /\ Encode(e)[2] = head[2] /\ Encode(e)[3] = head[3]
        /\ Encode(e)[4] = head[4] /\ Encode(e)[5] = head[5] /\ Encode(e)[6] = head[6]
    BY ONLY <2>1, <2>2
  <2> QED BY ONLY <1>4, <2>3, Zenon
<1> QED BY <1>11, <1>12, <1>13, <1>14, <1>15 DEF n, h1, h2, h3, h4, h5, h6, last

-----------------------------------------------------------------------------
(***************************************************************************)
(* The way back.                                                           *)
(***************************************************************************)

\* A record is read where its encoding stands.
LEMMA RecordFound ==
    ASSUME NEW items \in Seq(Items), NEW p \in Nat \ {0}, NEW r \in Records,
           p + 1 + Len(r.values) <= Len(items),
           \A j \in 1 .. 2 + Len(r.values) : items[p + j - 1] = EncodeRecipient(r)[j]
    PROVE  ReadsRecipient(items, p) /\ RecipientAt(items, p) = r
<1> DEFINE n == Len(r.values)
           f == Fields(r.suite)
           v == r.values
           enc == EncodeRecipient(r)
<1>1. /\ r \in [suite : Suite, values : Seq([n : Nat, x : Nat])]
      /\ r.suite \in Suite /\ v \in Seq([n : Nat, x : Nat])
      /\ Len(f) = n /\ n \in Nat /\ DOMAIN f = 1 .. n
  BY RecordTyped, FieldsTyped DEF Records
<1>2. /\ enc[1] = ArrayOf(RecordLength(r.suite)) /\ enc[2] = Uint(r.suite)
      /\ \A i \in 1 .. n : enc[2 + i] = Item(TypeOf(f[i]), v[i].n, v[i].x)
  BY RecipientEncoded
<1>3. \A i \in 1 .. n : Reads(f[i], Item(TypeOf(f[i]), v[i].n, v[i].x))
  <2>1. DOMAIN r.values = 1 .. n
    BY <1>1
  <2> QED BY <2>1 DEF Records
<1>4. r = [suite |-> r.suite, values |-> v]
  BY <1>1
<1>5. p + 1 + n <= Len(items)
  OBVIOUS
<1>6. \A j \in 1 .. 2 + n : items[p + j - 1] = enc[j]
  OBVIOUS
<1> HIDE DEF enc
<1>7. items[p] = ArrayOf(RecordLength(r.suite)) /\ items[p + 1] = Uint(r.suite)
  <2> HIDE DEF n
  <2>1. 1 \in 1 .. 2 + n /\ 2 \in 1 .. 2 + n /\ p + 1 - 1 = p /\ p + 2 - 1 = p + 1
    BY <1>1
  <2>2. items[p + 1 - 1] = enc[1] /\ items[p + 2 - 1] = enc[2]
    BY <1>6, <2>1
  <2> QED BY <1>2, <2>1, <2>2
<1>8. ASSUME NEW i \in 1 .. n
      PROVE  items[p + 1 + i] = Item(TypeOf(f[i]), v[i].n, v[i].x)
  <2> HIDE DEF n
  <2>1. 2 + i \in 1 .. 2 + n /\ p + (2 + i) - 1 = p + 1 + i
    BY <1>1
  <2>2. items[p + (2 + i) - 1] = enc[2 + i]
    BY <1>6, <2>1
  <2> QED BY <1>2, <2>1, <2>2
<1>9. items[p].t = "array" /\ items[p].n = RecordLength(r.suite)
      /\ items[p + 1].t = "uint" /\ items[p + 1].n = r.suite
  BY <1>7 DEF ArrayOf, Uint, Item
<1>10. \A i \in 1 .. n : items[p + 1 + i].n = v[i].n /\ items[p + 1 + i].x = v[i].x
  <2> SUFFICES ASSUME NEW i \in 1 .. n
               PROVE  items[p + 1 + i].n = v[i].n /\ items[p + 1 + i].x = v[i].x
    OBVIOUS
  <2> DEFINE it == items[p + 1 + i]
             t == TypeOf(f[i])
             c == v[i]
  <2>1. it = Item(t, c.n, c.x)
    BY <1>8
  <2> HIDE DEF it, t, c
  <2>2. it.n = c.n /\ it.x = c.x
    BY <2>1 DEF Item
  <2> QED BY <2>2 DEF it, c
<1>11. v = [i \in 1 .. n |-> [n |-> v[i].n, x |-> v[i].x]]
  <2> DEFINE V == [n : Nat, x : Nat]
  <2>1. v \in Seq(V) /\ n = Len(v)
    BY <1>1
  <2> HIDE DEF v, n, V
  <2>2. v \in [1 .. n -> V]
    BY <2>1
  <2>3. \A i \in 1 .. n : v[i] = [n |-> v[i].n, x |-> v[i].x]
    BY <2>2 DEF V
  <2>4. v = [i \in 1 .. n |-> v[i]]
    BY <2>2
  <2> QED BY <2>3, <2>4
<1> HIDE DEF n, f, v
<1>12. ReadsRecipient(items, p)
  <2>1. p + 1 <= Len(items)
    BY <1>1, <1>5
  <2>2. \A i \in DOMAIN f : Reads(f[i], items[p + 1 + i])
    BY <1>1, <1>3, <1>8
  <2> QED BY <1>1, <1>5, <1>9, <2>1, <2>2 DEF ReadsRecipient, f
<1>13. RecipientAt(items, p) = r
  <2>1. RecipientAt(items, p) =
            [suite |-> r.suite,
             values |-> [i \in 1 .. n |-> [n |-> items[p + 1 + i].n, x |-> items[p + 1 + i].x]]]
    BY <1>1, <1>9 DEF RecipientAt, f
  <2>2. [i \in 1 .. n |-> [n |-> items[p + 1 + i].n, x |-> items[p + 1 + i].x]] = v
    BY <1>10, <1>11
  <2> QED BY <1>4, <2>1, <2>2
<1> QED BY <1>12, <1>13

\* decode's loop reads the records of an encoding back.
LEMMA RecordsFound ==
    ASSUME NEW e \in Drafts
    PROVE  ReadRecipients(Encode(e), Len(e.recipients))
                = [at |-> Len(Encode(e)), list |-> e.recipients]
<1> DEFINE n == Len(e.recipients)
           list == e.recipients
           items == Encode(e)
<1>1. list \in Seq(Records) /\ n \in Nat /\ DOMAIN list = 1 .. n
      /\ \A i \in 1 .. n : list[i] \in Records /\ Len(list[i].values) \in Nat
  <2>1. list \in Seq(Records) /\ n \in Nat /\ DOMAIN list = 1 .. n
        /\ \A i \in 1 .. n : list[i] \in Records
    BY DEF Drafts
  <2> QED BY <2>1, RecordTyped
<1>2. items \in Seq(Items) /\ Len(items) \in Nat
  BY EncodeLayout
<1>3. PICK at \in [0 .. n -> Nat] :
        /\ at[0] = 7 /\ Len(items) = at[n]
        /\ \A i \in 1 .. n :
            /\ at[i] = at[i - 1] + 2 + Len(list[i].values)
            /\ at[i] <= Len(items) /\ at[i - 1] >= 7
            /\ \A j \in 1 .. 2 + Len(list[i].values) :
                items[at[i - 1] + j - 1] = EncodeRecipient(list[i])[j]
  BY EncodeLayout
<1>0. PICK read : ReadSteps(items, n, read)
  BY <1>1, ReadUnfolds
<1>4. /\ ReadRecipients(items, n) = read[n]
      /\ read[0] = [at |-> 7, list |-> <<>>]
      /\ \A i \in 1 .. n : read[i] = ReadNext(items, read[i - 1])
  BY <1>0 DEF ReadSteps
<1> HIDE DEF n, list, items
<1> DEFINE done(i) == [at |-> at[i], list |-> SubSeq(list, 1, i)]
<1>5. ASSUME NEW i \in 1 .. n
      PROVE  ReadNext(items, done(i - 1)) = done(i)
  <2> DEFINE p == at[i - 1]
             r == list[i]
             m == Len(r.values)
             d == done(i - 1)
  <2>0. i - 1 \in 0 .. n /\ i \in 0 .. n /\ i \in Nat
    BY <1>1
  <2>1. d.at = p /\ d.list = SubSeq(list, 1, i - 1)
    OBVIOUS
  <2>2. p \in Nat \ {0} /\ r \in Records /\ m \in Nat /\ at[i] = p + 2 + m /\ at[i] <= Len(items)
    BY <1>1, <1>3, <2>0, SMTT(40)
  <2>3. \A j \in 1 .. 2 + m : items[p + j - 1] = EncodeRecipient(r)[j]
    BY <1>3
  <2> HIDE DEF p, r, d
  <2>4. ReadsRecipient(items, p) /\ RecipientAt(items, p) = r
    <3>1. p + 1 + m <= Len(items)
      <4> HIDE DEF m
      <4> QED BY <1>2, <2>2
    <3> QED BY <1>2, <2>2, <2>3, <3>1, RecordFound
  <2>5. ParametersRead(r)
    BY <2>2 DEF Records
  <2>6. ReadNext(items, d) = [at |-> p + 2 + m, list |-> Append(d.list, r)]
    BY <2>1, <2>2, <2>4, <2>5 DEF ReadNext
  <2>7. Append(SubSeq(list, 1, i - 1), r) = SubSeq(list, 1, i)
    <3>1. \A j \in 1 .. i - 1 : list[j] \in Records
      BY <1>1
    <3>2. SubSeq(list, 1, i - 1) \in Seq(Records)
      BY <2>0, <3>1, SubSeqProperties
    <3>3. Append(SubSeq(list, 1, i - 1), r) = SubSeq(list, 1, i - 1) \o <<r>>
      BY <2>2, <3>2, AppendIsConcat
    <3>4. i \in 1 .. Len(list) /\ 1 \in 1 .. Len(list) /\ i \in 1 .. Len(list)
      BY <1>1 DEF n, list
    <3>5. SubSeq(list, 1, i) = SubSeq(list, 1, i - 1) \o <<r>>
      BY <1>1, <3>4, SubSeqRecursiveSecond DEF r
    <3> QED BY <3>3, <3>5
  <2> QED BY <2>1, <2>2, <2>6, <2>7 DEF d
<1> DEFINE S == {i \in 0 .. n : read[i] = done(i)}
<1>6. 0 \in S
  <2>1. SubSeq(list, 1, 0) = <<>>
    BY SubSeqEmpty
  <2>2. 0 \in 0 .. n
    BY <1>1
  <2> QED BY <1>3, <1>4, <2>1, <2>2
<1>7. ASSUME NEW i \in 0 .. n, i \in S, i < n PROVE i + 1 \in S
  <2> DEFINE k == i + 1
  <2>1. k \in 1 .. n /\ k - 1 = i /\ k \in 0 .. n
    BY <1>1, <1>7
  <2>2. read[i] = done(i)
    BY <1>7
  <2> HIDE DEF k, done
  <2>3. read[k] = ReadNext(items, read[k - 1]) /\ ReadNext(items, done(k - 1)) = done(k)
    BY <1>4, <1>5, <2>1
  <2>4. read[k] = done(k)
    BY <2>1, <2>2, <2>3
  <2> QED BY <2>1, <2>4 DEF k
<1>8. n \in S
  <2> HIDE DEF S
  <2>1. 0 .. n \subseteq S
    BY <1>1, <1>6, <1>7, UpTo
  <2>2. n \in 0 .. n
    BY <1>1
  <2> QED BY <2>1, <2>2
<1>9. SubSeq(list, 1, n) = list
  BY <1>1, SubSeqFull DEF n, list
<1>10. read[n] = done(n)
  BY <1>8
<1> QED BY <1>3, <1>4, <1>9, <1>10 DEF n, list, items

LEMMA EnvelopesAreDrafts ==
    ASSUME NEW e \in Envelopes
    PROVE  e \in Drafts /\ e.recipients \in Seq(Records) /\ Len(e.recipients) <= MaxRecipients
           /\ ValidRecipientSet(e.recipients)
<1>1. /\ e \in [application : [n : MinApplicationId .. MaxApplicationId, x : Nat \ {0}],
                envelopeId : Nat, recipients : Seq(Records), mac : Nat]
      /\ Len(e.recipients) <= MaxRecipients /\ ValidRecipientSet(e.recipients)
  BY DEF Envelopes
<1>2. e.application.n \in Nat /\ e.application.x \in Nat
  <2> DEFINE a == e.application
  <2>1. a \in [n : MinApplicationId .. MaxApplicationId, x : Nat \ {0}]
    BY <1>1
  <2> HIDE DEF a
  <2>2. a.n \in Nat /\ a.x \in Nat
    BY <2>1 DEF MinApplicationId, MaxApplicationId
  <2> QED BY <2>2 DEF a
<1>3. e.application \in [n : Nat, x : Nat]
  BY <1>1, <1>2
<1>4. e \in Drafts
  BY <1>1, <1>3 DEF Drafts
<1> QED BY <1>1, <1>4

\* What encode writes of an envelope with a recipient, decode reads as that
\* envelope, unless it is too long.
LEMMA DecodeEncoded ==
    ASSUME NEW e \in Envelopes, Len(e.recipients) # 0
    PROVE  Decode(Encode(e)) = IF Size(Encode(e)) > MaxEnvelopeSize THEN Invalid ELSE e
<1> DEFINE n == Len(e.recipients)
           items == Encode(e)
<1>1. e \in Drafts /\ e.recipients \in Seq(Records) /\ n <= MaxRecipients
      /\ ValidRecipientSet(e.recipients)
  BY EnvelopesAreDrafts
<1>2. /\ n \in 1 .. MaxRecipients /\ e.mac \in Nat /\ e.envelopeId \in Nat
      /\ e.application \in [n : MinApplicationId .. MaxApplicationId, x : Nat \ {0}]
      /\ e = [application |-> e.application, envelopeId |-> e.envelopeId,
              recipients |-> e.recipients, mac |-> e.mac]
  <2>1. e \in [application : [n : MinApplicationId .. MaxApplicationId, x : Nat \ {0}],
                envelopeId : Nat, recipients : Seq(Records), mac : Nat]
    BY DEF Envelopes
  <2>2. n \in 1 .. MaxRecipients
    <3>1. n \in Nat /\ n # 0
      BY <1>1
    <3> HIDE DEF n
    <3> QED BY <1>1, <3>1 DEF MaxRecipients
  <2> HIDE DEF n
  <2> QED BY <2>1, <2>2
<1>3. /\ items \in Seq(Items) /\ Len(items) \in Nat
      /\ items[1] = Magic /\ items[2] = ArrayOf(5) /\ items[3] = Uint(1)
      /\ items[4] = Item("str", e.application.n, e.application.x)
      /\ items[5] = Item("bytes", 32, e.envelopeId)
      /\ items[6] = ArrayOf(n)
      /\ items[Len(items)] = Item("bytes", 32, e.mac)
  BY <1>1, EncodeLayout
<1>4. Len(items) >= 7
  <2>1. PICK at \in [0 .. n -> Nat] :
            /\ at[0] = 7 /\ Len(items) = at[n]
            /\ \A i \in 1 .. n : at[i] <= Len(items) /\ at[i - 1] >= 7
                                 /\ at[i] = at[i - 1] + 2 + Len(e.recipients[i].values)
    BY <1>1, EncodeLayout
  <2>2. n \in 1 .. n /\ n - 1 \in 0 .. n /\ n \in 0 .. n
    BY <1>2 DEF MaxRecipients
  <2>3. e.recipients[n] \in Records
    BY <1>1, <2>2
  <2>4. Len(e.recipients[n].values) \in Nat
    BY <2>3, RecordTyped
  <2> HIDE DEF n, items
  <2>5. at[n - 1] >= 7 /\ at[n] = at[n - 1] + 2 + Len(e.recipients[n].values) /\ at[n - 1] \in Nat
    BY <2>1, <2>2
  <2> QED BY <2>1, <2>4, <2>5, SMTT(40)
<1>5. ReadRecipients(items, n) = [at |-> Len(items), list |-> e.recipients]
  BY <1>1, RecordsFound
<1> HIDE DEF items, n
<1>6. /\ items[4].t = "str" /\ items[4].n = e.application.n /\ items[4].x = e.application.x
      /\ items[5].t = "bytes" /\ items[5].n = 32 /\ items[5].x = e.envelopeId
      /\ items[6].t = "array" /\ items[6].n = n
      /\ items[2].t = "array" /\ items[2].n = 5 /\ items[3].t = "uint" /\ items[3].n = 1
      /\ items[Len(items)].t = "bytes" /\ items[Len(items)].n = 32
      /\ items[Len(items)].x = e.mac
  BY <1>3 DEF Item, ArrayOf, Uint
<1>7. ReadsHeader(items)
  <2>1. e.application.n \in MinApplicationId .. MaxApplicationId /\ e.application.x # 0
    BY <1>2
  <2>2. Len(items) >= 6
    BY <1>3, <1>4
  <2> QED BY <1>2, <1>3, <1>6, <2>1, <2>2 DEF ReadsHeader, ExactBytes
<1>8. [n |-> items[4].n, x |-> items[4].x] = e.application
  BY <1>2, <1>6
<1>9. ExactBytes(items[Len(items)], 32)
  BY <1>6 DEF ExactBytes
<1> DEFINE read == ReadRecipients(items, items[6].n)
           d == [application |-> [n |-> items[4].n, x |-> items[4].x],
                 envelopeId |-> items[5].x,
                 recipients |-> read.list,
                 mac |-> items[Len(items)].x]
<1>10. read.at = Len(items) /\ read.list = e.recipients
  BY <1>5, <1>6
<1>11. d = e
  BY <1>2, <1>6, <1>8, <1>10
<1>12. Decode(items) = IF Size(items) > MaxEnvelopeSize \/ ~ReadsHeader(items) THEN Invalid
                       ELSE IF /\ read.at = Len(items)
                               /\ ExactBytes(items[read.at], 32)
                               /\ ValidRecipientSet(read.list)
                               /\ Encode(d) = items
                            THEN d ELSE Invalid
  BY DEF Decode
<1> HIDE DEF read, d
<1>13. Encode(d) = items
  BY <1>11 DEF items
<1> QED BY <1>1, <1>7, <1>9, <1>10, <1>11, <1>12, <1>13 DEF items

-----------------------------------------------------------------------------
(***************************************************************************)
(* Enrollments keep an envelope valid.                                     *)
(***************************************************************************)

LEMMA Inserted ==
    ASSUME NEW X, NEW s \in Seq(X), NEW x \in X, NEW k \in 0 .. Len(s)
    PROVE  /\ InsertAt(s, k + 1, x) \in Seq(X) /\ Len(InsertAt(s, k + 1, x)) = Len(s) + 1
           /\ \A j \in 1 .. Len(s) + 1 : InsertAt(s, k + 1, x)[j] =
                IF j <= k THEN s[j] ELSE IF j = k + 1 THEN x ELSE s[j - 1]
<1> DEFINE n == Len(s)
           a == SubSeq(s, 1, k)
           b == <<x>>
           c == SubSeq(s, k + 1, n)
           t == InsertAt(s, k + 1, x)
<1>1. n \in Nat /\ k \in Nat /\ k <= n /\ \A i \in 1 .. n : s[i] \in X
  OBVIOUS
<1>2. t = a \o b \o c
  <2>1. (k + 1) - 1 = k
    BY <1>1
  <2> QED BY <2>1 DEF InsertAt
<1> HIDE DEF n, t
<1>3. a \in Seq(X) /\ Len(a) = k /\ \A i \in 1 .. k : a[i] = s[i]
  <2>1. \A i \in 1 .. k : s[i] \in X
    BY <1>1
  <2>2. /\ a \in Seq(X) /\ Len(a) = IF 1 <= k THEN k - 1 + 1 ELSE 0
        /\ \A i \in 1 .. k - 1 + 1 : a[i] = s[1 + i - 1]
    BY <1>1, <2>1, SubSeqProperties
  <2>3. ASSUME NEW i \in 1 .. k PROVE a[i] = s[i]
    <3>1. i \in 1 .. k - 1 + 1 /\ 1 + i - 1 = i
      BY <1>1
    <3> HIDE DEF a
    <3> QED BY <2>2, <3>1
  <2> HIDE DEF a
  <2> QED BY <1>1, <2>2, <2>3
<1>4. c \in Seq(X) /\ Len(c) = n - k /\ \A i \in 1 .. n - k : c[i] = s[k + i]
  <2>1. \A i \in k + 1 .. n : s[i] \in X
    BY <1>1
  <2>2. /\ c \in Seq(X) /\ Len(c) = IF k + 1 <= n THEN n - (k + 1) + 1 ELSE 0
        /\ \A i \in 1 .. n - (k + 1) + 1 : c[i] = s[k + 1 + i - 1]
    BY <1>1, <2>1, SubSeqProperties
  <2>3. ASSUME NEW i \in 1 .. n - k PROVE c[i] = s[k + i]
    <3>1. i \in 1 .. n - (k + 1) + 1 /\ k + 1 + i - 1 = k + i
      BY <1>1
    <3> HIDE DEF c
    <3> QED BY <2>2, <3>1
  <2> HIDE DEF c
  <2> QED BY <1>1, <2>2, <2>3
<1>5. b \in Seq(X) /\ Len(b) = 1 /\ b[1] = x
  OBVIOUS
<1> HIDE DEF a, b, c
<1> DEFINE d == a \o b
<1>6. /\ d \in Seq(X) /\ Len(d) = k + 1
      /\ \A i \in 1 .. k + 1 : d[i] = IF i <= k THEN s[i] ELSE x
  <2>1. /\ d \in Seq(X) /\ Len(d) = Len(a) + Len(b)
        /\ \A i \in 1 .. Len(a) + Len(b) : d[i] = IF i <= Len(a) THEN a[i] ELSE b[i - Len(a)]
    BY <1>3, <1>5, ConcatProperties
  <2> HIDE DEF d
  <2>2. ASSUME NEW i \in 1 .. k + 1 PROVE d[i] = IF i <= k THEN s[i] ELSE x
    <3>1. i <= k => i \in 1 .. k
      BY <1>1
    <3>2. ~(i <= k) => i - k = 1
      BY <1>1
    <3> QED BY <1>3, <1>5, <2>1, <3>1, <3>2
  <2> QED BY <1>3, <1>5, <2>1, <2>2
<1> HIDE DEF d
<1>7. /\ d \o c \in Seq(X) /\ Len(d \o c) = Len(d) + Len(c)
      /\ \A i \in 1 .. Len(d) + Len(c) : (d \o c)[i] = IF i <= Len(d) THEN d[i] ELSE c[i - Len(d)]
  BY <1>4, <1>6, ConcatProperties
<1>8. t = d \o c
  BY <1>2 DEF d
<1>9. Len(d) + Len(c) = n + 1
  BY <1>1, <1>4, <1>6
<1>10. ASSUME NEW j \in 1 .. n + 1
       PROVE  t[j] = IF j <= k THEN s[j] ELSE IF j = k + 1 THEN x ELSE s[j - 1]
  <2>1. t[j] = IF j <= k + 1 THEN d[j] ELSE c[j - (k + 1)]
    BY <1>6, <1>7, <1>8, <1>9
  <2>2. CASE j <= k + 1
    <3>1. j \in 1 .. k + 1
      BY <1>1, <2>2
    <3>2. ~(j <= k) => j = k + 1
      BY <1>1, <2>2
    <3> QED BY <1>6, <2>1, <2>2, <3>1, <3>2
  <2>3. CASE ~(j <= k + 1)
    <3>1. j - (k + 1) \in 1 .. n - k /\ k + (j - (k + 1)) = j - 1 /\ ~(j <= k) /\ j # k + 1
      BY <1>1, <2>3
    <3>2. c[j - (k + 1)] = s[k + (j - (k + 1))]
      BY <1>4, <3>1
    <3> QED BY <2>1, <2>3, <3>1, <3>2
  <2> QED BY <2>2, <2>3
<1> QED BY <1>7, <1>8, <1>9, <1>10 DEF n, t

\* Of a sorted list, the records before an id are the first ones.
LEMMA SmallerFirst ==
    ASSUME NEW list \in Seq(Records), NEW x \in Nat,
           \A i, j \in DOMAIN list : i < j => RecipientId(list[i]) < RecipientId(list[j])
    PROVE  \E k \in 0 .. Len(list) :
             /\ Cardinality({i \in DOMAIN list : RecipientId(list[i]) < x}) = k
             /\ \A i \in 1 .. Len(list) : RecipientId(list[i]) < x <=> i <= k
<1> DEFINE n == Len(list)
           id(i) == RecipientId(list[i])
           smaller == {i \in DOMAIN list : id(i) < x}
           T == (1 .. n + 1) \ smaller
<1>1. n \in Nat /\ DOMAIN list = 1 .. n /\ \A i \in 1 .. n : list[i] \in Records
  OBVIOUS
<1>2. \A i \in 1 .. n : id(i) \in Nat
  BY <1>1, RecordTyped
<1>3. \A i, j \in 1 .. n : i < j => id(i) < id(j)
  BY <1>1
<1>4. smaller = {i \in 1 .. n : id(i) < x}
  BY <1>1
<1> HIDE DEF n, id, smaller
<1>5. T \in SUBSET Nat /\ n + 1 \in T
  BY <1>1, <1>4
<1>6. PICK m \in T : \A k \in T : ~(k < m)
  <2> HIDE DEF T
  <2> QED BY <1>5, LeastNumber
<1>7. m \in 1 .. n + 1 /\ m \notin smaller
  OBVIOUS
<1>8. ASSUME NEW i \in 1 .. n PROVE id(i) < x <=> i < m
  <2>1. CASE i < m
    <3>1. i \notin T
      BY <1>6, <2>1
    <3>2. i \in smaller
      BY <1>1, <3>1
    <3> QED BY <1>4, <2>1, <3>2
  <2>2. CASE ~(i < m)
    <3>1. m \in 1 .. n /\ (m = i \/ m < i)
      BY <1>1, <1>7, <2>2
    <3>2. ~(id(m) < x)
      BY <1>4, <1>7, <3>1
    <3>3. m = i \/ id(m) < id(i)
      BY <1>3, <3>1
    <3>4. ~(id(i) < x)
      BY <1>2, <3>1, <3>2, <3>3
    <3> QED BY <2>2, <3>4
  <2> QED BY <2>1, <2>2
<1>9. smaller = 1 .. m - 1
  BY <1>1, <1>4, <1>7, <1>8
<1>10. m - 1 \in Int /\ m - 1 \in 0 .. n /\ (1 > m - 1 => m - 1 = 0) /\ m - 1 - 1 + 1 = m - 1
  BY <1>1, <1>7
<1>11. Cardinality(smaller) = m - 1
  <2>1. Cardinality(1 .. m - 1) = IF 1 > m - 1 THEN 0 ELSE m - 1 - 1 + 1
    BY <1>10, FS_Interval
  <2> QED BY <1>9, <1>10, <2>1
<1>12. \A i \in 1 .. n : id(i) < x <=> i <= m - 1
  BY <1>1, <1>7, <1>8
<1> QED BY <1>10, <1>11, <1>12 DEF n, id, smaller

\* Sorted recipients with credentials and salts of their own.
LEMMA LinkedValid ==
    ASSUME NEW list \in Seq(Records),
           \A i \in 1 .. Len(list) - 1 : RecipientId(list[i]) < RecipientId(list[i + 1]),
           \A i \in 1 .. Len(list) : Linked(list[i])
    PROVE  ValidRecipientSet(list)
<1>1. \A i, j \in DOMAIN list : i < j => RecipientId(list[i]) < RecipientId(list[j])
  BY SortedThroughout
<1>2. DOMAIN list = 1 .. Len(list) /\ \A i \in DOMAIN list : list[i] \in Records
  OBVIOUS
<1>3. \A i \in DOMAIN list : RecipientId(list[i]) \in Nat
  BY <1>2, RecordTyped
<1>4. ASSUME NEW i \in DOMAIN list, NEW j \in DOMAIN list, i < j,
             NEW field \in {"credential", "salt"},
             Value(list[i], field) = Value(list[j], field), Value(list[i], field) # NoValue
      PROVE  FALSE
  <2>1. Value(list[i], field).x = RecipientId(list[i])
    BY <1>2, <1>4 DEF Linked
  <2>2. Value(list[j], field).x = RecipientId(list[j])
    BY <1>2, <1>4 DEF Linked
  <2>3. RecipientId(list[i]) < RecipientId(list[j])
    BY <1>1, <1>4
  <2> QED BY <1>3, <1>4, <2>1, <2>2, <2>3
<1>5. \A i, j \in DOMAIN list : i < j =>
        /\ Value(list[i], "credential") = Value(list[j], "credential")
                => Value(list[i], "credential") = NoValue
        /\ Value(list[i], "salt") = Value(list[j], "salt") => Value(list[i], "salt") = NoValue
  BY <1>4
<1> QED BY <1>5 DEF ValidRecipientSet

\* stage_record keeps the envelope valid.
LEMMA StagedValid ==
    ASSUME NEW e \in Envelopes, NEW r \in Records, Linked(r),
           Len(e.recipients) < MaxRecipients,
           \A i \in 1 .. Len(e.recipients) :
                Linked(e.recipients[i]) /\ RecipientId(e.recipients[i]) # RecipientId(r)
    PROVE  /\ Staged(e, r) \in Envelopes /\ Len(Staged(e, r).recipients) # 0
           /\ \A i \in 1 .. Len(Staged(e, r).recipients) : Linked(Staged(e, r).recipients[i])
<1> DEFINE s == e.recipients
           n == Len(s)
           x == RecipientId(r)
           k == Cardinality({i \in DOMAIN s : RecipientId(s[i]) < x})
           t == InsertAt(s, k + 1, r)
<1>1. s \in Seq(Records) /\ n \in Nat /\ DOMAIN s = 1 .. n /\ ValidRecipientSet(s)
      /\ (\A i \in 1 .. n : s[i] \in Records) /\ n < MaxRecipients
      /\ \A i \in 1 .. n : Linked(s[i]) /\ RecipientId(s[i]) # x
  BY EnvelopesAreDrafts
<1>2. x \in Nat /\ \A i \in 1 .. n : RecipientId(s[i]) \in Nat
  BY <1>1, RecordTyped
<1>3. \A i, j \in DOMAIN s : i < j => RecipientId(s[i]) < RecipientId(s[j])
  BY <1>1, SortedThroughout DEF ValidRecipientSet
<1>4. Staged(e, r) = [e EXCEPT !.recipients = t]
  BY DEF Staged
<1> HIDE DEF s, n, x
<1>5. k \in 0 .. n /\ \A i \in 1 .. n : RecipientId(s[i]) < x <=> i <= k
  <2>1. \E m \in 0 .. Len(s) : /\ k = m
                               /\ \A i \in 1 .. Len(s) : RecipientId(s[i]) < x <=> i <= m
    BY <1>1, <1>2, <1>3, SmallerFirst
  <2> HIDE DEF k
  <2> QED BY <2>1 DEF n
<1> HIDE DEF k
<1>6. /\ t \in Seq(Records) /\ Len(t) = n + 1
      /\ \A j \in 1 .. n + 1 : t[j] = IF j <= k THEN s[j] ELSE IF j = k + 1 THEN r ELSE s[j - 1]
  <2>1. k \in 0 .. Len(s)
    BY <1>5 DEF n
  <2>2. /\ t \in Seq(Records) /\ Len(t) = Len(s) + 1
        /\ \A j \in 1 .. Len(s) + 1 :
                t[j] = IF j <= k THEN s[j] ELSE IF j = k + 1 THEN r ELSE s[j - 1]
    <3>1. s \in Seq(Records) /\ r \in Records
      BY <1>1
    <3> QED BY ONLY <2>1, <3>1, Inserted
  <2> HIDE DEF t
  <2> QED BY <2>2 DEF n
<1> HIDE DEF t
<1>7. \A j \in 1 .. n + 1 : Linked(t[j])
  <2> SUFFICES ASSUME NEW j \in 1 .. n + 1 PROVE Linked(t[j])
    OBVIOUS
  <2>1. j <= k => j \in 1 .. n
    BY <1>1, <1>5
  <2>2. ~(j <= k) /\ j # k + 1 => j - 1 \in 1 .. n
    BY <1>1, <1>5
  <2> QED BY <1>1, <1>6, <2>1, <2>2
<1>8. ASSUME NEW j \in 1 .. n PROVE RecipientId(t[j]) < RecipientId(t[j + 1])
  <2>0. j \in 1 .. n + 1 /\ j + 1 \in 1 .. n + 1 /\ (j + 1) - 1 = j /\ k \in Nat
    BY <1>1, <1>5
  <2>1. CASE j + 1 <= k
    <3>1. t[j] = s[j] /\ t[j + 1] = s[j + 1] /\ j + 1 \in 1 .. n
      BY <1>1, <1>5, <1>6, <2>0, <2>1
    <3> QED BY <1>1, <1>3, <3>1
  <2>2. CASE j = k
    <3>1. t[j] = s[j] /\ t[j + 1] = r
      BY <1>6, <2>0, <2>2
    <3>2. RecipientId(s[j]) < x
      BY <1>5, <2>0, <2>2
    <3> QED BY <3>1, <3>2 DEF x
  <2>3. CASE j = k + 1
    <3>1. t[j] = r /\ t[j + 1] = s[j]
      BY <1>6, <2>0, <2>3
    <3>2. ~(RecipientId(s[j]) < x) /\ RecipientId(s[j]) # x
      BY <1>1, <1>5, <2>0, <2>3
    <3>3. x < RecipientId(s[j])
      BY <1>2, <3>2
    <3> QED BY <3>1, <3>3 DEF x
  <2>4. CASE j > k + 1
    <3>1. ~(j <= k) /\ j # k + 1 /\ ~(j + 1 <= k) /\ j + 1 # k + 1 /\ j - 1 \in 1 .. n /\ j - 1 < j
      BY <1>1, <2>0, <2>4
    <3>2. t[j] = s[j - 1] /\ t[j + 1] = s[j]
      BY <1>6, <2>0, <3>1
    <3> QED BY <1>1, <1>3, <3>1, <3>2
  <2> QED BY <2>0, <2>1, <2>2, <2>3, <2>4
<1>9. ValidRecipientSet(t)
  <2>1. \A j \in 1 .. Len(t) - 1 : RecipientId(t[j]) < RecipientId(t[j + 1])
    BY <1>1, <1>6, <1>8
  <2>2. \A j \in 1 .. Len(t) : Linked(t[j])
    BY <1>6, <1>7
  <2> QED BY <1>6, <2>1, <2>2, LinkedValid
<1>10. n + 1 <= MaxRecipients
  BY <1>1 DEF MaxRecipients
<1>11. [e EXCEPT !.recipients = t] \in
            [application : [n : MinApplicationId .. MaxApplicationId, x : Nat \ {0}],
             envelopeId : Nat, recipients : Seq(Records), mac : Nat]
  BY <1>6 DEF Envelopes
<1>12. Staged(e, r).recipients = t
  BY <1>4 DEF Envelopes
<1>13. Staged(e, r) \in Envelopes
  <2> DEFINE u == Staged(e, r)
  <2>1. u \in [application : [n : MinApplicationId .. MaxApplicationId, x : Nat \ {0}],
               envelopeId : Nat, recipients : Seq(Records), mac : Nat]
    BY <1>4, <1>11
  <2>2. u.recipients = t
    BY <1>12
  <2> HIDE DEF u
  <2>3. Len(u.recipients) <= MaxRecipients /\ ValidRecipientSet(u.recipients)
    BY <1>6, <1>9, <1>10, <2>2
  <2> QED BY <2>1, <2>3 DEF Envelopes, u
<1> QED BY <1>1, <1>6, <1>7, <1>12, <1>13

LEMMA NewEnvelopeValid ==
    ASSUME NEW wide \in BOOLEAN
    PROVE  NewEnvelope(wide) \in Envelopes /\ Len(NewEnvelope(wide).recipients) = 0
<1> DEFINE e == NewEnvelope(wide)
           a == [n |-> IF wide THEN MaxApplicationId ELSE MinApplicationId, x |-> 1]
<1>1. e = [application |-> a, envelopeId |-> 1, recipients |-> <<>>, mac |-> 1]
  BY DEF NewEnvelope
<1>2. a \in [n : MinApplicationId .. MaxApplicationId, x : Nat \ {0}]
  BY DEF MinApplicationId, MaxApplicationId
<1> HIDE DEF a, e
<1>3. e.recipients = <<>> /\ Len(e.recipients) = 0
  BY <1>1
<1>4. e \in [application : [n : MinApplicationId .. MaxApplicationId, x : Nat \ {0}],
             envelopeId : Nat, recipients : Seq(Records), mac : Nat]
  <2>1. <<>> \in Seq(Records)
    OBVIOUS
  <2> QED BY <1>1, <1>2, <2>1
<1>5. ValidRecipientSet(e.recipients)
  <2>1. ValidRecipientSet(<<>>)
    BY DEF ValidRecipientSet
  <2> QED BY <1>3, <2>1
<1>6. Len(e.recipients) <= MaxRecipients
  BY <1>3 DEF MaxRecipients
<1> QED BY <1>3, <1>4, <1>5, <1>6 DEF Envelopes, e

LEMMA CrowdedValid ==
    /\ Crowded \in Envelopes /\ Len(Crowded.recipients) # 0
    /\ \A i \in 1 .. Len(Crowded.recipients) : Linked(Crowded.recipients[i])
<1> DEFINE e == NewEnvelope(TRUE)
           r(i) == [suite |-> FidoAndPassphraseSuite, id |-> 10 + i, wide |-> TRUE]
           s == [i \in 1 .. Crowd |-> NewRecord(r(i))]
<1>0. Crowd \in Nat /\ Crowd >= 1 /\ Crowd <= MaxRecipients
  BY CrowdAssumption DEF MaxRecipients
<1>1. Crowded = [e EXCEPT !.recipients = s]
  BY DEF Crowded
<1>2. \A i \in 1 .. Crowd : r(i) \in Enrollment /\ r(i).id = 10 + i
  BY <1>0 DEF Enrollment, FidoAndPassphraseSuite, Suite
<1>3. \A i \in 1 .. Crowd : s[i] = NewRecord(r(i))
  OBVIOUS
<1> HIDE DEF e, r
<1>4. ASSUME NEW i \in 1 .. Crowd
      PROVE  s[i] \in Records /\ RecipientId(s[i]) = 10 + i /\ Linked(s[i])
  <2>1. r(i) \in Enrollment /\ r(i).id = 10 + i /\ s[i] = NewRecord(r(i))
    BY <1>2, <1>3
  <2> HIDE DEF s
  <2> QED BY <2>1, NewRecordRead
<1>5. s \in Seq(Records) /\ Len(s) = Crowd
  <2>1. s \in [1 .. Crowd -> Records]
    <3>1. s = [i \in 1 .. Crowd |-> s[i]]
      OBVIOUS
    <3> HIDE DEF s
    <3> QED BY <1>4, <3>1
  <2> HIDE DEF s
  <2> QED BY <1>0, <2>1
<1> HIDE DEF s
<1>6. ValidRecipientSet(s)
  <2>1. ASSUME NEW i \in 1 .. Crowd - 1 PROVE RecipientId(s[i]) < RecipientId(s[i + 1])
    <3>1. i \in 1 .. Crowd /\ i + 1 \in 1 .. Crowd
      BY <1>0
    <3>2. RecipientId(s[i]) = 10 + i /\ RecipientId(s[i + 1]) = 10 + (i + 1)
      BY <1>4, <3>1
    <3> QED BY <3>2
  <2> QED BY <1>4, <1>5, <2>1, LinkedValid
<1>7. e \in [application : [n : MinApplicationId .. MaxApplicationId, x : Nat \ {0}],
             envelopeId : Nat, recipients : Seq(Records), mac : Nat]
  BY NewEnvelopeValid DEF Envelopes, e
<1>8. /\ Crowded \in [application : [n : MinApplicationId .. MaxApplicationId, x : Nat \ {0}],
                      envelopeId : Nat, recipients : Seq(Records), mac : Nat]
      /\ Crowded.recipients = s
  BY <1>1, <1>5, <1>7
<1>9. Crowded \in Envelopes
  <2> DEFINE u == Crowded
  <2>1. /\ u \in [application : [n : MinApplicationId .. MaxApplicationId, x : Nat \ {0}],
                  envelopeId : Nat, recipients : Seq(Records), mac : Nat]
        /\ u.recipients = s
    BY <1>8
  <2> HIDE DEF u
  <2>2. Len(u.recipients) <= MaxRecipients /\ ValidRecipientSet(u.recipients)
    BY <1>0, <1>5, <1>6, <2>1
  <2> QED BY <2>1, <2>2 DEF Envelopes, u
<1> QED BY <1>0, <1>4, <1>5, <1>8, <1>9

-----------------------------------------------------------------------------
(***************************************************************************)
(* Sizes.                                                                  *)
(***************************************************************************)

LEMMA HeadsShort ==
    ASSUME NEW n \in Nat
    PROVE  HeadSize(n) \in 1 .. 5
<1> DEFINE two == n \in 24 .. 255
           three == n \in 256 .. 65535
<1>1. HeadSize(n) = CASE n < 24 -> 1 [] two -> 2 [] three -> 3 [] OTHER -> 5
  BY DEF HeadSize
<1> HIDE DEF two, three
<1> QED BY ONLY <1>1

LEMMA ItemSizes ==
    ASSUME NEW i \in Items
    PROVE  /\ ItemSize(i) \in Nat /\ ItemSize(i) <= 5 + i.n
           /\ i.t \in {"array", "uint"} => ItemSize(i) <= 5
<1>1. i.t \in {"magic", "array", "uint", "str", "bytes", "other"} /\ i.n \in Nat
  BY DEF Items
<1> DEFINE n == i.n
           h == HeadSize(n)
<1>2. h \in 1 .. 5
  BY <1>1, HeadsShort
<1>3. ItemSize(i) = CASE i.t = "magic" -> 4
                      [] i.t \in {"str", "bytes"} -> h + n
                      [] OTHER -> h
  BY DEF ItemSize
<1> HIDE DEF n, h
<1>4. n \in Nat
  BY <1>1 DEF n
<1>5. ItemSize(i) = IF i.t = "magic" THEN 4 ELSE IF i.t \in {"str", "bytes"} THEN h + n ELSE h
  BY <1>3
<1>6. ItemSize(i) \in Nat /\ ItemSize(i) <= 5 + n /\ (i.t \in {"array", "uint"} => ItemSize(i) <= 5)
  BY <1>2, <1>4, <1>5
<1> QED BY <1>6 DEF n

\* The bytes up to each item.
SumsOf(items) ==
    {sum \in [0 .. Len(items) -> Nat] :
        sum[0] = 0 /\ \A i \in 1 .. Len(items) : sum[i] = sum[i - 1] + ItemSize(items[i])}

LEMMA SumsExist ==
    ASSUME NEW items \in Seq(Items)
    PROVE  SumsOf(items) # {}
<1> DEFINE n == Len(items)
           size(i) == ItemSize(items[i])
           Sums(k) == {sum \in [0 .. k -> Nat] :
                         sum[0] = 0 /\ \A i \in 1 .. k : sum[i] = sum[i - 1] + size(i)}
           S == {k \in 0 .. n : Sums(k) # {}}
<1>1. n \in Nat /\ \A i \in 1 .. n : items[i] \in Items
  OBVIOUS
<1>2. \A i \in 1 .. n : size(i) \in Nat
  BY <1>1, ItemSizes
<1> HIDE DEF n, size
<1>3. 0 \in S
  <2> DEFINE g == [i \in 0 .. 0 |-> 0]
  <2>1. g \in Sums(0)
    OBVIOUS
  <2>2. 0 \in 0 .. n
    BY <1>1
  <2> HIDE DEF Sums
  <2> QED BY <2>1, <2>2
<1>4. ASSUME NEW k \in 0 .. n, k \in S, k < n PROVE k + 1 \in S
  <2>0. k \in Nat /\ k + 1 \in 1 .. n /\ k + 1 \in 0 .. n
    BY <1>1, <1>4
  <2>1. PICK s \in [0 .. k -> Nat] : s[0] = 0 /\ \A i \in 1 .. k : s[i] = s[i - 1] + size(i)
    BY <1>4
  <2> DEFINE g == [i \in 0 .. k + 1 |-> IF i = k + 1 THEN s[k] + size(k + 1) ELSE s[i]]
  <2>2. g \in [0 .. k + 1 -> Nat]
    <3>1. s[k] + size(k + 1) \in Nat
      BY <1>2, <2>0, <2>1
    <3>2. \A i \in 0 .. k + 1 : i # k + 1 => i \in 0 .. k
      BY <2>0
    <3> QED BY <2>1, <3>1, <3>2
  <2>3. g[0] = 0
    BY <2>0, <2>1
  <2>4. ASSUME NEW i \in 1 .. k + 1 PROVE g[i] = g[i - 1] + size(i)
    <3>1. CASE i = k + 1
      <4>1. g[i] = s[k] + size(i) /\ g[i - 1] = s[k]
        BY <2>0, <3>1
      <4> QED BY <4>1
    <3>2. CASE i # k + 1
      <4>1. i \in 1 .. k /\ i \in 0 .. k + 1 /\ i - 1 \in 0 .. k + 1 /\ i - 1 # k + 1
        BY <2>0, <3>2
      <4>2. g[i] = s[i] /\ g[i - 1] = s[i - 1]
        BY <3>2, <4>1
      <4> QED BY <2>1, <4>1, <4>2
    <3> QED BY <3>1, <3>2
  <2>5. g \in Sums(k + 1)
    <3> HIDE DEF g
    <3> QED BY <2>2, <2>3, <2>4
  <2> HIDE DEF g, Sums
  <2> QED BY <2>0, <2>5
<1>5. n \in S
  <2> HIDE DEF S
  <2>1. 0 .. n \subseteq S
    BY <1>1, <1>3, <1>4, UpTo
  <2>2. n \in 0 .. n
    BY <1>1
  <2> QED BY <2>1, <2>2
<1>6. Sums(n) # {}
  BY <1>5
<1> QED BY <1>6 DEF SumsOf, n, size

\* The recursion of Size, over a part of the items.
SizeStep(items, f, part) ==
    IF part[1] >= part[2] THEN ItemSize(items[part[1]])
    ELSE f[<<part[1], (part[1] + part[2]) \div 2>>]
            + f[<<(part[1] + part[2]) \div 2 + 1, part[2]>>]

LEMMA Halves ==
    ASSUME NEW n \in Nat, NEW a \in 1 .. n, NEW b \in 1 .. n, a < b
    PROVE  /\ (a + b) \div 2 \in 1 .. n /\ (a + b) \div 2 + 1 \in 1 .. n
           /\ a <= (a + b) \div 2 /\ (a + b) \div 2 + 1 <= b
           /\ (a + b) \div 2 - a < b - a /\ b - ((a + b) \div 2 + 1) < b - a
           /\ ((a + b) \div 2 + 1) - 1 = (a + b) \div 2
OBVIOUS

LEMMA SizeIsDefined ==
    ASSUME NEW items, NEW n \in Nat
    PROVE  \E f : f = [part \in (1 .. n) \X (1 .. n) |-> SizeStep(items, f, part)]
<1> DEFINE D == (1 .. n) \X (1 .. n)
           Good(f, d) == \A a, b \in 1 .. n : b - a <= d =>
                            f[<<a, b>>] = SizeStep(items, f, <<a, b>>)
           S == {d \in 0 .. n : \E f : Good(f, d)}
<1>1. 0 \in S
  <2> DEFINE f == [part \in D |-> ItemSize(items[part[1]])]
  <2>1. ASSUME NEW a \in 1 .. n, NEW b \in 1 .. n, b - a <= 0
        PROVE  f[<<a, b>>] = SizeStep(items, f, <<a, b>>)
    <3>1. f[<<a, b>>] = ItemSize(items[a])
      OBVIOUS
    <3>2. a >= b
      BY <2>1
    <3> HIDE DEF f
    <3> QED BY <3>1, <3>2 DEF SizeStep
  <2> HIDE DEF f
  <2>2. Good(f, 0)
    BY <2>1
  <2>3. 0 \in 0 .. n
    OBVIOUS
  <2> HIDE DEF Good
  <2> QED BY <2>2, <2>3
<1>2. ASSUME NEW d \in 0 .. n, d \in S, d < n PROVE d + 1 \in S
  <2>1. PICK f : Good(f, d)
    BY <1>2
  <2> DEFINE g == [part \in D |-> IF part[2] - part[1] <= d THEN f[part]
                                 ELSE SizeStep(items, f, part)]
  <2>2. ASSUME NEW a \in 1 .. n, NEW b \in 1 .. n, b - a <= d + 1
        PROVE  g[<<a, b>>] = SizeStep(items, f, <<a, b>>)
    BY <2>1
  <2>3. ASSUME NEW a \in 1 .. n, NEW b \in 1 .. n, b - a <= d
        PROVE  g[<<a, b>>] = f[<<a, b>>]
    BY <2>3
  <2> HIDE DEF g
  <2>4. ASSUME NEW a \in 1 .. n, NEW b \in 1 .. n, b - a <= d + 1
        PROVE  SizeStep(items, g, <<a, b>>) = SizeStep(items, f, <<a, b>>)
    <3>1. CASE a >= b
      BY <3>1 DEF SizeStep
    <3>2. CASE ~(a >= b)
      <4> DEFINE h == (a + b) \div 2
      <4>1. h \in 1 .. n /\ h + 1 \in 1 .. n /\ h - a <= d /\ b - (h + 1) <= d
        BY <2>4, <3>2, Halves
      <4> HIDE DEF h
      <4>2. g[<<a, h>>] = f[<<a, h>>] /\ g[<<h + 1, b>>] = f[<<h + 1, b>>]
        BY <2>3, <4>1
      <4> QED BY <3>2, <4>2 DEF SizeStep, h
    <3> QED BY <3>1, <3>2
  <2>5. Good(g, d + 1)
    BY <2>2, <2>4
  <2>6. d + 1 \in 0 .. n
    BY <1>2
  <2> HIDE DEF Good
  <2> QED BY <2>5, <2>6
<1>3. n \in S
  <2> HIDE DEF S
  <2>1. 0 .. n \subseteq S
    BY <1>1, <1>2, UpTo
  <2>2. n \in 0 .. n
    OBVIOUS
  <2> QED BY <2>1, <2>2
<1>4. PICK f : Good(f, n)
  BY <1>3
<1> DEFINE g == [part \in D |-> SizeStep(items, f, part)]
<1>5. ASSUME NEW a \in 1 .. n, NEW b \in 1 .. n PROVE g[<<a, b>>] = f[<<a, b>>]
  <2>1. b - a <= n
    OBVIOUS
  <2>2. f[<<a, b>>] = SizeStep(items, f, <<a, b>>)
    BY <1>4, <2>1
  <2> QED BY <2>2
<1>6. ASSUME NEW a \in 1 .. n, NEW b \in 1 .. n
      PROVE  SizeStep(items, g, <<a, b>>) = SizeStep(items, f, <<a, b>>)
  <2> HIDE DEF g
  <2>1. CASE a >= b
    BY <2>1 DEF SizeStep
  <2>2. CASE ~(a >= b)
    <3> DEFINE h == (a + b) \div 2
    <3>1. h \in 1 .. n /\ h + 1 \in 1 .. n
      BY <2>2, Halves
    <3> HIDE DEF h
    <3>2. g[<<a, h>>] = f[<<a, h>>] /\ g[<<h + 1, b>>] = f[<<h + 1, b>>]
      BY <1>5, <3>1
    <3> QED BY <2>2, <3>2 DEF SizeStep, h
  <2> QED BY <2>1, <2>2
<1>7. \A part \in D : SizeStep(items, g, part) = SizeStep(items, f, part)
  <2> SUFFICES ASSUME NEW part \in D
               PROVE  SizeStep(items, g, part) = SizeStep(items, f, part)
    OBVIOUS
  <2>1. part[1] \in 1 .. n /\ part[2] \in 1 .. n /\ part = <<part[1], part[2]>>
    OBVIOUS
  <2> HIDE DEF g
  <2> QED BY <1>6, <2>1
<1>8. g = [part \in D |-> SizeStep(items, f, part)]
  OBVIOUS
<1> HIDE DEF g
<1>9. g = [part \in D |-> SizeStep(items, g, part)]
  BY <1>7, <1>8
<1> QED BY <1>9

\* Size adds up the sizes of the items.
LEMMA SizeIsSum ==
    ASSUME NEW items \in Seq(Items), NEW sum \in SumsOf(items)
    PROVE  Size(items) = sum[Len(items)]
<1> DEFINE n == Len(items)
           size == CHOOSE f : f = [part \in (1 .. n) \X (1 .. n) |-> SizeStep(items, f, part)]
<1>1. n \in Nat /\ (\A i \in 1 .. n : items[i] \in Items) /\ (items = <<>> => n = 0)
      /\ (items # <<>> => n # 0)
  BY EmptySeq
<1>2. /\ sum \in [0 .. n -> Nat] /\ sum[0] = 0
      /\ \A i \in 1 .. n : sum[i] = sum[i - 1] + ItemSize(items[i])
  BY DEF SumsOf
<1>3. Size(items) = IF items = <<>> THEN 0 ELSE size[<<1, n>>]
  BY DEF Size, SizeStep
<1>4. size = [part \in (1 .. n) \X (1 .. n) |-> SizeStep(items, size, part)]
  BY <1>1, SizeIsDefined
<1> HIDE DEF size, n
<1>5. \A a, b \in 1 .. n : size[<<a, b>>] = SizeStep(items, size, <<a, b>>)
  BY <1>4
<1> DEFINE Adds(d) == \A a, b \in 1 .. n : a <= b /\ b - a <= d =>
                            size[<<a, b>>] = sum[b] - sum[a - 1]
           S == {d \in 0 .. n : Adds(d)}
<1>6. \A i \in 0 .. n : sum[i] \in Nat
  BY <1>2
<1>7. 0 \in S
  <2>1. ASSUME NEW a \in 1 .. n, NEW b \in 1 .. n, a <= b, b - a <= 0
        PROVE  size[<<a, b>>] = sum[b] - sum[a - 1]
    <3>1. a = b /\ a >= b /\ a \in 0 .. n /\ a - 1 \in 0 .. n
      BY <1>1, <2>1
    <3>2. size[<<a, b>>] = ItemSize(items[a])
      BY <1>5, <3>1 DEF SizeStep
    <3>3. sum[a] = sum[a - 1] + ItemSize(items[a]) /\ ItemSize(items[a]) \in Nat
      BY <1>1, <1>2, ItemSizes
    <3> QED BY <1>6, <3>1, <3>2, <3>3
  <2>2. Adds(0)
    BY <2>1
  <2>3. 0 \in 0 .. n
    BY <1>1
  <2> HIDE DEF Adds
  <2> QED BY <2>2, <2>3
<1>8. ASSUME NEW d \in 0 .. n, d \in S, d < n PROVE d + 1 \in S
  <2>0. Adds(d)
    BY <1>8
  <2>1. ASSUME NEW a \in 1 .. n, NEW b \in 1 .. n, a <= b, b - a <= d + 1
        PROVE  size[<<a, b>>] = sum[b] - sum[a - 1]
    <3>1. CASE b - a <= d
      BY <2>0, <2>1, <3>1
    <3>2. CASE ~(b - a <= d)
      <4> DEFINE h == (a + b) \div 2
      <4>0. d \in Nat /\ a < b
        BY <1>1, <3>2
      <4>1. /\ h \in 1 .. n /\ h + 1 \in 1 .. n /\ h - a <= d /\ b - (h + 1) <= d
            /\ a <= h /\ h + 1 <= b /\ (h + 1) - 1 = h
        BY <1>1, <2>1, <4>0, Halves
      <4>2. ~(a >= b)
        BY <4>0
      <4>3. SizeStep(items, size, <<a, b>>) = size[<<a, h>>] + size[<<h + 1, b>>]
        BY <4>2 DEF SizeStep
      <4> HIDE DEF h
      <4>4. size[<<a, h>>] = sum[h] - sum[a - 1] /\ size[<<h + 1, b>>] = sum[b] - sum[h]
        BY <2>0, <4>1
      <4>5. sum[h] \in Nat /\ sum[b] \in Nat /\ sum[a - 1] \in Nat
        BY <1>1, <1>6, <4>1
      <4>6. size[<<a, b>>] = size[<<a, h>>] + size[<<h + 1, b>>]
        BY <1>5, <4>3
      <4> QED BY <4>4, <4>5, <4>6
    <3> QED BY <3>1, <3>2
  <2>2. Adds(d + 1)
    BY <2>1
  <2>3. d + 1 \in 0 .. n
    BY <1>1, <1>8
  <2> HIDE DEF Adds
  <2> QED BY <2>2, <2>3
<1>9. n \in S
  <2> HIDE DEF S
  <2>1. 0 .. n \subseteq S
    BY <1>1, <1>7, <1>8, UpTo
  <2>2. n \in 0 .. n
    BY <1>1
  <2> QED BY <2>1, <2>2
<1>10. CASE items = <<>>
  BY <1>1, <1>2, <1>3, <1>10 DEF n
<1>11. CASE items # <<>>
  <2>1. 1 \in 1 .. n /\ n \in 1 .. n /\ 1 <= n /\ n - 1 <= n /\ 1 - 1 = 0
    BY <1>1, <1>11
  <2>2. Adds(n)
    BY <1>9
  <2>3. size[<<1, n>>] = sum[n] - sum[1 - 1]
    BY <2>1, <2>2
  <2>4. sum[n] \in Nat
    BY <1>1, <1>6
  <2> QED BY <1>2, <1>3, <1>11, <2>1, <2>3, <2>4 DEF n
<1> QED BY <1>10, <1>11

LEMMA SizeTyped ==
    ASSUME NEW items \in Seq(Items)
    PROVE  Size(items) \in Nat
<1>1. PICK sum \in SumsOf(items) : TRUE
  BY SumsExist
<1>2. sum \in [0 .. Len(items) -> Nat] /\ Len(items) \in 0 .. Len(items)
  BY DEF SumsOf
<1> QED BY <1>1, <1>2, SizeIsSum

LEMMA FieldFits ==
    ASSUME NEW field \in FieldName, NEW n \in Nat, NEW x \in Nat,
           Reads(field, Item(TypeOf(field), n, x))
    PROVE  /\ ItemSize(Item(TypeOf(field), n, x)) \in Nat
           /\ ItemSize(Item(TypeOf(field), n, x)) <= IF field = "credential" THEN 1029 ELSE 69
<1> DEFINE i == Item(TypeOf(field), n, x)
           size == ItemSize(i)
<1>1. i \in Items /\ i.n = n /\ i.t = TypeOf(field)
  <2>1. TypeOf(field) \in {"magic", "array", "uint", "str", "bytes"}
    BY DEF TypeOf
  <2> QED BY <2>1, ItemTyped DEF Item
<1>2. Reads(field, i)
  OBVIOUS
<1> HIDE DEF i
<1>3. size \in Nat /\ size <= 5 + n /\ (i.t \in {"array", "uint"} => size <= 5)
  BY <1>1, ItemSizes
<1> HIDE DEF size
<1>4. i.t \in {"array", "uint"} \/ n <= 64 \/ field = "credential"
  <2>1. CASE field \in {"id", "prfNonce", "nonce", "wrapped", "wrappedTwice", "salt", "key"}
    <3>1. \E k \in {12, 16, 32, 48, 64} : ExactBytes(i, k)
      BY <1>2, <2>1 DEF Reads
    <3> QED BY <1>1, <3>1 DEF ExactBytes
  <2>2. CASE field = "label"
    BY <1>1, <1>2, <2>2 DEF Reads, MaxLabel
  <2>3. CASE field \in {"policy", "kdf", "argon2id", "memory", "passes", "lanes"}
    BY <1>2, <2>3 DEF Reads
  <2> QED BY <2>1, <2>2, <2>3 DEF FieldName
<1>5. field = "credential" => n <= 1024
  BY <1>1, <1>2, SMTT(40) DEF Reads, MaxCredentialId
<1>6. size <= IF field = "credential" THEN 1029 ELSE 69
  BY <1>3, <1>4, <1>5
<1> QED BY <1>3, <1>6 DEF size, i

\* A bound on the bytes of a record: two items before the fields, at most 15
\* fields, one of them a credential id.
RecordBytes == 2005

\* The bytes of one record, wherever it stands.
LEMMA RecordFits ==
    ASSUME NEW items \in Seq(Items), NEW sum \in SumsOf(items), NEW p \in Nat \ {0},
           NEW r \in Records, p + 1 + Len(r.values) <= Len(items),
           \A j \in 1 .. 2 + Len(r.values) : items[p + j - 1] = EncodeRecipient(r)[j]
    PROVE  sum[p + 1 + Len(r.values)] <= sum[p - 1] + RecordBytes
<1> DEFINE m == Len(r.values)
           f == Fields(r.suite)
           enc == EncodeRecipient(r)
           n == Len(items)
           v == r.values
           part(j) == Item(TypeOf(f[j]), v[j].n, v[j].x)
<1>1. /\ r.suite \in Suite /\ v \in Seq([n : Nat, x : Nat])
      /\ Len(f) = m /\ m \in Nat /\ m <= 15 /\ DOMAIN f = 1 .. m
      /\ \A j \in 1 .. m : f[j] \in FieldName
  BY RecordTyped, FieldsTyped
<1>2. DOMAIN v = 1 .. m /\ \A j \in 1 .. m : v[j].n \in Nat /\ v[j].x \in Nat
  <2> DEFINE V == [n : Nat, x : Nat]
  <2>1. v \in Seq(V) /\ m = Len(v)
    BY <1>1
  <2> HIDE DEF v, V, m
  <2>2. DOMAIN v = 1 .. m /\ \A j \in 1 .. m : v[j] \in V
    BY <2>1
  <2> QED BY <2>2 DEF V
<1>3. \A j \in 1 .. m : Reads(f[j], part(j))
  BY <1>2 DEF Records
<1>4. \A j \in 1 .. m : f[j] = "credential" => j = 3
  BY <1>1, FieldsOnce
<1>5. /\ enc[1] = ArrayOf(RecordLength(r.suite)) /\ enc[2] = Uint(r.suite)
      /\ \A j \in 1 .. m : enc[2 + j] = part(j)
  BY RecipientEncoded
<1>6. p + 1 + m <= n /\ \A j \in 1 .. 2 + m : items[p + j - 1] = enc[j]
  OBVIOUS
<1>7. /\ n \in Nat /\ sum \in [0 .. n -> Nat]
      /\ \A i \in 1 .. n : items[i] \in Items /\ sum[i] = sum[i - 1] + ItemSize(items[i])
  BY DEF SumsOf
<1> HIDE DEF m, f, enc, n, v
<1>8. \A j \in 1 .. m : ItemSize(part(j)) \in Nat
                        /\ ItemSize(part(j)) <= IF j = 3 THEN 1029 ELSE 69
  <2> SUFFICES ASSUME NEW j \in 1 .. m
               PROVE  ItemSize(part(j)) \in Nat
                      /\ ItemSize(part(j)) <= IF j = 3 THEN 1029 ELSE 69
    OBVIOUS
  <2> DEFINE s == ItemSize(part(j))
  <2>1. s \in Nat /\ s <= IF f[j] = "credential" THEN 1029 ELSE 69
    BY <1>1, <1>2, <1>3, FieldFits
  <2> HIDE DEF s
  <2>2. s <= IF j = 3 THEN 1029 ELSE 69
    BY <1>4, <2>1
  <2> QED BY <2>1, <2>2 DEF s
<1> HIDE DEF part
<1> DEFINE base == sum[p - 1]
           Bound(j) == base + 10 + 69 * j + (IF j >= 3 THEN 960 ELSE 0)
           S == {j \in 0 .. m : sum[p + 1 + j] <= Bound(j)}
<1>9. base \in Nat /\ p - 1 \in 0 .. n /\ p \in 1 .. n /\ p + 1 \in 1 .. n
  BY <1>1, <1>6, <1>7
<1>10. sum[p + 1] <= base + 10
  <2>1. 1 \in 1 .. 2 + m /\ 2 \in 1 .. 2 + m /\ p + 1 - 1 = p /\ p + 2 - 1 = p + 1
    BY <1>1
  <2>2. items[p + 1 - 1] = enc[1] /\ items[p + 2 - 1] = enc[2]
    BY <1>6, <2>1
  <2>3. items[p].t = "array" /\ items[p + 1].t = "uint"
    BY <1>5, <2>1, <2>2 DEF ArrayOf, Uint, Item
  <2>4. ItemSize(items[p]) \in Nat /\ ItemSize(items[p]) <= 5
    BY <1>7, <1>9, <2>3, ItemSizes
  <2>5. ItemSize(items[p + 1]) \in Nat /\ ItemSize(items[p + 1]) <= 5
    BY <1>7, <1>9, <2>3, ItemSizes
  <2>6. sum[p] = base + ItemSize(items[p])
    BY <1>7, <1>9
  <2>7. sum[p + 1] = sum[p] + ItemSize(items[p + 1])
    BY <1>7, <1>9, <2>1
  <2> HIDE DEF base
  <2> QED BY <1>9, <2>4, <2>5, <2>6, <2>7
<1> HIDE DEF base
<1>11. 0 \in S
  <2>1. p + 1 + 0 = p + 1 /\ 0 \in 0 .. m
    BY <1>1
  <2>2. Bound(0) = base + 10
    BY <1>9
  <2> QED BY <1>10, <2>1, <2>2
<1>12. ASSUME NEW j \in 0 .. m, j \in S, j < m PROVE j + 1 \in S
  <2> DEFINE k == j + 1
             q == p + 1 + j
  <2>1. /\ j \in Nat /\ k \in 1 .. m /\ k \in 0 .. m /\ 2 + k \in 1 .. 2 + m
        /\ p + (2 + k) - 1 = q + 1 /\ q + 1 \in 1 .. n /\ (q + 1) - 1 = q /\ q \in 0 .. n
        /\ p + 1 + k = q + 1
    BY <1>1, <1>6, <1>7, <1>12
  <2>2. items[p + (2 + k) - 1] = enc[2 + k]
    BY <1>6, <2>1
  <2>3. sum[q] <= Bound(j)
    BY <1>12
  <2> HIDE DEF q
  <2>4. sum[q + 1] = sum[q] + ItemSize(part(k))
    <3>1. items[q + 1] = part(k)
      BY <1>5, <2>1, <2>2
    <3>2. sum[q + 1] = sum[(q + 1) - 1] + ItemSize(items[q + 1])
      BY <1>7, <2>1
    <3> QED BY <2>1, <3>1, <3>2
  <2>5. ItemSize(part(k)) \in Nat /\ ItemSize(part(k)) <= IF k = 3 THEN 1029 ELSE 69
    BY <1>8, <2>1
  <2>6. sum[q] \in Nat
    BY <1>7, <2>1
  <2> DEFINE size == ItemSize(part(k))
             t == sum[q]
  <2>7. t \in Nat /\ size \in Nat /\ t <= base + 10 + 69 * j + (IF j >= 3 THEN 960 ELSE 0)
        /\ size <= IF k = 3 THEN 1029 ELSE 69
    BY <2>3, <2>5, <2>6
  <2> HIDE DEF size, t
  <2>8. t + size <= base + 10 + 69 * (j + 1) + (IF j + 1 >= 3 THEN 960 ELSE 0)
    BY <1>9, <2>1, <2>7
  <2>9. sum[p + 1 + (j + 1)] <= Bound(j + 1)
    BY <2>1, <2>4, <2>8 DEF size, t
  <2> QED BY <2>1, <2>9
<1>13. m \in S
  <2> HIDE DEF S
  <2>1. 0 .. m \subseteq S
    BY <1>1, <1>11, <1>12, UpTo
  <2>2. m \in 0 .. m
    BY <1>1
  <2> QED BY <2>1, <2>2
<1>14. p + 1 + m \in 0 .. n
  BY <1>1, <1>6, <1>7
<1>15. sum[p + 1 + m] \in Nat
  BY <1>7, <1>14
<1>16. sum[p + 1 + m] <= base + 10 + 69 * m + (IF m >= 3 THEN 960 ELSE 0)
  BY <1>13
<1> DEFINE t == sum[p + 1 + m]
<1>17. t <= base + RecordBytes
  <2>1. t \in Nat /\ t <= base + 10 + 69 * m + (IF m >= 3 THEN 960 ELSE 0)
    BY <1>15, <1>16
  <2> HIDE DEF t
  <2> QED BY <1>1, <1>9, <2>1 DEF RecordBytes
<1>18. sum[p + 1 + m] <= sum[p - 1] + RecordBytes
  BY <1>17 DEF base
<1> QED BY <1>18 DEF m, v

\* Every envelope fits the limit, full of the largest recipients too.
LEMMA EncodeFits ==
    ASSUME NEW e \in Envelopes
    PROVE  Size(Encode(e)) \in 1 .. MaxEnvelopeSize
<1> DEFINE n == Len(e.recipients)
           items == Encode(e)
           len == Len(items)
<1>1. e \in Drafts /\ e.recipients \in Seq(Records) /\ n \in Nat /\ n <= 32
      /\ \A i \in 1 .. n : e.recipients[i] \in Records
  BY EnvelopesAreDrafts DEF MaxRecipients
<1>2. /\ items \in Seq(Items) /\ len \in Nat /\ (\A i \in 1 .. len : items[i] \in Items)
      /\ items[1] = Magic /\ items[2] = ArrayOf(5) /\ items[3] = Uint(1)
      /\ items[4] = Item("str", e.application.n, e.application.x)
      /\ items[5] = Item("bytes", 32, e.envelopeId)
      /\ items[6] = ArrayOf(n)
      /\ items[len] = Item("bytes", 32, e.mac)
  BY <1>1, EncodeLayout
<1>3. PICK at \in [0 .. n -> Nat] :
            /\ at[0] = 7 /\ len = at[n]
            /\ \A i \in 1 .. n :
                /\ at[i] = at[i - 1] + 2 + Len(e.recipients[i].values)
                /\ at[i] <= len /\ at[i - 1] >= 7
                /\ \A j \in 1 .. 2 + Len(e.recipients[i].values) :
                    items[at[i - 1] + j - 1] = EncodeRecipient(e.recipients[i])[j]
  BY <1>1, EncodeLayout
<1>4. e.application.n <= 253 /\ e.application.n \in Nat
  <2> DEFINE a == e.application
  <2>1. a \in [n : MinApplicationId .. MaxApplicationId, x : Nat \ {0}]
    BY DEF Envelopes
  <2> HIDE DEF a
  <2>2. a.n \in Nat /\ a.n <= 253
    <3> DEFINE c == a.n
    <3>1. c \in MinApplicationId .. MaxApplicationId
      BY <2>1
    <3> HIDE DEF c
    <3>2. c \in Nat /\ c <= 253
      BY <3>1 DEF MinApplicationId, MaxApplicationId
    <3> QED BY <3>2 DEF c
  <2> QED BY <2>2 DEF a
<1> HIDE DEF n, items, len
<1>5. PICK sum \in SumsOf(items) : TRUE
  BY <1>2, SumsExist
<1>6. /\ sum \in [0 .. len -> Nat] /\ sum[0] = 0
      /\ \A i \in 1 .. len : sum[i] = sum[i - 1] + ItemSize(items[i])
  BY DEF SumsOf, len
<1>7. \A i \in 0 .. len : sum[i] \in Nat
  BY <1>6
<1>8. ASSUME NEW i \in 1 .. n
      PROVE  /\ at[i - 1] \in Nat /\ at[i] \in Nat /\ at[i] <= len /\ at[i - 1] >= 7 /\ at[i] >= 9
             /\ sum[at[i] - 1] <= sum[at[i - 1] - 1] + RecordBytes
  <2> DEFINE p == at[i - 1]
             r == e.recipients[i]
             m == Len(r.values)
             q == at[i]
  <2>1. i - 1 \in 0 .. n /\ i \in 0 .. n
    BY <1>1
  <2>2. p \in Nat /\ q \in Nat /\ p >= 7 /\ q = p + 2 + m /\ q <= len /\ r \in Records /\ m \in Nat
    BY <1>1, <1>3, <2>1, RecordTyped
  <2>3. \A j \in 1 .. 2 + m : items[p + j - 1] = EncodeRecipient(r)[j]
    BY <1>3
  <2> HIDE DEF p, q, r
  <2>4. p + 1 + Len(r.values) <= Len(items) /\ p \in Nat \ {0} /\ p + 1 + m = q - 1 /\ q >= 9
    <3> HIDE DEF m
    <3>1. p + 1 + m <= len /\ p \in Nat \ {0} /\ p + 1 + m = q - 1 /\ q >= 9
      BY <1>2, <2>2
    <3> QED BY <3>1 DEF m, len
  <2>5. sum[p + 1 + Len(r.values)] <= sum[p - 1] + RecordBytes
    <3>1. r \in Records /\ sum \in SumsOf(items) /\ items \in Seq(Items)
      BY <1>2, <1>5, <2>2
    <3>2. \A j \in 1 .. 2 + Len(r.values) : items[p + j - 1] = EncodeRecipient(r)[j]
      BY <2>3
    <3> QED BY ONLY <2>4, <3>1, <3>2, RecordFits
  <2> QED BY <2>2, <2>4, <2>5 DEF p, q
<1>9. len >= 7
  <2>1. CASE n = 0
    BY <1>3, <2>1
  <2>2. CASE n # 0
    <3>1. n \in 1 .. n
      BY <1>1, <2>2
    <3> QED BY <1>2, <1>8, <3>1
  <2> QED BY <2>1, <2>2
<1>10. sum[6] <= 319
  <2>1. /\ ItemSize(items[1]) \in Nat /\ ItemSize(items[1]) <= 9
        /\ ItemSize(items[2]) \in Nat /\ ItemSize(items[2]) <= 5
        /\ ItemSize(items[3]) \in Nat /\ ItemSize(items[3]) <= 5
        /\ ItemSize(items[4]) \in Nat /\ ItemSize(items[4]) <= 258
        /\ ItemSize(items[5]) \in Nat /\ ItemSize(items[5]) <= 37
        /\ ItemSize(items[6]) \in Nat /\ ItemSize(items[6]) <= 5
    <3>1. items[1] \in Items /\ items[2] \in Items /\ items[3] \in Items
          /\ items[4] \in Items /\ items[5] \in Items /\ items[6] \in Items
      BY <1>2, <1>9
    <3>2. /\ items[1].n = 4 /\ items[2].t = "array" /\ items[3].t = "uint"
          /\ items[4].n = e.application.n /\ items[5].n = 32 /\ items[6].t = "array"
      BY <1>2 DEF Magic, ArrayOf, Uint, Item
    <3>3. ItemSize(items[1]) \in Nat /\ ItemSize(items[1]) <= 5 + items[1].n
      BY <3>1, ItemSizes
    <3>4. ItemSize(items[4]) \in Nat /\ ItemSize(items[4]) <= 5 + items[4].n
      BY <3>1, ItemSizes
    <3>5. ItemSize(items[5]) \in Nat /\ ItemSize(items[5]) <= 5 + items[5].n
      BY <3>1, ItemSizes
    <3>6. ItemSize(items[2]) \in Nat /\ ItemSize(items[2]) <= 5
          /\ ItemSize(items[3]) \in Nat /\ ItemSize(items[3]) <= 5
          /\ ItemSize(items[6]) \in Nat /\ ItemSize(items[6]) <= 5
      BY <3>1, <3>2, ItemSizes
    <3> QED BY <1>4, <3>2, <3>3, <3>4, <3>5, <3>6, SMTT(40)
  <2>2. 1 \in 1 .. len /\ 2 \in 1 .. len /\ 3 \in 1 .. len /\ 4 \in 1 .. len /\ 5 \in 1 .. len
        /\ 6 \in 1 .. len
    BY <1>2, <1>9
  <2>3. sum[1] = sum[0] + ItemSize(items[1]) /\ sum[2] = sum[1] + ItemSize(items[2])
        /\ sum[3] = sum[2] + ItemSize(items[3]) /\ sum[4] = sum[3] + ItemSize(items[4])
        /\ sum[5] = sum[4] + ItemSize(items[5]) /\ sum[6] = sum[5] + ItemSize(items[6])
    <3>1. 1 - 1 = 0 /\ 2 - 1 = 1 /\ 3 - 1 = 2 /\ 4 - 1 = 3 /\ 5 - 1 = 4 /\ 6 - 1 = 5
      OBVIOUS
    <3> QED BY <1>6, <2>2, <3>1
  <2>4. sum[0] = 0
    BY <1>6
  <2> DEFINE s1 == sum[1]  s2 == sum[2]  s3 == sum[3]  s4 == sum[4]  s5 == sum[5]  s6 == sum[6]
             z1 == ItemSize(items[1])  z2 == ItemSize(items[2])  z3 == ItemSize(items[3])
             z4 == ItemSize(items[4])  z5 == ItemSize(items[5])  z6 == ItemSize(items[6])
  <2>5. s1 = 0 + z1 /\ s2 = s1 + z2 /\ s3 = s2 + z3 /\ s4 = s3 + z4 /\ s5 = s4 + z5 /\ s6 = s5 + z6
    BY <2>3, <2>4
  <2>6. /\ z1 \in Nat /\ z1 <= 9 /\ z2 \in Nat /\ z2 <= 5 /\ z3 \in Nat /\ z3 <= 5
        /\ z4 \in Nat /\ z4 <= 258 /\ z5 \in Nat /\ z5 <= 37 /\ z6 \in Nat /\ z6 <= 5
    BY <2>1
  <2> HIDE DEF s1, s2, s3, s4, s5, s6, z1, z2, z3, z4, z5, z6
  <2>7. s6 <= 319
    BY <2>5, <2>6
  <2> QED BY <2>7 DEF s6
<1> DEFINE S == {i \in 0 .. n : sum[at[i] - 1] <= 319 + RecordBytes * i}
<1>11. 0 \in S
  <2>1. 7 - 1 = 6 /\ 0 \in 0 .. n
    BY <1>1
  <2>2. sum[at[0] - 1] <= 319 + RecordBytes * 0
    <3>1. RecordBytes * 0 = 0
      BY DEF RecordBytes
    <3> QED BY <1>3, <1>10, <2>1, <3>1
  <2> QED BY <2>1, <2>2
<1>12. ASSUME NEW i \in 0 .. n, i \in S, i < n PROVE i + 1 \in S
  <2> DEFINE k == i + 1
  <2>1. k \in 1 .. n /\ k - 1 = i /\ k \in 0 .. n /\ i \in Nat
    BY <1>1, <1>12
  <2>2. sum[at[i] - 1] <= 319 + RecordBytes * i
    BY <1>12
  <2> HIDE DEF k
  <2>3. sum[at[k] - 1] <= sum[at[k - 1] - 1] + RecordBytes /\ at[k - 1] \in Nat /\ at[k - 1] >= 7
        /\ at[k] \in Nat /\ at[k] <= len /\ at[k] >= 9 /\ at[k - 1] <= at[k]
    <3>1. at[k] = at[k - 1] + 2 + Len(e.recipients[k].values) /\ e.recipients[k] \in Records
      BY <1>1, <1>3, <2>1
    <3>2. Len(e.recipients[k].values) \in Nat
      BY <3>1, RecordTyped
    <3>3. sum[at[k] - 1] <= sum[at[k - 1] - 1] + RecordBytes /\ at[k - 1] \in Nat /\ at[k - 1] >= 7
          /\ at[k] \in Nat /\ at[k] <= len /\ at[k] >= 9
      BY <1>8, <2>1
    <3> DEFINE x == at[k - 1]
               y == at[k]
               m == Len(e.recipients[k].values)
    <3>4. x \in Nat /\ y = x + 2 + m /\ m \in Nat
      BY <3>1, <3>2, <3>3
    <3> HIDE DEF x, y, m
    <3>5. x <= y
      BY <3>4
    <3> QED BY <3>3, <3>5 DEF x, y
  <2>4. at[k - 1] - 1 \in 0 .. len /\ at[k] - 1 \in 0 .. len
    <3> DEFINE x == at[k - 1]
               y == at[k]
    <3>1. x \in Nat /\ y \in Nat /\ x >= 7 /\ x <= y /\ y <= len
      BY <2>3
    <3> HIDE DEF x, y
    <3>2. x - 1 \in 0 .. len /\ y - 1 \in 0 .. len
      BY <1>2, <3>1
    <3> QED BY <3>2 DEF x, y
  <2> DEFINE x == sum[at[i] - 1]
             y == sum[at[k] - 1]
  <2>5. x \in Nat /\ y \in Nat /\ x <= 319 + RecordBytes * i /\ y <= x + RecordBytes
    BY <1>7, <2>1, <2>2, <2>3, <2>4
  <2> HIDE DEF x, y
  <2>6. y <= 319 + RecordBytes * (i + 1)
    BY <2>1, <2>5 DEF RecordBytes
  <2> QED BY <2>1, <2>6 DEF k, y
<1>13. n \in S
  <2> HIDE DEF S
  <2>1. 0 .. n \subseteq S
    BY <1>1, <1>11, <1>12, UpTo
  <2>2. n \in 0 .. n
    BY <1>1
  <2> QED BY <2>1, <2>2
<1>14. sum[len - 1] <= 64479 /\ sum[len - 1] \in Nat
  <2> DEFINE x == sum[len - 1]
  <2>1. x <= 319 + RecordBytes * n
    BY <1>3, <1>13
  <2>2. len - 1 \in 0 .. len
    BY <1>2, <1>9
  <2>3. x \in Nat
    BY <1>7, <2>2
  <2> HIDE DEF x
  <2>4. x <= 64479
    BY <1>1, <2>1, <2>3 DEF RecordBytes
  <2> QED BY <2>3, <2>4 DEF x
<1>15. len \in 1 .. len
  BY <1>2, <1>9
<1>16. sum[len] = sum[len - 1] + ItemSize(items[len])
  BY <1>6, <1>15
<1>17. ItemSize(items[len]) \in Nat /\ ItemSize(items[len]) <= 37
  <2>1. items[len] \in Items /\ items[len].n = 32
    BY <1>2, <1>15 DEF Item
  <2>2. ItemSize(items[len]) \in Nat /\ ItemSize(items[len]) <= 5 + items[len].n
    BY <2>1, ItemSizes
  <2> QED BY <2>1, <2>2
<1>18. ItemSize(items[len]) >= 1
  <2> DEFINE i == items[len]
  <2>1. i.t = "bytes" /\ i.n = 32
    BY <1>2 DEF Item
  <2> HIDE DEF i
  <2>2. ItemSize(i) = HeadSize(32) + 32
    BY <2>1 DEF ItemSize
  <2>3. HeadSize(32) \in 1 .. 5
    BY HeadsShort
  <2>4. ItemSize(i) >= 1
    BY <2>2, <2>3
  <2> QED BY <2>4 DEF i
<1>19. Size(items) = sum[len]
  BY <1>2, <1>5, SizeIsSum DEF len
<1> DEFINE x == sum[len - 1]
           y == ItemSize(items[len])
           z == Size(items)
<1>20. x \in Nat /\ x <= 64479 /\ y \in Nat /\ y <= 37 /\ y >= 1 /\ z = x + y
  BY <1>14, <1>16, <1>17, <1>18, <1>19
<1> HIDE DEF x, y, z
<1>21. z \in 1 .. MaxEnvelopeSize
  <2>1. z \in Nat /\ z >= 1 /\ z <= 64516
    BY <1>20
  <2>2. MaxEnvelopeSize \in Nat /\ 64516 <= MaxEnvelopeSize
    BY Z3 DEF MaxEnvelopeSize
  <2> QED BY <2>1, <2>2
<1> QED BY <1>21 DEF z, items

-----------------------------------------------------------------------------
(***************************************************************************)
(* Files and what happens to them.                                         *)
(***************************************************************************)

LEMMA FilesTyped ==
    ASSUME NEW items \in Seq(Items), NEW n \in Nat
    PROVE  /\ Bare(items) \in StoredFile /\ Bare(items).sealed = FALSE
           /\ Sealed(items, n) \in StoredFile /\ Sealed(items, n).sealed = TRUE
<1> DEFINE T == Seq(Items)
<1>2. items \in T /\ TagBytes \in Nat
  BY DEF TagBytes
<1> HIDE DEF T
<1>3. Bare(items) \in [sealed : BOOLEAN, items : T, ciphertextLen : Nat]
  BY <1>2 DEF Bare
<1>4. Sealed(items, n) \in [sealed : BOOLEAN, items : T, ciphertextLen : Nat]
  BY <1>2 DEF Sealed
<1>5. Bare(items).sealed = FALSE /\ Sealed(items, n).sealed = TRUE
  BY DEF Bare, Sealed
<1> QED BY <1>3, <1>4, <1>5 DEF StoredFile, T

LEMMA ReplacedTyped ==
    ASSUME NEW i \in Items
    PROVE  Replaced(i) \subseteq Items
<1> SUFFICES ASSUME NEW j \in Replaced(i) PROVE j \in Items
  OBVIOUS
<1>1. Ids \subseteq Nat
  BY EnrolledAssumption DEF Ids
<1>2. CASE j \in {[i EXCEPT !.short = FALSE], [i EXCEPT !.t = "other"]}
  BY <1>2 DEF Items
<1>3. CASE j \in {[i EXCEPT !.n = n] : n \in Near(i.n)}
  <2>1. PICK n \in Near(i.n) : j = [i EXCEPT !.n = n]
    BY <1>3
  <2>2. n \in Nat
    BY DEF Near
  <2> QED BY <2>1, <2>2 DEF Items
<1>4. CASE j \in {Uint(n) : n \in Suite}
  <2>1. PICK n \in Suite : j = Uint(n)
    BY <1>4
  <2>2. n \in Nat
    BY DEF Suite
  <2> QED BY <2>1, <2>2, ItemTyped DEF Uint
<1>5. CASE j \in {[i EXCEPT !.x = x] : x \in {0} \cup Ids}
  <2>1. PICK x \in {0} \cup Ids : j = [i EXCEPT !.x = x]
    BY <1>5
  <2>2. x \in Nat
    BY <1>1
  <2> QED BY <2>1, <2>2 DEF Items
<1> QED BY <1>2, <1>3, <1>4, <1>5 DEF Replaced

LEMMA AlteredTyped ==
    ASSUME NEW items \in Seq(Items)
    PROVE  Altered(items) \subseteq Seq(Items)
<1> DEFINE n == Len(items)
           all == DOMAIN items
<1>1. n \in Nat /\ all = 1 .. n /\ \A p \in 1 .. n : items[p] \in Items
  OBVIOUS
<1>2. ASSUME NEW s \in Seq(Items), NEW p \in 1 .. Len(s), NEW i \in Items
      PROVE  ReplaceAt(s, p, i) \in Seq(Items) /\ Len(ReplaceAt(s, p, i)) = Len(s)
  BY ExceptSeq DEF ReplaceAt
<1>3. ASSUME NEW a \in Int, NEW b \in Int, a >= 1, b <= n
      PROVE  SubSeq(items, a, b) \in Seq(Items)
  <2> HIDE DEF n
  <2>1. \A p \in a .. b : items[p] \in Items
    BY <1>1, <1>3
  <2> QED BY <2>1, SubSeqProperties
<1> DEFINE changed == UNION {{ReplaceAt(items, p, i) : i \in Replaced(items[p])} : p \in all}
           dropped == {RemoveAt(items, p) : p \in all}
           doubled == {InsertAt(items, p, items[p]) : p \in all}
           exchanged == {ReplaceAt(ReplaceAt(items, p, items[p + 1]), p + 1, items[p]) :
                            p \in 1 .. Len(items) - 1}
           cut == {SubSeq(items, 1, p) : p \in all}
           longer == {Append(items, Uint(1))}
<1> SUFFICES ASSUME NEW t \in Altered(items) PROVE t \in Seq(Items)
  OBVIOUS
<1>4. CASE t \in changed
  <2>1. PICK p \in all : t \in {ReplaceAt(items, p, i) : i \in Replaced(items[p])}
    BY <1>4
  <2>2. PICK i \in Replaced(items[p]) : t = ReplaceAt(items, p, i)
    BY <2>1
  <2>3. i \in Items
    BY <1>1, ReplacedTyped
  <2>4. p \in 1 .. Len(items)
    BY <1>1
  <2> QED BY <1>2, <2>2, <2>3, <2>4
<1>5. CASE t \in dropped
  <2>1. PICK p \in all : t = RemoveAt(items, p)
    BY <1>5
  <2> HIDE DEF n
  <2>2. p - 1 \in Int /\ p + 1 \in Int /\ p - 1 <= n /\ p + 1 >= 1 /\ n \in Int /\ 1 >= 1 /\ n <= n
        /\ 1 \in Int
    BY <1>1
  <2>3. SubSeq(items, 1, p - 1) \in Seq(Items) /\ SubSeq(items, p + 1, n) \in Seq(Items)
    BY <1>3, <2>2
  <2> QED BY <2>1, <2>3, ConcatProperties DEF RemoveAt, n
<1>6. CASE t \in doubled
  <2>1. PICK p \in all : t = InsertAt(items, p, items[p])
    BY <1>6
  <2>2. p - 1 \in 0 .. Len(items) /\ (p - 1) + 1 = p /\ items[p] \in Items
    BY <1>1
  <2>3. InsertAt(items, (p - 1) + 1, items[p]) \in Seq(Items)
    BY <2>2, Inserted
  <2> QED BY <2>1, <2>2, <2>3
<1>7. CASE t \in exchanged
  <2>1. PICK p \in 1 .. Len(items) - 1 :
                t = ReplaceAt(ReplaceAt(items, p, items[p + 1]), p + 1, items[p])
    BY <1>7
  <2>2. p \in 1 .. Len(items) /\ p + 1 \in 1 .. Len(items) /\ items[p] \in Items
        /\ items[p + 1] \in Items
    BY <1>1
  <2> DEFINE s == ReplaceAt(items, p, items[p + 1])
  <2>3. s \in Seq(Items) /\ Len(s) = Len(items)
    BY <1>2, <2>2
  <2> HIDE DEF s
  <2>4. ReplaceAt(s, p + 1, items[p]) \in Seq(Items)
    BY <1>2, <2>2, <2>3
  <2> QED BY <2>1, <2>4 DEF s
<1>8. CASE t \in cut
  <2>1. PICK p \in all : t = SubSeq(items, 1, p)
    BY <1>8
  <2> HIDE DEF n
  <2>2. p \in Int /\ p <= n /\ 1 \in Int /\ 1 >= 1
    BY <1>1
  <2> QED BY <1>3, <2>1, <2>2
<1>9. CASE t \in longer
  <2>1. Uint(1) \in Items
    BY ItemTyped DEF Uint
  <2> QED BY <1>9, <2>1, AppendProperties
<1>10. Altered(items) = changed \cup dropped \cup doubled \cup exchanged \cup cut \cup longer
  BY DEF Altered
<1> HIDE DEF changed, dropped, doubled, exchanged, cut, longer
<1> QED BY <1>4, <1>5, <1>6, <1>7, <1>8, <1>9, <1>10

LEMMA Canonical ==
    ASSUME NEW e \in Envelopes, Len(e.recipients) # 0
    PROVE  /\ Canonicalize(e) = e /\ Decode(Encode(e)) = e /\ e # Invalid
           /\ Encode(e) \in Seq(Items) /\ ValidEnvelopeLen(Size(Encode(e)))
<1>1. Size(Encode(e)) \in 1 .. MaxEnvelopeSize
  BY EncodeFits
<1>2. ~(Size(Encode(e)) > MaxEnvelopeSize)
  <2> DEFINE s == Size(Encode(e))
  <2>1. MaxEnvelopeSize \in Nat
    BY Z3 DEF MaxEnvelopeSize
  <2>2. s \in 1 .. MaxEnvelopeSize
    BY <1>1
  <2> HIDE DEF s
  <2>3. ~(s > MaxEnvelopeSize)
    BY <2>1, <2>2
  <2> QED BY <2>3 DEF s
<1>3. Decode(Encode(e)) = e
  BY <1>2, DecodeEncoded
<1>4. Encode(e) \in Seq(Items)
  BY EnvelopesAreDrafts, EncodeLayout
<1> QED BY <1>1, <1>3, <1>4, InvalidAssumption DEF Canonicalize, ValidEnvelopeLen

LEMMA LimitsFit ==
    /\ MaxSecretBytes \in Nat /\ TagBytes \in Nat /\ MaxEnvelopeSize \in Nat
    /\ MaxFileBytes \in Nat
    /\ 4 + 1 + 4 + MaxEnvelopeSize + 12 + 4 + MaxSecretBytes + TagBytes <= MaxFileBytes
<1>1. MaxSecretBytes \in Nat /\ TagBytes \in Nat /\ MaxEnvelopeSize \in Nat /\ MaxFileBytes \in Nat
  BY SMT DEF MaxSecretBytes, TagBytes, MaxEnvelopeSize, MaxFileBytes
<1>2. 4 + 1 + 4 + MaxEnvelopeSize + 12 + 4 + MaxSecretBytes + TagBytes <= MaxFileBytes
  BY SMT DEF MaxSecretBytes, TagBytes, MaxEnvelopeSize, MaxFileBytes
<1> QED BY <1>1, <1>2

\* A container with an envelope and a secret of permitted lengths is read.
LEMMA ContainerRead ==
    ASSUME NEW items, ValidEnvelopeLen(Size(items)), NEW n \in 1 .. MaxSecretBytes
    PROVE  /\ FitsContainer(Sealed(items, n)) /\ FileSize(Sealed(items, n)) <= MaxFileBytes
           /\ ValidCiphertextLen(n + TagBytes)
<1> DEFINE f == Sealed(items, n)
           s == Size(items)
<1>1. f.sealed = TRUE /\ f.items = items /\ f.ciphertextLen = n + TagBytes
  BY DEF Sealed
<1>2. /\ MaxSecretBytes \in Nat /\ TagBytes \in Nat /\ MaxEnvelopeSize \in Nat
      /\ MaxFileBytes \in Nat
      /\ MaxContainerBytes = 4 + 1 + 4 + MaxEnvelopeSize + 12 + 4 + MaxSecretBytes + TagBytes
      /\ 4 + 1 + 4 + MaxEnvelopeSize + 12 + 4 + MaxSecretBytes + TagBytes <= MaxFileBytes
  BY LimitsFit DEF MaxContainerBytes
<1>3. s \in 1 .. MaxEnvelopeSize
  BY DEF ValidEnvelopeLen
<1>4. FileSize(f) = 4 + 1 + 4 + s + 12 + 4 + (n + TagBytes)
  BY <1>1 DEF FileSize
<1> HIDE DEF f, s
<1>5. FileSize(f) <= MaxFileBytes /\ FileSize(f) <= MaxContainerBytes
  BY <1>2, <1>3, <1>4
<1>6. ValidCiphertextLen(n + TagBytes)
  BY <1>2 DEF ValidCiphertextLen
<1>7. ValidEnvelopeLen(Size(f.items))
  BY <1>1
<1>8. FitsContainer(f)
  BY <1>1, <1>5, <1>6, <1>7 DEF FitsContainer
<1> QED BY <1>5, <1>6, <1>8 DEF f

-----------------------------------------------------------------------------
(***************************************************************************)
(* The invariant.                                                          *)
(***************************************************************************)

\* An envelope that was accepted is one that a draft was encoded for, and so
\* that draft.
LEMMA HoldKeeps ==
    ASSUME FormatInv, NEW e \in Envelopes, Len(e.recipients) # 0,
           \A i \in 1 .. Len(e.recipients) : Linked(e.recipients[i]),
           stored = NoFile, Hold(Canonicalize(e))
    PROVE  FormatInv'
<1>1. Canonicalize(e) = e /\ e # Invalid
  BY Canonical
<1>2. envelope' = e /\ turnedDown' = turnedDown /\ stored' = stored /\ damages' = damages
  <2>1. turnedDown = FALSE
    BY DEF FormatInv, FormatTypeOK
  <2> QED BY <1>1, <2>1 DEF Hold
<1>3. FormatTypeOK'
  BY <1>2 DEF FormatInv, FormatTypeOK
<1>4. EnvelopeOK'
  <2>1. e.recipients # <<>> /\ DOMAIN e.recipients = 1 .. Len(e.recipients)
    <3>1. e.recipients \in Seq(Records)
      BY EnvelopesAreDrafts
    <3> QED BY <3>1
  <2>2. \A i \in DOMAIN e.recipients : Linked(e.recipients[i])
    BY <2>1
  <2> QED BY <1>2, <2>1, <2>2 DEF EnvelopeOK
<1>5. StoredOK'
  BY <1>2 DEF StoredOK
<1> QED BY <1>2, <1>3, <1>4, <1>5 DEF FormatInv

\* The envelope an application holds.
LEMMA Held ==
    ASSUME FormatInv, envelope # Invalid
    PROVE  /\ envelope \in Envelopes /\ Len(envelope.recipients) # 0
           /\ \A i \in 1 .. Len(envelope.recipients) : Linked(envelope.recipients[i])
           /\ DOMAIN envelope.recipients = 1 .. Len(envelope.recipients)
<1>1. envelope \in Envelopes
  BY DEF FormatInv, FormatTypeOK
<1>2. envelope.recipients \in Seq(Records)
  BY <1>1, EnvelopesAreDrafts
<1>3. /\ envelope.recipients # <<>>
      /\ \A i \in DOMAIN envelope.recipients : Linked(envelope.recipients[i])
  BY DEF FormatInv, EnvelopeOK
<1> QED BY <1>1, <1>2, <1>3, EmptySeq

LEMMA CreateKeeps == FormatInv /\ Create => FormatInv'
<1> SUFFICES ASSUME FormatInv, Create PROVE FormatInv'
  OBVIOUS
<1>1. PICK r \in Enrolled : stored = NoFile
                            /\ Hold(Canonicalize(Staged(NewEnvelope(r.wide), NewRecord(r))))
  BY DEF Create
<1>2. r \in Enrollment /\ r.wide \in BOOLEAN
  BY EnrolledAssumption DEF Enrollment
<1> DEFINE new == NewEnvelope(r.wide)
           e == Staged(new, NewRecord(r))
<1>3. new \in Envelopes /\ Len(new.recipients) = 0
  BY <1>2, NewEnvelopeValid
<1>4. NewRecord(r) \in Records /\ Linked(NewRecord(r))
  BY <1>2, NewRecordRead
<1> HIDE DEF new
<1>5. /\ e \in Envelopes /\ Len(e.recipients) # 0
      /\ \A i \in 1 .. Len(e.recipients) : Linked(e.recipients[i])
  <2>1. Len(new.recipients) < MaxRecipients
    BY <1>3 DEF MaxRecipients
  <2>2. \A i \in 1 .. Len(new.recipients) :
            Linked(new.recipients[i]) /\ RecipientId(new.recipients[i]) # RecipientId(NewRecord(r))
    BY <1>3
  <2> QED BY <1>3, <1>4, <2>1, <2>2, StagedValid
<1>6. Hold(Canonicalize(e))
  BY <1>1 DEF new
<1> QED BY <1>1, <1>5, <1>6, HoldKeeps

LEMMA AddRecipientKeeps == FormatInv /\ AddRecipient => FormatInv'
<1> SUFFICES ASSUME FormatInv, AddRecipient PROVE FormatInv'
  OBVIOUS
<1>1. envelope # Invalid /\ stored = NoFile /\ Len(envelope.recipients) < MaxRecipients
  BY DEF AddRecipient
<1>2. PICK r \in Enrolled :
        /\ \A i \in DOMAIN envelope.recipients : RecipientId(envelope.recipients[i]) # r.id
        /\ Hold(Canonicalize(Staged(envelope, NewRecord(r))))
  BY DEF AddRecipient
<1>3. r \in Enrollment
  BY EnrolledAssumption DEF Enrollment
<1>4. NewRecord(r) \in Records /\ Linked(NewRecord(r)) /\ RecipientId(NewRecord(r)) = r.id
  BY <1>3, NewRecordRead
<1>5. /\ envelope \in Envelopes /\ Len(envelope.recipients) # 0
      /\ \A i \in 1 .. Len(envelope.recipients) :
            Linked(envelope.recipients[i])
            /\ RecipientId(envelope.recipients[i]) # RecipientId(NewRecord(r))
  BY <1>1, <1>2, <1>4, Held
<1> DEFINE e == Staged(envelope, NewRecord(r))
<1>6. /\ e \in Envelopes /\ Len(e.recipients) # 0
      /\ \A i \in 1 .. Len(e.recipients) : Linked(e.recipients[i])
  BY <1>1, <1>4, <1>5, StagedValid
<1> QED BY <1>1, <1>2, <1>6, HoldKeeps

LEMMA StoreKeeps == FormatInv /\ Store => FormatInv'
<1> SUFFICES ASSUME FormatInv, Store PROVE FormatInv'
  OBVIOUS
<1> DEFINE items == Encode(envelope)
<1>1. envelope # Invalid /\ stored' = Bare(items)
      /\ envelope' = envelope /\ turnedDown' = turnedDown /\ damages' = damages
  BY DEF Store
<1>2. items \in Seq(Items)
  BY <1>1, Held, Canonical
<1>3. Bare(items) \in StoredFile /\ Bare(items).sealed = FALSE
  BY <1>2, FilesTyped
<1>4. FormatTypeOK'
  BY <1>1, <1>3 DEF FormatInv, FormatTypeOK
<1>5. EnvelopeOK'
  BY <1>1 DEF FormatInv, EnvelopeOK
<1>6. StoredOK'
  BY <1>1, <1>3 DEF StoredOK
<1> QED BY <1>1, <1>4, <1>5, <1>6 DEF FormatInv

LEMMA SealKeeps == FormatInv /\ Seal => FormatInv'
<1> SUFFICES ASSUME FormatInv, Seal PROVE FormatInv'
  OBVIOUS
<1>1. envelope # Invalid /\ ToolEnvelope(envelope) /\ envelope' = envelope /\ damages' = damages
  BY DEF Seal
<1> DEFINE items == Encode(envelope)
<1>2. /\ Canonicalize(envelope) = envelope /\ items \in Seq(Items)
      /\ ValidEnvelopeLen(Size(items))
  BY <1>1, Held, Canonical
<1>3. PICK n \in Secrets \cap (1 .. MaxSecretBytes) :
        IF /\ envelope # Invalid /\ ToolEnvelope(envelope)
           /\ ValidEnvelopeLen(Size(Sealed(items, n).items))
           /\ ValidCiphertextLen(Sealed(items, n).ciphertextLen)
           /\ FileSize(Sealed(items, n)) <= MaxFileBytes
        THEN stored' = Sealed(items, n) /\ UNCHANGED turnedDown
        ELSE turnedDown' = TRUE /\ UNCHANGED stored
  BY <1>2 DEF Seal
<1>4. n \in Nat /\ n \in 1 .. MaxSecretBytes
  BY SecretsAssumption
<1>5. Sealed(items, n).items = items /\ Sealed(items, n).ciphertextLen = n + TagBytes
  BY DEF Sealed
<1>6. FileSize(Sealed(items, n)) <= MaxFileBytes /\ ValidCiphertextLen(n + TagBytes)
  BY <1>2, <1>4, ContainerRead
<1>7. stored' = Sealed(items, n) /\ turnedDown' = turnedDown
  BY <1>1, <1>2, <1>3, <1>5, <1>6
<1>8. Sealed(items, n) \in StoredFile /\ Sealed(items, n).sealed = TRUE
  BY <1>2, <1>4, FilesTyped
<1>9. FormatTypeOK'
  BY <1>1, <1>7, <1>8 DEF FormatInv, FormatTypeOK
<1>10. EnvelopeOK'
  BY <1>1 DEF FormatInv, EnvelopeOK
<1>11. StoredOK'
  <2>1. stored' = Sealed(Encode(envelope'), n) /\ stored'.sealed = TRUE
    BY <1>1, <1>7, <1>8
  <2>2. envelope' # Invalid /\ ToolEnvelope(envelope')
    BY <1>1
  <2> QED BY <2>1, <2>2 DEF StoredOK
<1> QED BY <1>7, <1>9, <1>10, <1>11 DEF FormatInv

LEMMA DamageKeeps == FormatInv /\ Damage => FormatInv'
<1> SUFFICES ASSUME FormatInv, Damage PROVE FormatInv'
  OBVIOUS
<1>1. stored # NoFile /\ ~stored.sealed /\ damages < MaxDamage /\ damages' = damages + 1
      /\ envelope' = envelope /\ turnedDown' = turnedDown
  BY DEF Damage
<1>2. stored \in StoredFile /\ damages \in 0 .. MaxDamage /\ MaxDamage \in Nat
  BY <1>1, SecretsAssumption DEF FormatInv, FormatTypeOK
<1>3. stored' \in StoredFile /\ stored'.sealed = stored.sealed
  <2>1. PICK items \in Altered(stored.items) : stored' = [stored EXCEPT !.items = items]
    BY DEF Damage
  <2>2. stored.items \in Seq(Items)
    BY <1>2 DEF StoredFile
  <2>3. items \in Seq(Items)
    BY <2>2, AlteredTyped
  <2> QED BY <1>2, <2>1, <2>3 DEF StoredFile
<1>4. damages' \in 0 .. MaxDamage /\ damages' # 0
  BY <1>1, <1>2
<1>5. FormatTypeOK'
  BY <1>1, <1>3, <1>4 DEF FormatInv, FormatTypeOK
<1>6. EnvelopeOK'
  BY <1>1 DEF FormatInv, EnvelopeOK
<1>7. StoredOK'
  BY <1>1, <1>3, <1>4 DEF FormatInv, StoredOK
<1> QED BY <1>1, <1>5, <1>6, <1>7 DEF FormatInv

\* Whatever is enrolled, stored and changed, envelopes stay valid and short
\* enough, and a file goes back to what was written.
THEOREM FormatsInductive == FormatSpec => []FormatInv
<1>1. FormatInit => FormatInv
  <2> SUFFICES ASSUME FormatInit PROVE FormatInv
    OBVIOUS
  <2>1. envelope \in {Invalid, Crowded} /\ stored = NoFile
        /\ turnedDown = FALSE /\ damages = 0
    BY DEF FormatInit
  <2>2. FormatTypeOK
    <3>1. 0 \in 0 .. MaxDamage
      BY SecretsAssumption
    <3> QED BY <2>1, <3>1, CrowdedValid DEF FormatTypeOK
  <2>3. EnvelopeOK
    <3>1. Crowded.recipients \in Seq(Records)
      BY CrowdedValid, EnvelopesAreDrafts
    <3>2. /\ Crowded.recipients # <<>>
          /\ \A i \in DOMAIN Crowded.recipients : Linked(Crowded.recipients[i])
      BY <3>1, CrowdedValid, EmptySeq
    <3> QED BY <2>1, <3>2 DEF EnvelopeOK
  <2>4. StoredOK
    BY <2>1 DEF StoredOK
  <2> QED BY <2>1, <2>2, <2>3, <2>4 DEF FormatInv
<1>2. FormatInv /\ [FormatNext]_formatVars => FormatInv'
  <2> SUFFICES ASSUME FormatInv, [FormatNext]_formatVars PROVE FormatInv'
    OBVIOUS
  <2>1. CASE UNCHANGED formatVars
    BY <2>1 DEF formatVars, FormatInv, FormatTypeOK, EnvelopeOK, StoredOK
  <2> QED BY <2>1, CreateKeeps, AddRecipientKeeps, StoreKeeps, SealKeeps, DamageKeeps
          DEF FormatNext
<1> QED BY <1>1, <1>2, PTL DEF FormatSpec

-----------------------------------------------------------------------------
(***************************************************************************)
(* The properties.                                                         *)
(***************************************************************************)

LEMMA LoadedDecodes ==
    ASSUME NEW f, Load(f) # Invalid
    PROVE  Load(f) = Decode(f.items)
BY DEF Load

\* Bytes that decode are the one encoding of a valid envelope, whatever
\* happened to them (KeyEnvelope::decode, validate_recipient_set): any items,
\* any number of changes.
THEOREM AcceptedValid == FormatSpec => []AcceptedIsValid
<1>1. FormatInv => AcceptedIsValid
  <2> SUFFICES ASSUME FormatInv, stored # NoFile, Load(stored) # Invalid
               PROVE  ValidEnvelope(Load(stored)) /\ Encode(Load(stored)) = stored.items
    BY DEF AcceptedIsValid
  <2>1. stored.items \in Seq(Items)
    BY DEF FormatInv, FormatTypeOK, StoredFile
  <2>2. Load(stored) = Decode(stored.items)
    BY LoadedDecodes
  <2>3. /\ Load(stored) \in Envelopes /\ Len(Load(stored).recipients) # 0
        /\ Encode(Load(stored)) = stored.items
    BY <2>1, <2>2, DecodeTyped
  <2> QED BY <2>3, EnvelopesValid
<1> QED BY <1>1, FormatsInductive, PTL

\* What is written can be read: no enrollment and no sealing fails for its
\* encoding, up to 32 of the largest recipients and a secret of 1 MiB, and
\* what is stored comes back as it was (the limits of envelope.rs,
\* container.rs and storage.rs fit together).
THEOREM WrittenReadable == FormatSpec => []WrittenIsReadable
<1>1. FormatInv => WrittenIsReadable
  <2> SUFFICES ASSUME FormatInv PROVE WrittenIsReadable
    OBVIOUS
  <2>1. ~turnedDown
    BY DEF FormatInv
  <2>2. ASSUME stored # NoFile, damages = 0
        PROVE  Load(stored) = envelope
    <3> DEFINE items == Encode(envelope)
    <3>1. envelope # Invalid
      BY <2>2 DEF FormatInv, StoredOK
    <3>2. /\ Decode(items) = envelope /\ items \in Seq(Items) /\ ValidEnvelopeLen(Size(items))
      BY <3>1, Held, Canonical
    <3>3. stored.sealed \in BOOLEAN
      BY <2>2 DEF FormatInv, FormatTypeOK, StoredFile
    <3>4. CASE stored.sealed = FALSE
      <4>1. stored = Bare(items)
        BY <2>2, <3>4 DEF FormatInv, StoredOK
      <4>2. stored.items = items
        BY <4>1 DEF Bare
      <4> QED BY <3>2, <3>4, <4>2 DEF Load
    <3>5. CASE stored.sealed = TRUE
      <4>1. ToolEnvelope(envelope)
        BY <2>2, <3>5 DEF FormatInv, StoredOK
      <4>2. PICK n \in Secrets \cap (1 .. MaxSecretBytes) : stored = Sealed(items, n)
        BY <2>2, <3>5 DEF FormatInv, StoredOK
      <4> HIDE DEF items
      <4>3. FitsContainer(stored)
        BY <3>2, <4>2, ContainerRead
      <4>4. stored.items = items
        BY <4>2 DEF Sealed
      <4> QED BY <3>1, <3>2, <3>5, <4>1, <4>3, <4>4 DEF Load
    <3> QED BY <3>3, <3>4, <3>5
  <2> QED BY <2>1, <2>2 DEF WrittenIsReadable
<1> QED BY <1>1, FormatsInductive, PTL

-----------------------------------------------------------------------------
(***************************************************************************)
(* SecretFile: numbers and their bytes, slices of a file, and that encode  *)
(* and decode are inverse to each other.                                   *)
(***************************************************************************)

\* Lengths and their four bytes.
LEMMA Digit ==
    ASSUME NEW b \in Nat, b >= 1, NEW n \in Nat
    PROVE  /\ n \div b \in Nat /\ n % b \in 0 .. b - 1
           /\ n = (n \div b) * b + (n % b)
OBVIOUS

\* A number has one last digit and one rest.
LEMMA SameDigit ==
    ASSUME NEW b \in Nat, b >= 1, NEW p \in Nat, NEW q \in Nat,
           NEW c \in 0 .. b - 1, NEW d \in 0 .. b - 1,
           p * b + c = q * b + d
    PROVE  p = q /\ c = d
<1>1. CASE p < q
  <2>1. PICK k \in Nat : q = p + 1 + k
    <3>1. q - p - 1 \in Nat /\ q = p + 1 + (q - p - 1)
      BY <1>1
    <3> QED BY <3>1
  <2>2. q * b = p * b + b + k * b /\ k * b \in Nat /\ p * b \in Nat
    BY <2>1
  <2>3. c = b + k * b + d
    BY <2>2
  <2> QED BY <2>2, <2>3
<1>2. CASE q < p
  <2>1. PICK k \in Nat : p = q + 1 + k
    <3>1. p - q - 1 \in Nat /\ p = q + 1 + (p - q - 1)
      BY <1>2
    <3> QED BY <3>1
  <2>2. p * b = q * b + b + k * b /\ k * b \in Nat /\ q * b \in Nat
    BY <2>1
  <2>3. d = b + k * b + c
    BY <2>2
  <2> QED BY <2>2, <2>3
<1>3. CASE p = q
  <2>1. p * b \in Nat
    OBVIOUS
  <2> QED BY <1>3, <2>1
<1> QED BY <1>1, <1>2, <1>3

\* A number below k * b keeps less than k without its last digit.
LEMMA DigitsLeft ==
    ASSUME NEW b \in Nat, b >= 1, NEW k \in Nat, NEW n \in Nat, n < k * b
    PROVE  n \div b < k
<1> DEFINE q == n \div b
           r == n % b
<1>1. q \in Nat /\ r \in Nat /\ n = q * b + r
  BY Digit
<1> HIDE DEF q, r
<1>2. SUFFICES ASSUME q >= k PROVE FALSE
  BY <1>1 DEF q
<1>3. PICK j \in Nat : q = k + j
  <2>1. q - k \in Nat /\ q = k + (q - k)
    BY <1>1, <1>2
  <2> QED BY <2>1
<1>4. q * b = k * b + j * b /\ j * b \in Nat /\ k * b \in Nat
  BY <1>3
<1> QED BY <1>1, <1>4

\* from_be_bytes and to_be_bytes are inverse to each other.
LEMMA FieldOfNumber ==
    ASSUME NEW x1 \in Byte, NEW x2 \in Byte, NEW x3 \in Byte, NEW x4 \in Byte
    PROVE  LengthField(Number(<<x1, x2, x3, x4>>)) = <<x1, x2, x3, x4>>
<1> DEFINE p == x1 * Base + x2
           q == p * Base + x3
           n == q * Base + x4
<1>1. Base \in Nat /\ Base >= 1 /\ Base - 1 \in Int
  BY BytesAssumption
<1>2. /\ x1 \in 0 .. Base - 1 /\ x2 \in 0 .. Base - 1
      /\ x3 \in 0 .. Base - 1 /\ x4 \in 0 .. Base - 1
  BY DEF Byte
<1>3. x1 \in Nat /\ p \in Nat
  BY <1>1, <1>2
<1> HIDE DEF p
<1>4. q \in Nat
  BY <1>1, <1>2, <1>3
<1> HIDE DEF q
<1>5. n \in Nat
  BY <1>1, <1>2, <1>4
<1> HIDE DEF n
<1>6. ASSUME NEW m \in Nat, NEW high \in Nat, NEW low \in 0 .. Base - 1, m = high * Base + low
      PROVE  m \div Base = high /\ m % Base = low
  <2> DEFINE d == m \div Base
             r == m % Base
  <2>1. d \in Nat /\ r \in 0 .. Base - 1 /\ m = d * Base + r
    BY <1>1, Digit
  <2> HIDE DEF d, r
  <2>2. d * Base + r = high * Base + low
    BY <1>6, <2>1
  <2>3. d = high /\ r = low
    BY <1>1, <1>6, <2>1, <2>2, SameDigit
  <2> QED BY <2>3 DEF d, r
<1>7. n \div Base = q /\ n % Base = x4
  BY <1>2, <1>4, <1>5, <1>6 DEF n
<1>8. q \div Base = p /\ q % Base = x3
  BY <1>2, <1>3, <1>4, <1>6 DEF q
<1>9. p \div Base = x1 /\ p % Base = x2
  BY <1>2, <1>3, <1>6 DEF p
<1>10. Number(<<x1, x2, x3, x4>>) = n
  BY DEF Number, n, q, p
<1> QED BY <1>7, <1>8, <1>9, <1>10 DEF LengthField

LEMMA NumberOfField ==
    ASSUME NEW n \in LengthRange
    PROVE  /\ LengthField(n) \in Seq(Byte) /\ Len(LengthField(n)) = 4
           /\ Number(LengthField(n)) = n
<1> DEFINE q == n \div Base
           p == q \div Base
           x1 == p \div Base
           x2 == p % Base
           x3 == q % Base
           x4 == n % Base
           two == Base * Base
           three == two * Base
<1>1. Base \in Nat /\ Base >= 1 /\ two \in Nat /\ three \in Nat
  BY BytesAssumption
<1>2. n \in Nat /\ n < three * Base
  <2>1. three * Base \in Nat
    BY <1>1
  <2> HIDE DEF three
  <2>2. n \in 0 .. three * Base - 1
    BY DEF LengthRange, three
  <2> QED BY <2>1, <2>2
<1>3. q \in Nat /\ x4 \in 0 .. Base - 1 /\ n = q * Base + x4 /\ q < three
  BY <1>1, <1>2, Digit, DigitsLeft
<1> HIDE DEF q, x4
<1>4. p \in Nat /\ x3 \in 0 .. Base - 1 /\ q = p * Base + x3 /\ p < two
  BY <1>1, <1>3, Digit, DigitsLeft DEF three
<1> HIDE DEF p, x3, three
<1>5. x1 \in Nat /\ x2 \in 0 .. Base - 1 /\ p = x1 * Base + x2 /\ x1 < Base
  BY <1>1, <1>4, Digit, DigitsLeft DEF two
<1> HIDE DEF x1, x2, two
<1>6. LengthField(n) = <<x1, x2, x3, x4>>
  BY DEF LengthField, q, p, x1, x2, x3, x4
<1>7. x1 \in Byte /\ x2 \in Byte /\ x3 \in Byte /\ x4 \in Byte
  BY <1>1, <1>3, <1>4, <1>5 DEF Byte
<1>8. Number(<<x1, x2, x3, x4>>) = n
  BY <1>3, <1>4, <1>5 DEF Number
<1> QED BY <1>6, <1>7, <1>8

LEMMA FieldRead ==
    ASSUME NEW s \in Seq(Byte), Len(s) = 4
    PROVE  LengthField(Number(s)) = s
<1>1. 1 \in 1 .. Len(s) /\ 2 \in 1 .. Len(s) /\ 3 \in 1 .. Len(s) /\ 4 \in 1 .. Len(s)
  OBVIOUS
<1>2. s[1] \in Byte /\ s[2] \in Byte /\ s[3] \in Byte /\ s[4] \in Byte
  BY <1>1, ElementOfSeq
<1>3. s = <<s[1], s[2], s[3], s[4]>>
  OBVIOUS
<1> QED BY SMTT(40), <1>2, <1>3, FieldOfNumber

\* What the cursor takes.
LEMMA SliceTyped ==
    ASSUME NEW f \in Seq(Byte), NEW at \in Nat, NEW n \in Nat, at + n <= Len(f)
    PROVE  /\ Slice(f, at, n) \in Seq(Byte) /\ Len(Slice(f, at, n)) = n
           /\ \A i \in 1 .. n : Slice(f, at, n)[i] = f[at + i]
<1> DEFINE a == at + 1
           z == at + n
<1>1. a \in Int /\ z \in Int /\ z - a + 1 = n /\ Len(f) \in Nat
      /\ (\A i \in a .. z : i \in 1 .. Len(f)) /\ (\A i : a + i - 1 = at + i \/ i \notin 1 .. n)
  OBVIOUS
<1>2. \A i \in a .. z : f[i] \in Byte
  BY <1>1, ElementOfSeq
<1>3. (a <= z) <=> (n # 0)
  OBVIOUS
<1> HIDE DEF a, z
<1>4. /\ SubSeq(f, a, z) \in Seq(Byte)
      /\ Len(SubSeq(f, a, z)) = IF a <= z THEN z - a + 1 ELSE 0
      /\ \A i \in 1 .. z - a + 1 : SubSeq(f, a, z)[i] = f[a + i - 1]
  BY <1>1, <1>2, SubSeqProperties
<1>5. Len(SubSeq(f, a, z)) = n
  BY <1>1, <1>3, <1>4
<1>6. \A i \in 1 .. n : SubSeq(f, a, z)[i] = f[at + i]
  BY <1>1, <1>4
<1> QED BY <1>4, <1>5, <1>6 DEF Slice, a, z

\* Slices that meet join.
LEMMA SlicesJoin ==
    ASSUME NEW f \in Seq(Byte), NEW m \in Nat, NEW n \in Nat, m + n <= Len(f)
    PROVE  Slice(f, 0, m) \o Slice(f, m, n) = Slice(f, 0, m + n)
<1> DEFINE s == Slice(f, 0, m)
           t == Slice(f, m, n)
           u == Slice(f, 0, m + n)
<1>1. Len(f) \in Nat /\ 0 + m <= Len(f) /\ 0 + (m + n) <= Len(f) /\ m + n \in Nat /\ 0 \in Nat
  OBVIOUS
<1>2. s \in Seq(Byte) /\ Len(s) = m /\ \A i \in 1 .. m : s[i] = f[i]
  BY <1>1, SliceTyped
<1>3. t \in Seq(Byte) /\ Len(t) = n /\ \A i \in 1 .. n : t[i] = f[m + i]
  BY <1>1, SliceTyped
<1>4. u \in Seq(Byte) /\ Len(u) = m + n /\ \A i \in 1 .. m + n : u[i] = f[i]
  BY <1>1, SliceTyped
<1> HIDE DEF s, t, u
<1>5. /\ s \o t \in Seq(Byte) /\ Len(s \o t) = m + n
      /\ \A i \in 1 .. m + n : (s \o t)[i] = IF i <= m THEN s[i] ELSE t[i - m]
  BY ZenonT(60), <1>2, <1>3, ConcatProperties
<1>6. \A i \in 1 .. m + n : (s \o t)[i] = u[i]
  <2> TAKE i \in 1 .. m + n
  <2>1. CASE i <= m
    BY <1>2, <1>4, <1>5, <2>1
  <2>2. CASE ~(i <= m)
    <3>1. i - m \in 1 .. n /\ m + (i - m) = i
      BY <2>2
    <3>2. t[i - m] = f[i]
      BY <1>3, <3>1
    <3> QED BY <1>4, <1>5, <2>2, <3>2
  <2> QED BY <2>1, <2>2
<1>7. s \o t = u
  BY <1>4, <1>5, <1>6, SeqEqual
<1> QED BY <1>7 DEF s, t, u

\* The field between what comes before and after it.
LEMMA SliceOfConcat ==
    ASSUME NEW a \in Seq(Byte), NEW b \in Seq(Byte), NEW c \in Seq(Byte)
    PROVE  /\ a \o b \o c \in Seq(Byte)
           /\ Len(a \o b \o c) = Len(a) + Len(b) + Len(c)
           /\ Slice(a \o b \o c, Len(a), Len(b)) = b
<1> DEFINE ab == a \o b
           f == ab \o c
           l == Len(a)
           m == Len(b)
           n == Len(c)
<1>1. l \in Nat /\ m \in Nat /\ n \in Nat
  OBVIOUS
<1>2. /\ ab \in Seq(Byte) /\ Len(ab) = l + m
      /\ \A i \in 1 .. l + m : ab[i] = IF i <= l THEN a[i] ELSE b[i - l]
  BY ConcatProperties
<1> HIDE DEF ab
<1>3. /\ f \in Seq(Byte) /\ Len(f) = l + m + n
      /\ \A i \in 1 .. l + m + n : f[i] = IF i <= l + m THEN ab[i] ELSE c[i - (l + m)]
  <2>1. /\ ab \o c \in Seq(Byte) /\ Len(ab \o c) = Len(ab) + Len(c)
        /\ \A i \in 1 .. Len(ab) + Len(c) :
                (ab \o c)[i] = IF i <= Len(ab) THEN ab[i] ELSE c[i - Len(ab)]
    <3>1. ab \in Seq(Byte)
      BY <1>2
    <3> QED BY <3>1, ConcatProperties
  <2>2. Len(ab) + Len(c) = l + m + n /\ Len(ab) = l + m
    BY <1>2
  <2> QED BY <2>1, <2>2
<1> HIDE DEF f
<1> HIDE DEF l, m, n
<1>4. /\ Slice(f, l, m) \in Seq(Byte) /\ Len(Slice(f, l, m)) = m
      /\ \A i \in 1 .. m : Slice(f, l, m)[i] = f[l + i]
  BY <1>1, <1>3, SliceTyped
<1>5. \A i \in 1 .. m : f[l + i] = b[i]
  <2> TAKE i \in 1 .. m
  <2>1. l + i \in 1 .. l + m /\ l + i \in 1 .. l + m + n /\ ~(l + i <= l) /\ l + i <= l + m
        /\ (l + i) - l = i
    BY <1>1
  <2>2. f[l + i] = ab[l + i] /\ ab[l + i] = b[i]
    BY <1>2, <1>3, <2>1
  <2> QED BY <2>2
<1>6. Slice(f, l, m) = b
  <2>1. Len(b) = m
    BY DEF m
  <2> QED BY <1>4, <1>5, <2>1, SeqEqual
<1> QED BY <1>3, <1>6 DEF f, ab, l, m, n

\* Decoding is exact: a file decode accepts is the encoding of the fields it
\* was taken for, whatever its lengths say.
LEMMA DecodesOnlyEncoded ==
    ASSUME NEW f \in Seq(Byte), Decodes(f)
    PROVE  f = Container(Taken(f))
<1> DEFINE h == Len(Header)
           e == LengthAt(f, Len(Header))
           nonceAt == NonceAt(f)
           m == LengthAt(f, NonceAt(f) + NonceLen)
           cipherAt == CiphertextAt(f)
<1>1. h \in Nat /\ NonceLen \in Nat /\ TagLen \in Nat /\ Len(f) \in Nat
  BY BytesAssumption
<1>2. /\ EnvelopeAt = h + 4 /\ nonceAt = EnvelopeAt + e /\ cipherAt = nonceAt + NonceLen + 4
      /\ EndAt(f) = cipherAt + m
  BY DEF EnvelopeAt, NonceAt, CiphertextAt, EndAt
<1>3. /\ e \in 1 .. EnvelopeLimit /\ m \in TagLen + 1 .. SecretLimit + TagLen
      /\ Slice(f, 0, h) = Header /\ cipherAt + m = Len(f)
  BY <1>2 DEF Decodes, TakesFields, EnvelopeLenOK, CiphertextLenOK
<1>4. e \in Nat /\ m \in Nat
  BY <1>1, <1>3, LimitsAssumption
<1> DEFINE s1 == Slice(f, h, 4)
           s2 == Slice(f, EnvelopeAt, e)
           s3 == Slice(f, nonceAt, NonceLen)
           s4 == Slice(f, nonceAt + NonceLen, 4)
           s5 == Slice(f, cipherAt, m)
<1>5. e = Number(s1) /\ m = Number(s4)
  BY DEF LengthAt
<1>6. /\ Taken(f).envelope = s2 /\ Taken(f).nonce = s3 /\ Taken(f).ciphertext = s5
  BY DEF Taken
<1> HIDE DEF h, e, m, nonceAt, cipherAt
<1>7. h + 4 <= Len(f) /\ EnvelopeAt + e <= Len(f) /\ nonceAt + NonceLen <= Len(f)
      /\ (nonceAt + NonceLen) + 4 <= Len(f) /\ cipherAt + m <= Len(f)
      /\ EnvelopeAt \in Nat /\ nonceAt \in Nat /\ nonceAt + NonceLen \in Nat /\ cipherAt \in Nat
  BY <1>1, <1>2, <1>3, <1>4
<1>8. s1 \in Seq(Byte) /\ Len(s1) = 4 /\ s4 \in Seq(Byte) /\ Len(s4) = 4
  <2> DEFINE at == nonceAt + NonceLen
             four == 4
  <2>1. at \in Nat /\ at + four <= Len(f) /\ h + four <= Len(f) /\ four \in Nat
    BY <1>7
  <2> HIDE DEF at, four
  <2>2. Slice(f, at, four) \in Seq(Byte) /\ Len(Slice(f, at, four)) = four
    BY <2>1, SliceTyped
  <2>3. Slice(f, h, four) \in Seq(Byte) /\ Len(Slice(f, h, four)) = four
    BY <1>1, <2>1, SliceTyped
  <2> QED BY <2>2, <2>3 DEF at, four
<1>9. Len(s2) = e /\ Len(s5) = m
  BY <1>4, <1>7, SliceTyped
<1> HIDE DEF s1, s4
<1>10. LengthField(Len(s2)) = s1 /\ LengthField(Len(s5)) = s4
  BY <1>5, <1>8, <1>9, FieldRead
<1> HIDE DEF s2, s3, s5
<1>11. Header \o s1 = Slice(f, 0, EnvelopeAt)
  <2>1. Slice(f, 0, h) \o Slice(f, h, 4) = Slice(f, 0, h + 4)
    BY SMTT(40), <1>1, <1>7, SlicesJoin
  <2> QED BY <1>2, <1>3, <2>1 DEF s1
<1>12. Header \o s1 \o s2 = Slice(f, 0, nonceAt)
  <2>1. Slice(f, 0, EnvelopeAt) \o Slice(f, EnvelopeAt, e) = Slice(f, 0, EnvelopeAt + e)
    BY <1>4, <1>7, SlicesJoin
  <2> QED BY <1>2, <1>11, <2>1 DEF s2
<1>13. Header \o s1 \o s2 \o s3 = Slice(f, 0, nonceAt + NonceLen)
  <2>1. Slice(f, 0, nonceAt) \o Slice(f, nonceAt, NonceLen) = Slice(f, 0, nonceAt + NonceLen)
    BY <1>1, <1>7, SlicesJoin
  <2> QED BY <1>12, <2>1 DEF s3
<1>14. Header \o s1 \o s2 \o s3 \o s4 = Slice(f, 0, cipherAt)
  <2> DEFINE at == nonceAt + NonceLen
  <2>1. at \in Nat /\ at + 4 <= Len(f) /\ cipherAt = at + 4
    BY <1>2, <1>7
  <2>2. s4 = Slice(f, at, 4) /\ Header \o s1 \o s2 \o s3 = Slice(f, 0, at)
    BY <1>13 DEF s4
  <2> HIDE DEF at
  <2>3. Slice(f, 0, at) \o Slice(f, at, 4) = Slice(f, 0, at + 4)
    BY <2>1, SlicesJoin
  <2> QED BY <2>1, <2>2, <2>3
<1>15. Header \o s1 \o s2 \o s3 \o s4 \o s5 = Slice(f, 0, Len(f))
  <2>1. Slice(f, 0, cipherAt) \o Slice(f, cipherAt, m) = Slice(f, 0, cipherAt + m)
    BY <1>4, <1>7, SlicesJoin
  <2> QED BY <1>3, <1>14, <2>1 DEF s5
<1>16. Slice(f, 0, Len(f)) = f
  <2>1. 0 + 1 = 1 /\ 0 + Len(f) = Len(f)
    BY <1>1
  <2>2. SubSeq(f, 1, Len(f)) = f
    BY SubSeqFull
  <2> QED BY <2>1, <2>2 DEF Slice
<1> QED BY <1>6, <1>10, <1>15, <1>16 DEF Container

LEMMA Regroup ==
    ASSUME NEW x \in Seq(Byte), NEW y \in Seq(Byte), NEW z \in Seq(Byte)
    PROVE  (x \o y) \o z = x \o (y \o z)
BY ConcatAssociative

\* And what was encoded is decoded to its fields.
LEMMA EncodedDecodes ==
    ASSUME NEW s, WellSealed(s)
    PROVE  /\ Container(s) \in Seq(Byte) /\ Decodes(Container(s))
           /\ Taken(Container(s)) = [envelope |-> s.envelope, nonce |-> s.nonce,
                                     ciphertext |-> s.ciphertext]
<1> DEFINE f == Container(s)
           E == s.envelope
           N == s.nonce
           C == s.ciphertext
           h == Len(Header)
           e == Len(E)
           m == Len(C)
           L1 == LengthField(e)
           L2 == LengthField(m)
<1>1. /\ E \in Seq(Byte) /\ N \in Seq(Byte) /\ C \in Seq(Byte) /\ Header \in Seq(Byte)
      /\ e \in 1 .. EnvelopeLimit /\ m \in TagLen + 1 .. SecretLimit + TagLen
      /\ Len(N) = NonceLen
  BY BytesAssumption DEF WellSealed, EnvelopeLenOK, CiphertextLenOK
<1>2. h \in Nat /\ e \in Nat /\ m \in Nat /\ NonceLen \in Nat /\ TagLen \in Nat
  BY <1>1, BytesAssumption
<1>3. e \in LengthRange /\ m \in LengthRange
  <2> DEFINE top == Base * Base * Base * Base
  <2>1. top \in Int
    BY BytesAssumption
  <2>2. EnvelopeLimit \in 0 .. top - 1 /\ SecretLimit + TagLen \in 0 .. top - 1
    BY LimitsAssumption DEF LengthRange
  <2> HIDE DEF top, e, m
  <2>3. e \in 0 .. top - 1 /\ m \in 0 .. top - 1
    BY <1>1, <1>2, <2>1, <2>2
  <2> QED BY <2>3 DEF LengthRange, top
<1>4. /\ L1 \in Seq(Byte) /\ Len(L1) = 4 /\ Number(L1) = e
      /\ L2 \in Seq(Byte) /\ Len(L2) = 4 /\ Number(L2) = m
  BY <1>3, NumberOfField
<1>5. f = Header \o L1 \o E \o N \o L2 \o C
  BY DEF Container
<1> HIDE DEF f, E, N, C, h, e, m, L1, L2
\* The fronts and the rests of the file, where the cursor stops.
<1> DEFINE a1 == Header \o L1
           a2 == a1 \o E
           a3 == a2 \o N
           a4 == a3 \o L2
           r4 == L2 \o C
           r3 == N \o r4
           r2 == E \o r3
           r1 == L1 \o r2
<1>6. f = a4 \o C
  BY <1>5
<1> HIDE DEF a1, a2, a3, a4, r1, r2, r3, r4
<1>7. ASSUME NEW x \in Seq(Byte), NEW y \in Seq(Byte)
      PROVE  x \o y \in Seq(Byte) /\ Len(x \o y) = Len(x) + Len(y)
  BY ConcatProperties
<1>8. /\ r4 \in Seq(Byte) /\ r3 \in Seq(Byte) /\ r2 \in Seq(Byte) /\ r1 \in Seq(Byte)
      /\ a1 \in Seq(Byte) /\ a2 \in Seq(Byte) /\ a3 \in Seq(Byte) /\ a4 \in Seq(Byte)
  <2>1. r4 \in Seq(Byte) /\ a1 \in Seq(Byte)
    BY <1>1, <1>4, <1>7 DEF r4, a1
  <2>2. r3 \in Seq(Byte) /\ a2 \in Seq(Byte)
    BY <1>1, <1>7, <2>1 DEF r3, a2
  <2>3. r2 \in Seq(Byte) /\ a3 \in Seq(Byte)
    BY <1>1, <1>7, <2>2 DEF r2, a3
  <2>4. r1 \in Seq(Byte) /\ a4 \in Seq(Byte)
    BY <1>4, <1>7, <2>3 DEF r1, a4
  <2> QED BY <2>1, <2>2, <2>3, <2>4
<1>9. Len(a1) = h + 4 /\ Len(a2) = Len(a1) + e /\ Len(a3) = Len(a2) + NonceLen
      /\ Len(a4) = Len(a3) + 4 /\ Len(f) = Len(a4) + m
  <2>1. Len(a1) = h + 4
    BY <1>1, <1>4, <1>7 DEF a1, h
  <2>2. Len(a2) = Len(a1) + e
    BY <1>1, <1>7, <1>8 DEF a2, e
  <2>3. Len(a3) = Len(a2) + NonceLen
    BY <1>1, <1>7, <1>8 DEF a3
  <2>4. Len(a4) = Len(a3) + 4
    <3>1. Len(a3 \o L2) = Len(a3) + Len(L2)
      BY <1>4, <1>7, <1>8
    <3> QED BY <1>4, <3>1 DEF a4
  <2>5. Len(f) = Len(a4) + m
    BY <1>1, <1>6, <1>7, <1>8 DEF m
  <2> QED BY <2>1, <2>2, <2>3, <2>4, <2>5
<1>10. /\ Len(a2) = h + 4 + e /\ Len(a3) = h + 4 + e + NonceLen
       /\ Len(a4) = h + 4 + e + NonceLen + 4
  BY <1>9
<1>11. f = a3 \o r4
  <2>1. (a3 \o L2) \o C = a3 \o (L2 \o C)
    <3>1. a3 \in Seq(Byte) /\ L2 \in Seq(Byte) /\ C \in Seq(Byte)
      BY <1>1, <1>4, <1>8
    <3> QED BY <3>1, Regroup
  <2> QED BY <1>6, <2>1 DEF a4, r4
<1>12. f = a2 \o r3
  <2>1. (a2 \o N) \o r4 = a2 \o (N \o r4)
    <3>1. a2 \in Seq(Byte) /\ N \in Seq(Byte) /\ r4 \in Seq(Byte)
      BY <1>1, <1>4, <1>8
    <3> QED BY <3>1, Regroup
  <2> QED BY <1>11, <2>1 DEF a3, r3
<1>13. f = a1 \o r2
  <2>1. (a1 \o E) \o r3 = a1 \o (E \o r3)
    <3>1. a1 \in Seq(Byte) /\ E \in Seq(Byte) /\ r3 \in Seq(Byte)
      BY <1>1, <1>4, <1>8
    <3> QED BY <3>1, Regroup
  <2> QED BY <1>12, <2>1 DEF a2, r2
<1>14. f = Header \o r1
  <2>1. (Header \o L1) \o r2 = Header \o (L1 \o r2)
    <3>1. Header \in Seq(Byte) /\ L1 \in Seq(Byte) /\ r2 \in Seq(Byte)
      BY <1>1, <1>4, <1>8
    <3> QED BY <3>1, Regroup
  <2> QED BY <1>13, <2>1 DEF a1, r1
<1>15. f \in Seq(Byte) /\ Len(f) = h + 4 + e + NonceLen + 4 + m
  <2>1. f \in Seq(Byte)
    BY <1>1, <1>6, <1>7, <1>8
  <2> QED BY <1>9, <1>10, <2>1
<1>16. Slice(f, 0, h) = Header
  <2>1. <<>> \in Seq(Byte) /\ Len(<<>>) = 0
    BY EmptySeq
  <2>2. <<>> \o Header = Header
    BY <1>1, ConcatEmptySeq
  <2>3. Slice(<<>> \o Header \o r1, Len(<<>>), Len(Header)) = Header
    BY <1>1, <1>8, <2>1, SliceOfConcat
  <2> QED BY <1>14, <2>1, <2>2, <2>3 DEF h
<1>17. Slice(f, h, 4) = L1
  <2>1. Slice(Header \o L1 \o r2, Len(Header), Len(L1)) = L1
    BY <1>1, <1>4, <1>8, SliceOfConcat
  <2> QED BY <1>4, <1>13, <2>1 DEF h, a1
<1>18. Slice(f, h + 4, e) = E
  <2>1. Slice(a1 \o E \o r3, Len(a1), Len(E)) = E
    BY <1>1, <1>8, SliceOfConcat
  <2> QED BY <1>9, <1>12, <2>1 DEF e, a2
<1>19. Slice(f, h + 4 + e, NonceLen) = N
  <2>1. Slice(a2 \o N \o r4, Len(a2), Len(N)) = N
    BY <1>1, <1>8, SliceOfConcat
  <2> QED BY <1>1, <1>10, <1>11, <2>1 DEF a3
<1>20. Slice(f, h + 4 + e + NonceLen, 4) = L2
  <2>1. Slice(a3 \o L2 \o C, Len(a3), Len(L2)) = L2
    BY <1>1, <1>4, <1>8, SliceOfConcat
  <2> QED BY <1>4, <1>6, <1>10, <2>1 DEF a4
<1>21. Slice(f, h + 4 + e + NonceLen + 4, m) = C
  <2>1. <<>> \in Seq(Byte) /\ f \o <<>> = f
    BY <1>15, EmptySeq, ConcatEmptySeq
  <2>2. Slice(a4 \o C \o <<>>, Len(a4), Len(C)) = C
    BY <1>1, <1>8, <2>1, SliceOfConcat
  <2> QED BY <1>6, <1>10, <2>1, <2>2 DEF m
<1>22. LengthAt(f, h) = e /\ LengthAt(f, h + 4 + e + NonceLen) = m
  BY <1>4, <1>17, <1>20 DEF LengthAt
<1>23. /\ EnvelopeAt = h + 4 /\ NonceAt(f) = h + 4 + e
       /\ CiphertextAt(f) = h + 4 + e + NonceLen + 4 /\ EndAt(f) = Len(f)
  BY <1>15, <1>22 DEF EnvelopeAt, NonceAt, CiphertextAt, EndAt, h
<1>24. Decodes(f)
  <2>1. Len(f) <= ContainerLimit
    BY <1>1, <1>2, <1>15, LimitsAssumption DEF ContainerLimit, h, LengthRange
  <2>2. EnvelopeAt <= Len(f) /\ CiphertextAt(f) <= Len(f) /\ EndAt(f) <= Len(f)
    BY <1>2, <1>15, <1>23
  <2>3. EnvelopeLenOK(e) /\ CiphertextLenOK(m)
    BY <1>1 DEF EnvelopeLenOK, CiphertextLenOK
  <2>4. LengthAt(f, Len(Header)) = e /\ LengthAt(f, NonceAt(f) + NonceLen) = m
        /\ Slice(f, 0, Len(Header)) = Header
    BY <1>16, <1>22, <1>23 DEF h
  <2> QED BY <1>23, <2>1, <2>2, <2>3, <2>4 DEF Decodes, TakesFields
<1>25. Taken(f) = [envelope |-> E, nonce |-> N, ciphertext |-> C]
  <2>1. LengthAt(f, Len(Header)) = e /\ LengthAt(f, NonceAt(f) + NonceLen) = m
    BY <1>22, <1>23 DEF h
  <2> QED BY <1>18, <1>19, <1>21, <1>23, <2>1 DEF Taken
<1> QED BY <1>15, <1>24, <1>25 DEF f, E, N, C

\* A seal adds an envelope that no other seal has.
LEMMA SealKeepsFile == SecretInv /\ SealSecret => SecretInv'
<1> SUFFICES ASSUME SecretInv, SealSecret PROVE SecretInv'
  OBVIOUS
<1>1. PICK e \in KeyEnvelopes, nonce \in [1 .. NonceLen -> Byte],
           p \in Plaintexts, c \in Ciphertexts :
        /\ Len(p) \in 1 .. SecretLimit /\ Len(c) = Len(p) + TagLen
        /\ EnvelopeLenOK(Len(e)) /\ \A s \in seals : s.envelope # e
        /\ LET s == [envelope |-> e, nonce |-> nonce, ciphertext |-> c, secret |-> p]
           IN  container' = Container(s) /\ seals' = seals \cup {s}
  BY DEF SealSecret
<1> DEFINE new == [envelope |-> e, nonce |-> nonce, ciphertext |-> c, secret |-> p]
<1>2. /\ new.envelope = e /\ new.nonce = nonce /\ new.ciphertext = c
      /\ container' = Container(new) /\ seals' = seals \cup {new} /\ overwrites' = overwrites
  BY <1>1 DEF SealSecret
<1> HIDE DEF new
<1>3. nonce \in Seq(Byte) /\ Len(nonce) = NonceLen
  BY BytesAssumption
<1>4. e \in Seq(Byte) /\ c \in Seq(Byte) /\ TagLen \in Nat /\ SecretLimit \in Nat
  BY BytesAssumption, LimitsAssumption
<1>5. CiphertextLenOK(Len(c))
  BY <1>1, <1>4 DEF CiphertextLenOK
<1>6. WellSealed(new)
  BY <1>1, <1>2, <1>3, <1>4, <1>5 DEF WellSealed
<1>7. container' \in Seq(Byte)
  BY <1>2, <1>6, EncodedDecodes
<1>8. SecretTypeOK'
  BY <1>2, <1>6, <1>7 DEF SecretInv, SecretTypeOK
<1>9. \A s, t \in seals' : s.envelope = t.envelope => s = t
  BY <1>1, <1>2 DEF SecretInv
<1> QED BY <1>8, <1>9 DEF SecretInv

\* Whatever is sealed, moved away and overwritten, what was sealed keeps the
\* limits of decode and an envelope has one seal.
THEOREM SealsInductive == SecretSpec => []SecretInv
<1>1. SecretInit => SecretInv
  BY LimitsAssumption DEF SecretInit, SecretInv, SecretTypeOK
<1>2. SecretInv /\ [SecretNext]_secretVars => SecretInv'
  <2> SUFFICES ASSUME SecretInv, [SecretNext]_secretVars PROVE SecretInv'
    OBVIOUS
  <2>1. CASE MoveAway
    BY <2>1 DEF MoveAway, SecretInv, SecretTypeOK
  <2>2. CASE Overwrite
    <3>1. PICK n \in 0 .. FileLimit : container' \in [1 .. n -> Byte]
      BY <2>2 DEF Overwrite
    <3>2. n \in Nat
      BY LimitsAssumption
    <3>3. container' \in Seq(Byte)
      BY <3>1, <3>2
    <3>4. overwrites' \in 0 .. MaxOverwrites
      BY <2>2, LimitsAssumption DEF Overwrite, SecretInv, SecretTypeOK
    <3> QED BY <2>2, <3>3, <3>4 DEF Overwrite, SecretInv, SecretTypeOK
  <2>3. CASE UNCHANGED secretVars
    BY <2>3 DEF secretVars, SecretInv, SecretTypeOK
  <2> QED BY <2>1, <2>2, <2>3, SealKeepsFile DEF SecretNext
<1> QED BY <1>1, <1>2, PTL DEF SecretSpec

\* A file unseals to a secret exactly if it is, byte for byte, what seal wrote
\* for that secret (SecretFile::encode, SecretFile::decode, decrypt): the parts
\* that decode takes make up the whole file, and the envelope says which nonce
\* and ciphertext belong to it.
THEOREM DamageSeen == SecretSpec => []DamageIsSeen
<1>1. SecretInv => DamageIsSeen
  <2> SUFFICES ASSUME SecretInv PROVE DamageIsSeen
    OBVIOUS
  <2> DEFINE opened == {s \in seals : Opens(s, Taken(container))}
  <2>1. ASSUME NEW s \in seals, container = Container(s)
        PROVE  UnsealSecret(container) = s.secret
    <3>1. WellSealed(s)
      BY DEF SecretInv, SecretTypeOK
    <3>2. /\ container \in Seq(Byte) /\ Decodes(container)
          /\ Taken(container) = [envelope |-> s.envelope, nonce |-> s.nonce,
                                 ciphertext |-> s.ciphertext]
      BY <2>1, <3>1, EncodedDecodes
    <3>3. /\ Taken(container).envelope = s.envelope /\ Taken(container).nonce = s.nonce
          /\ Taken(container).ciphertext = s.ciphertext
      BY <3>2
    <3>4. opened = {s}
      BY <3>3 DEF SecretInv, Opens
    <3>5. container # NoContainer
      BY <3>2, NoContainerAssumption
    <3> HIDE DEF opened
    <3>6. opened # {} /\ (CHOOSE t \in opened : TRUE) = s
      BY <3>4
    <3> QED BY <3>2, <3>5, <3>6 DEF UnsealSecret, opened
  <2>2. ASSUME UnsealSecret(container) # Refused
        PROVE  \E s \in seals : container = Container(s)
    <3>1. container # NoContainer /\ Decodes(container) /\ opened # {}
      BY <2>2 DEF UnsealSecret
    <3>2. PICK s \in seals : Opens(s, Taken(container))
      BY <3>1
    <3>3. container \in Seq(Byte)
      BY <3>1 DEF SecretInv, SecretTypeOK
    <3>4. container = Container(Taken(container))
      BY <3>1, <3>3, DecodesOnlyEncoded
    <3>5. Container(Taken(container)) = Container(s)
      BY <3>2 DEF Opens, Container
    <3> QED BY <3>4, <3>5
  <2> QED BY <2>1, <2>2 DEF DamageIsSeen
<1> QED BY <1>1, SealsInductive, PTL
================================================================================
