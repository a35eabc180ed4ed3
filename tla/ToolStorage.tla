------------------------------ MODULE ToolStorage ------------------------------
(***************************************************************************)
(* How fkw-tool saves a sealed secret (fkw-tool/src/storage.rs and the     *)
(* seal, unseal and inspect of app.rs): the container is written to a      *)
(* temporary file, synced, and published at its destination by a hard      *)
(* link, which fails when the destination exists; the temporary name goes  *)
(* and the directory is synced.                                            *)
(*                                                                         *)
(* Every system call is one step.  Tools run concurrently and may be       *)
(* killed; the machine may lose power, and then each directory entry is    *)
(* what was last written back, or newer, and a file that was not synced    *)
(* may be incomplete.                                                      *)
(***************************************************************************)
EXTENDS Naturals, FiniteSets

CONSTANTS
    Proc,       \* fkw-tool processes
    Path,       \* destination paths, all in one directory
    Temp,       \* the random names .fkw-*.tmp of that directory
    File,       \* files (inodes), never used twice
    None        \* no file, or no name

ASSUME NoneAssumption == None \notin File \cup Path \cup Temp
ASSUME NamesAssumption == Path \cap Temp = {}

VARIABLES
    names,      \* names[n]: the file the directory entry n leads to
    disk,       \* disk[n]: the entry as it was last written back
    data,       \* data[f]: how much of its container file f holds
    synced,     \* files whose content is on disk
    pc,         \* pc[p]: the next call of p, "idle" between two commands
    path,       \* path[p]: the destination, or the file to read
    temp,       \* temp[p]: the temporary name p created
    file,       \* file[p]: the file p writes or reads
    result,     \* result[p]: what the last command reported
    \* history variables, read by no guard of the code
    used,       \* files created so far
    saved,      \* [path, file] of every seal that returned success
    unsynced,   \* [path, file] of every seal that said only the sync failed
    stray,      \* files with a temporary name no running seal will remove
    removed,    \* files a user removed from their destination
    lost        \* files at a destination entry no sync covered at a power loss

dirVars == <<names, disk, data, synced>>
callVars == <<pc, path, temp, file, result>>
history == <<used, saved, unsynced, stray, removed, lost>>
vars == <<dirVars, callVars, history>>

Name == Path \cup Temp
Step == {"idle", "check", "prepare", "create", "write", "sync", "link",
         "discard", "unlink", "syncdir", "open", "read"}
Content == {"partial", "whole"}
Outcome == {"none", "saved", "unsynced", "error", "whole", "invalid"}
Save == [path : Path, file : File]

TypeOK ==
    /\ names \in [Name -> File \cup {None}]
    /\ disk \in [Name -> File \cup {None}]
    /\ data \in [File -> Content]
    /\ synced \subseteq File
    /\ pc \in [Proc -> Step]
    /\ path \in [Proc -> Path \cup {None}]
    /\ temp \in [Proc -> Temp \cup {None}]
    /\ file \in [Proc -> File \cup {None}]
    /\ result \in [Proc -> Outcome]
    /\ used \subseteq File
    /\ saved \subseteq Save
    /\ unsynced \subseteq Save
    /\ stray \subseteq File
    /\ removed \subseteq File
    /\ lost \subseteq File

Init ==
    /\ names = [n \in Name |-> None]
    /\ disk = [n \in Name |-> None]
    /\ data = [f \in File |-> "partial"]
    /\ synced = {}
    /\ pc = [p \in Proc |-> "idle"]
    /\ path = [p \in Proc |-> None]
    /\ temp = [p \in Proc |-> None]
    /\ file = [p \in Proc |-> None]
    /\ result = [p \in Proc |-> "none"]
    /\ used = {} /\ saved = {} /\ unsynced = {}
    /\ stray = {} /\ removed = {} /\ lost = {}

-----------------------------------------------------------------------------
(***************************************************************************)
(* Commands and how they move on.                                          *)
(***************************************************************************)

Goto(p, step) ==
    /\ pc' = [pc EXCEPT ![p] = step]
    /\ UNCHANGED <<result, saved, unsynced>>

Report(p, r) ==
    /\ pc' = [pc EXCEPT ![p] = "idle"]
    /\ result' = [result EXCEPT ![p] = r]
    /\ saved' = saved \cup {s \in {[path |-> path[p], file |-> file[p]]} : r = "saved"}
    /\ unsynced' = unsynced \cup
            {s \in {[path |-> path[p], file |-> file[p]]} : r = "unsynced"}

\* Removing p's temporary name, which may fail and is not reported.
RemoveTemporary(p) ==
    \/ /\ names' = [names EXCEPT ![temp[p]] = None]
       /\ UNCHANGED stray
    \/ /\ stray' = stray \cup {file[p]}
       /\ UNCHANGED names

\* seal, or unseal and inspect, is started.
Begin(p) ==
    /\ pc[p] = "idle"
    /\ \E d \in Path, step \in {"check", "open"} :
        /\ pc' = [pc EXCEPT ![p] = step]
        /\ path' = [path EXCEPT ![p] = d]
    /\ temp' = [temp EXCEPT ![p] = None]
    /\ file' = [file EXCEPT ![p] = None]
    /\ result' = [result EXCEPT ![p] = "none"]
    /\ UNCHANGED <<dirVars, history>>

-----------------------------------------------------------------------------
(***************************************************************************)
(* The calls of a seal.                                                    *)
(***************************************************************************)

\* ensure_absent.
EnsureAbsent(p) ==
    /\ pc[p] = "check"
    /\ \/ names[path[p]] = None /\ Goto(p, "prepare")
       \/ Report(p, "error")
    /\ UNCHANGED <<dirVars, path, temp, file, used, stray, removed, lost>>

\* create_root with its prompts, prepare_container and ensure_size.
Prepare(p) ==
    /\ pc[p] = "prepare"
    /\ Goto(p, "create") \/ Report(p, "error")
    /\ UNCHANGED <<dirVars, path, temp, file, used, stray, removed, lost>>

\* write_temporary, to the exclusive open under an unused name.
CreateTemporary(p) ==
    /\ pc[p] = "create"
    /\ \/ \E n \in Temp, f \in File \ used :
            /\ names[n] = None
            /\ names' = [names EXCEPT ![n] = f]
            /\ temp' = [temp EXCEPT ![p] = n]
            /\ file' = [file EXCEPT ![p] = f]
            /\ used' = used \cup {f}
            /\ Goto(p, "write")
       \/ Report(p, "error") /\ UNCHANGED <<names, temp, file, used>>
    /\ UNCHANGED <<disk, data, synced, path, stray, removed, lost>>

\* set_permissions and write_all.
Write(p) ==
    /\ pc[p] = "write"
    /\ \/ data' = [data EXCEPT ![file[p]] = "whole"] /\ Goto(p, "sync")
       \/ Goto(p, "discard") /\ UNCHANGED data
    /\ UNCHANGED <<names, disk, synced, path, temp, file, used, stray, removed, lost>>

\* Mutated form: the temporary file is not synced.
SyncTemporarySkipped(p) ==
    /\ pc[p] = "sync"
    /\ Goto(p, "link")
    /\ UNCHANGED <<dirVars, path, temp, file, used, stray, removed, lost>>

\* sync_all of the temporary file.
SyncTemporary(p) ==
    /\ pc[p] = "sync"
    /\ \/ synced' = synced \cup {file[p]} /\ Goto(p, "link")
       \/ Goto(p, "discard") /\ UNCHANGED synced
    /\ UNCHANGED <<names, disk, data, path, temp, file, used, stray, removed, lost>>

\* hard_link of the temporary file to the destination.
Link(p) ==
    /\ pc[p] = "link"
    /\ \/ /\ names[path[p]] = None
          /\ names' = [names EXCEPT ![path[p]] = file[p]]
          /\ Goto(p, "unlink")
       \/ Goto(p, "discard") /\ UNCHANGED names
    /\ UNCHANGED <<disk, data, synced, path, temp, file, used, stray, removed, lost>>

\* Mutated form: a seal that fails leaves its temporary file.
DiscardNothing(p) ==
    /\ pc[p] = "discard"
    /\ Report(p, "error")
    /\ UNCHANGED <<dirVars, path, temp, file, used, stray, removed, lost>>

\* A seal that fails removes its temporary file.
Discard(p) ==
    /\ pc[p] = "discard"
    /\ RemoveTemporary(p)
    /\ Report(p, "error")
    /\ UNCHANGED <<disk, data, synced, path, temp, file, used, removed, lost>>

\* So does one that published it.
Unlink(p) ==
    /\ pc[p] = "unlink"
    /\ RemoveTemporary(p)
    /\ Goto(p, "syncdir")
    /\ UNCHANGED <<disk, data, synced, path, temp, file, used, removed, lost>>

\* Mutated form: the directory is not synced.
SyncParentSkipped(p) ==
    /\ pc[p] = "syncdir"
    /\ Report(p, "saved")
    /\ UNCHANGED <<dirVars, path, temp, file, used, stray, removed, lost>>

\* sync_parent; its failure is reported as that of a secret that was saved.
SyncParent(p) ==
    /\ pc[p] = "syncdir"
    /\ \/ disk' = names /\ Report(p, "saved")
       \/ Report(p, "unsynced") /\ UNCHANGED disk
    /\ UNCHANGED <<names, data, synced, path, temp, file, used, stray, removed, lost>>

-----------------------------------------------------------------------------
(***************************************************************************)
(* The calls of unseal and inspect.                                        *)
(***************************************************************************)

\* read_private, to the open.
Open(p) ==
    /\ pc[p] = "open"
    /\ \/ /\ names[path[p]] # None
          /\ file' = [file EXCEPT ![p] = names[path[p]]]
          /\ Goto(p, "read")
       \/ Report(p, "error") /\ UNCHANGED file
    /\ UNCHANGED <<dirVars, path, temp, used, stray, removed, lost>>

\* read_to_end, SecretFile::decode and KeyEnvelope::decode.
ReadFile(p) ==
    /\ pc[p] = "read"
    /\ \/ data[file[p]] = "whole" /\ Report(p, "whole")
       \/ data[file[p]] = "partial" /\ Report(p, "invalid")
       \/ Report(p, "error")
    /\ UNCHANGED <<dirVars, path, temp, file, used, stray, removed, lost>>

-----------------------------------------------------------------------------
(***************************************************************************)
(* The environment.                                                        *)
(***************************************************************************)

\* A seal that stops here leaves its temporary file.
Leaves(p) == {f \in {file[p]} : pc[p] \in {"write", "sync", "link", "discard", "unlink"}}

\* The process is killed.
Kill(p) ==
    /\ pc[p] # "idle"
    /\ pc' = [pc EXCEPT ![p] = "idle"]
    /\ stray' = stray \cup Leaves(p)
    /\ UNCHANGED <<dirVars, path, temp, file, result, used, saved, unsynced,
                   removed, lost>>

\* The user removes a sealed file.
RemoveSealed(d) ==
    /\ names[d] # None
    /\ removed' = removed \cup {names[d]}
    /\ names' = [names EXCEPT ![d] = None]
    /\ UNCHANGED <<disk, data, synced, callVars, used, saved, unsynced, stray, lost>>

\* The system writes a directory entry back.
WriteBack(n) ==
    /\ disk' = [disk EXCEPT ![n] = names[n]]
    /\ UNCHANGED <<names, data, synced, callVars, history>>

\* The power fails: every process dies, unsynced entries and contents may go.
PowerLoss ==
    /\ names' \in {[n \in Name |-> IF n \in N THEN disk[n] ELSE names[n]] :
                        N \in SUBSET Name}
    /\ disk' = names'
    /\ data' \in {[f \in File |-> IF f \in F THEN "partial" ELSE data[f]] :
                        F \in SUBSET (File \ synced)}
    /\ pc' = [p \in Proc |-> "idle"]
    /\ stray' = stray \cup (UNION {Leaves(p) : p \in Proc})
                    \cup ({disk[n] : n \in Temp} \ {None})
    /\ lost' = lost \cup ({names[d] : d \in {e \in Path : names[e] # disk[e]}} \ {None})
    /\ UNCHANGED <<synced, path, temp, file, result, used, saved, unsynced, removed>>

ProcStep(p) ==
    \/ EnsureAbsent(p) \/ Prepare(p) \/ CreateTemporary(p) \/ Write(p)
    \/ SyncTemporary(p) \/ Link(p) \/ Discard(p) \/ Unlink(p) \/ SyncParent(p)
    \/ Open(p) \/ ReadFile(p)

Next ==
    \/ \E p \in Proc : Begin(p) \/ ProcStep(p) \/ Kill(p)
    \/ \E d \in Path : RemoveSealed(d)
    \/ \E n \in Name : WriteBack(n)
    \/ PowerLoss

Spec == Init /\ [][Next]_vars

-----------------------------------------------------------------------------
(***************************************************************************)
(* Properties.                                                             *)
(***************************************************************************)

\* A destination never leads to an incomplete container: not while it is being
\* written, not after a seal was killed, not after a power loss.
DestinationIsWhole ==
    \A d \in Path : names[d] # None => data[names[d]] = "whole"

\* A secret reported as saved is at its destination, whatever other seals do
\* and even after a power loss, until the user removes it.
SavedIsDurable ==
    \A s \in saved :
        \/ s.file \in removed
        \/ /\ names[s.path] = s.file /\ disk[s.path] = s.file
           /\ data[s.file] = "whole"

\* A secret reported as saved but not synced is at its destination too; only a
\* power loss may take it away.
UnsyncedIsSaved ==
    \A s \in unsynced : s.file \in removed \cup lost \/ names[s.path] = s.file

\* A seal that reports any other error saved nothing.
ErrorSavesNothing ==
    \A p \in Proc : result[p] = "error" /\ pc[p] = "idle" =>
        \A d \in Path : names[d] # None => ~(temp[p] # None /\ names[d] = file[p])

\* A temporary name is left only by a seal that was killed or was refused the
\* removal.
NoStrayTemporary ==
    \A n \in Temp : names[n] # None =>
        \/ names[n] \in stray
        \/ \E p \in Proc : pc[p] # "idle" /\ temp[p] = n /\ file[p] = names[n]

\* What a seal reports of its destination is true, and it cleans up after
\* itself.
AnswersAreDefinite == UnsyncedIsSaved /\ ErrorSavesNothing /\ NoStrayTemporary

\* The strengthening that every step preserves: what a destination leads to,
\* now or after a power loss, is whole and synced.
IInv ==
    /\ TypeOK
    /\ DestinationIsWhole
    /\ SavedIsDurable
    /\ \A d \in Path : {names[d], disk[d]} \ {None} \subseteq synced \cap used
    /\ \A f \in synced : data[f] = "whole"
    /\ synced \subseteq used
    /\ \A p \in Proc :
        /\ pc[p] # "idle" => path[p] \in Path
        /\ pc[p] \in {"write", "sync", "link", "discard", "unlink", "syncdir"}
                => file[p] \in used /\ temp[p] \in Temp
        /\ pc[p] = "sync" => data[file[p]] = "whole"
        /\ pc[p] \in {"link", "unlink", "syncdir"} => file[p] \in synced
        /\ pc[p] \in {"unlink", "syncdir"} => names[path[p]] = file[p] \/ file[p] \in removed

\* The strengthening of AnswersAreDefinite, which rests on IInv.  A seal that
\* has not published its file has it under its own temporary name only, and
\* that name is its own until it tried to remove it.
Holding == {"write", "sync", "link", "discard", "unlink"}

Unpublished(p) ==
    /\ temp[p] # None
    /\ pc[p] \in Holding \ {"unlink"} \/ (pc[p] = "idle" /\ result[p] = "error")

FilesAreOwn ==
    /\ \A p \in Proc : temp[p] # None => file[p] \in used
    /\ \A p, q \in Proc : p # q /\ temp[p] # None /\ temp[q] # None => file[p] # file[q]

TemporariesAreOwned ==
    \A n \in Temp : names[n] # None =>
        \/ names[n] \in stray
        \/ \E p \in Proc : pc[p] \in Holding /\ temp[p] = n /\ file[p] = names[n]

AnswerInv ==
    /\ \A p \in Proc : pc[p] # "idle" => result[p] = "none"
    /\ \A p \in Proc : pc[p] \in {"check", "prepare", "create", "open", "read"} => temp[p] = None
    /\ FilesAreOwn
    /\ \A p \in Proc : Unpublished(p) => \A d \in Path : file[p] \notin {names[d], disk[d]}
    /\ TemporariesAreOwned
    /\ UnsyncedIsSaved
=============================================================================
