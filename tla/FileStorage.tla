---------------------------- MODULE FileStorage ----------------------------
(***************************************************************************)
(* Files and rows of the documents of one owner: upload, deletion of a     *)
(* document and deletion of a project, each a sequence of database and     *)
(* file-system steps that nothing makes atomic.                            *)
(*                                                                         *)
(* LocalFileStore keeps a document under root/owner/project/document and   *)
(* removes directories that have become empty, from the inside out, up to  *)
(* the root; mkdir(parents=True) makes them from the outside in.           *)
(***************************************************************************)
EXTENDS Integers

CONSTANTS
    Projects,     \* projects of the owner; their directories bear their names
    Uploads,      \* upload requests; document_id and storage_key are fresh for each
    Deletions,    \* DELETE requests of a document or a project
    Owner,        \* the directory root/owner
    MaxCrashes    \* bound on handlers that die

ASSUME StorageAssumption ==
    /\ MaxCrashes \in Nat
    /\ Owner \notin Projects
    /\ Uploads \cap Deletions = {}
    /\ Uploads \cap Projects = {}

VARIABLES
    projects,   \* rows of projects
    rows,       \* rows of documents, by the upload that made them
    files,      \* files under their storage key
    temps,      \* temporary files ".upload-..."
    dirs,       \* directories below the root
    project,    \* the project each upload is for
    pc,         \* where each handler is
    target,     \* the document or project each deletion has loaded
    keys,       \* storage keys a deletion has yet to unlink
    prune,      \* the directory each handler is about to remove if empty
    crashes     \* handlers that have died so far

databaseVars == <<projects, rows>>
diskVars == <<files, temps, dirs>>
vars == <<databaseVars, diskVars, project, pc, target, keys, prune, crashes>>

Handlers == Uploads \cup Deletions
Directories == Projects \cup {Owner}
NoDirectory == "none"
Nothing == "nothing"

ASSUME NoneAssumption == NoDirectory \notin Directories

UploadLabels ==
    {"new", "mkdir", "parents", "retry", "temporary", "write", "validate", "commit"}
DeletionLabels == {"new", "keys", "unlink"}
EndLabels == {"done", "refused", "failed", "unmade", "raised", "dead"}

Init ==
    /\ projects = Projects
    /\ rows = {} /\ files = {} /\ temps = {} /\ dirs = {}
    /\ project \in [Uploads -> Projects]
    /\ pc = [h \in Handlers |-> "new"]
    /\ target = [x \in Deletions |-> Nothing]
    /\ keys = [x \in Deletions |-> {}]
    /\ prune = [h \in Handlers |-> NoDirectory]
    /\ crashes = 0

Goto(h, label) == pc' = [pc EXCEPT ![h] = label]

\* A handler that is pruning directories does nothing else.
At(h, label) == pc[h] = label /\ prune[h] = NoDirectory

----------------------------------------------------------------------------
(* The file store.                                                         *)

Entries(d) ==
    IF d = Owner THEN dirs \cap Projects
    ELSE {u \in files \cup temps : project[u] = d}

\* Mutant: the walk does not stop at the root.
ParentOfRoot(d) == IF d = Owner THEN Nothing ELSE Owner

Parent(d) == IF d = Owner THEN NoDirectory ELSE Owner

\* One round of _remove_empty_parents: rmdir, then the parent, until one fails.
RemoveDirectory(h) ==
    /\ prune[h] # NoDirectory
    /\ IF prune[h] \in dirs /\ Entries(prune[h]) = {}
       THEN /\ dirs' = dirs \ {prune[h]}
            /\ prune' = [prune EXCEPT ![h] = Parent(@)]
       ELSE /\ prune' = [prune EXCEPT ![h] = NoDirectory]
            /\ UNCHANGED dirs
    /\ UNCHANGED <<databaseVars, files, temps, project, pc, target, keys, crashes>>

\* Mutant: the whole directory is removed.
UnlinkTree(h, u) ==
    /\ files' = {v \in files : project[v] # project[u]}
    /\ prune' = [prune EXCEPT ![h] = project[u]]

\* unlink(missing_ok=True), with the walk over the parents that follows it.
Unlink(h, u) ==
    /\ files' = files \ {u}
    /\ prune' = [prune EXCEPT ![h] = project[u]]

----------------------------------------------------------------------------
(* upload_document: get_owned_project, save, validation, row.              *)

CheckProject(u) ==
    /\ At(u, "new")
    /\ Goto(u, IF project[u] \in projects THEN "mkdir" ELSE "refused")
    /\ UNCHANGED <<databaseVars, diskVars, project, target, keys, prune, crashes>>

\* target.parent.mkdir(parents=True, exist_ok=True): try, else make the parent and
\* try once more.
MakeDirectory(u) ==
    /\ At(u, "mkdir") \/ At(u, "retry")
    /\ Owner \in dirs
    /\ dirs' = dirs \cup {project[u]}
    /\ Goto(u, "temporary")
    /\ UNCHANGED <<databaseVars, files, temps, project, target, keys, prune, crashes>>

MissParent(u) ==
    /\ At(u, "mkdir")
    /\ Owner \notin dirs
    /\ Goto(u, "parents")
    /\ UNCHANGED <<databaseVars, diskVars, project, target, keys, prune, crashes>>

MakeParent(u) ==
    /\ At(u, "parents")
    /\ dirs' = dirs \cup {Owner}
    /\ Goto(u, "retry")
    /\ UNCHANGED <<databaseVars, files, temps, project, target, keys, prune, crashes>>

\* The disk refuses, or the parent is gone again.  The try of save has not begun, so
\* that a parent just made stays.
FailDirectory(u) ==
    /\ At(u, "mkdir") \/ At(u, "parents") \/ At(u, "retry")
    /\ Goto(u, IF pc[u] = "retry" THEN "unmade" ELSE "failed")
    /\ UNCHANGED <<databaseVars, diskVars, project, target, keys, prune, crashes>>

\* NamedTemporaryFile(dir=target.parent).
CreateTemporary(u) ==
    /\ At(u, "temporary")
    /\ project[u] \in dirs
    /\ temps' = temps \cup {u}
    /\ Goto(u, "write")
    /\ UNCHANGED <<databaseVars, files, dirs, project, target, keys, prune, crashes>>

\* Mutant: there is no temporary file, so nothing is cleaned up.
FailTemporaryOnly(u) ==
    /\ At(u, "temporary")
    /\ Goto(u, "failed")
    /\ UNCHANGED <<databaseVars, diskVars, project, target, keys, prune, crashes>>

\* The directory is gone, or the disk refuses: there is nothing to unlink, but the
\* parents are visited.
FailTemporary(u) ==
    /\ At(u, "temporary")
    /\ prune' = [prune EXCEPT ![u] = project[u]]
    /\ Goto(u, "failed")
    /\ UNCHANGED <<databaseVars, diskVars, project, target, keys, crashes>>

\* FileTooLargeError, or an error of the disk.
AbandonTemporary(u) ==
    /\ At(u, "write")
    /\ temps' = temps \ {u}
    /\ prune' = [prune EXCEPT ![u] = project[u]]
    /\ Goto(u, "refused")
    /\ UNCHANGED <<databaseVars, files, dirs, project, target, keys, crashes>>

\* os.replace.
ReplaceTarget(u) ==
    /\ At(u, "write")
    /\ temps' = temps \ {u}
    /\ files' = files \cup {u}
    /\ Goto(u, "validate")
    /\ UNCHANGED <<databaseVars, dirs, project, target, keys, prune, crashes>>

\* detect_document_format returns.
AcceptFormat(u) ==
    /\ At(u, "validate")
    /\ Goto(u, "commit")
    /\ UNCHANGED <<databaseVars, diskVars, project, target, keys, prune, crashes>>

\* Mutant: the stored file is left.
RefuseFormatOnly(u) ==
    /\ At(u, "validate")
    /\ Goto(u, "refused")
    /\ UNCHANGED <<databaseVars, diskVars, project, target, keys, prune, crashes>>

\* DocumentValidationError, or a file name of more than 255 characters.
RefuseFormat(u) ==
    /\ At(u, "validate")
    /\ Unlink(u, u)
    /\ Goto(u, "refused")
    /\ UNCHANGED <<databaseVars, temps, dirs, project, target, keys, crashes>>

\* detect_document_format raises what is no DocumentValidationError, as ZipFile does
\* for a mimetype member that is encrypted, compressed by an unknown method, damaged or
\* stored under another spelling: nobody deletes the file.
RaiseInFormat(u) ==
    /\ At(u, "validate")
    /\ Goto(u, "raised")
    /\ UNCHANGED <<databaseVars, diskVars, project, target, keys, prune, crashes>>

CommitRow(u) ==
    /\ At(u, "commit")
    /\ project[u] \in projects
    /\ rows' = rows \cup {u}
    /\ Goto(u, "done")
    /\ UNCHANGED <<projects, diskVars, project, target, keys, prune, crashes>>

\* Mutant: the stored file is left.
RefuseRowOnly(u) ==
    /\ At(u, "commit")
    /\ Goto(u, "failed")
    /\ UNCHANGED <<databaseVars, diskVars, project, target, keys, prune, crashes>>

\* SQLAlchemyError, such as the foreign key's when the project is gone by now: the
\* handler takes its file back.
RefuseRow(u) ==
    /\ At(u, "commit")
    /\ Unlink(u, u)
    /\ Goto(u, "failed")
    /\ UNCHANGED <<databaseVars, temps, dirs, project, target, keys, crashes>>

\* The commit is made and its answer lost, which is a SQLAlchemyError too.
LoseCommit(u) ==
    /\ At(u, "commit")
    /\ project[u] \in projects
    /\ rows' = rows \cup {u}
    /\ Unlink(u, u)
    /\ Goto(u, "failed")
    /\ UNCHANGED <<projects, temps, dirs, project, target, keys, crashes>>

----------------------------------------------------------------------------
(* delete_document, and delete of projects/router.py.                      *)

\* get_owned_document.
LoadDocument(x, u) ==
    /\ At(x, "new")
    /\ u \in rows
    /\ target' = [target EXCEPT ![x] = u]
    /\ keys' = [keys EXCEPT ![x] = {u}]
    /\ Goto(x, "keys")
    /\ UNCHANGED <<databaseVars, diskVars, project, prune, crashes>>

\* get_owned_project and the SELECT of the storage keys.
LoadProject(x, p) ==
    /\ At(x, "new")
    /\ p \in projects
    /\ target' = [target EXCEPT ![x] = p]
    /\ keys' = [keys EXCEPT ![x] = {u \in rows : project[u] = p}]
    /\ Goto(x, "keys")
    /\ UNCHANGED <<databaseVars, diskVars, project, prune, crashes>>

\* The rows that a deletion takes: one document, or by ON DELETE CASCADE all
\* documents of the project, those committed since their keys were listed too.
RowsOf(t) == {u \in rows : u = t \/ project[u] = t}

CommitDeletion(x) ==
    /\ At(x, "keys")
    /\ rows' = rows \ RowsOf(target[x])
    /\ projects' = projects \ {target[x]}
    /\ Goto(x, "unlink")
    /\ UNCHANGED <<diskVars, project, target, keys, prune, crashes>>

UnlinkStored(x, u) ==
    /\ At(x, "unlink")
    /\ u \in keys[x]
    /\ Unlink(x, u)
    /\ keys' = [keys EXCEPT ![x] = @ \ {u}]
    /\ UNCHANGED <<databaseVars, temps, dirs, project, pc, target, crashes>>

FinishDeletion(x) ==
    /\ At(x, "unlink")
    /\ keys[x] = {}
    /\ Goto(x, "done")
    /\ UNCHANGED <<databaseVars, diskVars, project, target, keys, prune, crashes>>

\* The API process dies.
Die(h) ==
    /\ crashes < MaxCrashes
    /\ pc[h] \notin {"new"} \cup EndLabels \/ prune[h] # NoDirectory
    /\ crashes' = crashes + 1
    /\ Goto(h, "dead")
    /\ prune' = [prune EXCEPT ![h] = NoDirectory]
    /\ UNCHANGED <<databaseVars, diskVars, project, target, keys>>

----------------------------------------------------------------------------
Upload(u) ==
    \/ CheckProject(u)
    \/ MakeDirectory(u)
    \/ MissParent(u)
    \/ MakeParent(u)
    \/ FailDirectory(u)
    \/ CreateTemporary(u)
    \/ FailTemporary(u)
    \/ AbandonTemporary(u)
    \/ ReplaceTarget(u)
    \/ AcceptFormat(u)
    \/ RefuseFormat(u)
    \/ RaiseInFormat(u)
    \/ CommitRow(u)
    \/ RefuseRow(u)
    \/ LoseCommit(u)

Load(x) ==
    \/ \E u \in Uploads : LoadDocument(x, u)
    \/ \E p \in Projects : LoadProject(x, p)

Delete(x) ==
    \/ CommitDeletion(x)
    \/ \E u \in Uploads : UnlinkStored(x, u)
    \/ FinishDeletion(x)

Next ==
    \/ \E u \in Uploads : Upload(u)
    \/ \E x \in Deletions : Load(x) \/ Delete(x)
    \/ \E h \in Handlers : RemoveDirectory(h) \/ Die(h)

Spec == Init /\ [][Next]_vars

\* A handler that has begun goes on; nobody is obliged to delete anything.
Fairness ==
    /\ \A u \in Uploads : WF_vars(Upload(u))
    /\ \A x \in Deletions : WF_vars(Delete(x))
    /\ \A h \in Handlers : WF_vars(RemoveDirectory(h))

FairSpec == Spec /\ Fairness

----------------------------------------------------------------------------
(* Properties.                                                             *)

\* Every variable has its type.
TypeOK ==
    /\ projects \subseteq Projects
    /\ rows \subseteq Uploads /\ files \subseteq Uploads /\ temps \subseteq Uploads
    /\ dirs \subseteq Directories
    /\ project \in [Uploads -> Projects]
    /\ pc \in [Handlers -> UploadLabels \cup DeletionLabels \cup EndLabels]
    /\ target \in [Deletions -> Uploads \cup Projects \cup {Nothing}]
    /\ keys \in [Deletions -> SUBSET Uploads]
    /\ prune \in [Handlers -> Directories \cup {NoDirectory}]
    /\ crashes \in 0..MaxCrashes

\* A document whose upload was answered with success has its file for as long as its
\* row, crash or not: uploads put the file in place before the row, deletions remove the
\* row before the file, and no deletion unlinks a file that some upload has just put in
\* place.  Only a commit whose answer was lost leaves a row without its file.
RowsHaveFiles == \A u \in rows : pc[u] = "done" => u \in files

\* A file without a row is on its way into or out of the database, unless a handler
\* has died, the whole project is deleted, or the format check of its upload ended in
\* an exception that save_uploaded_document does not catch.
FilesAreAccounted ==
    crashes = 0 =>
        \A u \in files \ rows :
            \/ pc[u] \in {"validate", "commit", "raised"}
            \/ \E x \in Deletions : pc[x] = "unlink" /\ u \in keys[x]
            \/ project[u] \notin projects

\* An empty directory is about to be used or removed: two handlers that prune at
\* once, or prune what another has just made, never both rely on the other.  Only the
\* owner's stays, when it was just made and its first project's could not be.
EmptyDirectoriesAreVisited ==
    crashes = 0 =>
        \A d \in dirs :
            Entries(d) = {} =>
                \/ \E h \in Handlers : prune[h] = d
                \/ \E u \in Uploads : project[u] = d /\ pc[u] = "temporary"
                \/ d = Owner /\ \E u \in Uploads : pc[u] \in {"retry", "unmade"}

\* A file without a row does not stay: it gets its row or it is removed, up to the
\* losses that FilesAreAccounted names.
OrphansVanish ==
    \A u \in Uploads :
        u \in files \ rows ~>
            \/ u \in rows \/ u \notin files
            \/ crashes > 0 \/ project[u] \notin projects \/ pc[u] = "raised"

----------------------------------------------------------------------------
(* A claim of the documentation that the code does not keep.               *)

\* The implementation plan: the deletion of a project removes the stored objects.
DeletedProjectLeavesNoFiles ==
    (\A h \in Handlers : pc[h] \in {"new"} \cup EndLabels /\ prune[h] = NoDirectory)
        => \A u \in files : project[u] \in projects
=============================================================================
