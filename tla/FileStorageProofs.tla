------------------------- MODULE FileStorageProofs -------------------------
(***************************************************************************)
(* Safety of the file store for any number of projects, uploads, deletions *)
(* and handlers that die.                                                  *)
(***************************************************************************)
EXTENDS FileStorage, TLAPS

USE DEF Handlers, Directories, UploadLabels, DeletionLabels, EndLabels

----------------------------------------------------------------------------
(* Types.                                                                  *)

\* Every variable has its type in every state of the file store.
THEOREM TypeCorrect == Spec => []TypeOK
<1>1. Init => TypeOK
  BY StorageAssumption DEF Init, TypeOK
<1>2. TypeOK /\ [Next]_vars => TypeOK'
  <2> SUFFICES ASSUME TypeOK, [Next]_vars
               PROVE  TypeOK'
    OBVIOUS
  <2> USE DEF TypeOK, At, Goto, databaseVars, diskVars
  <2>1. ASSUME NEW u \in Uploads, CheckProject(u)
       PROVE  TypeOK'
    BY <2>1 DEF CheckProject
  <2>2. ASSUME NEW u \in Uploads, MakeDirectory(u)
       PROVE  TypeOK'
    BY <2>2 DEF MakeDirectory
  <2>3. ASSUME NEW u \in Uploads, MakeParent(u)
       PROVE  TypeOK'
    BY <2>3 DEF MakeParent
  <2>4. ASSUME NEW u \in Uploads, CreateTemporary(u)
       PROVE  TypeOK'
    BY <2>4 DEF CreateTemporary
  <2>5. ASSUME NEW u \in Uploads, AbandonTemporary(u)
       PROVE  TypeOK'
    BY <2>5 DEF AbandonTemporary
  <2>6. ASSUME NEW u \in Uploads, ReplaceTarget(u)
       PROVE  TypeOK'
    BY <2>6 DEF ReplaceTarget
  <2>7. ASSUME NEW u \in Uploads, AcceptFormat(u)
       PROVE  TypeOK'
    BY <2>7 DEF AcceptFormat
  <2>8. ASSUME NEW u \in Uploads, RefuseFormat(u)
       PROVE  TypeOK'
    BY <2>8 DEF RefuseFormat, Unlink
  <2>9. ASSUME NEW u \in Uploads, CommitRow(u)
       PROVE  TypeOK'
    BY <2>9 DEF CommitRow
  <2>10. ASSUME NEW u \in Uploads, RefuseRow(u)
       PROVE  TypeOK'
    BY <2>10 DEF RefuseRow, Unlink
  <2>11. ASSUME NEW x \in Deletions, NEW u \in Uploads, LoadDocument(x, u)
       PROVE  TypeOK'
    BY <2>11 DEF LoadDocument
  <2>12. ASSUME NEW x \in Deletions, NEW p \in Projects, LoadProject(x, p)
       PROVE  TypeOK'
    BY <2>12 DEF LoadProject
  <2>13. ASSUME NEW x \in Deletions, CommitDeletion(x)
       PROVE  TypeOK'
    BY <2>13 DEF CommitDeletion
  <2>14. ASSUME NEW x \in Deletions, NEW u \in Uploads, UnlinkStored(x, u)
       PROVE  TypeOK'
    BY <2>14 DEF UnlinkStored, Unlink
  <2>15. ASSUME NEW x \in Deletions, FinishDeletion(x)
       PROVE  TypeOK'
    BY <2>15 DEF FinishDeletion
  <2>16. ASSUME NEW h \in Handlers, RemoveDirectory(h)
       PROVE  TypeOK'
    BY <2>16 DEF RemoveDirectory, Parent
  <2>17. ASSUME NEW h \in Handlers, Die(h)
       PROVE  TypeOK'
    BY <2>17, StorageAssumption DEF Die
  <2>18. ASSUME NEW u \in Uploads, MissParent(u)
       PROVE  TypeOK'
    BY <2>18 DEF MissParent
  <2>19. ASSUME NEW u \in Uploads, FailDirectory(u)
       PROVE  TypeOK'
    BY <2>19 DEF FailDirectory
  <2>20. ASSUME NEW u \in Uploads, FailTemporary(u)
       PROVE  TypeOK'
    BY <2>20 DEF FailTemporary
  <2>21. ASSUME NEW u \in Uploads, RaiseInFormat(u)
       PROVE  TypeOK'
    BY <2>21 DEF RaiseInFormat
  <2>22. ASSUME NEW u \in Uploads, LoseCommit(u)
       PROVE  TypeOK'
    BY <2>22 DEF LoseCommit, Unlink
  <2>23. CASE UNCHANGED vars
    BY <2>23 DEF vars
  <2> QED
    BY <2>1, <2>2, <2>3, <2>4, <2>5, <2>6, <2>7, <2>8, <2>9, <2>10, <2>11, <2>12,
       <2>13, <2>14, <2>15, <2>16, <2>17, <2>18, <2>19, <2>20, <2>21, <2>22, <2>23
     DEF Next, Upload, Load, Delete
<1> QED
  BY <1>1, <1>2, PTL DEF Spec

----------------------------------------------------------------------------
(* The inductive invariant.                                                *)

\* Until its row is committed no deletion knows of an upload, and from os.replace on
\* its file is there.
UploadsAreUnlisted ==
    \A u \in Uploads :
        /\ pc[u] \in UploadLabels => u \notin rows /\ \A x \in Deletions : u \notin keys[x]
        /\ pc[u] \in {"validate", "commit"} => u \in files

\* The storage keys that a deletion has listed are of the rows it is about to take.
KeysAreOfTarget ==
    \A x \in Deletions :
        pc[x] = "keys" =>
            /\ target[x] \in Uploads => keys[x] = {target[x]}
            /\ target[x] \in Uploads \cup Projects
            /\ \A u \in keys[x] : u = target[x] \/ project[u] = target[x]

\* What a deletion still has to unlink has lost its row.
UnlinkedHasNoRow == \A x \in Deletions : pc[x] = "unlink" => keys[x] \cap rows = {}

StorageInv ==
    /\ TypeOK
    /\ UploadsAreUnlisted
    /\ KeysAreOfTarget
    /\ UnlinkedHasNoRow
    /\ RowsHaveFiles
    /\ FilesAreAccounted
    /\ EmptyDirectoriesAreVisited

\* No step lets a deletion learn of an upload before its row, or takes its file.
LEMMA UnlistedStep ==
    ASSUME TypeOK, UploadsAreUnlisted, [Next]_vars
    PROVE  UploadsAreUnlisted'
<1> USE StorageAssumption, NoneAssumption DEF TypeOK, UploadsAreUnlisted, At, Goto, databaseVars, diskVars
<1>1. ASSUME NEW u \in Uploads, CheckProject(u)
     PROVE  UploadsAreUnlisted'
  BY <1>1 DEF CheckProject
<1>2. ASSUME NEW u \in Uploads, MakeDirectory(u)
     PROVE  UploadsAreUnlisted'
  BY <1>2 DEF MakeDirectory
<1>3. ASSUME NEW u \in Uploads, MakeParent(u)
     PROVE  UploadsAreUnlisted'
  BY <1>3 DEF MakeParent
<1>4. ASSUME NEW u \in Uploads, CreateTemporary(u)
     PROVE  UploadsAreUnlisted'
  BY <1>4 DEF CreateTemporary
<1>5. ASSUME NEW u \in Uploads, AbandonTemporary(u)
     PROVE  UploadsAreUnlisted'
  BY <1>5 DEF AbandonTemporary
<1>6. ASSUME NEW u \in Uploads, ReplaceTarget(u)
     PROVE  UploadsAreUnlisted'
  BY <1>6 DEF ReplaceTarget
<1>7. ASSUME NEW u \in Uploads, AcceptFormat(u)
     PROVE  UploadsAreUnlisted'
  BY <1>7 DEF AcceptFormat
<1>8. ASSUME NEW u \in Uploads, RefuseFormat(u)
     PROVE  UploadsAreUnlisted'
  BY <1>8 DEF RefuseFormat, Unlink
<1>9. ASSUME NEW u \in Uploads, CommitRow(u)
     PROVE  UploadsAreUnlisted'
  BY <1>9 DEF CommitRow
<1>10. ASSUME NEW u \in Uploads, RefuseRow(u)
     PROVE  UploadsAreUnlisted'
  BY <1>10 DEF RefuseRow, Unlink
<1>11. ASSUME NEW x \in Deletions, NEW u \in Uploads, LoadDocument(x, u)
     PROVE  UploadsAreUnlisted'
  BY <1>11 DEF LoadDocument
<1>12. ASSUME NEW x \in Deletions, NEW p \in Projects, LoadProject(x, p)
     PROVE  UploadsAreUnlisted'
  BY <1>12 DEF LoadProject
<1>13. ASSUME NEW x \in Deletions, CommitDeletion(x)
     PROVE  UploadsAreUnlisted'
  BY <1>13 DEF CommitDeletion, RowsOf
<1>14. ASSUME NEW x \in Deletions, NEW u \in Uploads, UnlinkStored(x, u)
     PROVE  UploadsAreUnlisted'
  BY <1>14 DEF UnlinkStored, Unlink
<1>15. ASSUME NEW x \in Deletions, FinishDeletion(x)
     PROVE  UploadsAreUnlisted'
  BY <1>15 DEF FinishDeletion
<1>16. ASSUME NEW h \in Handlers, RemoveDirectory(h)
     PROVE  UploadsAreUnlisted'
  BY <1>16 DEF RemoveDirectory
<1>17. ASSUME NEW h \in Handlers, Die(h)
     PROVE  UploadsAreUnlisted'
  BY <1>17 DEF Die
<1>18. ASSUME NEW u \in Uploads, MissParent(u)
     PROVE  UploadsAreUnlisted'
  BY <1>18 DEF MissParent
<1>19. ASSUME NEW u \in Uploads, FailDirectory(u)
     PROVE  UploadsAreUnlisted'
  BY <1>19 DEF FailDirectory
<1>20. ASSUME NEW u \in Uploads, FailTemporary(u)
     PROVE  UploadsAreUnlisted'
  BY <1>20 DEF FailTemporary
<1>21. ASSUME NEW u \in Uploads, RaiseInFormat(u)
     PROVE  UploadsAreUnlisted'
  BY <1>21 DEF RaiseInFormat
<1>22. ASSUME NEW u \in Uploads, LoseCommit(u)
     PROVE  UploadsAreUnlisted'
  BY <1>22 DEF LoseCommit, Unlink
<1>23. CASE UNCHANGED vars
  BY <1>23 DEF vars
<1> QED
  BY <1>1, <1>2, <1>3, <1>4, <1>5, <1>6, <1>7, <1>8, <1>9, <1>10, <1>11,
     <1>12, <1>13, <1>14, <1>15, <1>16, <1>17, <1>18, <1>19, <1>20, <1>21, <1>22, <1>23
     DEF Next, Upload, Load,
     Delete

\* The listed keys stay those of the target until the rows are taken.
LEMMA KeysStep ==
    ASSUME TypeOK, KeysAreOfTarget, [Next]_vars
    PROVE  KeysAreOfTarget'
<1> USE StorageAssumption, NoneAssumption DEF TypeOK, KeysAreOfTarget, At, Goto, databaseVars, diskVars
<1>1. ASSUME NEW u \in Uploads, CheckProject(u)
     PROVE  KeysAreOfTarget'
  BY <1>1 DEF CheckProject
<1>2. ASSUME NEW u \in Uploads, MakeDirectory(u)
     PROVE  KeysAreOfTarget'
  BY <1>2 DEF MakeDirectory
<1>3. ASSUME NEW u \in Uploads, MakeParent(u)
     PROVE  KeysAreOfTarget'
  BY <1>3 DEF MakeParent
<1>4. ASSUME NEW u \in Uploads, CreateTemporary(u)
     PROVE  KeysAreOfTarget'
  BY <1>4 DEF CreateTemporary
<1>5. ASSUME NEW u \in Uploads, AbandonTemporary(u)
     PROVE  KeysAreOfTarget'
  BY <1>5 DEF AbandonTemporary
<1>6. ASSUME NEW u \in Uploads, ReplaceTarget(u)
     PROVE  KeysAreOfTarget'
  BY <1>6 DEF ReplaceTarget
<1>7. ASSUME NEW u \in Uploads, AcceptFormat(u)
     PROVE  KeysAreOfTarget'
  BY <1>7 DEF AcceptFormat
<1>8. ASSUME NEW u \in Uploads, RefuseFormat(u)
     PROVE  KeysAreOfTarget'
  BY <1>8 DEF RefuseFormat, Unlink
<1>9. ASSUME NEW u \in Uploads, CommitRow(u)
     PROVE  KeysAreOfTarget'
  BY <1>9 DEF CommitRow
<1>10. ASSUME NEW u \in Uploads, RefuseRow(u)
     PROVE  KeysAreOfTarget'
  BY <1>10 DEF RefuseRow, Unlink
<1>11. ASSUME NEW x \in Deletions, NEW u \in Uploads, LoadDocument(x, u)
     PROVE  KeysAreOfTarget'
  BY <1>11 DEF LoadDocument
<1>12. ASSUME NEW x \in Deletions, NEW p \in Projects, LoadProject(x, p)
     PROVE  KeysAreOfTarget'
  BY <1>12 DEF LoadProject
<1>13. ASSUME NEW x \in Deletions, CommitDeletion(x)
     PROVE  KeysAreOfTarget'
  BY <1>13 DEF CommitDeletion, RowsOf
<1>14. ASSUME NEW x \in Deletions, NEW u \in Uploads, UnlinkStored(x, u)
     PROVE  KeysAreOfTarget'
  BY <1>14 DEF UnlinkStored, Unlink
<1>15. ASSUME NEW x \in Deletions, FinishDeletion(x)
     PROVE  KeysAreOfTarget'
  BY <1>15 DEF FinishDeletion
<1>16. ASSUME NEW h \in Handlers, RemoveDirectory(h)
     PROVE  KeysAreOfTarget'
  BY <1>16 DEF RemoveDirectory
<1>17. ASSUME NEW h \in Handlers, Die(h)
     PROVE  KeysAreOfTarget'
  BY <1>17 DEF Die
<1>18. ASSUME NEW u \in Uploads, MissParent(u)
     PROVE  KeysAreOfTarget'
  BY <1>18 DEF MissParent
<1>19. ASSUME NEW u \in Uploads, FailDirectory(u)
     PROVE  KeysAreOfTarget'
  BY <1>19 DEF FailDirectory
<1>20. ASSUME NEW u \in Uploads, FailTemporary(u)
     PROVE  KeysAreOfTarget'
  BY <1>20 DEF FailTemporary
<1>21. ASSUME NEW u \in Uploads, RaiseInFormat(u)
     PROVE  KeysAreOfTarget'
  BY <1>21 DEF RaiseInFormat
<1>22. ASSUME NEW u \in Uploads, LoseCommit(u)
     PROVE  KeysAreOfTarget'
  BY <1>22 DEF LoseCommit, Unlink
<1>23. CASE UNCHANGED vars
  BY <1>23 DEF vars
<1> QED
  BY <1>1, <1>2, <1>3, <1>4, <1>5, <1>6, <1>7, <1>8, <1>9, <1>10, <1>11,
     <1>12, <1>13, <1>14, <1>15, <1>16, <1>17, <1>18, <1>19, <1>20, <1>21, <1>22, <1>23
     DEF Next, Upload, Load,
     Delete

\* The rows of listed keys are gone when their files are unlinked, and none comes back.
LEMMA UnlinkedStep ==
    ASSUME TypeOK, UploadsAreUnlisted, KeysAreOfTarget, UnlinkedHasNoRow, [Next]_vars
    PROVE  UnlinkedHasNoRow'
<1> USE StorageAssumption, NoneAssumption DEF TypeOK, UploadsAreUnlisted, KeysAreOfTarget, UnlinkedHasNoRow, At, Goto, databaseVars, diskVars
<1>1. ASSUME NEW u \in Uploads, CheckProject(u)
     PROVE  UnlinkedHasNoRow'
  BY <1>1 DEF CheckProject
<1>2. ASSUME NEW u \in Uploads, MakeDirectory(u)
     PROVE  UnlinkedHasNoRow'
  BY <1>2 DEF MakeDirectory
<1>3. ASSUME NEW u \in Uploads, MakeParent(u)
     PROVE  UnlinkedHasNoRow'
  BY <1>3 DEF MakeParent
<1>4. ASSUME NEW u \in Uploads, CreateTemporary(u)
     PROVE  UnlinkedHasNoRow'
  BY <1>4 DEF CreateTemporary
<1>5. ASSUME NEW u \in Uploads, AbandonTemporary(u)
     PROVE  UnlinkedHasNoRow'
  BY <1>5 DEF AbandonTemporary
<1>6. ASSUME NEW u \in Uploads, ReplaceTarget(u)
     PROVE  UnlinkedHasNoRow'
  BY <1>6 DEF ReplaceTarget
<1>7. ASSUME NEW u \in Uploads, AcceptFormat(u)
     PROVE  UnlinkedHasNoRow'
  BY <1>7 DEF AcceptFormat
<1>8. ASSUME NEW u \in Uploads, RefuseFormat(u)
     PROVE  UnlinkedHasNoRow'
  BY <1>8 DEF RefuseFormat, Unlink
<1>9. ASSUME NEW u \in Uploads, CommitRow(u)
     PROVE  UnlinkedHasNoRow'
  BY <1>9 DEF CommitRow
<1>10. ASSUME NEW u \in Uploads, RefuseRow(u)
     PROVE  UnlinkedHasNoRow'
  BY <1>10 DEF RefuseRow, Unlink
<1>11. ASSUME NEW x \in Deletions, NEW u \in Uploads, LoadDocument(x, u)
     PROVE  UnlinkedHasNoRow'
  BY <1>11 DEF LoadDocument
<1>12. ASSUME NEW x \in Deletions, NEW p \in Projects, LoadProject(x, p)
     PROVE  UnlinkedHasNoRow'
  BY <1>12 DEF LoadProject
<1>13. ASSUME NEW x \in Deletions, CommitDeletion(x)
     PROVE  UnlinkedHasNoRow'
  BY <1>13 DEF CommitDeletion, RowsOf
<1>14. ASSUME NEW x \in Deletions, NEW u \in Uploads, UnlinkStored(x, u)
     PROVE  UnlinkedHasNoRow'
  BY <1>14 DEF UnlinkStored, Unlink
<1>15. ASSUME NEW x \in Deletions, FinishDeletion(x)
     PROVE  UnlinkedHasNoRow'
  BY <1>15 DEF FinishDeletion
<1>16. ASSUME NEW h \in Handlers, RemoveDirectory(h)
     PROVE  UnlinkedHasNoRow'
  BY <1>16 DEF RemoveDirectory
<1>17. ASSUME NEW h \in Handlers, Die(h)
     PROVE  UnlinkedHasNoRow'
  BY <1>17 DEF Die
<1>18. ASSUME NEW u \in Uploads, MissParent(u)
     PROVE  UnlinkedHasNoRow'
  BY <1>18 DEF MissParent
<1>19. ASSUME NEW u \in Uploads, FailDirectory(u)
     PROVE  UnlinkedHasNoRow'
  BY <1>19 DEF FailDirectory
<1>20. ASSUME NEW u \in Uploads, FailTemporary(u)
     PROVE  UnlinkedHasNoRow'
  BY <1>20 DEF FailTemporary
<1>21. ASSUME NEW u \in Uploads, RaiseInFormat(u)
     PROVE  UnlinkedHasNoRow'
  BY <1>21 DEF RaiseInFormat
<1>22. ASSUME NEW u \in Uploads, LoseCommit(u)
     PROVE  UnlinkedHasNoRow'
  BY <1>22 DEF LoseCommit, Unlink
<1>23. CASE UNCHANGED vars
  BY <1>23 DEF vars
<1> QED
  BY <1>1, <1>2, <1>3, <1>4, <1>5, <1>6, <1>7, <1>8, <1>9, <1>10, <1>11,
     <1>12, <1>13, <1>14, <1>15, <1>16, <1>17, <1>18, <1>19, <1>20, <1>21, <1>22, <1>23
     DEF Next, Upload, Load,
     Delete

\* No step separates a row from its file.
LEMMA FilesStep ==
    ASSUME TypeOK, UploadsAreUnlisted, UnlinkedHasNoRow, RowsHaveFiles, [Next]_vars
    PROVE  RowsHaveFiles'
<1> USE StorageAssumption, NoneAssumption DEF TypeOK, UploadsAreUnlisted, UnlinkedHasNoRow, RowsHaveFiles, At, Goto, databaseVars, diskVars
<1>1. ASSUME NEW u \in Uploads, CheckProject(u)
     PROVE  RowsHaveFiles'
  BY <1>1 DEF CheckProject
<1>2. ASSUME NEW u \in Uploads, MakeDirectory(u)
     PROVE  RowsHaveFiles'
  BY <1>2 DEF MakeDirectory
<1>3. ASSUME NEW u \in Uploads, MakeParent(u)
     PROVE  RowsHaveFiles'
  BY <1>3 DEF MakeParent
<1>4. ASSUME NEW u \in Uploads, CreateTemporary(u)
     PROVE  RowsHaveFiles'
  BY <1>4 DEF CreateTemporary
<1>5. ASSUME NEW u \in Uploads, AbandonTemporary(u)
     PROVE  RowsHaveFiles'
  BY <1>5 DEF AbandonTemporary
<1>6. ASSUME NEW u \in Uploads, ReplaceTarget(u)
     PROVE  RowsHaveFiles'
  BY <1>6 DEF ReplaceTarget
<1>7. ASSUME NEW u \in Uploads, AcceptFormat(u)
     PROVE  RowsHaveFiles'
  BY <1>7 DEF AcceptFormat
<1>8. ASSUME NEW u \in Uploads, RefuseFormat(u)
     PROVE  RowsHaveFiles'
  BY <1>8 DEF RefuseFormat, Unlink
<1>9. ASSUME NEW u \in Uploads, CommitRow(u)
     PROVE  RowsHaveFiles'
  BY <1>9 DEF CommitRow
<1>10. ASSUME NEW u \in Uploads, RefuseRow(u)
     PROVE  RowsHaveFiles'
  BY <1>10 DEF RefuseRow, Unlink
<1>11. ASSUME NEW x \in Deletions, NEW u \in Uploads, LoadDocument(x, u)
     PROVE  RowsHaveFiles'
  BY <1>11 DEF LoadDocument
<1>12. ASSUME NEW x \in Deletions, NEW p \in Projects, LoadProject(x, p)
     PROVE  RowsHaveFiles'
  BY <1>12 DEF LoadProject
<1>13. ASSUME NEW x \in Deletions, CommitDeletion(x)
     PROVE  RowsHaveFiles'
  BY <1>13 DEF CommitDeletion, RowsOf
<1>14. ASSUME NEW x \in Deletions, NEW u \in Uploads, UnlinkStored(x, u)
     PROVE  RowsHaveFiles'
  BY <1>14 DEF UnlinkStored, Unlink
<1>15. ASSUME NEW x \in Deletions, FinishDeletion(x)
     PROVE  RowsHaveFiles'
  BY <1>15 DEF FinishDeletion
<1>16. ASSUME NEW h \in Handlers, RemoveDirectory(h)
     PROVE  RowsHaveFiles'
  BY <1>16 DEF RemoveDirectory
<1>17. ASSUME NEW h \in Handlers, Die(h)
     PROVE  RowsHaveFiles'
  BY <1>17 DEF Die
<1>18. ASSUME NEW u \in Uploads, MissParent(u)
     PROVE  RowsHaveFiles'
  BY <1>18 DEF MissParent
<1>19. ASSUME NEW u \in Uploads, FailDirectory(u)
     PROVE  RowsHaveFiles'
  BY <1>19 DEF FailDirectory
<1>20. ASSUME NEW u \in Uploads, FailTemporary(u)
     PROVE  RowsHaveFiles'
  BY <1>20 DEF FailTemporary
<1>21. ASSUME NEW u \in Uploads, RaiseInFormat(u)
     PROVE  RowsHaveFiles'
  BY <1>21 DEF RaiseInFormat
<1>22. ASSUME NEW u \in Uploads, LoseCommit(u)
     PROVE  RowsHaveFiles'
  BY <1>22 DEF LoseCommit, Unlink
<1>23. CASE UNCHANGED vars
  BY <1>23 DEF vars
<1> QED
  BY <1>1, <1>2, <1>3, <1>4, <1>5, <1>6, <1>7, <1>8, <1>9, <1>10, <1>11,
     <1>12, <1>13, <1>14, <1>15, <1>16, <1>17, <1>18, <1>19, <1>20, <1>21, <1>22, <1>23
     DEF Next, Upload, Load,
     Delete

\* Who leaves a file without a row behind goes on to remove it or to commit the row.
LEMMA AccountedStep ==
    ASSUME TypeOK, KeysAreOfTarget, FilesAreAccounted, [Next]_vars
    PROVE  FilesAreAccounted'
<1> USE StorageAssumption, NoneAssumption DEF TypeOK, KeysAreOfTarget, FilesAreAccounted, At, Goto, databaseVars, diskVars
<1>1. ASSUME NEW u \in Uploads, CheckProject(u)
     PROVE  FilesAreAccounted'
  BY <1>1 DEF CheckProject
<1>2. ASSUME NEW u \in Uploads, MakeDirectory(u)
     PROVE  FilesAreAccounted'
  BY <1>2 DEF MakeDirectory
<1>3. ASSUME NEW u \in Uploads, MakeParent(u)
     PROVE  FilesAreAccounted'
  BY <1>3 DEF MakeParent
<1>4. ASSUME NEW u \in Uploads, CreateTemporary(u)
     PROVE  FilesAreAccounted'
  BY <1>4 DEF CreateTemporary
<1>5. ASSUME NEW u \in Uploads, AbandonTemporary(u)
     PROVE  FilesAreAccounted'
  BY <1>5 DEF AbandonTemporary
<1>6. ASSUME NEW u \in Uploads, ReplaceTarget(u)
     PROVE  FilesAreAccounted'
  BY <1>6 DEF ReplaceTarget
<1>7. ASSUME NEW u \in Uploads, AcceptFormat(u)
     PROVE  FilesAreAccounted'
  BY <1>7 DEF AcceptFormat
<1>8. ASSUME NEW u \in Uploads, RefuseFormat(u)
     PROVE  FilesAreAccounted'
  BY <1>8 DEF RefuseFormat, Unlink
<1>9. ASSUME NEW u \in Uploads, CommitRow(u)
     PROVE  FilesAreAccounted'
  BY <1>9 DEF CommitRow
<1>10. ASSUME NEW u \in Uploads, RefuseRow(u)
     PROVE  FilesAreAccounted'
  BY <1>10 DEF RefuseRow, Unlink
<1>11. ASSUME NEW x \in Deletions, NEW u \in Uploads, LoadDocument(x, u)
     PROVE  FilesAreAccounted'
  BY <1>11 DEF LoadDocument
<1>12. ASSUME NEW x \in Deletions, NEW p \in Projects, LoadProject(x, p)
     PROVE  FilesAreAccounted'
  BY <1>12 DEF LoadProject
<1>13. ASSUME NEW x \in Deletions, CommitDeletion(x)
     PROVE  FilesAreAccounted'
  BY <1>13 DEF CommitDeletion, RowsOf
<1>14. ASSUME NEW x \in Deletions, NEW u \in Uploads, UnlinkStored(x, u)
     PROVE  FilesAreAccounted'
  BY <1>14 DEF UnlinkStored, Unlink
<1>15. ASSUME NEW x \in Deletions, FinishDeletion(x)
     PROVE  FilesAreAccounted'
  BY <1>15 DEF FinishDeletion
<1>16. ASSUME NEW h \in Handlers, RemoveDirectory(h)
     PROVE  FilesAreAccounted'
  BY <1>16 DEF RemoveDirectory
<1>17. ASSUME NEW h \in Handlers, Die(h)
     PROVE  FilesAreAccounted'
  BY <1>17 DEF Die
<1>18. ASSUME NEW u \in Uploads, MissParent(u)
     PROVE  FilesAreAccounted'
  BY <1>18 DEF MissParent
<1>19. ASSUME NEW u \in Uploads, FailDirectory(u)
     PROVE  FilesAreAccounted'
  BY <1>19 DEF FailDirectory
<1>20. ASSUME NEW u \in Uploads, FailTemporary(u)
     PROVE  FilesAreAccounted'
  BY <1>20 DEF FailTemporary
<1>21. ASSUME NEW u \in Uploads, RaiseInFormat(u)
     PROVE  FilesAreAccounted'
  BY <1>21 DEF RaiseInFormat
<1>22. ASSUME NEW u \in Uploads, LoseCommit(u)
     PROVE  FilesAreAccounted'
  BY <1>22 DEF LoseCommit, Unlink
<1>23. CASE UNCHANGED vars
  BY <1>23 DEF vars
<1> QED
  BY <1>1, <1>2, <1>3, <1>4, <1>5, <1>6, <1>7, <1>8, <1>9, <1>10, <1>11,
     <1>12, <1>13, <1>14, <1>15, <1>16, <1>17, <1>18, <1>19, <1>20, <1>21, <1>22, <1>23
     DEF Next, Upload, Load,
     Delete

\* Who empties a directory goes on to remove it.
LEMMA VisitedStep ==
    ASSUME TypeOK, EmptyDirectoriesAreVisited, [Next]_vars
    PROVE  EmptyDirectoriesAreVisited'
<1> USE StorageAssumption, NoneAssumption DEF TypeOK, EmptyDirectoriesAreVisited, Entries, At, Goto, databaseVars, diskVars
<1>1. ASSUME NEW u \in Uploads, CheckProject(u)
     PROVE  EmptyDirectoriesAreVisited'
  BY <1>1 DEF CheckProject
<1>2. ASSUME NEW u \in Uploads, MakeDirectory(u)
     PROVE  EmptyDirectoriesAreVisited'
  BY <1>2 DEF MakeDirectory
<1>3. ASSUME NEW u \in Uploads, MakeParent(u)
     PROVE  EmptyDirectoriesAreVisited'
  BY <1>3 DEF MakeParent
<1>4. ASSUME NEW u \in Uploads, CreateTemporary(u)
     PROVE  EmptyDirectoriesAreVisited'
  BY <1>4 DEF CreateTemporary
<1>5. ASSUME NEW u \in Uploads, AbandonTemporary(u)
     PROVE  EmptyDirectoriesAreVisited'
  BY <1>5 DEF AbandonTemporary
<1>6. ASSUME NEW u \in Uploads, ReplaceTarget(u)
     PROVE  EmptyDirectoriesAreVisited'
  BY <1>6 DEF ReplaceTarget
<1>7. ASSUME NEW u \in Uploads, AcceptFormat(u)
     PROVE  EmptyDirectoriesAreVisited'
  BY <1>7 DEF AcceptFormat
<1>8. ASSUME NEW u \in Uploads, RefuseFormat(u)
     PROVE  EmptyDirectoriesAreVisited'
  BY <1>8 DEF RefuseFormat, Unlink
<1>9. ASSUME NEW u \in Uploads, CommitRow(u)
     PROVE  EmptyDirectoriesAreVisited'
  BY <1>9 DEF CommitRow
<1>10. ASSUME NEW u \in Uploads, RefuseRow(u)
     PROVE  EmptyDirectoriesAreVisited'
  BY <1>10 DEF RefuseRow, Unlink
<1>11. ASSUME NEW x \in Deletions, NEW u \in Uploads, LoadDocument(x, u)
     PROVE  EmptyDirectoriesAreVisited'
  BY <1>11 DEF LoadDocument
<1>12. ASSUME NEW x \in Deletions, NEW p \in Projects, LoadProject(x, p)
     PROVE  EmptyDirectoriesAreVisited'
  BY <1>12 DEF LoadProject
<1>13. ASSUME NEW x \in Deletions, CommitDeletion(x)
     PROVE  EmptyDirectoriesAreVisited'
  BY <1>13 DEF CommitDeletion, RowsOf
<1>14. ASSUME NEW x \in Deletions, NEW u \in Uploads, UnlinkStored(x, u)
     PROVE  EmptyDirectoriesAreVisited'
  BY <1>14 DEF UnlinkStored, Unlink
<1>15. ASSUME NEW x \in Deletions, FinishDeletion(x)
     PROVE  EmptyDirectoriesAreVisited'
  BY <1>15 DEF FinishDeletion
<1>16. ASSUME NEW h \in Handlers, RemoveDirectory(h)
     PROVE  EmptyDirectoriesAreVisited'
  <2>1. CASE prune[h] \in dirs /\ Entries(prune[h]) = {}
    <3>1. dirs' = dirs \ {prune[h]} /\ prune' = [prune EXCEPT ![h] = Parent(@)]
      BY <1>16, <2>1 DEF RemoveDirectory
    <3>2. SUFFICES ASSUME crashes' = 0, NEW d \in dirs', Entries(d)' = {},
                          \A i \in Handlers : prune'[i] # d
                   PROVE  \/ \E u \in Uploads : project'[u] = d /\ pc'[u] = "temporary"
                          \/ d = Owner /\ \E u \in Uploads : pc'[u] \in {"retry", "unmade"}
      BY DEF EmptyDirectoriesAreVisited
    <3>3. prune[h] = Owner \/ (prune[h] \in Projects /\ prune'[h] = Owner)
      BY <3>1, <2>1, <1>16 DEF Parent, RemoveDirectory
    <3>4. d # prune[h] /\ d \in dirs
      BY <3>1
    <3>5. Entries(d) = {}
      BY <3>1, <3>2, <3>3, <3>4, <1>16 DEF RemoveDirectory
    <3>6. \A i \in Handlers : prune[i] # d
      BY <3>1, <3>2, <3>4
    <3> QED
      BY <3>2, <3>4, <3>5, <3>6, <1>16 DEF RemoveDirectory
  <2>2. CASE ~(prune[h] \in dirs /\ Entries(prune[h]) = {})
    BY <1>16, <2>2 DEF RemoveDirectory
  <2> QED
    BY <2>1, <2>2
<1>17. ASSUME NEW h \in Handlers, Die(h)
     PROVE  EmptyDirectoriesAreVisited'
  BY <1>17 DEF Die
<1>18. ASSUME NEW u \in Uploads, MissParent(u)
     PROVE  EmptyDirectoriesAreVisited'
  BY <1>18 DEF MissParent
<1>19. ASSUME NEW u \in Uploads, FailDirectory(u)
     PROVE  EmptyDirectoriesAreVisited'
  BY <1>19 DEF FailDirectory
<1>20. ASSUME NEW u \in Uploads, FailTemporary(u)
     PROVE  EmptyDirectoriesAreVisited'
  BY <1>20 DEF FailTemporary
<1>21. ASSUME NEW u \in Uploads, RaiseInFormat(u)
     PROVE  EmptyDirectoriesAreVisited'
  BY <1>21 DEF RaiseInFormat
<1>22. ASSUME NEW u \in Uploads, LoseCommit(u)
     PROVE  EmptyDirectoriesAreVisited'
  BY <1>22 DEF LoseCommit, Unlink
<1>23. CASE UNCHANGED vars
  BY <1>23 DEF vars
<1> QED
  BY <1>1, <1>2, <1>3, <1>4, <1>5, <1>6, <1>7, <1>8, <1>9, <1>10, <1>11,
     <1>12, <1>13, <1>14, <1>15, <1>16, <1>17, <1>18, <1>19, <1>20, <1>21, <1>22, <1>23
     DEF Next, Upload, Load,
     Delete

\* The strengthened invariant is inductive.
THEOREM StorageInvariant == Spec => []StorageInv
<1>1. Init => UploadsAreUnlisted /\ KeysAreOfTarget /\ UnlinkedHasNoRow /\ RowsHaveFiles
  BY DEF Init, UploadsAreUnlisted, KeysAreOfTarget, UnlinkedHasNoRow, RowsHaveFiles
<1>2. Init => FilesAreAccounted /\ EmptyDirectoriesAreVisited
  BY DEF Init, FilesAreAccounted, EmptyDirectoriesAreVisited
<1>3. ASSUME TypeOK, UploadsAreUnlisted, KeysAreOfTarget, UnlinkedHasNoRow, RowsHaveFiles,
             FilesAreAccounted, EmptyDirectoriesAreVisited, [Next]_vars
     PROVE  /\ UploadsAreUnlisted' /\ KeysAreOfTarget' /\ UnlinkedHasNoRow' /\ RowsHaveFiles'
            /\ FilesAreAccounted' /\ EmptyDirectoriesAreVisited'
  BY <1>3, UnlistedStep, KeysStep, UnlinkedStep, FilesStep, AccountedStep, VisitedStep
<1> QED
  BY <1>1, <1>2, <1>3, TypeCorrect, PTL DEF Spec, StorageInv

\* A document whose upload succeeded has its file for as long as its row, whatever
\* uploads and deletions run at the same time and whichever handlers die.
THEOREM RowsKeepTheirFiles == Spec => []RowsHaveFiles
  BY StorageInvariant, PTL DEF StorageInv

\* As long as no handler dies, a file without a row is on its way in or out, of a
\* deleted project, or left by an exception of the format check.
THEOREM NoFileIsForgotten == Spec => []FilesAreAccounted
  BY StorageInvariant, PTL DEF StorageInv

\* As long as no handler dies, an empty directory is about to be used or removed,
\* however many handlers prune at once and whichever step of an upload fails; only the
\* owner's may stay, when the first project's in it could not be made.
THEOREM NoDirectoryIsForgotten == Spec => []EmptyDirectoriesAreVisited
  BY StorageInvariant, PTL DEF StorageInv
=============================================================================
