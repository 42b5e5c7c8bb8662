---------------------- MODULE AppManager_disk_proofs ----------------------
(***************************************************************************)
(* What AppManager's operations leave on disk as long as no call on the    *)
(* file system fails: no mixed directory, no litter, and the installed     *)
(* version of every app that has a record.                                 *)
(***************************************************************************)
EXTENDS AppManager_proofs

-----------------------------------------------------------------------------
(* The steps of the file system when none of its calls has failed          *)

LEMMA SoundInstaller ==
  ASSUME StorageTypeOK, InstallerTypeOK, NoFaultYet', NEW a \in Apps, NEW v, NEW c
  PROVE  /\ BeginStaging(a, v) =>
              staging' = [staging EXCEPT ![a] = FreshDir(v)] /\ installed' = installed
         /\ ExtractEntry(a, c) \/ ArchiveEnds(a, c) \/ ExtractionStops \/ ExtractionFails(c) =>
              /\ \E s \in {staging[a].state, "whole", "rogue"} :
                    staging' = [staging EXCEPT ![a].state = s]
              /\ installed' = installed
         /\ DiscardStaging(a) =>
              staging' = [staging EXCEPT ![a] = NoDir] /\ installed' = installed
         /\ RemoveOld(a) =>
              installed' = [installed EXCEPT ![a] = NoDir] /\ staging' = staging
         /\ WriteMarker(a, v) =>
              installed' = [installed EXCEPT ![a].marker = v] /\ staging' = staging
         /\ RemoveInstalled(a, TRUE) =>
              installed' = [installed EXCEPT ![a] = NoDir] /\ staging' = staging
         /\ ~RemoveInstalled(a, FALSE)
<1>f. \A fails \in BOOLEAN : Mutation(fails) => ~fails
  BY MutationTyped
<1>1. ASSUME BeginStaging(a, v)
      PROVE  staging' = [staging EXCEPT ![a] = FreshDir(v)] /\ installed' = installed
  <2>1. PICK d \in Dir :
           /\ IF Present(staging[a]) THEN RemoveAll(staging[a], d) ELSE d = NoDir
           /\ staging' = [staging EXCEPT ![a] = IF Present(d) THEN Overlaid(d, v) ELSE FreshDir(v)]
    BY <1>1 DEF BeginStaging
  <2>2. d = NoDir
    BY <2>1, <1>f DEF RemoveAll, RemainsOf
  <2>3. ~Present(d)
    BY <2>2 DEF Present, NoDir
  <2>q. QED BY <1>1, <2>1, <2>3 DEF BeginStaging
<1>2. ASSUME ExtractEntry(a, c)
      PROVE  /\ \E s \in {staging[a].state, "whole", "rogue"} :
                   staging' = [staging EXCEPT ![a].state = s]
             /\ installed' = installed
  <2>1. PICK fails \in BOOLEAN :
           /\ Mutation(fails)
           /\ staging' = [staging EXCEPT ![a].state =
                            IF c # "good" THEN "rogue"
                            ELSE IF fails /\ @ = "part" THEN "mixed" ELSE @]
    BY <1>2 DEF ExtractEntry
  <2>2. ~fails
    BY <2>1, <1>f
  <2>3. CASE c = "good"
    BY <2>1, <2>2, <2>3, <1>2 DEF ExtractEntry
  <2>4. CASE c # "good"
    BY <2>1, <2>4, <1>2 DEF ExtractEntry
  <2>q. QED BY <2>3, <2>4
<1>3. ASSUME ArchiveEnds(a, c)
      PROVE  /\ \E s \in {staging[a].state, "whole", "rogue"} :
                   staging' = [staging EXCEPT ![a].state = s]
             /\ installed' = installed
  BY <1>3 DEF ArchiveEnds
<1>4. ASSUME ExtractionStops \/ ExtractionFails(c)
      PROVE  /\ \E s \in {staging[a].state, "whole", "rogue"} :
                   staging' = [staging EXCEPT ![a].state = s]
             /\ installed' = installed
  BY <1>4 DEF ExtractionStops, ExtractionFails, installerVars, InstallerTypeOK, Dir
<1>5. ASSUME DiscardStaging(a)
      PROVE  staging' = [staging EXCEPT ![a] = NoDir] /\ installed' = installed
  BY <1>5, <1>f DEF DiscardStaging, RemoveAll, RemainsOf
<1>6. ASSUME RemoveOld(a)
      PROVE  installed' = [installed EXCEPT ![a] = NoDir] /\ staging' = staging
  BY <1>6, <1>f DEF RemoveOld, RemoveAll, RemainsOf
<1>7. ASSUME WriteMarker(a, v)
      PROVE  installed' = [installed EXCEPT ![a].marker = v] /\ staging' = staging
  BY <1>7, <1>f DEF WriteMarker
<1>8. ASSUME RemoveInstalled(a, TRUE)
      PROVE  installed' = [installed EXCEPT ![a] = NoDir] /\ staging' = staging
  BY <1>8 DEF RemoveInstalled, RemainsOf
<1>9. ~RemoveInstalled(a, FALSE)
  BY <1>f DEF RemoveInstalled
<1>q. QED BY <1>1, <1>2, <1>3, <1>4, <1>5, <1>6, <1>7, <1>8, <1>9

LEMMA SoundDrop ==
  ASSUME StorageTypeOK, NoFaultYet', DropPackage
  PROVE  files' = [files EXCEPT ![PkgPath] = "absent"]
BY MutationTyped DEF DropPackage

\* An attempt that ends without a result has removed its file.
LEMMA SoundTransfer ==
  ASSUME StorageTypeOK, HttpTypeOK, NoFaultYet', NEW p \in Paths
  PROVE  /\ OpenDestination(p) => transfer'.phase = "trying"
         /\ TransferStep(p) =>
              /\ transfer.phase = "trying"
              /\ transfer'.phase = "failed" => files'[p] = "absent"
<1>f. \A fails \in BOOLEAN : Mutation(fails) => ~fails
  BY MutationTyped
<1>1. ASSUME OpenDestination(p) PROVE transfer'.phase = "trying"
  BY <1>1, <1>f DEF OpenDestination, NoTransfer
<1>2. ASSUME Deliver(p) PROVE transfer.phase = "trying" /\ transfer'.phase = "ok"
  BY <1>2 DEF Deliver, HttpTypeOK, Transfers
<1>3. ASSUME HttpError(p) \/ Abandon(p) PROVE transfer.phase = "trying" /\ files'[p] = "absent"
  BY <1>3, <1>f DEF HttpError, Abandon, DropPartial, HttpTypeOK
<1>4. ASSUME RetryTransfer PROVE transfer.phase = "trying" /\ transfer'.phase = "trying"
  <2>1. PICK writeFailed \in BOOLEAN :
           transfer' = [transfer EXCEPT !.attempt = @ + 1,
                                        !.rewound = IF writeFailed THEN FALSE ELSE @]
    BY <1>4 DEF RetryTransfer
  <2>q. QED BY <1>4, <2>1 DEF RetryTransfer, HttpTypeOK, Transfers
<1>q. QED BY <1>1, <1>2, <1>3, <1>4 DEF TransferStep

-----------------------------------------------------------------------------
(* What is on disk while an operation runs                                 *)

\* A staging directory belongs to the running install, between its creation
\* and the swap; so does a package, from its download until it is dropped, and
\* a download that failed has left none.
LitterOK ==
  NoFaultYet /\ FirstProcess =>
    /\ \A a \in Apps :
         Present(staging[a]) => a = job.app /\ pc \in {"extract", "extracted", "removeOld", "rename"}
    /\ \A p \in Paths :
         files[p] # "absent" => p = PkgPath /\ pc \in InstallPoints \ {"download"}
    /\ pc = "transfer" /\ transfer.phase = "failed" => files[PkgPath] = "absent"

\* The files of the app have changed and its record follows.
Swapping(a) == /\ a = job.app
               /\ pc \in {"rename", "mark", "dropPackage", "register"}
               /\ outcome # "failed"

RecordOK ==
  NoFaultYet /\ FirstProcess =>
    \A a \in Apps : IsInstalled(a) /\ ~Swapping(a) => installed[a].version = records[a]

DiskInv == NoMixedInstall /\ LitterOK /\ RecordOK

-----------------------------------------------------------------------------
(* The steps of the package manager                                        *)

\* What the steps do to the directories and the package when nothing fails.
LEMMA SoundPackage ==
  ASSUME IInv, NoFaultYet', PackageStep
  PROVE  /\ NoFaultYet /\ job.app \in Apps
         /\ Stage =>
              /\ staging' = [staging EXCEPT ![job.app] = FreshDir(job.version)]
              /\ installed' = installed
         /\ Extract \/ ExtractReturns \/ ExtractErrs =>
              /\ \E s \in {staging[job.app].state, "whole", "rogue"} :
                    staging' = [staging EXCEPT ![job.app].state = s]
              /\ installed' = installed
         /\ AbandonStaging =>
              staging' = [staging EXCEPT ![job.app] = NoDir] /\ installed' = installed
         /\ RemoveOldInstall \/ FilesRemoved =>
              installed' = [installed EXCEPT ![job.app] = NoDir] /\ staging' = staging
         /\ Rename =>
              /\ installed' = [installed EXCEPT ![job.app] = staging[job.app]]
              /\ staging' = [staging EXCEPT ![job.app] = NoDir]
         /\ Mark =>
              /\ installed' = [installed EXCEPT ![job.app].marker = job.version]
              /\ staging' = staging
         /\ CancelledDownload \/ VerifyRejects \/ CancelledVerify \/ DropInstalledPackage =>
              files' = [files EXCEPT ![PkgPath] = "absent"]
         /\ ~RenameFails /\ ~FilesNotRemoved /\ ~VerifyCannotRead
<1>0. StorageTypeOK /\ InstallerTypeOK /\ HttpTypeOK
  BY DEF IInv, TypeOK
<1>1. NoFaultYet
  BY PackageTyped DEF IInv, TypeOK, StorageStep
<1>2. job.app \in Apps
  BY PackageWorks, JobTyped DEF IInv
<1>3. ASSUME Stage
      PROVE  /\ staging' = [staging EXCEPT ![job.app] = FreshDir(job.version)]
             /\ installed' = installed
  BY <1>0, <1>2, <1>3, SoundInstaller DEF Stage
<1>4. ASSUME Extract \/ ExtractReturns \/ ExtractErrs
      PROVE  /\ \E s \in {staging[job.app].state, "whole", "rogue"} :
                   staging' = [staging EXCEPT ![job.app].state = s]
             /\ installed' = installed
  BY <1>0, <1>2, <1>4, SoundInstaller DEF Extract, ExtractReturns, ExtractErrs
<1>5. ASSUME AbandonStaging
      PROVE  staging' = [staging EXCEPT ![job.app] = NoDir] /\ installed' = installed
  BY <1>0, <1>2, <1>5, SoundInstaller DEF AbandonStaging
<1>6. ASSUME RemoveOldInstall \/ FilesRemoved
      PROVE  installed' = [installed EXCEPT ![job.app] = NoDir] /\ staging' = staging
  BY <1>0, <1>2, <1>6, SoundInstaller DEF RemoveOldInstall, FilesRemoved
<1>7. ASSUME Rename
      PROVE  /\ installed' = [installed EXCEPT ![job.app] = staging[job.app]]
             /\ staging' = [staging EXCEPT ![job.app] = NoDir]
  BY <1>7 DEF Rename, MoveIn
<1>8. ASSUME Mark
      PROVE  /\ installed' = [installed EXCEPT ![job.app].marker = job.version]
             /\ staging' = staging
  BY <1>0, <1>2, <1>8, SoundInstaller DEF Mark
<1>9. ASSUME CancelledDownload \/ VerifyRejects \/ CancelledVerify \/ DropInstalledPackage
      PROVE  files' = [files EXCEPT ![PkgPath] = "absent"]
  BY <1>0, <1>9, SoundDrop
     DEF CancelledDownload, VerifyRejects, CancelledVerify, DropInstalledPackage
<1>10. ~RenameFails
  <2>1. ASSUME RenameFails PROVE FALSE
    <3>1. ~Present(installed[job.app])
      BY <1>1, <2>1 DEF RenameFails, GotoWith, IInv, OldInstallOK, TracesOK, ControlOK, InstallPoints
    <3>2. faults' = faults
      BY <1>1 DEF NoFaultYet
    <3>q. QED BY <1>0, <1>2, <2>1, <3>1, <3>2, SwapKept DEF RenameFails
  <2>q. QED BY <2>1
<1>11. ~FilesNotRemoved
  BY <1>0, <1>2, SoundInstaller DEF FilesNotRemoved
<1>12. ~VerifyCannotRead
  BY <1>0, MaxFaultsIsNat DEF VerifyCannotRead, StorageTypeOK, NoFaultYet
<1>q. QED BY <1>1, <1>2, <1>3, <1>4, <1>5, <1>6, <1>7, <1>8, <1>9, <1>10, <1>11, <1>12

LEMMA UnmixedKept ==
  ASSUME IInv, NoMixedInstall, PackageStep
  PROVE  NoMixedInstall'
<1>1. SUFFICES ASSUME NoFaultYet', NEW a \in Apps
               PROVE  (staging'[a]).state # "mixed" /\ (installed'[a]).state # "mixed"
  BY DEF NoMixedInstall
<1>2. /\ \A b \in Apps : staging[b].state # "mixed" /\ installed[b].state # "mixed"
      /\ InstallerTypeOK /\ job.app \in Apps
  BY <1>1, SoundPackage DEF NoMixedInstall, IInv, TypeOK
<1>3. CASE UNCHANGED installerVars
  BY <1>2, <1>3 DEF installerVars
<1>4. CASE Stage
  BY <1>1, <1>2, <1>4, SoundPackage DEF InstallerTypeOK, FreshDir
<1>5. CASE Extract \/ ExtractReturns \/ ExtractErrs
  <2>1. PICK s \in {staging[job.app].state, "whole", "rogue"} :
           staging' = [staging EXCEPT ![job.app].state = s] /\ installed' = installed
    BY <1>1, <1>5, SoundPackage
  <2>q. QED BY <1>2, <2>1 DEF InstallerTypeOK, Dir
<1>6. CASE AbandonStaging \/ RemoveOldInstall \/ FilesRemoved \/ Rename
  BY <1>1, <1>2, <1>6, SoundPackage DEF InstallerTypeOK, NoDir
<1>7. CASE Mark
  <2>1. installed' = [installed EXCEPT ![job.app].marker = job.version] /\ staging' = staging
    BY <1>1, <1>7, SoundPackage
  <2>q. QED BY <1>2, <2>1 DEF InstallerTypeOK, Dir
<1>8. CASE RenameFails \/ FilesNotRemoved
  BY <1>1, <1>8, SoundPackage
<1>9. CASE BeginInstall \/ BeginDownload \/ Download \/ CancelledDownload
          \/ FailedDownload \/ CompleteDownload \/ VerifyRejects
          \/ VerifyPasses \/ VerifyCannotRead \/ CancelledVerify
          \/ EnterInstaller \/ KeepStaging \/ DropInstalledPackage
          \/ Register \/ BeginUninstall \/ FilesMissing \/ Unregister
          \/ SaveBegins \/ SaveFails \/ SaveEnds \/ Report
  BY <1>3, <1>9
     DEF BeginInstall, BeginDownload, Download, CancelledDownload,
         FailedDownload, CompleteDownload, VerifyRejects,
         VerifyPasses, VerifyCannotRead, CancelledVerify,
         EnterInstaller, KeepStaging, DropInstalledPackage, Register,
         BeginUninstall, FilesMissing, Unregister, SaveBegins,
         SaveFails, SaveEnds, Report
<1>q. QED BY <1>4, <1>5, <1>6, <1>7, <1>8, <1>9 DEF PackageStep

\* Staging directory and package belong to the install that made them.
LEMMA LitterKept ==
  ASSUME IInv, IInv', LitterOK, PackageStep, UNCHANGED mgrVars
  PROVE  LitterOK'
<1>1. SUFFICES ASSUME NoFaultYet', FirstProcess' PROVE LitterOK'
  BY DEF LitterOK
<1>2. NoFaultYet /\ FirstProcess /\ job.app \in Apps
  BY <1>1, SoundPackage DEF FirstProcess, mgrVars
<1>3. /\ StorageTypeOK /\ HttpTypeOK /\ InstallerTypeOK
      /\ pc \in InstallPoints => Installing /\ PkgPath \in Paths
  BY PackageWorks, JobTyped DEF IInv, TypeOK, ControlOK
<1>4. job' = job /\ PkgPath' = PkgPath
  BY DEF PackageStep, Goto, GotoWith, PkgPath, BeginInstall, Download, BeginUninstall, Report, opVars,
         BeginDownload, CancelledDownload, FailedDownload, CompleteDownload, VerifyRejects,
         VerifyPasses, VerifyCannotRead, CancelledVerify, EnterInstaller, Stage, Extract,
         ExtractReturns, ExtractErrs, AbandonStaging, KeepStaging, RemoveOldInstall, Rename,
         RenameFails, Mark, DropInstalledPackage, Register, FilesMissing, FilesRemoved,
         FilesNotRemoved, Unregister, SaveBegins, SaveFails, SaveEnds
<1>s. SUFFICES
        /\ \A a \in Apps :
             Present(staging'[a]) => a = job.app /\ pc' \in {"extract", "extracted", "removeOld", "rename"}
        /\ \A p \in Paths :
             files'[p] # "absent" => p = PkgPath /\ pc' \in InstallPoints \ {"download"}
        /\ pc' = "transfer" /\ (transfer').phase = "failed" => files'[PkgPath] = "absent"
  BY <1>4 DEF LitterOK, Present
<1>5. /\ \A a \in Apps :
           Present(staging[a]) => a = job.app /\ pc \in {"extract", "extracted", "removeOld", "rename"}
      /\ \A p \in Paths :
           files[p] # "absent" => p = PkgPath /\ pc \in InstallPoints \ {"download"}
      /\ pc = "transfer" /\ transfer.phase = "failed" => files[PkgPath] = "absent"
  BY <1>2 DEF LitterOK
<1> USE DEF InstallPoints, Goto, GotoWith
<1>6. CASE BeginDownload
  <2>1. /\ pc = "download" /\ pc' = "transfer" /\ UNCHANGED staging
        /\ PkgPath \in Paths /\ OpenDestination(PkgPath)
    BY <1>3, <1>6 DEF BeginDownload, installerVars
  <2>q. QED BY <1>1, <1>3, <1>5, <2>1, OpenStarts, SoundTransfer
<1>7. CASE Download
  <2>1. /\ pc = "transfer" /\ pc' = "transfer" /\ UNCHANGED staging
        /\ PkgPath \in Paths /\ TransferStep(PkgPath)
    BY <1>3, <1>7 DEF Download, opVars, installerVars
  <2>2. \A q \in Paths \ {PkgPath} : files'[q] = files[q]
    BY <1>3, <2>1 DEF TransferStep, Deliver, HttpError, Abandon, DropPartial, RetryTransfer, HttpTypeOK
  <2>q. QED BY <1>1, <1>3, <1>5, <2>1, <2>2, SoundTransfer
<1>8. CASE CancelledDownload \/ VerifyRejects \/ CancelledVerify \/ DropInstalledPackage
  <2>1. /\ files' = [files EXCEPT ![PkgPath] = "absent"]
        /\ UNCHANGED staging /\ pc' \in {"report", "register"}
        /\ pc \in {"transfer", "verify", "verified", "dropPackage"}
    BY <1>1, <1>8, SoundPackage
       DEF CancelledDownload, VerifyRejects, CancelledVerify, DropInstalledPackage, installerVars
  <2>q. QED BY <1>3, <1>5, <2>1 DEF HttpTypeOK
<1>9. CASE FailedDownload
  BY <1>5, <1>9 DEF FailedDownload, installerVars
<1>10. CASE Stage
  <2>1. /\ staging' = [staging EXCEPT ![job.app] = FreshDir(job.version)] /\ files' = files
        /\ pc = "stage" /\ pc' = "extract"
    BY <1>1, <1>10, SoundPackage DEF Stage, httpVars
  <2>q. QED BY <1>3, <1>5, <2>1 DEF InstallerTypeOK
<1>11. CASE Extract \/ ExtractReturns \/ ExtractErrs
  <2>1. /\ files' = files /\ pc = "extract" /\ pc' \in {"extract", "extracted"}
        /\ \E s \in {staging[job.app].state, "whole", "rogue"} :
              staging' = [staging EXCEPT ![job.app].state = s]
    BY <1>1, <1>11, SoundPackage DEF Extract, ExtractReturns, ExtractErrs, httpVars
  <2>q. QED BY <1>3, <1>5, <2>1 DEF InstallerTypeOK
<1>12. CASE AbandonStaging \/ Rename
  <2>1. /\ files' = files /\ staging' = [staging EXCEPT ![job.app] = NoDir]
        /\ pc \in {"extracted", "rename"} /\ pc' \in {"dropPackage", "mark"}
    BY <1>1, <1>12, SoundPackage DEF AbandonStaging, Rename, httpVars
  <2>q. QED BY <1>3, <1>5, <2>1 DEF InstallerTypeOK, NoDir, Present
<1>13. CASE RemoveOldInstall \/ Mark
  <2>1. UNCHANGED <<files, staging>>
    BY <1>1, <1>13, SoundPackage DEF RemoveOldInstall, Mark, httpVars
  <2>2. pc \in {"removeOld", "mark"} /\ pc' = IF pc = "mark" THEN "dropPackage" ELSE "rename"
    BY <1>13 DEF RemoveOldInstall, Mark
  <2>q. QED BY <1>5, <2>1, <2>2
<1>14. CASE FilesRemoved
  <2>1. UNCHANGED <<files, staging>> /\ pc = "removeFiles" /\ pc' = "register"
    BY <1>1, <1>14, SoundPackage DEF FilesRemoved, httpVars
  <2>q. QED BY <1>5, <2>1
<1>15. CASE RenameFails \/ FilesNotRemoved \/ VerifyCannotRead
  BY <1>1, <1>15, SoundPackage
<1>16. CASE BeginInstall \/ CompleteDownload \/ VerifyPasses \/ EnterInstaller \/ KeepStaging
            \/ Register \/ BeginUninstall \/ FilesMissing \/ Unregister
            \/ SaveBegins \/ SaveFails \/ SaveEnds \/ Report
  BY <1>5, <1>16
     DEF BeginInstall, CompleteDownload, VerifyPasses, EnterInstaller, KeepStaging, Register,
         BeginUninstall, FilesMissing, Unregister, SaveBegins, SaveFails, SaveEnds, Report,
         installerVars, httpVars
<1>q. QED BY <1>6, <1>7, <1>8, <1>9, <1>10, <1>11, <1>12, <1>13, <1>14, <1>15, <1>16 DEF PackageStep

LEMMA RecordKept ==
  ASSUME IInv, IInv', RecordOK, PackageStep, UNCHANGED mgrVars
  PROVE  RecordOK'
<1>1. SUFFICES ASSUME NoFaultYet', FirstProcess', NEW a \in Apps, IsInstalled(a)', ~Swapping(a)'
               PROVE  (installed'[a]).version = records'[a]
  BY DEF RecordOK
<1>2. /\ job.app \in Apps /\ InstallerTypeOK /\ DbTypeOK
      /\ IsInstalled(a) /\ ~Swapping(a) => installed[a].version = records[a]
  BY <1>1, SoundPackage DEF RecordOK, FirstProcess, mgrVars, IInv, TypeOK
<1> USE DEF IsInstalled, Swapping, Goto, GotoWith
\* A step that leaves files and records, and does not end a swap.
<1>3. ASSUME UNCHANGED <<installed, records, job>>, Swapping(a) => Swapping(a)'
      PROVE  installed'[a].version = records'[a]
  BY <1>1, <1>2, <1>3
<1>4. CASE Stage \/ Extract \/ ExtractReturns \/ ExtractErrs \/ AbandonStaging
  <2>1. installed' = installed
    BY <1>1, <1>4, SoundPackage
  <2>2. UNCHANGED <<records, job>> /\ pc \in {"stage", "extract", "extracted"}
    BY <1>4 DEF Stage, Extract, ExtractReturns, ExtractErrs, AbandonStaging, dbVars
  <2>q. QED BY <1>3, <2>1, <2>2
<1>5. CASE RemoveOldInstall \/ FilesRemoved
  <2>1. installed' = [installed EXCEPT ![job.app] = NoDir]
    BY <1>1, <1>5, SoundPackage
  <2>2. /\ UNCHANGED <<records, job, outcome>> /\ pc \in {"removeOld", "removeFiles"}
        /\ pc' \in {"rename", "register"}
    BY <1>5 DEF RemoveOldInstall, FilesRemoved, dbVars
  <2>3. outcome # "failed"
    BY <2>2 DEF IInv, OutcomeOK
  <2>q. QED BY <1>1, <1>2, <2>1, <2>2, <2>3 DEF InstallerTypeOK
<1>6. CASE Rename
  <2>1. installed' = [installed EXCEPT ![job.app] = staging[job.app]]
    BY <1>1, <1>6, SoundPackage
  <2>2. UNCHANGED <<records, job, outcome>> /\ pc = "rename" /\ pc' = "mark"
    BY <1>6 DEF Rename, dbVars
  <2>3. outcome # "failed"
    BY <2>2 DEF IInv, OutcomeOK
  <2>q. QED BY <1>1, <1>2, <2>1, <2>2, <2>3 DEF InstallerTypeOK
<1>7. CASE Mark
  <2>1. installed' = [installed EXCEPT ![job.app].marker = job.version]
    BY <1>1, <1>7, SoundPackage
  <2>2. UNCHANGED <<records, job, outcome>> /\ pc = "mark" /\ pc' = "dropPackage"
    BY <1>7 DEF Mark, dbVars
  <2>3. outcome # "failed"
    BY <2>2 DEF IInv, OutcomeOK
  <2>q. QED BY <1>1, <1>2, <2>1, <2>2, <2>3 DEF InstallerTypeOK
<1>8. CASE DropInstalledPackage
  BY <1>3, <1>8 DEF DropInstalledPackage, dbVars, installerVars
<1>9. CASE Register
  <2>1. /\ records' = [records EXCEPT ![job.app] = job.version]
        /\ UNCHANGED <<installed, job>> /\ pc = "register" /\ Installing
    BY <1>9 DEF Register, UpsertRecord, installerVars
  <2>2. installed[job.app].version = job.version
    BY <2>1 DEF IInv, NewInstallOK, OutcomeOK, RegisterPoints
  <2>q. QED BY <1>1, <1>2, <2>1, <2>2 DEF DbTypeOK, Records
<1>10. CASE Unregister
  <2>1. /\ records' = [records EXCEPT ![job.app] = None]
        /\ UNCHANGED <<installed, job>>
    BY <1>10 DEF Unregister, EraseRecord, installerVars
  <2>q. QED BY <1>1, <1>2, <2>1 DEF DbTypeOK, Records
<1>11. CASE RenameFails \/ FilesNotRemoved
  BY <1>1, <1>11, SoundPackage
<1>12. CASE SaveBegins \/ SaveFails \/ SaveEnds
  BY <1>3, <1>12
     DEF SaveBegins, SaveFails, SaveEnds, SaveOpens, SaveCannotOpen, SaveWrites, dbVars, installerVars
<1>13. CASE BeginInstall \/ BeginDownload \/ Download \/ CancelledDownload
          \/ FailedDownload \/ CompleteDownload \/ VerifyRejects
          \/ VerifyPasses \/ VerifyCannotRead \/ CancelledVerify
          \/ EnterInstaller \/ KeepStaging
          \/ BeginUninstall \/ FilesMissing \/ Report
  BY <1>3, <1>13
     DEF BeginInstall, BeginDownload, Download, CancelledDownload,
         FailedDownload, CompleteDownload, VerifyRejects,
         VerifyPasses, VerifyCannotRead, CancelledVerify,
         EnterInstaller, KeepStaging, BeginUninstall, FilesMissing, Report,
         dbVars, installerVars, opVars
<1>q. QED BY <1>4, <1>5, <1>6, <1>7, <1>8, <1>9, <1>10, <1>11, <1>12, <1>13 DEF PackageStep

-----------------------------------------------------------------------------
(* The invariant holds of the specification                                *)

\* A step that leaves the disk, the records and the operation, or one of a
\* process that is not the first.
LEMMA OthersKeepDisk ==
  ASSUME IInv, IInv', DiskInv, [Next]_vars, ~(PackageStep /\ UNCHANGED mgrVars)
  PROVE  DiskInv'
<1>1. CASE UiStep \/ RefreshStep \/ UNCHANGED vars \/ ReleaseManager
  <2>1. UNCHANGED <<faults, boots, files, staging, installed, records>> /\ (ui = "closed" => ui' = "closed")
    BY <1>1 DEF UiStep, RefreshStep, vars, ReleaseManager, Install, Uninstall, StartOp, UiFree, Cancel, CancelHttp,
       CancelInstaller, Shutdown, SetCancelRequested, RefreshGet, RefreshLoads, httpVars,
       installerVars, dbVars, mgrVars
  <2>2. NoMixedInstall'
    BY <2>1 DEF DiskInv, NoMixedInstall, NoFaultYet
  <2>3. (NoFaultYet /\ FirstProcess)' => NoFaultYet /\ FirstProcess
    BY <2>1 DEF NoFaultYet, FirstProcess
  <2>4. CASE UNCHANGED <<pc, job, outcome, transfer>>
    BY <2>1, <2>2, <2>3, <2>4 DEF DiskInv, LitterOK, RecordOK, PkgPath, Swapping, IsInstalled
  <2>5. CASE pc \in {"idle", "end"} /\ pc' \in {"idle", "requested"}
    BY <2>1, <2>2, <2>3, <2>5 DEF DiskInv, LitterOK, RecordOK, Swapping, IsInstalled, InstallPoints
  <2>q. QED BY <1>1, <2>4, <2>5
        DEF UiStep, RefreshStep, vars, ReleaseManager, Install, Uninstall, StartOp, Cancel, CancelHttp,
            CancelInstaller, Shutdown, SetCancelRequested, RefreshGet, RefreshLoads, httpVars, opVars,
            IInv, ControlOK
<1>2. CASE Exit \/ Crash
  <2>1. ui' = "closed" /\ UNCHANGED <<faults, staging, installed>>
    BY <1>2 DEF Exit, Crash, ProcessEnds
  <2>q. QED BY <2>1 DEF DiskInv, NoMixedInstall, LitterOK, RecordOK, FirstProcess, NoFaultYet
<1>3. CASE Boot
  <2>1. boots' # MaxBoots
    BY <1>3, MaxBootsIsNat DEF Boot, IInv, TypeOK, MgrTypeOK
  <2>2. UNCHANGED <<staging, installed>>
    BY <1>3 DEF Boot, installerVars
  <2>3. NoFaultYet' => NoFaultYet
    BY <1>3, MutationTyped DEF Boot, LoadRecords, IInv, TypeOK, StorageStep
  <2>q. QED BY <2>1, <2>2, <2>3 DEF DiskInv, NoMixedInstall, LitterOK, RecordOK, FirstProcess
<1>q. QED BY <1>1, <1>2, <1>3 DEF Next, OpStep, ProcessStep

LEMMA InitDisk == Init => DiskInv
BY DEF Init, HttpInit, InstallerInit, DbInit, OpInit, NoDir, Present, NoRecords, IsInstalled,
       DiskInv, NoMixedInstall, LitterOK, RecordOK

LEMMA NextDisk == IInv /\ IInv' /\ DiskInv /\ [Next]_vars => DiskInv'
<1> SUFFICES ASSUME IInv, IInv', DiskInv, [Next]_vars PROVE DiskInv'
  OBVIOUS
<1>1. CASE PackageStep /\ UNCHANGED mgrVars
  BY <1>1, UnmixedKept, LitterKept, RecordKept DEF DiskInv
<1>q. QED BY <1>1, OthersKeepDisk

\* What is on disk is as the operation left it, in every reachable state.
LEMMA DiskInvariance == Spec => []DiskInv
<1>1. IInv /\ IInv' /\ DiskInv /\ [Next]_vars => DiskInv'
  BY NextDisk
<1>q. QED BY <1>1, Invariance, InitDisk, PTL DEF Spec

\* Files of two versions never share a directory, also across a crash during
\* the unpacking, unless a removal failed: PackageInstaller.cpp removes what an
\* interrupted install left before it unpacks the next archive.
THEOREM InstallsAreNotMixed == Spec => []NoMixedInstall
<1>1. DiskInv => NoMixedInstall
  BY DEF DiskInv
<1>q. QED BY <1>1, DiskInvariance, PTL

\* No package and no staging directory is left behind by an operation, however
\* it ends, while storage works and the process lives.
THEOREM NothingIsLeftBehind == Spec => []NoLitter
<1>1. DiskInv => NoLitter
  BY DEF DiskInv, LitterOK, NoLitter, InstallPoints
<1>q. QED BY <1>1, DiskInvariance, PTL

\* Between operations the database names the version that is installed, while
\* storage works and the process lives.
THEOREM RecordsNameWhatIsInstalled == Spec => []RecordedIsInstalled
<1>1. DiskInv => RecordedIsInstalled
  BY DEF DiskInv, RecordOK, RecordedIsInstalled, Swapping
<1>q. QED BY <1>1, DiskInvariance, PTL
=============================================================================
