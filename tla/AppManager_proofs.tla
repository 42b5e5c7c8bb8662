-------------------------- MODULE AppManager_proofs --------------------------
(***************************************************************************)
(* Proofs about AppManager: what the runs check on one or two apps holds   *)
(* for every set of apps and versions and for every bound.                 *)
(***************************************************************************)
EXTENDS AppManager, HttpClient_proofs

-----------------------------------------------------------------------------
(* The components keep their types                                         *)

\* What a removal leaves is a directory.
LEMMA RemovalTyped ==
  ASSUME NEW d \in Dir, NEW fails, NEW r \in RemainsOf(d, fails)
  PROVE  /\ r \in Dir
         /\ d.state # "rogue" => r.state # "rogue"
BY DEF RemainsOf, Dir, DirState, NoDir, VersionOrNone

\* So is what is unpacked over a leftover.
LEMMA OverlaidTyped ==
  ASSUME NEW d \in Dir, NEW v \in VersionOrNone
  PROVE  /\ Overlaid(d, v) \in Dir
         /\ FreshDir(v) \in Dir
         /\ d.state # "rogue" => Overlaid(d, v).state # "rogue"
BY DEF Overlaid, FreshDir, Dir, DirState, VersionOrNone

-----------------------------------------------------------------------------

LEMMA StagingTyped ==
  ASSUME StorageTypeOK, InstallerTypeOK, NEW a \in Apps, NEW v \in VersionOrNone,
         BeginStaging(a, v)
  PROVE  StorageStep /\ InstallerTypeOK'
<1>1. PICK d \in Dir :
         /\ IF Present(staging[a]) THEN RemoveAll(staging[a], d)
                                   ELSE d = NoDir /\ UNCHANGED faults
         /\ staging' = [staging EXCEPT ![a] = IF Present(d) THEN Overlaid(d, v) ELSE FreshDir(v)]
  BY DEF BeginStaging
<1>2. StorageStep
  BY <1>1, MutationTyped, UnchangedFaults DEF RemoveAll
<1>3. staging' \in [Apps -> Dir]
  BY <1>1, OverlaidTyped DEF InstallerTypeOK
<1>4. installerCancelled' = FALSE /\ entries' = Entries /\ installed' = installed
  BY DEF BeginStaging
<1>5. installerCancelled' \in BOOLEAN
  BY <1>4, Zenon
<1>6. entries' \in 0..Entries
  BY <1>4, EntriesIsNat
<1>7. installed' \in [Apps -> Dir]
  BY <1>4 DEF InstallerTypeOK
<1>q. QED BY <1>2, <1>3, <1>5, <1>6, <1>7 DEF InstallerTypeOK

LEMMA ExtractTyped ==
  ASSUME StorageTypeOK, InstallerTypeOK, NEW a \in Apps, NEW c,
         \/ ExtractEntry(a, c) \/ ArchiveEnds(a, c) \/ ExtractionFails(c) \/ ExtractionStops
  PROVE  StorageStep /\ InstallerTypeOK'
<1>1. CASE ExtractEntry(a, c)
  BY <1>1, EntriesIsNat, MutationTyped DEF ExtractEntry, InstallerTypeOK, Dir, DirState
<1>2. CASE ArchiveEnds(a, c)
  BY <1>2, MutationTyped DEF ArchiveEnds, InstallerTypeOK, Dir, DirState
<1>3. CASE ExtractionFails(c)
  BY <1>3, MutationTyped DEF ExtractionFails, InstallerTypeOK, installerVars
<1>4. CASE ExtractionStops
  BY <1>4, UnchangedFaults DEF ExtractionStops, InstallerTypeOK, installerVars
<1>q. QED BY <1>1, <1>2, <1>3, <1>4

LEMMA SwapTyped ==
  ASSUME StorageTypeOK, InstallerTypeOK, NEW a \in Apps,
         DiscardStaging(a) \/ RemoveOld(a) \/ MoveIn(a) \/ CannotMoveIn(a)
  PROVE  StorageStep /\ InstallerTypeOK'
<1>1. CASE DiscardStaging(a)
  BY <1>1, MutationTyped, RemovalTyped DEF DiscardStaging, RemoveAll, InstallerTypeOK
<1>2. CASE RemoveOld(a)
  BY <1>2, MutationTyped, RemovalTyped, UnchangedFaults DEF RemoveOld, RemoveAll, InstallerTypeOK
<1>3. CASE MoveIn(a)
  BY <1>3, UnchangedFaults DEF MoveIn, InstallerTypeOK, NoDir, Dir, DirState, VersionOrNone
<1>4. CASE CannotMoveIn(a)
  BY <1>4, RemovalTyped, MaxFaultsIsNat
     DEF CannotMoveIn, InstallerTypeOK, StorageTypeOK, StorageStep, NoFaultYet
<1>q. QED BY <1>1, <1>2, <1>3, <1>4

LEMMA MarkTyped ==
  ASSUME StorageTypeOK, InstallerTypeOK, NEW a \in Apps, NEW v \in VersionOrNone, NEW ok \in BOOLEAN,
         WriteMarker(a, v) \/ RemoveInstalled(a, ok)
  PROVE  StorageStep /\ InstallerTypeOK'
<1>1. CASE WriteMarker(a, v)
  <2>1. PICK fails \in BOOLEAN :
           /\ Mutation(fails)
           /\ installed' = [installed EXCEPT ![a].marker = IF fails THEN None ELSE v]
    BY <1>1 DEF WriteMarker
  <2>2. (IF fails THEN None ELSE v) \in VersionOrNone
    BY DEF VersionOrNone
  <2>3. installed' \in [Apps -> Dir]
    BY <2>1, <2>2 DEF InstallerTypeOK, Dir
  <2>q. QED BY <1>1, <2>1, <2>3, MutationTyped DEF WriteMarker, InstallerTypeOK
<1>2. CASE RemoveInstalled(a, ok)
  <2>1. StorageStep
    BY <1>2, MutationTyped DEF RemoveInstalled
  <2>2. PICK d \in RemainsOf(installed[a], ~ok) : installed' = [installed EXCEPT ![a] = d]
    BY <1>2 DEF RemoveInstalled
  <2>3. d \in Dir
    BY <2>2, RemovalTyped DEF InstallerTypeOK
  <2>q. QED BY <1>2, <2>1, <2>2, <2>3 DEF RemoveInstalled, InstallerTypeOK
<1>q. QED BY <1>1, <1>2

LEMMA DropPackageTyped ==
  ASSUME StorageTypeOK, HttpTypeOK, DropPackage, transfer' \in {transfer, NoTransfer}
  PROVE  StorageStep /\ HttpTypeOK'
<1>1. PICK fails \in BOOLEAN :
         /\ Mutation(fails)
         /\ files' = [files EXCEPT ![PkgPath] = IF fails THEN @ ELSE "absent"]
  BY DEF DropPackage
<1>2. files' \in [Paths -> Content]
  BY <1>1 DEF HttpTypeOK, Content
<1>3. transfer' \in Transfers
  BY NoTransferTyped DEF HttpTypeOK
<1>q. QED BY <1>1, <1>2, <1>3, MutationTyped DEF DropPackage, HttpTypeOK

LEMMA SaveTyped ==
  ASSUME StorageTypeOK, DbTypeOK, SaveOpens \/ SaveCannotOpen \/ SaveWrites
  PROVE  StorageStep /\ DbTypeOK'
<1> USE DEF DbTypeOK, DbFile, Records, MalformedFile, Written, NoRecords, VersionOrNone
<1>1. CASE SaveOpens
  BY <1>1, UnchangedFaults DEF SaveOpens
<1>2. CASE SaveCannotOpen
  BY <1>2, MutationTyped DEF SaveCannotOpen, dbVars
<1>3. CASE SaveWrites
  BY <1>3, MutationTyped DEF SaveWrites
<1>q. QED BY <1>1, <1>2, <1>3

-----------------------------------------------------------------------------
(* The flags and the frame of the operation thread                         *)

\* What the busy flags and the job say of where the thread is.
ControlOK ==
  /\ mgrBusy <=> pc # "idle"
  /\ pkgBusy <=> pc \notin {"idle", "requested", "end"}
  /\ IF pc = "idle" THEN job = NoJob ELSE job \in Job
  /\ ui = "closed" => pc = "idle"
  /\ pc \in InstallPoints => Installing
  /\ pc \in UninstallPoints => ~Installing

LEMMA JobTyped ==
  ASSUME ControlOK, pc # "idle"
  PROVE  /\ job \in Job
         /\ job.app \in Apps
         /\ job.version \in VersionOrNone
         /\ Installing => PkgPath \in Paths
BY PathsAreArchives DEF ControlOK, Job, Installing, PkgPath, VersionOrNone

LEMMA PackageControl ==
  ASSUME OpTypeOK, ControlOK, PackageStep, UNCHANGED mgrVars
  PROVE  OpTypeOK' /\ ControlOK'
<1> USE DEF OpTypeOK, ControlOK, Points, InstallPoints, UninstallPoints, RegisterPoints,
            Installing, mgrVars, Goto, GotoWith
<1>1. CASE BeginInstall
  BY <1>1 DEF BeginInstall
<1>2. CASE BeginDownload
  BY <1>2 DEF BeginDownload
<1>3. CASE Download
  BY <1>3 DEF Download, opVars
<1>4. CASE CancelledDownload
  BY <1>4 DEF CancelledDownload
<1>5. CASE FailedDownload
  BY <1>5 DEF FailedDownload
<1>6. CASE CompleteDownload
  BY <1>6 DEF CompleteDownload
<1>7. CASE VerifyRejects
  BY <1>7 DEF VerifyRejects
<1>8. CASE VerifyPasses
  BY <1>8 DEF VerifyPasses
<1>9. CASE VerifyCannotRead
  BY <1>9 DEF VerifyCannotRead
<1>10. CASE CancelledVerify
  BY <1>10 DEF CancelledVerify
<1>11. CASE EnterInstaller
  BY <1>11 DEF EnterInstaller
<1>12. CASE Stage
  BY <1>12 DEF Stage
<1>13. CASE Extract
  BY <1>13 DEF Extract
<1>14. CASE ExtractReturns
  BY <1>14 DEF ExtractReturns
<1>15. CASE ExtractErrs
  BY <1>15 DEF ExtractErrs
<1>16. CASE AbandonStaging
  BY <1>16 DEF AbandonStaging
<1>17. CASE KeepStaging
  BY <1>17 DEF KeepStaging
<1>18. CASE RemoveOldInstall
  BY <1>18 DEF RemoveOldInstall
<1>19. CASE Rename
  BY <1>19 DEF Rename
<1>20. CASE RenameFails
  BY <1>20 DEF RenameFails
<1>21. CASE Mark
  BY <1>21 DEF Mark
<1>22. CASE DropInstalledPackage
  BY <1>22 DEF DropInstalledPackage
<1>23. CASE Register
  BY <1>23 DEF Register
<1>24. CASE BeginUninstall
  BY <1>24 DEF BeginUninstall
<1>25. CASE FilesMissing
  BY <1>25 DEF FilesMissing
<1>26. CASE FilesRemoved
  BY <1>26 DEF FilesRemoved
<1>27. CASE FilesNotRemoved
  BY <1>27 DEF FilesNotRemoved
<1>28. CASE Unregister
  BY <1>28 DEF Unregister
<1>29. CASE SaveBegins
  BY <1>29 DEF SaveBegins
<1>30. CASE SaveFails
  BY <1>30 DEF SaveFails
<1>31. CASE SaveEnds
  BY <1>31 DEF SaveEnds
<1>32. CASE Report
  BY <1>32 DEF Report
<1>q. QED BY <1>1, <1>2, <1>3, <1>4, <1>5, <1>6, <1>7, <1>8, <1>9, <1>10, <1>11, <1>12, <1>13, <1>14, <1>15, <1>16, <1>17, <1>18, <1>19, <1>20, <1>21, <1>22, <1>23, <1>24, <1>25, <1>26, <1>27, <1>28, <1>29, <1>30, <1>31, <1>32
     DEF PackageStep
LEMMA PackageWorks ==
  ASSUME PackageStep
  PROVE  pc # "idle"
BY DEF PackageStep, Goto, GotoWith,
       BeginInstall, BeginDownload, Download, CancelledDownload,
       FailedDownload, CompleteDownload, VerifyRejects, VerifyPasses,
       VerifyCannotRead, CancelledVerify, EnterInstaller, Stage,
       Extract, ExtractReturns, ExtractErrs, AbandonStaging,
       KeepStaging, RemoveOldInstall, Rename, RenameFails, Mark,
       DropInstalledPackage, Register, BeginUninstall, FilesMissing,
       FilesRemoved, FilesNotRemoved, Unregister, SaveBegins,
       SaveFails, SaveEnds, Report

LEMMA PackageTyped ==
  ASSUME StorageTypeOK, HttpTypeOK, InstallerTypeOK, DbTypeOK, OpTypeOK, ControlOK, PackageStep
  PROVE  StorageStep /\ HttpTypeOK' /\ InstallerTypeOK' /\ DbTypeOK'
<1>0. job \in Job /\ job.app \in Apps /\ job.version \in VersionOrNone
  BY PackageWorks, JobTyped
<1>a. UNCHANGED <<faults, httpVars, installerVars, dbVars>>
        => StorageStep /\ HttpTypeOK' /\ InstallerTypeOK' /\ DbTypeOK'
  BY UnchangedFaults DEF httpVars, installerVars, dbVars, HttpTypeOK, InstallerTypeOK, DbTypeOK
<1>h. UNCHANGED <<faults, httpVars>> => StorageStep /\ HttpTypeOK'
  BY UnchangedFaults DEF httpVars, HttpTypeOK
<1>u. UNCHANGED httpVars => HttpTypeOK'
  BY DEF httpVars, HttpTypeOK
<1>i. UNCHANGED installerVars => InstallerTypeOK'
  BY DEF installerVars, InstallerTypeOK
<1>d. UNCHANGED dbVars => DbTypeOK'
  BY DEF dbVars, DbTypeOK
<1>1. CASE BeginInstall
  BY <1>1, <1>a DEF BeginInstall, httpVars
<1>2. CASE BeginDownload
  BY <1>2, <1>i, <1>d, JobTyped, OpenTyped DEF BeginDownload, Goto, InstallPoints, ControlOK
<1>3. CASE Download
  BY <1>3, <1>i, <1>d, TransferTyped DEF Download
<1>4. CASE CancelledDownload
  BY <1>4, <1>i, <1>d, DropPackageTyped DEF CancelledDownload
<1>5. CASE FailedDownload
  BY <1>5, <1>i, <1>d, NoTransferTyped, UnchangedFaults DEF FailedDownload, HttpTypeOK
<1>6. CASE CompleteDownload
  BY <1>6, <1>i, <1>d, NoTransferTyped, UnchangedFaults DEF CompleteDownload, HttpTypeOK
<1>7. CASE VerifyRejects
  BY <1>7, <1>i, <1>d, DropPackageTyped DEF VerifyRejects
<1>8. CASE VerifyPasses
  BY <1>8, <1>a DEF VerifyPasses, httpVars
<1>9. CASE VerifyCannotRead
  <2>1. PICK left \in {"absent", files[PkgPath]} :
           /\ faults >= (IF left = "absent" THEN 1 ELSE 2)
           /\ faults' = faults - (IF left = "absent" THEN 1 ELSE 2)
           /\ files' = [files EXCEPT ![PkgPath] = left]
    BY <1>9 DEF VerifyCannotRead
  <2>2. StorageStep
    BY <2>1, MaxFaultsIsNat DEF StorageTypeOK, StorageStep, NoFaultYet
  <2>3. files' \in [Paths -> Content]
    BY <2>1 DEF HttpTypeOK, Content
  <2>q. QED BY <1>9, <1>i, <1>d, <2>2, <2>3 DEF VerifyCannotRead, HttpTypeOK
<1>10. CASE CancelledVerify
  BY <1>10, <1>i, <1>d, DropPackageTyped DEF CancelledVerify
<1>11. CASE EnterInstaller
  BY <1>11, <1>a DEF EnterInstaller, httpVars
<1>12. CASE Stage
  BY <1>12, <1>0, <1>u, <1>d, StagingTyped DEF Stage
<1>13. CASE Extract
  BY <1>13, <1>0, <1>u, <1>d, ExtractTyped DEF Extract
<1>14. CASE ExtractReturns
  BY <1>14, <1>0, <1>u, <1>d, ExtractTyped DEF ExtractReturns
<1>15. CASE ExtractErrs
  BY <1>15, <1>0, <1>u, <1>d, ExtractTyped DEF ExtractErrs
<1>16. CASE AbandonStaging
  BY <1>16, <1>0, <1>u, <1>d, SwapTyped DEF AbandonStaging
<1>17. CASE KeepStaging
  BY <1>17, <1>a DEF KeepStaging, httpVars
<1>18. CASE RemoveOldInstall
  BY <1>18, <1>0, <1>u, <1>d, SwapTyped DEF RemoveOldInstall
<1>19. CASE Rename
  BY <1>19, <1>0, <1>u, <1>d, SwapTyped DEF Rename
<1>20. CASE RenameFails
  BY <1>20, <1>0, <1>u, <1>d, SwapTyped DEF RenameFails
<1>21. CASE Mark
  BY <1>21, <1>0, <1>u, <1>d, MarkTyped DEF Mark
<1>22. CASE DropInstalledPackage
  BY <1>22, <1>i, <1>d, DropPackageTyped DEF DropInstalledPackage
<1>23. CASE Register
  BY <1>23, <1>0, <1>h, <1>i DEF Register, UpsertRecord, DbTypeOK, Records
<1>24. CASE BeginUninstall
  BY <1>24, <1>a DEF BeginUninstall, httpVars
<1>25. CASE FilesMissing
  BY <1>25, <1>a DEF FilesMissing, httpVars
<1>26. CASE FilesRemoved
  BY <1>26, <1>0, <1>u, <1>d, MarkTyped DEF FilesRemoved
<1>27. CASE FilesNotRemoved
  BY <1>27, <1>0, <1>u, <1>d, MarkTyped DEF FilesNotRemoved
<1>28. CASE Unregister
  BY <1>28, <1>0, <1>h, <1>i DEF Unregister, EraseRecord, DbTypeOK, Records, VersionOrNone
<1>29. CASE SaveBegins
  BY <1>29, <1>u, <1>i, SaveTyped DEF SaveBegins
<1>30. CASE SaveFails
  BY <1>30, <1>u, <1>i, SaveTyped DEF SaveFails
<1>31. CASE SaveEnds
  BY <1>31, <1>u, <1>i, SaveTyped DEF SaveEnds
<1>32. CASE Report
  BY <1>32, <1>a DEF Report, httpVars
<1>q. QED BY <1>1, <1>2, <1>3, <1>4, <1>5, <1>6, <1>7, <1>8, <1>9, <1>10, <1>11,
             <1>12, <1>13, <1>14, <1>15, <1>16, <1>17, <1>18, <1>19,
             <1>20, <1>21, <1>22, <1>23, <1>24, <1>25, <1>26, <1>27,
             <1>28, <1>29, <1>30, <1>31, <1>32
     DEF PackageStep

-----------------------------------------------------------------------------
(* The inductive invariant                                                 *)

\* A result is known only where the code has one.
OutcomeOK ==
  /\ outcome = "failed" => pc \in {"extracted", "dropPackage", "report", "end"}
  /\ outcome = "ok" => pc \in {"save", "write", "report", "end"}
  /\ pc \in {"save", "write", "report", "end"} => outcome # "none"

\* A cancel that is due either has failed the operation already or is still
\* in the flag the thread looks at next.
CancelOK ==
  cancelled = "due" => \/ outcome = "failed"
                       \/ pc \in RequestWindow /\ cancelRequested
                       \/ pc \in ExtractWindow /\ installerCancelled

\* From the verification until it is unpacked, a checked archive stays good.
ArchiveOK ==
  pc \in {"verified", "stage", "extract"} /\ job.app \in Hashed => files[PkgPath] = "good"

\* The old install and its record are what they were until the swap begins,
\* and a swap that fails has met a storage fault of its own.
OldInstallOK ==
  Installing =>
    /\ pc \in {"requested"} \cup InstallPoints \/ outcome = "failed" => records[job.app] = before.record
    /\ \/ pc \in (BeforeSwap \cup {"removeOld"})
       \/ outcome = "failed"
       => installed[job.app] = before.dir \/ "swapping" \in storageFailed
    /\ pc = "rename" => ~Present(installed[job.app]) \/ "swapping" \in storageFailed

\* A directory unpacked from a published archive, with storage working.
Sound(d) == unpacked = "good" /\ "unpacking" \notin storageFailed => d.state = "whole"

\* The points behind the extraction.
Unpacked == {"extracted", "removeOld", "rename", "mark", "dropPackage", "report", "end"}
              \cup RegisterPoints

\* The new version goes from staging to its place, and whole, from an archive
\* that is the published one where its hash was checked.
NewInstallOK ==
  Installing =>
    /\ pc \in {"extract", "extracted", "removeOld", "rename"} =>
          staging[job.app].version = job.version
    /\ pc = "extract" /\ files[PkgPath] = "good" /\ "unpacking" \notin storageFailed =>
          staging[job.app].state = "part"
    /\ pc \in Unpacked /\ outcome # "failed" /\ job.app \in Hashed => unpacked = "good"
    /\ pc = "extracted" /\ outcome # "failed" /\ ~installerCancelled => Sound(staging[job.app])
    /\ pc \in {"removeOld", "rename"} => Sound(staging[job.app])
    /\ pc \in {"mark", "dropPackage"} \cup RegisterPoints \cup {"report", "end"} /\ outcome # "failed" =>
          /\ installed[job.app].version = job.version
          /\ Sound(installed[job.app])
    /\ outcome = "ok" => records[job.app] = job.version

\* What failed is charged to the budget.
TracesOK == storageFailed # {} => ~NoFaultYet

\* An uninstall unregisters after the files are gone.
RemovedOK ==
  job.kind = "uninstall" =>
    /\ pc \in RegisterPoints \/ outcome = "ok" => ~Present(installed[job.app])
    /\ outcome = "ok" => records[job.app] = None

IInv == /\ TypeOK /\ ControlOK /\ OutcomeOK /\ CancelOK
        /\ VerifiedOnly /\ ArchiveOK
        /\ OldInstallOK /\ NewInstallOK /\ RemovedOK
        /\ RestartLosesNothing /\ TracesOK

-----------------------------------------------------------------------------
(* The steps of the package manager                                        *)

LEMMA FlagsKept ==
  ASSUME OpTypeOK, ControlOK, OutcomeOK, CancelOK, PackageStep, UNCHANGED cancelled
  PROVE  OutcomeOK' /\ CancelOK'
<1> USE DEF OpTypeOK, ControlOK, OutcomeOK, CancelOK, Points, InstallPoints, UninstallPoints,
            RegisterPoints, RequestWindow, ExtractWindow, Installing, Goto, GotoWith,
            installerVars, opVars
<1>1. CASE Extract \/ ExtractReturns \/ ExtractErrs
  BY <1>1
     DEF Extract, ExtractReturns, ExtractErrs, ExtractEntry, ArchiveEnds,
         ExtractionStops, ExtractionFails
<1>2. CASE BeginInstall \/ BeginDownload \/ Download \/ CancelledDownload
          \/ FailedDownload \/ CompleteDownload \/ VerifyRejects
          \/ VerifyPasses \/ VerifyCannotRead \/ CancelledVerify
          \/ EnterInstaller \/ Stage \/ AbandonStaging \/ KeepStaging
          \/ RemoveOldInstall \/ Rename \/ RenameFails \/ Mark
          \/ DropInstalledPackage \/ Register \/ BeginUninstall
          \/ FilesMissing \/ FilesRemoved \/ FilesNotRemoved
          \/ Unregister \/ SaveBegins \/ SaveFails \/ SaveEnds
          \/ Report
  BY <1>2
     DEF BeginInstall, BeginDownload, Download, CancelledDownload,
         FailedDownload, CompleteDownload, VerifyRejects,
         VerifyPasses, VerifyCannotRead, CancelledVerify,
         EnterInstaller, Stage, AbandonStaging, KeepStaging,
         RemoveOldInstall, Rename, RenameFails, Mark,
         DropInstalledPackage, Register, BeginUninstall,
         FilesMissing, FilesRemoved, FilesNotRemoved, Unregister,
         SaveBegins, SaveFails, SaveEnds, Report
<1>q. QED BY <1>1, <1>2 DEF PackageStep

LEMMA ArchiveKept ==
  ASSUME OpTypeOK, ControlOK, ArchiveOK, PackageStep
  PROVE  ArchiveOK'
<1> USE DEF OpTypeOK, ControlOK, ArchiveOK, Points, InstallPoints, UninstallPoints,
            RegisterPoints, Installing, Goto, GotoWith, httpVars, PkgPath
<1>1. CASE Download
  BY <1>1
     DEF Download, opVars
<1>2. CASE BeginInstall \/ BeginDownload \/ CancelledDownload \/ FailedDownload
          \/ CompleteDownload \/ VerifyRejects \/ VerifyPasses
          \/ VerifyCannotRead \/ CancelledVerify \/ EnterInstaller
          \/ Stage \/ Extract \/ ExtractReturns \/ ExtractErrs
          \/ AbandonStaging \/ KeepStaging \/ RemoveOldInstall
          \/ Rename \/ RenameFails \/ Mark \/ DropInstalledPackage
          \/ Register \/ BeginUninstall \/ FilesMissing \/ FilesRemoved
          \/ FilesNotRemoved \/ Unregister \/ SaveBegins
          \/ SaveFails \/ SaveEnds \/ Report
  BY <1>2
     DEF BeginInstall, BeginDownload, CancelledDownload, FailedDownload,
         CompleteDownload, VerifyRejects, VerifyPasses,
         VerifyCannotRead, CancelledVerify, EnterInstaller, Stage,
         Extract, ExtractReturns, ExtractErrs, AbandonStaging,
         KeepStaging, RemoveOldInstall, Rename, RenameFails, Mark,
         DropInstalledPackage, Register, BeginUninstall,
         FilesMissing, FilesRemoved, FilesNotRemoved, Unregister,
         SaveBegins, SaveFails, SaveEnds, Report
<1>q. QED BY <1>1, <1>2 DEF PackageStep


\* No file of an unverified archive is in an app's directories.
Clean(a) == staging[a].state # "rogue" /\ installed[a].state # "rogue"

\* Files of an archive that is not the published one come from unpacking one.
LEMMA InstallerClean ==
  ASSUME InstallerTypeOK, NEW a \in Apps, NEW v \in VersionOrNone, NEW c, NEW ok \in BOOLEAN,
         \/ BeginStaging(a, v)
         \/ ExtractEntry(a, c) /\ c = "good"
         \/ ArchiveEnds(a, c) \/ DiscardStaging(a) \/ RemoveOld(a)
         \/ MoveIn(a) \/ CannotMoveIn(a) \/ WriteMarker(a, v) \/ RemoveInstalled(a, ok),
         NEW b \in Apps, Clean(b)
  PROVE  Clean(b)'
<1> USE DEF InstallerTypeOK, Clean
<1>1. CASE BeginStaging(a, v)
  <2>1. PICK d \in Dir :
           /\ IF Present(staging[a]) THEN RemoveAll(staging[a], d) ELSE d = NoDir
           /\ staging' = [staging EXCEPT ![a] = IF Present(d) THEN Overlaid(d, v) ELSE FreshDir(v)]
           /\ installed' = installed
    BY <1>1 DEF BeginStaging
  <2>2. staging[a].state # "rogue" => d.state # "rogue"
    BY <2>1, RemovalTyped DEF RemoveAll, NoDir
  <2>q. QED BY <2>1, <2>2, OverlaidTyped DEF FreshDir
<1>2. CASE ExtractEntry(a, c) /\ c = "good"
  BY <1>2 DEF ExtractEntry, Dir
<1>3. CASE ArchiveEnds(a, c)
  BY <1>3 DEF ArchiveEnds, Dir
<1>4. CASE DiscardStaging(a)
  BY <1>4, RemovalTyped DEF DiscardStaging, RemoveAll
<1>5. CASE RemoveOld(a)
  BY <1>5, RemovalTyped DEF RemoveOld, RemoveAll, NoDir
<1>6. CASE MoveIn(a) \/ CannotMoveIn(a)
  <2>1. CASE MoveIn(a)
    BY <2>1 DEF MoveIn, NoDir
  <2>2. CASE CannotMoveIn(a)
    BY <2>2, RemovalTyped DEF CannotMoveIn
  <2>q. QED BY <1>6, <2>1, <2>2
<1>7. CASE WriteMarker(a, v)
  BY <1>7 DEF WriteMarker, Dir
<1>8. CASE RemoveInstalled(a, ok)
  BY <1>8, RemovalTyped DEF RemoveInstalled
<1>q. QED BY <1>1, <1>2, <1>3, <1>4, <1>5, <1>6, <1>7, <1>8

LEMMA CleanKept ==
  ASSUME InstallerTypeOK, OpTypeOK, ControlOK, ArchiveOK, VerifiedOnly, PackageStep
  PROVE  VerifiedOnly'
<1>0. job.app \in Apps /\ job.version \in VersionOrNone
  BY PackageWorks, JobTyped
<1>s. SUFFICES ASSUME NEW b \in Hashed PROVE Clean(b)'
  BY DEF VerifiedOnly, Clean
<1>c. b \in Apps /\ Clean(b)
  BY HashedAreApps DEF VerifiedOnly, Clean
<1>u. UNCHANGED installerVars => Clean(b)'
  BY <1>c DEF installerVars, Clean
<1>1. CASE Extract
  BY <1>1, <1>0, <1>c, <1>u, InstallerClean
     DEF Extract, Goto, ArchiveOK, ExtractEntry, InstallerTypeOK, Clean
<1>2. CASE ExtractReturns \/ ExtractErrs
  BY <1>2, <1>0, <1>c, <1>u, InstallerClean
     DEF ExtractReturns, ExtractErrs, ExtractionStops, ExtractionFails
<1>3. CASE Stage \/ AbandonStaging \/ RemoveOldInstall \/ Rename \/ RenameFails
          \/ Mark \/ FilesRemoved \/ FilesNotRemoved
  BY <1>3, <1>0, <1>c, InstallerClean
     DEF Stage, AbandonStaging, RemoveOldInstall, Rename, RenameFails, Mark,
         FilesRemoved, FilesNotRemoved
<1>4. CASE BeginInstall \/ BeginDownload \/ Download \/ CancelledDownload
          \/ FailedDownload \/ CompleteDownload \/ VerifyRejects
          \/ VerifyPasses \/ VerifyCannotRead \/ CancelledVerify
          \/ EnterInstaller \/ KeepStaging \/ DropInstalledPackage
          \/ Register \/ BeginUninstall \/ FilesMissing \/ Unregister
          \/ SaveBegins \/ SaveFails \/ SaveEnds \/ Report
  BY <1>4, <1>u
     DEF BeginInstall, BeginDownload, Download, CancelledDownload,
         FailedDownload, CompleteDownload, VerifyRejects,
         VerifyPasses, VerifyCannotRead, CancelledVerify,
         EnterInstaller, KeepStaging, DropInstalledPackage, Register,
         BeginUninstall, FilesMissing, Unregister, SaveBegins,
         SaveFails, SaveEnds, Report
<1>q. QED BY <1>1, <1>2, <1>3, <1>4 DEF PackageStep


\* A failed call of the file system shows in the budget.
LEMMA FaultCosts ==
  ASSUME StorageTypeOK, NEW fails \in BOOLEAN, Mutation(fails)
  PROVE  fails => faults' # faults
BY DEF StorageTypeOK, Mutation

\* The installed directory of an app is touched by the swap and by uninstall.
LEMMA SwapKept ==
  ASSUME StorageTypeOK, InstallerTypeOK, NEW a \in Apps
  PROVE  /\ RemoveOld(a) => ~Present(installed'[a]) \/ faults' # faults
         /\ MoveIn(a) => installed'[a] = staging[a]
         /\ CannotMoveIn(a) => installed' = installed /\ (Present(installed[a]) \/ faults' # faults)
         /\ RemoveInstalled(a, TRUE) => ~Present(installed'[a])
<1>1. ASSUME RemoveOld(a) PROVE ~Present(installed'[a]) \/ faults' # faults
  BY <1>1, FaultCosts DEF RemoveOld, RemoveAll, RemainsOf, NoDir, Present, InstallerTypeOK
<1>2. ASSUME MoveIn(a) PROVE installed'[a] = staging[a]
  BY <1>2 DEF MoveIn, InstallerTypeOK
<1>3. ASSUME CannotMoveIn(a)
      PROVE  installed' = installed /\ (Present(installed[a]) \/ faults' # faults)
  BY <1>3, MaxFaultsIsNat DEF CannotMoveIn, StorageTypeOK
<1>4. ASSUME RemoveInstalled(a, TRUE) PROVE ~Present(installed'[a])
  BY <1>4 DEF RemoveInstalled, RemainsOf, NoDir, Present, InstallerTypeOK
<1>q. QED BY <1>1, <1>2, <1>3, <1>4

LEMMA OldInstallKept ==
  ASSUME TypeOK, ControlOK, OutcomeOK, OldInstallOK, PackageStep, KeepTraces,
         UNCHANGED <<before, cancelled>>
  PROVE  OldInstallOK'
<1>0. job.app \in Apps /\ job.version \in VersionOrNone
  BY PackageWorks, JobTyped
<1> USE DEF OpTypeOK, ControlOK, OutcomeOK, Points, InstallPoints, UninstallPoints, RegisterPoints,
        BeforeSwap, RequestWindow, ExtractWindow, Installing, Goto, GotoWith, InstallerTypeOK,
        installerVars, dbVars, opVars, KeepTraces, Phase, OldInstallOK, TypeOK
<1>1. CASE Stage \/ Extract \/ ExtractReturns \/ ExtractErrs \/ AbandonStaging
  BY <1>1, <1>0
     DEF Stage, Extract, ExtractReturns, ExtractErrs, AbandonStaging,
         BeginStaging, ExtractEntry, ArchiveEnds, ExtractionStops,
         ExtractionFails, DiscardStaging
<1>2. CASE RemoveOldInstall \/ Rename \/ RenameFails \/ Mark
  BY <1>2, <1>0, SwapKept
     DEF RemoveOldInstall, Rename, RenameFails, Mark
<1>3. CASE FilesRemoved \/ FilesNotRemoved \/ FilesMissing \/ BeginUninstall
          \/ Unregister
  BY <1>3, <1>0
     DEF FilesRemoved, FilesNotRemoved, FilesMissing, BeginUninstall,
         Unregister
<1>4. CASE Register
  BY <1>4, <1>0
     DEF Register
<1>5. CASE SaveBegins \/ SaveFails \/ SaveEnds
  BY <1>5, <1>0
     DEF SaveBegins, SaveFails, SaveEnds, SaveOpens, SaveCannotOpen,
         SaveWrites
<1>6. CASE BeginInstall \/ BeginDownload \/ Download \/ CancelledDownload
          \/ FailedDownload \/ CompleteDownload \/ VerifyRejects
          \/ VerifyPasses \/ VerifyCannotRead \/ CancelledVerify
          \/ EnterInstaller \/ KeepStaging \/ DropInstalledPackage
          \/ Report
  BY <1>6, <1>0
     DEF BeginInstall, BeginDownload, Download, CancelledDownload,
         FailedDownload, CompleteDownload, VerifyRejects,
         VerifyPasses, VerifyCannotRead, CancelledVerify,
         EnterInstaller, KeepStaging, DropInstalledPackage, Report
<1>q. QED BY <1>1, <1>2, <1>3, <1>4, <1>5, <1>6 DEF PackageStep


\* What becomes of the directory an archive is unpacked in.
LEMMA UnpackKept ==
  ASSUME StorageTypeOK, InstallerTypeOK, NEW a \in Apps, NEW v \in VersionOrNone, NEW c
  PROVE  /\ BeginStaging(a, v) =>
              /\ staging'[a].version = v
              /\ faults' = faults => staging'[a].state = "part"
         /\ ExtractEntry(a, c) =>
              /\ staging'[a].version = staging[a].version
              /\ faults' = faults /\ c = "good" => staging'[a].state = staging[a].state
         /\ ArchiveEnds(a, c) =>
              /\ staging'[a].version = staging[a].version
              /\ faults' = faults /\ c = "good" /\ staging[a].state = "part"
                    => staging'[a].state = "whole"
         /\ WriteMarker(a, v) =>
              /\ installed'[a].version = installed[a].version
              /\ installed'[a].state = installed[a].state
<1> USE DEF InstallerTypeOK, Dir
<1>1. ASSUME BeginStaging(a, v)
      PROVE  staging'[a].version = v /\ (faults' = faults => staging'[a].state = "part")
  <2>1. PICK d \in Dir :
           /\ IF Present(staging[a]) THEN RemoveAll(staging[a], d) ELSE d = NoDir
           /\ staging' = [staging EXCEPT ![a] = IF Present(d) THEN Overlaid(d, v) ELSE FreshDir(v)]
    BY <1>1 DEF BeginStaging
  <2>2. faults' = faults => d = NoDir
    BY <2>1, FaultCosts DEF RemoveAll, RemainsOf
  <2>q. QED BY <2>1, <2>2 DEF FreshDir, Overlaid, NoDir, Present
<1>2. ASSUME ExtractEntry(a, c)
      PROVE  /\ staging'[a].version = staging[a].version
             /\ faults' = faults /\ c = "good" => staging'[a].state = staging[a].state
  <2>1. PICK fails \in BOOLEAN :
           /\ Mutation(fails)
           /\ staging' = [staging EXCEPT ![a].state =
                            IF c # "good" THEN "rogue"
                            ELSE IF fails /\ @ = "part" THEN "mixed" ELSE @]
    BY <1>2 DEF ExtractEntry
  <2>2. faults' = faults => ~fails
    BY <2>1, FaultCosts
  <2>q. QED BY <2>1, <2>2
<1>3. ASSUME ArchiveEnds(a, c)
      PROVE  /\ staging'[a].version = staging[a].version
             /\ faults' = faults /\ c = "good" /\ staging[a].state = "part"
                   => staging'[a].state = "whole"
  <2>1. PICK fails \in BOOLEAN :
           /\ Mutation(fails)
           /\ staging' = [staging EXCEPT ![a].state =
                            IF ~fails /\ c = "good" /\ @ = "part" THEN "whole" ELSE @]
    BY <1>3 DEF ArchiveEnds
  <2>2. faults' = faults => ~fails
    BY <2>1, FaultCosts
  <2>q. QED BY <2>1, <2>2
<1>4. ASSUME WriteMarker(a, v)
      PROVE  /\ installed'[a].version = installed[a].version
             /\ installed'[a].state = installed[a].state
  BY <1>4 DEF WriteMarker
<1>q. QED BY <1>1, <1>2, <1>3, <1>4

LEMMA NewInstallKept ==
  ASSUME TypeOK, ControlOK, OutcomeOK, ArchiveOK, NewInstallOK, PackageStep, KeepTraces
  PROVE  NewInstallOK'
<1>0. job.app \in Apps /\ job.version \in VersionOrNone
  BY PackageWorks, JobTyped
<1> USE DEF OpTypeOK, ControlOK, OutcomeOK, Points, InstallPoints, UninstallPoints, RegisterPoints,
        BeforeSwap, RequestWindow, ExtractWindow, Installing, Goto, GotoWith, InstallerTypeOK,
        installerVars, dbVars, opVars, KeepTraces, Phase, PkgPath, Unpacked, NewInstallOK, ArchiveOK,
        Sound, TypeOK
<1>1. CASE Stage
  BY <1>1, <1>0, UnpackKept
     DEF Stage
<1>2. CASE Mark
  BY <1>2, <1>0, UnpackKept
     DEF Mark
<1>3. CASE Extract \/ ExtractReturns
  BY <1>3, <1>0, UnpackKept
     DEF Extract, ExtractReturns, ExtractionStops, httpVars
<1>4. CASE ExtractErrs \/ AbandonStaging
  BY <1>4, <1>0
     DEF ExtractErrs, AbandonStaging, ExtractionFails
<1>5. CASE RemoveOldInstall \/ Rename \/ RenameFails
  BY <1>5, <1>0, SwapKept
     DEF RemoveOldInstall, Rename, RenameFails, RemoveOld, CannotMoveIn
<1>6. CASE FilesRemoved \/ FilesNotRemoved \/ FilesMissing \/ BeginUninstall
          \/ Unregister
  BY <1>6, <1>0
     DEF FilesRemoved, FilesNotRemoved, FilesMissing, BeginUninstall,
         Unregister
<1>7. CASE Register
  BY <1>7, <1>0
     DEF Register, UpsertRecord, DbTypeOK, Records
<1>8. CASE DropInstalledPackage \/ Report
  BY <1>8, <1>0
     DEF DropInstalledPackage, Report
<1>9. CASE KeepStaging
  BY <1>9, <1>0
     DEF KeepStaging
<1>10. CASE SaveBegins \/ SaveFails \/ SaveEnds
  BY <1>10, <1>0
     DEF SaveBegins, SaveFails, SaveEnds, SaveOpens, SaveCannotOpen,
         SaveWrites
<1>11. CASE BeginInstall \/ BeginDownload \/ Download \/ CancelledDownload
          \/ FailedDownload \/ CompleteDownload \/ VerifyRejects
          \/ VerifyPasses \/ VerifyCannotRead \/ CancelledVerify
          \/ EnterInstaller
  BY <1>11, <1>0
     DEF BeginInstall, BeginDownload, Download, CancelledDownload,
         FailedDownload, CompleteDownload, VerifyRejects,
         VerifyPasses, VerifyCannotRead, CancelledVerify,
         EnterInstaller
<1>q. QED BY <1>1, <1>2, <1>3, <1>4, <1>5, <1>6, <1>7, <1>8, <1>9, <1>10, <1>11 DEF PackageStep

LEMMA RemovedKept ==
  ASSUME TypeOK, ControlOK, OutcomeOK, RemovedOK, PackageStep
  PROVE  RemovedOK'
<1>0. job.app \in Apps /\ job.version \in VersionOrNone
  BY PackageWorks, JobTyped
<1> USE DEF OpTypeOK, ControlOK, OutcomeOK, Points, InstallPoints, UninstallPoints, RegisterPoints,
        BeforeSwap, RequestWindow, ExtractWindow, Installing, Goto, GotoWith, InstallerTypeOK,
        installerVars, dbVars, opVars, history, traces, RemovedOK, TypeOK
<1>1. CASE FilesRemoved \/ FilesNotRemoved \/ FilesMissing \/ BeginUninstall
  BY <1>1, <1>0, SwapKept
     DEF FilesRemoved, FilesNotRemoved, FilesMissing, BeginUninstall
<1>2. CASE Unregister
  BY <1>2, <1>0
     DEF Unregister, EraseRecord, DbTypeOK, Records
<1>3. CASE SaveBegins \/ SaveFails \/ SaveEnds
  BY <1>3, <1>0
     DEF SaveBegins, SaveFails, SaveEnds, SaveOpens, SaveCannotOpen,
         SaveWrites
<1>4. CASE Stage \/ Extract \/ ExtractReturns \/ ExtractErrs \/ AbandonStaging
          \/ RemoveOldInstall \/ Rename \/ RenameFails \/ Mark
  BY <1>4, <1>0
     DEF Stage, Extract, ExtractReturns, ExtractErrs, AbandonStaging,
         RemoveOldInstall, Rename, RenameFails, Mark, Job, NoJob
<1>5. CASE BeginInstall \/ BeginDownload \/ Download \/ CancelledDownload
          \/ FailedDownload \/ CompleteDownload \/ VerifyRejects
          \/ VerifyPasses \/ VerifyCannotRead \/ CancelledVerify
          \/ EnterInstaller \/ KeepStaging \/ DropInstalledPackage
          \/ Register \/ Report
  BY <1>5, <1>0
     DEF BeginInstall, BeginDownload, Download, CancelledDownload,
         FailedDownload, CompleteDownload, VerifyRejects,
         VerifyPasses, VerifyCannotRead, CancelledVerify,
         EnterInstaller, KeepStaging, DropInstalledPackage, Register,
         Report
<1>q. QED BY <1>1, <1>2, <1>3, <1>4, <1>5 DEF PackageStep

LEMMA RestartKept ==
  ASSUME TypeOK, ControlOK, RestartLosesNothing, PackageStep, UNCHANGED mgrVars
  PROVE  RestartLosesNothing'
<1>f. NoFaultYet' => NoFaultYet
  BY PackageTyped DEF TypeOK, StorageStep
<1> USE DEF RestartLosesNothing, LoadedRecords, Goto, GotoWith, dbVars, opVars, mgrVars
<1>1. CASE SaveBegins
  BY <1>1
     DEF SaveBegins, SaveOpens
<1>2. CASE SaveFails
  BY <1>2, MutationTyped
     DEF SaveFails, SaveCannotOpen, TypeOK
<1>3. CASE SaveEnds
  BY <1>3, MutationTyped
     DEF SaveEnds, SaveWrites, Written, TypeOK
<1>4. CASE BeginInstall \/ BeginDownload \/ Download \/ CancelledDownload
          \/ FailedDownload \/ CompleteDownload \/ VerifyRejects
          \/ VerifyPasses \/ VerifyCannotRead \/ CancelledVerify
          \/ EnterInstaller \/ Stage \/ Extract \/ ExtractReturns
          \/ ExtractErrs \/ AbandonStaging \/ KeepStaging
          \/ RemoveOldInstall \/ Rename \/ RenameFails \/ Mark
          \/ DropInstalledPackage \/ Register \/ BeginUninstall
          \/ FilesMissing \/ FilesRemoved \/ FilesNotRemoved
          \/ Unregister \/ Report
  BY <1>4, <1>f
     DEF BeginInstall, BeginDownload, Download, CancelledDownload,
         FailedDownload, CompleteDownload, VerifyRejects,
         VerifyPasses, VerifyCannotRead, CancelledVerify,
         EnterInstaller, Stage, Extract, ExtractReturns, ExtractErrs,
         AbandonStaging, KeepStaging, RemoveOldInstall, Rename,
         RenameFails, Mark, DropInstalledPackage, Register,
         BeginUninstall, FilesMissing, FilesRemoved, FilesNotRemoved,
         Unregister, Report
<1>q. QED BY <1>1, <1>2, <1>3, <1>4 DEF PackageStep

-----------------------------------------------------------------------------
(* The steps of everybody else                                             *)

LEMMA PackageInv ==
  ASSUME IInv, PackageStep, KeepTraces, UNCHANGED <<mgrVars, before, cancelled>>
  PROVE  IInv'
<1>1. TypeOK'
  <2>1. pc = "extract" => files[PkgPath] \in Content
    BY JobTyped DEF IInv, TypeOK, HttpTypeOK, ControlOK, InstallPoints
  <2>2. MgrTypeOK'
    BY <2>1 DEF IInv, TypeOK, MgrTypeOK, mgrVars, KeepTraces, Phase
  <2>q. QED BY <2>2, PackageTyped, PackageControl DEF IInv, TypeOK, StorageStep
<1>2. ControlOK'
  BY PackageControl DEF IInv, TypeOK
<1>3. OutcomeOK' /\ CancelOK'
  BY FlagsKept DEF IInv, TypeOK
<1>4. ArchiveOK' /\ VerifiedOnly'
  BY ArchiveKept, CleanKept DEF IInv, TypeOK
<1>5. OldInstallOK' /\ NewInstallOK' /\ RemovedOK'
  BY OldInstallKept, NewInstallKept, RemovedKept DEF IInv
<1>6. RestartLosesNothing'
  BY RestartKept DEF IInv
<1>7. TracesOK'
  BY PackageTyped DEF IInv, TypeOK, StorageStep, TracesOK, KeepTraces, NoFaultYet
<1>q. QED BY <1>1, <1>2, <1>3, <1>4, <1>5, <1>6, <1>7 DEF IInv

\* The invariant looks at files, directories and records, at the job and where
\* its thread is, and at the flags; a step that leaves them leaves it.
LEMMA QuietInv ==
  ASSUME IInv, UNCHANGED <<faults, files, staging, installed, dbFile, records, pc, job, outcome,
                           mgrBusy, pkgBusy, before, traces>>,
         HttpTypeOK', InstallerTypeOK', OpTypeOK', MgrTypeOK', CancelOK',
         installerCancelled => installerCancelled',
         ui' = "closed" <=> ui = "closed"
  PROVE  IInv'
<1>1. TypeOK'
  BY DEF IInv, TypeOK, StorageTypeOK, DbTypeOK
<1>2. ControlOK' /\ OutcomeOK'
  BY DEF IInv, ControlOK, OutcomeOK, Installing
<1>3. VerifiedOnly' /\ ArchiveOK' /\ RestartLosesNothing'
  BY DEF IInv, VerifiedOnly, ArchiveOK, RestartLosesNothing, PkgPath, NoFaultYet, LoadedRecords
<1>4. OldInstallOK' /\ RemovedOK'
  BY DEF IInv, OldInstallOK, RemovedOK, Installing, traces
<1>5. NewInstallOK'
  BY DEF IInv, NewInstallOK, Installing, PkgPath, Unpacked, Sound, traces
<1>6. TracesOK'
  BY DEF IInv, TracesOK, NoFaultYet, traces
<1>q. QED BY <1>1, <1>2, <1>3, <1>4, <1>5, <1>6 DEF IInv

LEMMA StartInv ==
  ASSUME IInv, pc = "idle", ui # "closed", NEW j \in Job, StartOp(j)
  PROVE  IInv'
<1>1. /\ pc' = "requested" /\ job' = j /\ outcome' = "none" /\ mgrBusy' = TRUE /\ joinable' = TRUE
      /\ cancelled' = "no" /\ ForgetTraces
      /\ before' = [dir |-> installed[j.app], record |-> records[j.app]]
      /\ UNCHANGED <<faults, httpVars, installerVars, dbVars, pkgBusy, cancelRequested,
                     ui, closing, offered, refresh, boots>>
  BY DEF StartOp
<1>2. j.app \in Apps
  BY DEF Job
<1>3. StorageTypeOK' /\ HttpTypeOK' /\ InstallerTypeOK' /\ DbTypeOK'
  BY <1>1 DEF IInv, TypeOK, StorageTypeOK, HttpTypeOK, InstallerTypeOK, DbTypeOK,
              httpVars, installerVars, dbVars
<1>4. OpTypeOK'
  BY <1>1 DEF IInv, TypeOK, OpTypeOK, Points
<1>5. before' \in [dir : Dir, record : VersionOrNone]
  BY <1>1, <1>2 DEF IInv, TypeOK, InstallerTypeOK, DbTypeOK, Records
<1>6. MgrTypeOK'
  BY <1>1, <1>5 DEF IInv, TypeOK, MgrTypeOK, ForgetTraces
<1>7. ControlOK'
  BY <1>1 DEF IInv, ControlOK, InstallPoints, UninstallPoints
<1>8. OutcomeOK' /\ CancelOK' /\ ArchiveOK'
  BY <1>1 DEF OutcomeOK, CancelOK, ArchiveOK
<1>9. VerifiedOnly' /\ RestartLosesNothing'
  BY <1>1 DEF IInv, VerifiedOnly, RestartLosesNothing, LoadedRecords, NoFaultYet,
              installerVars, dbVars
<1>10. OldInstallOK' /\ NewInstallOK' /\ RemovedOK' /\ TracesOK'
  BY <1>1 DEF OldInstallOK, NewInstallOK, Unpacked, RemovedOK, RegisterPoints, TracesOK, ForgetTraces,
              installerVars, dbVars
<1>q. QED BY <1>3, <1>4, <1>6, <1>7, <1>8, <1>9, <1>10 DEF IInv, TypeOK

LEMMA UiInv ==
  ASSUME IInv, UiStep
  PROVE  IInv'
<1>1. ASSUME NEW a \in Apps, Install(a) PROVE IInv'
  <2>1. pc = "idle"
    BY <1>1 DEF Install, IInv, ControlOK
  <2>2. [kind |-> "install", app |-> a, version |-> offered[a]] \in Job
    BY <1>1 DEF Install, IsOffered, IInv, TypeOK, MgrTypeOK, Job, VersionOrNone
  <2>q. QED BY <1>1, <2>1, <2>2, StartInv DEF Install, UiFree
<1>2. ASSUME NEW a \in Apps, Uninstall(a) PROVE IInv'
  <2>1. pc = "idle"
    BY <1>2 DEF Uninstall, IInv, ControlOK
  <2>2. [kind |-> "uninstall", app |-> a, version |-> None] \in Job
    BY DEF Job
  <2>q. QED BY <1>2, <2>1, <2>2, StartInv DEF Uninstall, UiFree
<1>3. ASSUME SetCancelRequested, ui = "ready", closing' \in BOOLEAN PROVE IInv'
  <2>1. HttpTypeOK' /\ InstallerTypeOK' /\ OpTypeOK' /\ MgrTypeOK'
    BY <1>3 DEF SetCancelRequested, IInv, TypeOK, HttpTypeOK, InstallerTypeOK, OpTypeOK, MgrTypeOK,
                httpVars, installerVars, traces
  <2>2. CancelOK'
    BY <1>3 DEF SetCancelRequested, IInv, CancelOK, installerVars
  <2>q. QED BY <1>3, <2>1, <2>2, QuietInv DEF SetCancelRequested, httpVars, installerVars, dbVars
<1>4. CASE Cancel
  BY <1>3, <1>4 DEF Cancel, UiFree, IInv, TypeOK, MgrTypeOK
<1>5. CASE Shutdown
  <2>1. CASE ~joinable
    <3>1. HttpTypeOK' /\ InstallerTypeOK' /\ OpTypeOK' /\ CancelOK'
      BY <1>5, <2>1 DEF Shutdown, IInv, TypeOK, HttpTypeOK, InstallerTypeOK, OpTypeOK,
                        CancelOK, httpVars, installerVars, opVars, history
    <3>2. MgrTypeOK'
      BY <1>5, <2>1 DEF Shutdown, IInv, TypeOK, MgrTypeOK, history, traces
    <3>q. QED BY <1>5, <2>1, <3>1, <3>2, QuietInv
              DEF Shutdown, httpVars, installerVars, dbVars, opVars, history, traces
  <2>2. CASE joinable
    BY <1>3, <1>5, <2>2 DEF Shutdown, UiFree
  <2>q. QED BY <2>1, <2>2
<1>6. CASE CancelHttp
  <2>1. HttpTypeOK' /\ InstallerTypeOK' /\ OpTypeOK' /\ MgrTypeOK' /\ CancelOK'
    BY <1>6 DEF CancelHttp, HttpCancel, IInv, TypeOK, HttpTypeOK, InstallerTypeOK, OpTypeOK,
                MgrTypeOK, CancelOK, installerVars, opVars, history, traces
  <2>q. QED BY <1>6, <2>1, QuietInv DEF CancelHttp, installerVars, dbVars, opVars, history, traces
<1>7. CASE CancelInstaller
  <2>1. HttpTypeOK' /\ InstallerTypeOK' /\ OpTypeOK' /\ MgrTypeOK'
    BY <1>7 DEF CancelInstaller, IInv, TypeOK, HttpTypeOK, InstallerTypeOK, OpTypeOK, MgrTypeOK,
                httpVars, opVars, traces
  <2>2. CancelOK'
    BY <1>7 DEF CancelInstaller, IInv, CancelOK, opVars
  <2>q. QED BY <1>7, <2>1, <2>2, QuietInv DEF CancelInstaller, httpVars, dbVars, opVars
<1>q. QED BY <1>1, <1>2, <1>4, <1>5, <1>6, <1>7 DEF UiStep

LEMMA RefreshInv ==
  ASSUME IInv, RefreshStep
  PROVE  IInv'
<1>1. CASE RefreshGet
  <2>1. InstallerTypeOK' /\ OpTypeOK' /\ MgrTypeOK' /\ CancelOK'
    BY <1>1 DEF RefreshGet, IInv, TypeOK, InstallerTypeOK, OpTypeOK, MgrTypeOK, CancelOK,
                installerVars, opVars, history, traces
  <2>2. HttpTypeOK'
    BY <1>1, Zenon DEF RefreshGet, HttpGet, IInv, TypeOK, HttpTypeOK
  <2>q. QED BY <1>1, <2>1, <2>2, QuietInv DEF RefreshGet, installerVars, dbVars, opVars, history, traces
<1>2. CASE RefreshLoads
  <2>1. HttpTypeOK' /\ InstallerTypeOK' /\ OpTypeOK' /\ MgrTypeOK' /\ CancelOK'
    BY <1>2 DEF RefreshLoads, IInv, TypeOK, HttpTypeOK, InstallerTypeOK, OpTypeOK,
                MgrTypeOK, CancelOK, httpVars, installerVars, opVars, history, traces
  <2>q. QED BY <1>2, <2>1, QuietInv DEF RefreshLoads, httpVars, installerVars, dbVars, opVars, history, traces
<1>q. QED BY <1>1, <1>2 DEF RefreshStep

\* With no operation there is little to keep: what is on disk and in memory.
LEMMA IdleInv ==
  ASSUME TypeOK', VerifiedOnly', RestartLosesNothing',
         pc' = "idle", job' = NoJob, outcome' = "none", ~mgrBusy', ~pkgBusy', cancelled' = "no",
         ForgetTraces
  PROVE  IInv'
BY DEF IInv, TracesOK, ForgetTraces, ControlOK, OutcomeOK, CancelOK, ArchiveOK, OldInstallOK, NewInstallOK, RemovedOK,
       NoJob, Installing, InstallPoints, UninstallPoints

LEMMA NoDirTyped == NoDir \in Dir
BY DEF NoDir, Dir, DirState, VersionOrNone

LEMMA ReleaseInv ==
  ASSUME IInv, ReleaseManager
  PROVE  IInv'
<1>1. TypeOK'
  BY NoDirTyped DEF ReleaseManager, IInv, TypeOK, StorageTypeOK, HttpTypeOK, InstallerTypeOK, DbTypeOK,
         OpTypeOK, MgrTypeOK, Points, NoSnapshot, ForgetTraces, VersionOrNone, httpVars, installerVars, dbVars
<1>2. VerifiedOnly' /\ RestartLosesNothing'
  BY DEF ReleaseManager, IInv, VerifiedOnly, RestartLosesNothing, LoadedRecords, NoFaultYet,
         installerVars, dbVars
<1>q. QED BY <1>1, <1>2, IdleInv DEF ReleaseManager, IInv, ControlOK

LEMMA ProcessInv ==
  ASSUME IInv, ProcessStep
  PROVE  IInv'
<1>1. ASSUME ProcessEnds PROVE IInv'
  <2>1. NoRecords \in Records /\ [a \in Apps |-> None] \in [Apps -> VersionOrNone]
    BY DEF NoRecords, Records, VersionOrNone
  <2>s. StorageTypeOK' /\ DbTypeOK'
    BY <1>1, <2>1 DEF ProcessEnds, IInv, TypeOK, StorageTypeOK, DbTypeOK
  <2>h. HttpTypeOK'
    BY <1>1, NoTransferTyped, Zenon DEF ProcessEnds, IInv, TypeOK, HttpTypeOK
  <2>e. 0 \in 0..Entries
    BY EntriesIsNat
  <2>2. InstallerTypeOK'
    BY <1>1, <2>e, Zenon DEF ProcessEnds, IInv, TypeOK, InstallerTypeOK
  <2>3. OpTypeOK' /\ MgrTypeOK'
    BY <1>1, <2>1, NoDirTyped
       DEF ProcessEnds, IInv, TypeOK, OpTypeOK, MgrTypeOK, Points, NoSnapshot, ForgetTraces,
           VersionOrNone
  <2>4. VerifiedOnly' /\ RestartLosesNothing'
    BY <1>1 DEF ProcessEnds, IInv, VerifiedOnly, RestartLosesNothing
  <2>q. QED BY <1>1, <2>s, <2>h, <2>2, <2>3, <2>4, IdleInv DEF ProcessEnds, TypeOK
<1>2. CASE Boot
  <2>1. pc = "idle" /\ job = NoJob
    BY <1>2 DEF Boot, IInv, ControlOK
  <2>2. LoadedRecords \in Records
    BY DEF IInv, TypeOK, DbTypeOK, DbFile, LoadedRecords, NoRecords, Records, VersionOrNone
  <2>3. PICK fails \in BOOLEAN :
           /\ Mutation(fails)
           /\ records' = IF fails THEN NoRecords ELSE LoadedRecords
           /\ dbFile' = dbFile
    BY <1>2 DEF Boot, LoadRecords
  <2>s. StorageStep /\ (fails => ~NoFaultYet')
    BY <2>3, MutationTyped DEF IInv, TypeOK
  <2>4. HttpTypeOK' /\ InstallerTypeOK' /\ OpTypeOK'
    BY <1>2 DEF Boot, IInv, TypeOK, HttpTypeOK, InstallerTypeOK, OpTypeOK,
                httpVars, installerVars, opVars
  <2>n. NoRecords \in Records
    BY DEF NoRecords, Records, VersionOrNone
  <2>d. DbTypeOK'
    BY <2>2, <2>3, <2>n DEF IInv, TypeOK, DbTypeOK
  <2>5. MgrTypeOK'
    BY <1>2, MaxBootsIsNat DEF Boot, IInv, TypeOK, MgrTypeOK, history, traces
  <2>6. ControlOK' /\ OutcomeOK' /\ CancelOK' /\ ArchiveOK'
    BY <1>2, <2>1 DEF Boot, IInv, ControlOK, OutcomeOK, CancelOK, ArchiveOK, opVars, history, traces,
                      installerVars, NoJob, Installing, InstallPoints, UninstallPoints,
                      RequestWindow, ExtractWindow
  <2>7. VerifiedOnly'
    BY <1>2 DEF Boot, IInv, VerifiedOnly, installerVars
  <2>8. OldInstallOK' /\ NewInstallOK' /\ RemovedOK'
    BY <1>2, <2>1 DEF Boot, OldInstallOK, NewInstallOK, RemovedOK, Installing, NoJob, opVars
  <2>t. TracesOK'
    BY <1>2, <2>s DEF Boot, IInv, TracesOK, StorageStep, history, traces
  <2>9. RestartLosesNothing'
    BY <2>3, <2>s DEF RestartLosesNothing, LoadedRecords
  <2>q. QED BY <2>s, <2>4, <2>d, <2>5, <2>6, <2>7, <2>8, <2>9, <2>t DEF IInv, TypeOK, StorageStep
<1>q. QED BY <1>1, <1>2 DEF ProcessStep, Exit, Crash

-----------------------------------------------------------------------------
(* The invariant holds of the specification                                *)

\* What the process starts from satisfies the invariant.
LEMMA InitInv == Init => IInv
<1> SUFFICES ASSUME Init PROVE IInv
  OBVIOUS
<1> USE DEF Init, StorageInit, HttpInit, InstallerInit, DbInit, OpInit, MgrInit
<1>r. MaxFaults \in 0..MaxFaults /\ 0 \in 0..Entries /\ MaxBoots \in 0..MaxBoots
  BY MaxFaultsIsNat, EntriesIsNat, MaxBootsIsNat
<1>c. [p \in Paths |-> "absent"] \in [Paths -> Content] /\ NoSnapshot \in [dir : Dir, record : VersionOrNone]
      /\ [a \in Apps |-> None] \in [Apps -> VersionOrNone]
  BY NoDirTyped DEF Content, NoSnapshot, VersionOrNone
<1>1. StorageTypeOK /\ HttpTypeOK
  BY <1>r, <1>c, NoTransferTyped, Zenon DEF StorageTypeOK, HttpTypeOK
<1>t. InstallerTypeOK
  BY <1>r, NoDirTyped, Zenon DEF InstallerTypeOK
<1>2. DbTypeOK /\ OpTypeOK
  BY DEF DbTypeOK, DbFile, Records, NoRecords, OpTypeOK, Points, VersionOrNone
<1>3. MgrTypeOK
  BY <1>r, <1>c, Zenon DEF MgrTypeOK
<1>4. ControlOK /\ OutcomeOK /\ CancelOK /\ ArchiveOK
  BY DEF ControlOK, OutcomeOK, CancelOK, ArchiveOK, NoJob, Installing, InstallPoints, UninstallPoints
<1>5. VerifiedOnly /\ RestartLosesNothing
  BY HashedAreApps DEF VerifiedOnly, RestartLosesNothing, LoadedRecords, NoDir
<1>6. OldInstallOK /\ NewInstallOK /\ RemovedOK /\ TracesOK
  BY DEF OldInstallOK, NewInstallOK, RemovedOK, TracesOK, Installing, NoJob
<1>q. QED BY <1>1, <1>t, <1>2, <1>3, <1>4, <1>5, <1>6 DEF IInv, TypeOK

\* No step of any thread, and no end or start of the process, breaks it.
LEMMA NextInv == IInv /\ [Next]_vars => IInv'
<1> SUFFICES ASSUME IInv, [Next]_vars PROVE IInv'
  OBVIOUS
<1>1. CASE OpStep
  BY <1>1, PackageInv, ReleaseInv DEF OpStep
<1>2. CASE UiStep
  BY <1>2, UiInv
<1>3. CASE RefreshStep
  BY <1>3, RefreshInv
<1>4. CASE ProcessStep
  BY <1>4, ProcessInv
<1>5. CASE UNCHANGED vars
  <2>1. HttpTypeOK' /\ InstallerTypeOK' /\ OpTypeOK' /\ MgrTypeOK' /\ CancelOK'
    BY <1>5 DEF vars, IInv, TypeOK, HttpTypeOK, InstallerTypeOK, OpTypeOK, MgrTypeOK, CancelOK,
                httpVars, installerVars, opVars, mgrVars, history, traces
  <2>q. QED BY <1>5, <2>1, QuietInv
            DEF vars, httpVars, installerVars, dbVars, opVars, mgrVars, history, traces
<1>q. QED BY <1>1, <1>2, <1>3, <1>4, <1>5 DEF Next

\* The invariant is one of every reachable state.
LEMMA Invariance == Spec => []IInv
BY InitInv, NextInv, PTL DEF Spec

\* Every variable keeps its type (the storage budget, the flags, the frames of
\* the threads, the directories, the database).
THEOREM TypeCorrect == Spec => []TypeOK
<1>1. IInv => TypeOK
  BY DEF IInv
<1>q. QED BY <1>1, Invariance, PTL

\* A cancel that comes while the thread still looks at its flag is not lost:
\* PackageManager.cpp 122 and 154, PackageInstaller.cpp 99 and 244.
THEOREM CancelIsHonoured == Spec => []CancelHonoured
<1>1. IInv => CancelHonoured
  BY DEF IInv, TypeOK, OpTypeOK, MgrTypeOK, OutcomeOK, CancelOK, CancelHonoured, PastCancel,
         RequestWindow, ExtractWindow
<1>q. QED BY <1>1, Invariance, PTL

\* The busy flag of PackageManager is free when AppManager's thread gets there.
THEOREM OperationsAreNotBounced == Spec => []NeverBounced
<1>1. IInv => NeverBounced
  BY DEF IInv, ControlOK, NeverBounced
<1>q. QED BY <1>1, Invariance, PTL

\* No file of an archive that fails its hash reaches an app that has one.
THEOREM OnlyVerifiedIsUnpacked == Spec => []VerifiedOnly
<1>1. IInv => VerifiedOnly
  BY DEF IInv
<1>q. QED BY <1>1, Invariance, PTL

\* A failed install leaves the old one and its record, unless storage failed
\* while PackageInstaller swapped the directories (PackageInstaller.cpp 259 to
\* 265): failures before it, and of earlier operations, cost nothing.
THEOREM FailureIsHarmless == Spec => []FailureKeepsOldInstall
<1>1. IInv => FailureKeepsOldInstall
  BY DEF IInv, OldInstallOK, FailureKeepsOldInstall
<1>q. QED BY <1>1, Invariance, PTL

\* What an operation reports as success is so in the database, and on disk for
\* an archive that is the published one, unpacked by a storage that works; an
\* archive that is not is never installed for an app with a hash.  For an app
\* without one nothing better holds: extract_zip takes what it cannot read on
\* for the end of the archive (PackageInstaller.cpp 86 to 93).
THEOREM SuccessIsKept == Spec => []SuccessIsReal
<1>1. IInv => SuccessIsReal
  BY DEF IInv, TypeOK, OpTypeOK, ControlOK, NewInstallOK, RemovedOK, SuccessIsReal, Sound,
         Unpacked, Installing, Job, RegisterPoints
<1>q. QED BY <1>1, Invariance, PTL

\* Memory and database file agree outside a save, across crashes and restarts.
THEOREM NothingIsLostInRestart == Spec => []RestartLosesNothing
<1>1. IInv => RestartLosesNothing
  BY DEF IInv
<1>q. QED BY <1>1, Invariance, PTL
=============================================================================
