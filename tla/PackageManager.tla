--------------------------- MODULE PackageManager ---------------------------
(***************************************************************************)
(* PackageManager (src/packages): download, verify, install and register,  *)
(* or remove files and unregister, as one synchronous call on AppManager's *)
(* operation thread.                                                       *)
(*                                                                         *)
(* One action is what the thread does between two points where the other   *)
(* threads, or the end of the process, can come in.  `pc` names the point  *)
(* reached; the reset of both busy flags at the end are points of their    *)
(* own.  `outcome` is the PackageResult as far as it is known.             *)
(***************************************************************************)
EXTENDS HttpClient, PackageInstaller, InstalledDatabase

CONSTANT Hashed               \* apps verified: verify_hashes and a sha256

ASSUME HashedAreApps == Hashed \subseteq Apps
ASSUME PathsAreArchives == Paths = Apps \X Versions

VARIABLES pkgBusy,            \* m_busy
          cancelRequested,    \* m_cancel_requested
          pc, job, outcome    \* frame of the operation thread

opVars == <<pkgBusy, cancelRequested, pc, job, outcome>>

InstallPoints == {"download", "transfer", "verify", "verified",
                  "stage", "extract", "extracted", "removeOld", "rename",
                  "mark", "dropPackage"}
UninstallPoints == {"removeFiles"}
RegisterPoints == {"register", "save", "write"}
Points == {"idle", "requested", "report", "end"}
             \cup InstallPoints \cup UninstallPoints \cup RegisterPoints

OpInit == /\ pkgBusy = FALSE
          /\ cancelRequested = FALSE
          /\ pc = "idle"
          /\ job = NoJob
          /\ outcome = "none"

OpTypeOK == /\ pkgBusy \in BOOLEAN
            /\ cancelRequested \in BOOLEAN
            /\ pc \in Points
            /\ job \in Job \cup {NoJob}
            /\ outcome \in {"none", "ok", "failed"}

\* <download_dir>/<id>-<version>.pkg
PkgPath == <<job.app, job.version>>

Installing == job.kind = "install"

\* The thread goes from point p to point q, its result still open, ...
Goto(p, q) == pc = p /\ pc' = q /\ UNCHANGED <<pkgBusy, cancelRequested, job, outcome>>
\* ... or with its result known.
GotoWith(p, q, result) ==
    /\ pc = p /\ pc' = q /\ outcome' = result
    /\ UNCHANGED <<pkgBusy, cancelRequested, job>>

\* m_fs->remove(pkg_path), whose result is not looked at
DropPackage ==
    /\ \E fails \in BOOLEAN :
          /\ Mutation(fails)
          /\ fails => files[PkgPath] # "absent"
          /\ files' = [files EXCEPT ![PkgPath] = IF fails THEN @ ELSE "absent"]
    /\ UNCHANGED httpCancelled

-----------------------------------------------------------------------------
(* install                                                                 *)

\* Take the busy flag, clear the cancel request, look at the free space.  The
\* early return on a flag already taken is not here: NeverBounced shows that
\* AppManager never lets it happen.
BeginInstall ==
    /\ pc = "requested" /\ Installing
    /\ ~pkgBusy
    /\ pkgBusy' = TRUE
    /\ cancelRequested' = FALSE
    /\ \E enoughSpace \in BOOLEAN :
          /\ pc' = IF enoughSpace THEN "download" ELSE "report"
          /\ outcome' = IF enoughSpace THEN outcome ELSE "failed"
    /\ UNCHANGED <<job, httpVars, installerVars, dbVars, faults>>

BeginDownload == /\ Goto("download", "transfer")
                 /\ OpenDestination(PkgPath)
                 /\ UNCHANGED <<installerVars, dbVars>>

Download == /\ pc = "transfer"
            /\ TransferStep(PkgPath)
            /\ UNCHANGED <<opVars, installerVars, dbVars>>

\* Cancelled during download: this is looked at before download's result.
CancelledDownload == /\ GotoWith("transfer", "report", "failed")
                     /\ transfer.phase \in {"ok", "failed"}
                     /\ cancelRequested
                     /\ DropPackage
                     /\ transfer' = NoTransfer
                     /\ UNCHANGED <<installerVars, dbVars>>

FailedDownload == /\ GotoWith("transfer", "report", "failed")
                  /\ transfer.phase = "failed" /\ ~cancelRequested
                  /\ transfer' = NoTransfer
                  /\ UNCHANGED <<httpCancelled, files, faults, installerVars, dbVars>>

CompleteDownload == /\ Goto("transfer", "verify")
                    /\ transfer.phase = "ok" /\ ~cancelRequested
                    /\ transfer' = NoTransfer
                    /\ UNCHANGED <<httpCancelled, files, faults, installerVars, dbVars>>

\* PackageVerifier::verify compares the archive's SHA-256 with the catalogue's.
VerifyRejects == /\ GotoWith("verify", "report", "failed")
                 /\ job.app \in Hashed
                 /\ files[PkgPath] # "good"
                 /\ DropPackage
                 /\ UNCHANGED <<transfer, installerVars, dbVars>>

\* Faulty variant: the hash is computed and never compared.
VerifyAccepts == /\ Goto("verify", "verified")
                 /\ UNCHANGED <<httpVars, faults, installerVars, dbVars>>

VerifyPasses == /\ Goto("verify", "verified")
                /\ job.app \in Hashed => files[PkgPath] = "good"
                /\ UNCHANGED <<httpVars, faults, installerVars, dbVars>>

\* verify cannot read the archive: an error, treated as a mismatch.  The
\* removal may fail as well.
VerifyCannotRead ==
    /\ job.app \in Hashed
    /\ GotoWith("verify", "report", "failed")
    /\ \E left \in {"absent", files[PkgPath]} :
          LET cost == IF left = "absent" THEN 1 ELSE 2
          IN  /\ faults >= cost /\ faults' = faults - cost
              /\ files' = [files EXCEPT ![PkgPath] = left]
    /\ UNCHANGED <<httpCancelled, transfer, installerVars, dbVars>>

\* Cancelled during verification.
CancelledVerify == /\ cancelRequested
                   /\ GotoWith("verified", "report", "failed")
                   /\ DropPackage
                   /\ UNCHANGED <<transfer, installerVars, dbVars>>

\* Faulty variant: the request is not looked at again after verification.
EnterInstallerUnchecked == /\ Goto("verified", "stage")
                           /\ UNCHANGED <<httpVars, faults, installerVars, dbVars>>

EnterInstaller == /\ ~cancelRequested
                  /\ Goto("verified", "stage")
                  /\ UNCHANGED <<httpVars, faults, installerVars, dbVars>>

Stage == /\ Goto("stage", "extract")
         /\ BeginStaging(job.app, job.version)
         /\ UNCHANGED <<httpVars, dbVars>>

Extract == /\ Goto("extract", "extract")
           /\ ExtractEntry(job.app, files[PkgPath])
           /\ UNCHANGED <<httpVars, dbVars>>

ExtractReturns == /\ Goto("extract", "extracted")
                  /\ ArchiveEnds(job.app, files[PkgPath]) \/ ExtractionStops
                  /\ UNCHANGED <<httpVars, dbVars>>

ExtractErrs == /\ GotoWith("extract", "extracted", "failed")
               /\ ExtractionFails(files[PkgPath])
               /\ UNCHANGED <<httpVars, dbVars>>

\* Cancelled, or extraction failed: install gives up and returns no path.
AbandonStaging == /\ installerCancelled \/ outcome = "failed"
                  /\ GotoWith("extracted", "dropPackage", "failed")
                  /\ DiscardStaging(job.app)
                  /\ UNCHANGED <<httpVars, dbVars>>

\* Faulty variant: what a cancelled extraction left behind counts as unpacked.
KeepStagingUnchecked == /\ outcome # "failed"
                        /\ Goto("extracted", "removeOld")
                        /\ UNCHANGED <<httpVars, faults, installerVars, dbVars>>

KeepStaging == /\ ~installerCancelled /\ outcome # "failed"
               /\ Goto("extracted", "removeOld")
               /\ UNCHANGED <<httpVars, faults, installerVars, dbVars>>

RemoveOldInstall == /\ Goto("removeOld", "rename")
                    /\ RemoveOld(job.app)
                    /\ UNCHANGED <<httpVars, dbVars>>

Rename == /\ Goto("rename", "mark")
          /\ MoveIn(job.app)
          /\ UNCHANGED <<httpVars, dbVars>>

RenameFails == /\ GotoWith("rename", "dropPackage", "failed")
               /\ CannotMoveIn(job.app)
               /\ UNCHANGED <<httpVars, dbVars>>

Mark == /\ Goto("mark", "dropPackage")
        /\ WriteMarker(job.app, job.version)
        /\ UNCHANGED <<httpVars, dbVars>>

\* Faulty variant: the archive is removed only after a successful install.
DropPackageIfInstalled ==
    /\ Goto("dropPackage", IF outcome = "failed" THEN "report" ELSE "register")
    /\ IF outcome = "failed" THEN UNCHANGED <<httpCancelled, files, faults>>
                             ELSE DropPackage
    /\ UNCHANGED <<transfer, installerVars, dbVars>>

\* Faulty variant: no look at the empty path install returns on failure.
DropPackageAndRegister ==
    /\ Goto("dropPackage", "register")
    /\ DropPackage
    /\ UNCHANGED <<transfer, installerVars, dbVars>>

\* The archive is removed after the attempt, whatever came of it.
DropInstalledPackage ==
    /\ Goto("dropPackage", IF outcome = "failed" THEN "report" ELSE "register")
    /\ DropPackage
    /\ UNCHANGED <<transfer, installerVars, dbVars>>

\* upsert: from here on the result is ok, whether or not the save succeeds.
Register == /\ Installing
            /\ GotoWith("register", "save", "ok")
            /\ UpsertRecord(job.app, job.version)
            /\ UNCHANGED <<dbFile, httpVars, faults, installerVars>>

-----------------------------------------------------------------------------
(* uninstall                                                               *)

BeginUninstall ==
    /\ pc = "requested" /\ ~Installing
    /\ ~pkgBusy
    /\ pkgBusy' = TRUE
    /\ cancelRequested' = FALSE
    /\ pc' = IF IsInstalled(job.app) THEN "removeFiles" ELSE "report"
    /\ outcome' = IF IsInstalled(job.app) THEN outcome ELSE "failed"
    /\ UNCHANGED <<job, httpVars, installerVars, dbVars, faults>>

\* The install path is not there: nothing is removed, the record included.
FilesMissing == /\ GotoWith("removeFiles", "report", "failed")
                /\ ~Present(installed[job.app])
                /\ UNCHANGED <<httpVars, faults, installerVars, dbVars>>

\* Faulty variant: the files go and the record stays.
FilesRemovedOnly == /\ GotoWith("removeFiles", "report", "ok")
                    /\ RemoveInstalled(job.app, TRUE)
                    /\ UNCHANGED <<httpVars, dbVars>>

FilesRemoved == /\ Goto("removeFiles", "register")
                /\ RemoveInstalled(job.app, TRUE)
                /\ UNCHANGED <<httpVars, dbVars>>

FilesNotRemoved == /\ GotoWith("removeFiles", "report", "failed")
                   /\ RemoveInstalled(job.app, FALSE)
                   /\ UNCHANGED <<httpVars, dbVars>>

\* Faulty variant: the record goes from memory and the file is not rewritten.
UnregisterInMemory == /\ ~Installing
                      /\ GotoWith("register", "report", "ok")
                      /\ EraseRecord(job.app)
                      /\ UNCHANGED <<dbFile, httpVars, faults, installerVars>>

Unregister == /\ ~Installing
              /\ GotoWith("register", "save", "ok")
              /\ EraseRecord(job.app)
              /\ UNCHANGED <<dbFile, httpVars, faults, installerVars>>

-----------------------------------------------------------------------------
(* both                                                                    *)

SaveBegins == /\ Goto("save", "write")
              /\ SaveOpens
              /\ UNCHANGED <<httpVars, installerVars>>

SaveFails == /\ Goto("save", "report")
             /\ SaveCannotOpen
             /\ UNCHANGED <<httpVars, installerVars>>

SaveEnds == /\ Goto("write", "report")
            /\ SaveWrites
            /\ UNCHANGED <<httpVars, installerVars>>

\* Faulty variant: the busy flag is reset where the call succeeds only.
ReportStaysBusy == /\ pc = "report"
                   /\ pc' = "end"
                   /\ pkgBusy' = (outcome = "failed")
                   /\ UNCHANGED <<cancelRequested, job, outcome, httpVars, faults,
                                  installerVars, dbVars>>

\* The call returns and its guard releases the busy flag.
Report == /\ pc = "report"
          /\ pc' = "end"
          /\ pkgBusy' = FALSE
          /\ UNCHANGED <<cancelRequested, job, outcome, httpVars, faults, installerVars, dbVars>>

PackageStep ==
    \/ BeginInstall \/ BeginDownload \/ Download
    \/ CancelledDownload \/ FailedDownload \/ CompleteDownload
    \/ VerifyRejects \/ VerifyPasses \/ VerifyCannotRead \/ CancelledVerify
    \/ EnterInstaller \/ Stage \/ Extract \/ ExtractReturns \/ ExtractErrs
    \/ AbandonStaging \/ KeepStaging \/ RemoveOldInstall \/ Rename \/ RenameFails
    \/ Mark \/ DropInstalledPackage \/ Register
    \/ BeginUninstall \/ FilesMissing \/ FilesRemoved \/ FilesNotRemoved \/ Unregister
    \/ SaveBegins \/ SaveFails \/ SaveEnds \/ Report
=============================================================================
