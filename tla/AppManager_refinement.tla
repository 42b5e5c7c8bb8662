---------------------- MODULE AppManager_refinement ----------------------
(***************************************************************************)
(* AppManager implements Operations, for every value of the constants.     *)
(***************************************************************************)
EXTENDS AppManager_proofs

\* Between two processes nothing refreshes the catalogue.
RefreshOK == ui = "closed" => refresh = "done"

\* What a step of the pipeline shows: nothing, a failure, or a result with
\* the record it is about.
Shows == \/ UNCHANGED <<records, outcome>>
         \/ outcome = "none" /\ outcome' = "failed" /\ UNCHANGED records
         \/ /\ outcome = "none" /\ outcome' = "ok"
            /\ records' = [records EXCEPT ![job.app] = job.version]

LEMMA PackageShows ==
  ASSUME OpTypeOK, ControlOK, OutcomeOK, PackageStep
  PROVE  Shows /\ pc # "idle" /\ pc' # "idle" /\ UNCHANGED job
<1> USE DEF OpTypeOK, ControlOK, OutcomeOK, Shows, Goto, GotoWith, dbVars
<1>1. CASE BeginInstall
  BY <1>1 DEF BeginInstall
<1>2. CASE BeginDownload
  BY <1>2 DEF BeginDownload
<1>3. CASE Download
  BY <1>3 DEF Download, opVars, dbVars
<1>4. CASE CancelledDownload
  BY <1>4 DEF CancelledDownload
<1>5. CASE FailedDownload
  BY <1>5 DEF FailedDownload
<1>6. CASE CompleteDownload
  BY <1>6 DEF CompleteDownload
<1>7. CASE VerifyRejects
  BY <1>7 DEF VerifyRejects
<1>8. CASE VerifyPasses
  BY <1>8 DEF VerifyPasses
<1>9. CASE VerifyCannotRead
  BY <1>9 DEF VerifyCannotRead
<1>10. CASE CancelledVerify
  BY <1>10 DEF CancelledVerify
<1>11. CASE EnterInstaller
  BY <1>11 DEF EnterInstaller
<1>12. CASE Stage
  BY <1>12 DEF Stage
<1>13. CASE Extract
  BY <1>13 DEF Extract
<1>14. CASE ExtractReturns
  BY <1>14 DEF ExtractReturns
<1>15. CASE ExtractErrs
  BY <1>15 DEF ExtractErrs
<1>16. CASE AbandonStaging
  BY <1>16 DEF AbandonStaging
<1>17. CASE KeepStaging
  BY <1>17 DEF KeepStaging
<1>18. CASE RemoveOldInstall
  BY <1>18 DEF RemoveOldInstall
<1>19. CASE Rename
  BY <1>19 DEF Rename
<1>20. CASE RenameFails
  BY <1>20 DEF RenameFails
<1>21. CASE Mark
  BY <1>21 DEF Mark
<1>22. CASE DropInstalledPackage
  BY <1>22 DEF DropInstalledPackage
<1>23. CASE Register
  BY <1>23 DEF Register, UpsertRecord
<1>24. CASE BeginUninstall
  BY <1>24 DEF BeginUninstall
<1>25. CASE FilesMissing
  BY <1>25 DEF FilesMissing
<1>26. CASE FilesRemoved
  BY <1>26 DEF FilesRemoved
<1>27. CASE FilesNotRemoved
  BY <1>27 DEF FilesNotRemoved
<1>28. CASE Unregister
  <2>1. job.version = None
    BY <1>28 DEF Unregister, Job, Installing
  <2>q. QED BY <1>28, <2>1 DEF Unregister, EraseRecord
<1>29. CASE SaveBegins
  BY <1>29 DEF SaveBegins, SaveOpens
<1>30. CASE SaveFails
  BY <1>30 DEF SaveFails, SaveCannotOpen
<1>31. CASE SaveEnds
  BY <1>31 DEF SaveEnds, SaveWrites
<1>32. CASE Report
  BY <1>32 DEF Report
<1>q. QED BY <1>1, <1>2, <1>3, <1>4, <1>5, <1>6, <1>7, <1>8, <1>9, <1>10, <1>11, <1>12, <1>13,
          <1>14, <1>15, <1>16, <1>17, <1>18, <1>19, <1>20, <1>21, <1>22, <1>23, <1>24, <1>25,
          <1>26, <1>27, <1>28, <1>29, <1>30, <1>31, <1>32
     DEF PackageStep

-----------------------------------------------------------------------------

LEMMA StopRefines ==
  ASSUME ProcessEnds, ui # "closed"
  PROVE  Ops!Stop
BY DEF ProcessEnds, Ops!Stop, Ops!Nothing, Ops!NoJob, NoJob, NoRecords, Progress

LEMMA OpRefines ==
  ASSUME IInv, OpStep
  PROVE  [Ops!OpsNext]_(Ops!opsVars)
<1>1. CASE PackageStep /\ KeepTraces /\ UNCHANGED <<mgrVars, before, cancelled>>
  <2>1. Shows /\ pc # "idle" /\ pc' # "idle" /\ UNCHANGED <<job, ui, offered>>
    BY <1>1, PackageShows DEF IInv, TypeOK, mgrVars
  <2>2. CASE UNCHANGED <<records, outcome>>
    BY <2>1, <2>2 DEF Ops!opsVars, Progress
  <2>3. CASE outcome = "none" /\ outcome' = "failed" /\ UNCHANGED records
    BY <2>1, <2>3 DEF Ops!OpsNext, Ops!Fail, Progress
  <2>4. CASE /\ outcome = "none" /\ outcome' = "ok"
             /\ records' = [records EXCEPT ![job.app] = job.version]
    BY <2>1, <2>4 DEF Ops!OpsNext, Ops!Perform, Progress
  <2>q. QED BY <2>1, <2>2, <2>3, <2>4 DEF Shows
<1>2. CASE ReleaseManager
  <2>1. Progress \in {"done", "failed"} /\ Progress' = "idle"
    BY <1>2 DEF ReleaseManager, IInv, TypeOK, OpTypeOK, OutcomeOK, Progress
  <2>q. QED BY <1>2, <2>1 DEF ReleaseManager, dbVars, Ops!OpsNext, Ops!Finish, Ops!NoJob, NoJob
<1>q. QED BY <1>1, <1>2 DEF OpStep

LEMMA StartRefines ==
  ASSUME IInv, NEW j, StartOp(j), UiFree, ~mgrBusy, ui # "closed"
  PROVE  Ops!Accept(j)
BY DEF StartOp, IInv, ControlOK, Ops!Accept, Progress, dbVars

LEMMA UiRefines ==
  ASSUME IInv, UiStep
  PROVE  [Ops!OpsNext]_(Ops!opsVars)
<1>1. ASSUME NEW a \in Apps, Install(a) PROVE Ops!AcceptInstall(a)
  BY <1>1, StartRefines DEF Install, UiFree, Ops!AcceptInstall, Ops!IsOffered, IsOffered
<1>2. ASSUME NEW a \in Apps, Uninstall(a) PROVE Ops!AcceptUninstall(a)
  BY <1>2, StartRefines DEF Uninstall, UiFree, Ops!AcceptUninstall, Ops!IsInstalled, IsInstalled
<1>3. CASE Cancel \/ CancelHttp \/ CancelInstaller \/ Shutdown
  BY <1>3 DEF Cancel, CancelHttp, CancelInstaller, Shutdown, SetCancelRequested, UiFree, dbVars,
              opVars, Ops!opsVars, Progress
<1>q. QED BY <1>1, <1>2, <1>3 DEF UiStep, Ops!OpsNext

LEMMA RefreshRefines ==
  ASSUME RefreshOK, RefreshStep
  PROVE  [Ops!OpsNext]_(Ops!opsVars)
<1>1. CASE RefreshGet
  BY <1>1 DEF RefreshGet, dbVars, opVars, Ops!opsVars, Progress
<1>2. CASE RefreshLoads
  BY <1>2 DEF RefreshLoads, RefreshOK, dbVars, opVars, IsOffered, Progress,
              Ops!OpsNext, Ops!Publish, Ops!IsOffered, Ops!VersionOrNone, VersionOrNone
<1>q. QED BY <1>1, <1>2 DEF RefreshStep

LEMMA ProcessRefines ==
  ASSUME IInv, ProcessStep
  PROVE  [Ops!OpsNext]_(Ops!opsVars)
<1>1. CASE Exit \/ Crash
  BY <1>1, StopRefines DEF Exit, Crash, Ops!OpsNext
<1>2. CASE Boot
  <2>1. records' \in [Apps -> VersionOrNone]
    BY <1>2 DEF Boot, LoadRecords, LoadedRecords, NoRecords, IInv, TypeOK, DbTypeOK, DbFile, Records,
                VersionOrNone
  <2>q. QED BY <1>2, <2>1 DEF Boot, opVars, Ops!OpsNext, Ops!Start, Ops!VersionOrNone, VersionOrNone, Progress
<1>q. QED BY <1>1, <1>2 DEF ProcessStep

LEMMA RefreshInvariance == Spec => []RefreshOK
<1>1. Init => RefreshOK
  BY DEF Init, MgrInit, RefreshOK
<1>2. IInv /\ RefreshOK /\ [Next]_vars => RefreshOK'
  <2> SUFFICES ASSUME IInv, RefreshOK, [Next]_vars PROVE RefreshOK'
    OBVIOUS
  <2>1. CASE OpStep
    BY <2>1 DEF OpStep, ReleaseManager, RefreshOK, mgrVars
  <2>2. CASE UiStep
    BY <2>2 DEF UiStep, Install, Uninstall, StartOp, Cancel, CancelHttp, CancelInstaller, Shutdown,
                SetCancelRequested, UiFree, RefreshOK
  <2>3. CASE RefreshStep
    BY <2>3 DEF RefreshStep, RefreshGet, RefreshLoads, RefreshOK
  <2>4. CASE ProcessStep
    BY <2>4 DEF ProcessStep, Exit, Crash, Boot, ProcessEnds, RefreshOK
  <2>5. CASE UNCHANGED vars
    BY <2>5 DEF vars, mgrVars, RefreshOK
  <2>q. QED BY <2>1, <2>2, <2>3, <2>4, <2>5 DEF Next
<1>q. QED BY <1>1, <1>2, Invariance, PTL DEF Spec

\* The operations the screens see (Operations) are what AppManager and the
\* package pipeline do: an operation changes the record of its own application,
\* once, together with its result, and a failed one changes none.
THEOREM OperationsAreImplemented == Spec => ImplementsOperations
<1>1. Init => Ops!OpsInit
  BY DEF Init, DbInit, OpInit, MgrInit, NoRecords, Ops!OpsInit, Ops!Nothing, Ops!VersionOrNone,
         Ops!NoJob, NoJob, VersionOrNone, Progress
<1>2. IInv /\ RefreshOK /\ [Next]_vars => [Ops!OpsNext]_(Ops!opsVars)
  <2> SUFFICES ASSUME IInv, RefreshOK, [Next]_vars PROVE [Ops!OpsNext]_(Ops!opsVars)
    OBVIOUS
  <2>1. CASE UNCHANGED vars
    BY <2>1 DEF vars, mgrVars, opVars, dbVars, Ops!opsVars, Progress
  <2>q. QED BY <2>1, OpRefines, UiRefines, RefreshRefines, ProcessRefines DEF Next
<1>q. QED BY <1>1, <1>2, Invariance, RefreshInvariance, PTL
          DEF Spec, ImplementsOperations, Ops!OpsSpec
=============================================================================
