----------------------------- MODULE AppManager -----------------------------
(***************************************************************************)
(* AppManager (src/core) and the threads around it: the UI thread, which   *)
(* asks for operations, cancels and destroys the manager; the operation    *)
(* thread, which runs PackageManager; the detached catalogue refresh; and  *)
(* the process, which may die between any two steps and be started again   *)
(* on what it left on disk (Application::init_config, init_packages).      *)
(***************************************************************************)
EXTENDS PackageManager

CONSTANT MaxBoots             \* starts of the process after the first (a bound)

ASSUME MaxBootsIsNat == MaxBoots \in Nat

VARIABLES mgrBusy,            \* AppManager::m_busy
          joinable,           \* m_op_thread.joinable(): an operation was started
          ui,                 \* where the UI thread is
          closing,            \* the destructor of AppManager has begun
          offered,            \* the version the catalogue shows for an app
          refresh,            \* where the catalogue refresh thread is
          boots               \* starts of the process still to come

mgrVars == <<mgrBusy, joinable, ui, closing, offered, refresh, boots>>

\* History, read by properties only: the install directory and the record of
\* the operation's app as it began, and what is known of calls of cancel
\* during it: "due" when one came while the code still looks at the flag it
\* sets, "asked" when one returned before the app's files were touched.
\* Further, of what archive it unpacked files, and in which phases of the work
\* on directories storage failed.
VARIABLES before, cancelled, unpacked, storageFailed

traces == <<unpacked, storageFailed>>
history == <<before, cancelled, traces>>

vars == <<faults, httpVars, installerVars, dbVars, opVars, mgrVars, history>>

NoSnapshot == [dir |-> NoDir, record |-> None]

MgrInit == /\ mgrBusy = FALSE
           /\ joinable = FALSE
           /\ ui = "ready"
           /\ closing = FALSE
           /\ offered = [a \in Apps |-> None]
           /\ refresh = "begin"
           /\ boots = MaxBoots
           /\ before = NoSnapshot
           /\ cancelled = "no"
           /\ unpacked = "nothing" /\ storageFailed = {}

Init == StorageInit /\ HttpInit /\ InstallerInit /\ DbInit /\ OpInit /\ MgrInit

MgrTypeOK == /\ mgrBusy \in BOOLEAN
             /\ joinable \in BOOLEAN
             /\ ui \in {"ready", "cancelHttp", "cancelInstaller", "closed"}
             /\ closing \in BOOLEAN
             /\ offered \in [Apps -> VersionOrNone]
             /\ refresh \in {"begin", "fetching", "done"}
             /\ boots \in 0..MaxBoots
             /\ before \in [dir : Dir, record : VersionOrNone]
             /\ cancelled \in {"no", "asked", "due"}
             /\ unpacked \in Content \cup {"nothing"}
             /\ storageFailed \subseteq {"unpacking", "swapping"}

TypeOK == /\ StorageTypeOK /\ HttpTypeOK /\ InstallerTypeOK /\ DbTypeOK
          /\ OpTypeOK /\ MgrTypeOK

ForgetTraces == unpacked' = "nothing" /\ storageFailed' = {}

\* What a step of the package manager adds to the history.
Phase == CASE pc \in {"stage", "extract"}    -> {"unpacking"}
           [] pc \in {"removeOld", "rename"} -> {"swapping"}
           [] OTHER                          -> {}

KeepTraces == /\ unpacked' = IF pc = "extract" THEN files[PkgPath] ELSE unpacked
              /\ storageFailed' = IF faults' = faults THEN storageFailed
                                                      ELSE storageFailed \cup Phase

-----------------------------------------------------------------------------
(* The UI thread                                                           *)

UiFree == ui = "ready" /\ ~closing

\* find_app
IsOffered(a) == offered[a] # None

\* Spawn the operation thread on job j.
StartOp(j) ==
    /\ mgrBusy' = TRUE
    /\ joinable' = TRUE
    /\ pc' = "requested"
    /\ job' = j
    /\ outcome' = "none"
    /\ before' = [dir |-> installed[j.app], record |-> records[j.app]]
    /\ cancelled' = "no" /\ ForgetTraces
    /\ UNCHANGED <<faults, httpVars, installerVars, dbVars, pkgBusy, cancelRequested,
                   ui, closing, offered, refresh, boots>>

\* install: refused while busy or for an id the catalogue does not have.
Install(a) == /\ UiFree /\ ~mgrBusy
              /\ IsOffered(a)
              /\ StartOp([kind |-> "install", app |-> a, version |-> offered[a]])

\* uninstall: refused while busy or for an app without a record.
Uninstall(a) == /\ UiFree /\ ~mgrBusy
                /\ IsInstalled(a)
                /\ StartOp([kind |-> "uninstall", app |-> a, version |-> None])

\* While the thread is here the code looks at the flag a cancel sets: at
\* m_cancel_requested after the download and after the verification, at the
\* installer's m_cancelled in every turn of the extraction and after it.
RequestWindow == {"download", "transfer", "verify", "verified"}
ExtractWindow == {"extract", "extracted"}

\* Points of an operation at which its app's files are still untouched.
BeforeSwap == {"requested", "stage", "removeFiles"} \cup RequestWindow \cup ExtractWindow

\* PackageManager::cancel is three stores; this is the first.
SetCancelRequested ==
    /\ cancelRequested' = TRUE
    /\ ui' = "cancelHttp"
    /\ cancelled' = IF pc \in RequestWindow THEN "due" ELSE cancelled
    /\ UNCHANGED <<faults, httpVars, installerVars, dbVars, pkgBusy, pc, job, outcome,
                   mgrBusy, joinable, offered, refresh, boots, before, traces>>

Cancel == UiFree /\ SetCancelRequested /\ UNCHANGED closing

CancelHttp == /\ ui = "cancelHttp"
              /\ ui' = "cancelInstaller"
              /\ HttpCancel
              /\ UNCHANGED <<faults, files, transfer, installerVars, dbVars, opVars, mgrBusy,
                             joinable, closing, offered, refresh, boots, history>>

CancelInstaller ==
    /\ ui = "cancelInstaller"
    /\ ui' = "ready"
    /\ installerCancelled' = TRUE
    /\ cancelled' = IF cancelled = "due" \/ pc \in ExtractWindow THEN "due"
                    ELSE IF pc \in BeforeSwap THEN "asked"
                    ELSE cancelled
    /\ UNCHANGED <<faults, httpVars, staging, installed, entries, dbVars, opVars, mgrBusy,
                   joinable, closing, offered, refresh, boots, before, traces>>

\* The destructor cancels and joins, where an operation was ever started: its
\* thread stays joinable after it has ended.
Shutdown == /\ UiFree
            /\ closing' = TRUE
            /\ IF joinable
               THEN SetCancelRequested
               ELSE UNCHANGED <<faults, httpVars, installerVars, dbVars, opVars, mgrBusy,
                                joinable, ui, offered, refresh, boots, history>>

-----------------------------------------------------------------------------
(* The operation thread: its last store, after the result was delivered    *)

\* Faulty variant: a failed operation returns before the store.
ReleaseIfSucceeded ==
    /\ pc = "end"
    /\ mgrBusy' = (outcome = "failed")
    /\ pc' = "idle"
    /\ job' = NoJob
    /\ outcome' = "none"
    /\ before' = NoSnapshot
    /\ cancelled' = "no" /\ ForgetTraces
    /\ UNCHANGED <<faults, httpVars, installerVars, dbVars, pkgBusy, cancelRequested,
                   joinable, ui, closing, offered, refresh, boots>>

ReleaseManager ==
    /\ pc = "end"
    /\ mgrBusy' = FALSE
    /\ pc' = "idle"
    /\ job' = NoJob
    /\ outcome' = "none"
    /\ before' = NoSnapshot
    /\ cancelled' = "no" /\ ForgetTraces
    /\ UNCHANGED <<faults, httpVars, installerVars, dbVars, pkgBusy, cancelRequested,
                   joinable, ui, closing, offered, refresh, boots>>

-----------------------------------------------------------------------------
(* The refresh thread, started once: a request per repository on the one   *)
(* client (none for a file:// repository), then that repository's apps.    *)
(* The first repository that has an app decides its version, so an entry   *)
(* appears once and stays.                                                 *)

RefreshGet == /\ refresh = "begin" /\ ui # "closed"
              /\ HttpGet \/ UNCHANGED httpCancelled
              /\ refresh' = "fetching"
              /\ UNCHANGED <<faults, files, transfer, installerVars, dbVars, opVars, mgrBusy,
                             joinable, ui, closing, offered, boots, history>>

RefreshLoads == /\ refresh = "fetching"
                /\ refresh' \in {"begin", "done"}
                /\ offered' \in {o \in [Apps -> VersionOrNone] :
                                    \A a \in Apps : IsOffered(a) => o[a] = offered[a]}
                /\ UNCHANGED <<faults, httpVars, installerVars, dbVars, opVars, mgrBusy,
                               joinable, ui, closing, boots, history>>

-----------------------------------------------------------------------------
(* The process                                                             *)

\* What is in memory is gone; a package, a directory or the database file
\* stays as it stands.
ProcessEnds ==
    /\ ui' = "closed"
    /\ httpCancelled' = FALSE /\ transfer' = NoTransfer
    /\ installerCancelled' = FALSE /\ entries' = 0
    /\ records' = NoRecords
    /\ pkgBusy' = FALSE /\ cancelRequested' = FALSE
    /\ pc' = "idle" /\ job' = NoJob /\ outcome' = "none"
    /\ mgrBusy' = FALSE /\ joinable' = FALSE /\ closing' = FALSE
    /\ offered' = [a \in Apps |-> None] /\ refresh' = "done"
    /\ before' = NoSnapshot /\ cancelled' = "no" /\ ForgetTraces
    /\ UNCHANGED <<faults, files, staging, installed, dbFile, boots>>

\* The destructor's join returns and the program ends.
Exit == closing /\ ui = "ready" /\ pc = "idle" /\ ProcessEnds

Crash == ui # "closed" /\ boots > 0 /\ ProcessEnds

Boot == /\ ui = "closed" /\ boots > 0
        /\ boots' = boots - 1
        /\ ui' = "ready"
        /\ refresh' = "begin"
        /\ LoadRecords
        /\ UNCHANGED <<httpVars, installerVars, opVars, mgrBusy, joinable, closing, offered,
                       history>>

-----------------------------------------------------------------------------

OpStep == \/ PackageStep /\ KeepTraces /\ UNCHANGED <<mgrVars, before, cancelled>>
          \/ ReleaseManager

UiStep == \/ \E a \in Apps : Install(a) \/ Uninstall(a)
          \/ Cancel \/ CancelHttp \/ CancelInstaller \/ Shutdown

RefreshStep == RefreshGet \/ RefreshLoads

ProcessStep == Exit \/ Crash \/ Boot

Next == OpStep \/ UiStep \/ RefreshStep \/ ProcessStep

Spec == Init /\ [][Next]_vars

\* The scheduler runs the operation thread (each of its blocking calls ends:
\* a request has a time limit, an archive an end), and a call of cancel or of
\* the destructor, once begun, goes on.  Nobody has to ask for anything.
Fairness == /\ WF_vars(OpStep)
            /\ WF_vars(CancelHttp \/ CancelInstaller)
            /\ WF_vars(Exit)

FairSpec == Spec /\ Fairness

-----------------------------------------------------------------------------
(* Safety                                                                  *)

\* The thread is past the last look at a cancel flag.
PastCancel == {"removeOld", "rename", "mark", "register", "save", "write"}

\* A cancel that comes while the thread is in one of the two windows is never
\* missed: the operation neither touches the installed files nor succeeds,
\* although three flags are set one by one and each is cleared elsewhere.
CancelHonoured == cancelled = "due" => pc \notin PastCancel /\ outcome # "ok"

\* An operation AppManager accepted never meets PackageManager's own busy
\* flag ("Another operation is already in progress."): the two flags are
\* released in the opposite order of their being taken.
NeverBounced == pc = "requested" => ~pkgBusy

\* No file of an archive that fails its hash is ever unpacked for an app
\* whose hash is checked, whatever is interrupted and tried again.
VerifiedOnly ==
    \A a \in Hashed : staging[a].state # "rogue" /\ installed[a].state # "rogue"

\* An install that ends in failure (cancelled, refused, corrupt, cut off)
\* leaves the installed version and its record alone; only storage failing
\* in the swap itself may cost the old files, a failure at any other point of
\* the operation, or in an earlier one, does not.
FailureKeepsOldInstall ==
    outcome = "failed" /\ pc \in {"report", "end"} /\ Installing =>
        /\ records[job.app] = before.record
        /\ installed[job.app] = before.dir \/ "swapping" \in storageFailed

\* An operation that reports success recorded what it did: the version asked
\* for is in its directory, or directory and record are gone.  A published
\* archive is then installed whole: neither a cancel in the middle of it, nor
\* a leftover, nor a failed removal of the old install takes files from it or
\* adds some.  Only two things may make the directory less than whole behind a
\* success, which the code does not notice: storage failing while it unpacked,
\* and an archive other than the published one, which no app with a hash has.
SuccessIsReal ==
    outcome = "ok" /\ pc \in {"report", "end"} =>
        IF Installing
        THEN /\ records[job.app] = job.version
             /\ installed[job.app].version = job.version
             /\ unpacked = "good" /\ "unpacking" \notin storageFailed =>
                   installed[job.app].state = "whole"
             /\ job.app \in Hashed => unpacked = "good"
        ELSE ~Present(installed[job.app]) /\ records[job.app] = None

\* Files of two versions never end up in one directory because of a process
\* that died while unpacking: it takes a leftover that cannot be removed.
NoMixedInstall ==
    NoFaultYet => \A a \in Apps : staging[a].state # "mixed" /\ installed[a].state # "mixed"

\* The process is the first one: nothing was interrupted.
FirstProcess == boots = MaxBoots /\ ui # "closed"

\* Between operations nothing is left of a package or a staging directory,
\* unless a removal failed or a process died.
NoLitter ==
    pc = "idle" /\ NoFaultYet /\ FirstProcess =>
        /\ \A a \in Apps : ~Present(staging[a])
        /\ \A p \in Paths : files[p] = "absent"

\* What a restart would load is what the running client believes, at every
\* point outside a save, and across restarts after a crash inside one.
RestartLosesNothing ==
    NoFaultYet /\ ui # "closed" /\ pc \notin {"save", "write"} => LoadedRecords = records

\* While nothing failed and no process died, a recorded app is on disk in the
\* recorded version whenever no operation runs.
RecordedIsInstalled ==
    pc = "idle" /\ NoFaultYet /\ FirstProcess =>
        \A a \in Apps : IsInstalled(a) => installed[a].version = records[a]

-----------------------------------------------------------------------------
(* Refinement                                                              *)

\* How far the operation is, as the screens can see it.
Progress == CASE pc = "idle" -> "idle"
              [] pc # "idle" /\ outcome = "none" -> "running"
              [] pc # "idle" /\ outcome = "ok" -> "done"
              [] pc # "idle" /\ outcome = "failed" -> "failed"

Ops == INSTANCE Operations WITH open <- ui # "closed", stage <- Progress

\* The manager and the pipeline under it implement what the screens rely on:
\* the record changes with the result, at one moment, and for a success only.
ImplementsOperations == Ops!OpsSpec

-----------------------------------------------------------------------------
(* Liveness                                                                *)

\* An operation ends, cancelled or not: the manager takes the next one.
OperationEnds == mgrBusy ~> ~mgrBusy

\* Destruction ends: the join never waits for ever on a thread whose cancel
\* got lost.
ShutdownEnds == closing ~> ui = "closed"

-----------------------------------------------------------------------------
(* What the code's comments say and the code does not do                   *)

\* AppManager.hpp: "Cancel the active install/uninstall."  A cancel that
\* returned before the app's files were touched stops the operation.
CancelStopsOperation == cancelled # "no" => outcome # "ok"

\* PackageInstaller.hpp: the staged directory is moved to its final place
\* "atomically".  An app that is being upgraded has its files, old or new, at
\* every moment of the upgrade.
SwapIsAtomic ==
    NoFaultYet /\ Installing /\ Present(before.dir) => Present(installed[job.app])

\* InstalledDatabase.hpp, of upsert and remove: "Persists immediately."  What
\* is recorded about an app survives the end of the process at any moment of
\* an operation on another one.
OtherRecordsAreSafe ==
    NoFaultYet /\ pc # "idle" => \A a \in Apps \ {job.app} : LoadedRecords[a] = records[a]
=============================================================================
