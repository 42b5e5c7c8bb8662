----------------------------- MODULE Operations -----------------------------
(***************************************************************************)
(* What AppManager promises the screens: one operation at a time, on an    *)
(* application the catalogue offers or the database records; the record of *)
(* its application, and no other, changes in one step, together with the   *)
(* result; a failed operation changes nothing.  Only a restart may forget. *)
(***************************************************************************)
EXTENDS AppIds

VARIABLES open,               \* the client runs
          offered,            \* the version the catalogue shows for an app
          records,            \* the version installed according to the database
          job,                \* the operation, or NoJob
          stage               \* how far it is

opsVars == <<open, offered, records, job, stage>>

Nothing == [a \in Apps |-> None]

Stages == {"idle", "running", "done", "failed"}

OpsTypeOK == /\ open \in BOOLEAN
             /\ offered \in [Apps -> VersionOrNone]
             /\ records \in [Apps -> VersionOrNone]
             /\ job \in Job \cup {NoJob}
             /\ stage \in Stages

OpsInit == /\ open = TRUE
           /\ offered = Nothing
           /\ records \in [Apps -> VersionOrNone]
           /\ job = NoJob
           /\ stage = "idle"

IsOffered(a) == offered[a] # None
IsInstalled(a) == records[a] # None

\* The catalogue grows; the first version offered for an app stays.
Publish == /\ open
           /\ offered' \in {o \in [Apps -> VersionOrNone] :
                               \A a \in Apps : IsOffered(a) => o[a] = offered[a]}
           /\ UNCHANGED <<open, records, job, stage>>

Accept(j) == /\ open /\ stage = "idle"
             /\ stage' = "running"
             /\ job' = j
             /\ UNCHANGED <<open, offered, records>>

AcceptInstall(a) == /\ IsOffered(a)
                    /\ Accept([kind |-> "install", app |-> a, version |-> offered[a]])

AcceptUninstall(a) == /\ IsInstalled(a)
                      /\ Accept([kind |-> "uninstall", app |-> a, version |-> None])

\* The record becomes the job's version: None for an uninstall.
Perform == /\ stage = "running"
           /\ stage' = "done"
           /\ records' = [records EXCEPT ![job.app] = job.version]
           /\ UNCHANGED <<open, offered, job>>

Fail == /\ stage = "running"
        /\ stage' = "failed"
        /\ UNCHANGED <<open, offered, records, job>>

Finish == /\ stage \in {"done", "failed"}
          /\ stage' = "idle"
          /\ job' = NoJob
          /\ UNCHANGED <<open, offered, records>>

\* The process ends, in the middle of an operation or not, ...
Stop == /\ open
        /\ open' = FALSE
        /\ offered' = Nothing /\ records' = Nothing
        /\ job' = NoJob /\ stage' = "idle"

\* ... and another one loads what it finds.
Start == /\ ~open
         /\ open' = TRUE
         /\ records' \in [Apps -> VersionOrNone]
         /\ UNCHANGED <<offered, job, stage>>

OpsNext == \/ Publish
           \/ \E a \in Apps : AcceptInstall(a) \/ AcceptUninstall(a)
           \/ Perform \/ Fail \/ Finish
           \/ Stop \/ Start

OpsSpec == OpsInit /\ [][OpsNext]_opsVars
=============================================================================
