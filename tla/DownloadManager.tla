-------------------------- MODULE DownloadManager --------------------------
(***************************************************************************)
(* DownloadManager (src/networking): a queue of downloads worked off by    *)
(* one worker thread, on the one cancel flag of the HTTP client it shares, *)
(* which is the platform's: HttpClient on the desktop, or PS4HttpClient.   *)
(*                                                                         *)
(* Every public operation holds the mutex throughout and is one action.    *)
(* The worker takes the mutex to fetch an item and to store it; between    *)
(* the two every read of the cancel flag is a step of its own.  What wakes *)
(* the worker is its predicate: stop and queue change under the mutex.     *)
(*                                                                         *)
(* Not shown: byte counts, names and messages of an item.  The callbacks   *)
(* are recorded in the order they are called; one that the worker calls    *)
(* (not under the mutex) may itself enqueue or cancel.                     *)
(***************************************************************************)
EXTENDS PS4HttpClient, Sequences, SequencesExt

CONSTANTS MaxRetries,         \* m_max_retries
          MaxAccepted         \* downloads accepted in one behaviour (a bound)

ASSUME BoundsAreNat == MaxRetries \in Nat /\ MaxAccepted \in Nat

VARIABLES queue,              \* m_queue
          active,             \* m_active: {} or {item}
          finished,           \* m_history
          stop,               \* m_stop
          worker,             \* where the worker is
          attempt, result     \* process_item's attempt and item.status
VARIABLE owner                \* where the owner's destructor is
VARIABLE client               \* m_http: "curl" or "ps4"

clientVars == <<client, attemptFile>>

dmVars == <<queue, active, finished, stop, worker, attempt, result, owner>>

\* History, read by properties only: the callbacks made, the number of
\* accepted downloads, the running ones a cancel was meant for, and whether one
\* came for the running download while process_item still looks at the flag.
VARIABLES told, accepted, asked, cancelDue

dmHistory == <<told, accepted, asked, cancelDue>>

ioVars == <<faults, httpVars, clientVars>>
vars == <<ioVars, dmVars, dmHistory>>

\* A download is known by its id, which also names its destination, and by
\* the number of its acceptance.
Tickets == 1..MaxAccepted
Items == [id : Paths, ticket : Tickets]
Status == {"Completed", "Failed", "Cancelled"}
With(item, s) == [id |-> item.id, ticket |-> item.ticket, status |-> s]

Init == /\ StorageInit /\ HttpInit /\ Ps4Init
        /\ client \in {"curl", "ps4"}
        /\ queue = <<>> /\ active = {} /\ finished = <<>>
        /\ stop = FALSE
        /\ worker = "wait" /\ attempt = 0 /\ result = "none"
        /\ owner = "open"
        /\ told = <<>> /\ accepted = 0 /\ asked = {} /\ cancelDue = FALSE

TypeOK == /\ StorageTypeOK /\ HttpTypeOK /\ Ps4TypeOK
          /\ client \in {"curl", "ps4"}
          /\ queue \in Seq(Items)
          /\ active \subseteq Items
          /\ finished \in Seq([id : Paths, ticket : Tickets, status : Status])
          /\ stop \in BOOLEAN
          /\ worker \in {"wait", "check", "download", "transfer", "store", "exited"}
          /\ attempt \in 0..MaxRetries
          /\ result \in Status \cup {"none"}
          /\ owner \in {"open", "cancelled", "joining", "gone"}
          /\ told \in Seq([id : Paths, ticket : Tickets, status : Status])
          /\ accepted \in 0..MaxAccepted
          /\ asked \subseteq Tickets
          /\ cancelDue \in BOOLEAN

-----------------------------------------------------------------------------
(* The public operations                                                   *)

\* What a client throws on the worker ends the process: nothing happens any more.
Runs == ~Ps4Ended

\* A caller is the owner before the destructor, or a callback the worker made.
CallerMay == Runs /\ (owner = "open" \/ worker \in {"transfer", "store"})

Queued(id) == \E i \in DOMAIN queue : queue[i].id = id
Active(id) == \E item \in active : item.id = id

\* Faulty variant: a download that is being worked on is not looked for.
EnqueueUnlessQueued(id) ==
    /\ CallerMay
    /\ ~Queued(id)
    /\ accepted < MaxAccepted
    /\ accepted' = accepted + 1
    /\ queue' = Append(queue, [id |-> id, ticket |-> accepted + 1])
    /\ UNCHANGED <<ioVars, active, finished, stop, worker, attempt, result, owner,
                   told, asked, cancelDue>>

\* Faulty variant: new downloads go to the front.
EnqueueFirst(id) ==
    /\ CallerMay
    /\ ~Queued(id) /\ ~Active(id)
    /\ accepted < MaxAccepted
    /\ accepted' = accepted + 1
    /\ queue' = <<[id |-> id, ticket |-> accepted + 1]>> \o queue
    /\ UNCHANGED <<ioVars, active, finished, stop, worker, attempt, result, owner,
                   told, asked, cancelDue>>

Enqueue(id) ==
    /\ CallerMay
    /\ ~Queued(id) /\ ~Active(id)
    /\ accepted < MaxAccepted
    /\ accepted' = accepted + 1
    /\ queue' = Append(queue, [id |-> id, ticket |-> accepted + 1])
    /\ UNCHANGED <<ioVars, active, finished, stop, worker, attempt, result, owner,
                   told, asked, cancelDue>>

\* A waiting download is answered at once.
CancelQueued(id) ==
    /\ CallerMay
    /\ \E i \in DOMAIN queue :
          /\ queue[i].id = id
          /\ queue' = RemoveAt(queue, i)
          /\ finished' = Append(finished, With(queue[i], "Cancelled"))
          /\ told' = Append(told, With(queue[i], "Cancelled"))
    /\ UNCHANGED <<ioVars, active, stop, worker, attempt, result, owner,
                   accepted, asked, cancelDue>>

\* process_item looks at the flag next, or when the download has failed.
Looking == worker \in {"check", "transfer"}

\* The client's flag is set, and nothing else: the worker has to see it.
CancelActive(id) ==
    /\ CallerMay
    /\ ~Queued(id) /\ Active(id)
    /\ HttpCancel
    /\ asked' = {item.ticket : item \in active}
    /\ cancelDue' = (cancelDue \/ Looking)
    /\ UNCHANGED <<faults, files, transfer, clientVars, dmVars, told, accepted>>

\* Faulty variant: the callbacks are made and the queue is kept.
WithdrawAllKeepsQueue ==
    /\ HttpCancel
    /\ LET gone == [i \in DOMAIN queue |-> With(queue[i], "Cancelled")]
       IN  finished' = finished \o gone /\ told' = told \o gone
    /\ asked' = {item.ticket : item \in active}
    /\ cancelDue' = (cancelDue \/ Looking)
    /\ UNCHANGED <<faults, files, transfer, clientVars, queue, active, worker, attempt, result,
                   accepted>>

\* cancel_all: the flag, whether or not a download runs, and the whole queue
WithdrawAll ==
    /\ HttpCancel
    /\ LET gone == [i \in DOMAIN queue |-> With(queue[i], "Cancelled")]
       IN  finished' = finished \o gone /\ told' = told \o gone
    /\ queue' = <<>>
    /\ asked' = {item.ticket : item \in active}
    /\ cancelDue' = (cancelDue \/ Looking)
    /\ UNCHANGED <<faults, files, transfer, clientVars, active, worker, attempt, result, accepted>>

CancelAll == CallerMay /\ WithdrawAll /\ UNCHANGED <<stop, owner>>

-----------------------------------------------------------------------------
(* The destructor                                                          *)

DestroyCancels == /\ Runs
                  /\ owner = "open" /\ owner' = "cancelled"
                  /\ WithdrawAll
                  /\ UNCHANGED stop

DestroyStops == /\ Runs
                /\ owner = "cancelled" /\ owner' = "joining"
                /\ stop' = TRUE
                /\ UNCHANGED <<ioVars, queue, active, finished, worker, attempt,
                               result, dmHistory>>

DestroyJoins == /\ owner = "joining" /\ owner' = "gone"
                /\ worker = "exited"
                /\ UNCHANGED <<ioVars, queue, active, finished, stop, worker, attempt,
                               result, dmHistory>>

-----------------------------------------------------------------------------
(* The worker                                                              *)

\* Faulty variant: after stop nothing is fetched any more.
TakeUnlessStopped ==
    /\ worker = "wait" /\ worker' = "check"
    /\ ~stop
    /\ queue # <<>>
    /\ active' = {Head(queue)}
    /\ queue' = Tail(queue)
    /\ UNCHANGED <<ioVars, finished, stop, attempt, result, owner, dmHistory>>

\* An item is fetched when there is one, also after stop.
Take == /\ worker = "wait" /\ worker' = "check"
        /\ queue # <<>>
        /\ active' = {Head(queue)}
        /\ queue' = Tail(queue)
        /\ UNCHANGED <<ioVars, finished, stop, attempt, result, owner, dmHistory>>

WorkerExits == /\ worker = "wait" /\ worker' = "exited"
               /\ stop /\ queue = <<>>
               /\ UNCHANGED <<ioVars, queue, active, finished, stop, attempt, result,
                              owner, dmHistory>>

\* process_item returns: the item has its status and its callback was made.
Finish(s) == /\ worker' = "store"
             /\ result' = s
             /\ \E item \in active : told' = Append(told, With(item, s))
             /\ cancelDue' = FALSE
             /\ UNCHANGED <<queue, active, finished, stop, attempt, owner, accepted, asked>>

CheckCancelled == /\ worker = "check"
                  /\ httpCancelled
                  /\ Finish("Cancelled")
                  /\ UNCHANGED ioVars

CheckPasses == /\ worker = "check" /\ worker' = "download"
               /\ ~httpCancelled
               /\ UNCHANGED <<ioVars, queue, active, finished, stop, attempt, result,
                              owner, dmHistory>>

\* After the back-off: download is called, which clears the flag.
BeginDownload == /\ worker = "download" /\ worker' = "transfer"
                 /\ \/ /\ client = "curl"
                       /\ \E item \in active : OpenDestination(item.id)
                       /\ UNCHANGED attemptFile
                    \/ client = "ps4" /\ Ps4Begin
                 /\ UNCHANGED <<client, queue, active, finished, stop, attempt, result, owner,
                                dmHistory>>

Transfer == /\ worker = "transfer"
            /\ \E item \in active :
                  \/ client = "curl" /\ TransferStep(item.id) /\ UNCHANGED attemptFile
                  \/ client = "ps4" /\ Ps4TransferStep(item.id)
            /\ UNCHANGED <<client, dmVars, dmHistory>>

\* download returned TRUE or FALSE.
Returned(phase) == /\ worker = "transfer"
                   /\ transfer.phase = phase
                   /\ transfer' = NoTransfer
                   /\ UNCHANGED <<faults, httpCancelled, files, clientVars>>

Completes == Returned("ok") /\ Finish("Completed")

CancelledInDownload == Returned("failed") /\ httpCancelled /\ Finish("Cancelled")

NextAttempt == /\ worker' = "check"
               /\ attempt' = attempt + 1
               /\ UNCHANGED <<queue, active, finished, stop, result, owner, dmHistory>>

\* Faulty variant: the flag is not looked at between two attempts.
RetriesAtOnce == /\ Returned("failed")
                 /\ attempt < MaxRetries
                 /\ worker' = "download"
                 /\ attempt' = attempt + 1
                 /\ UNCHANGED <<queue, active, finished, stop, result, owner, dmHistory>>

\* Faulty variant: one attempt too many.
RetriesOnceMore == /\ Returned("failed") /\ ~httpCancelled
                   /\ attempt <= MaxRetries
                   /\ NextAttempt

Retries == /\ Returned("failed") /\ ~httpCancelled
           /\ attempt < MaxRetries
           /\ NextAttempt

\* Faulty variant: the last attempt's failure is not looked at.
FailsQuietly == Returned("failed") /\ ~httpCancelled /\ attempt = MaxRetries /\ Finish("Completed")

Fails == Returned("failed") /\ ~httpCancelled /\ attempt = MaxRetries /\ Finish("Failed")

\* Faulty variant: an item cancelled before its first attempt is not stored.
StoreAttempted ==
    /\ worker = "store" /\ worker' = "wait"
    /\ \E item \in active :
          finished' = IF result = "Cancelled" THEN finished
                                             ELSE Append(finished, With(item, result))
    /\ active' = {}
    /\ attempt' = 0 /\ result' = "none" /\ asked' = {}
    /\ UNCHANGED <<ioVars, queue, stop, owner, told, accepted, cancelDue>>

Store == /\ worker = "store" /\ worker' = "wait"
         /\ \E item \in active : finished' = Append(finished, With(item, result))
         /\ active' = {}
         /\ attempt' = 0 /\ result' = "none" /\ asked' = {}
         /\ UNCHANGED <<ioVars, queue, stop, owner, told, accepted, cancelDue>>

-----------------------------------------------------------------------------

CallerStep == \/ \E id \in Paths : Enqueue(id) \/ CancelQueued(id) \/ CancelActive(id)
              \/ CancelAll \/ DestroyCancels

DestructorStep == DestroyStops \/ DestroyJoins

WorkerStep == \/ Take \/ WorkerExits \/ CheckCancelled \/ CheckPasses \/ BeginDownload
              \/ Transfer \/ Completes \/ CancelledInDownload \/ Retries \/ Fails \/ Store

Next == CallerStep \/ DestructorStep \/ WorkerStep

Spec == Init /\ [][Next]_vars

\* The worker thread is scheduled and each of its blocking calls ends (a
\* transfer has a time limit, a back-off a length); a destructor goes on.
Fairness == WF_vars(WorkerStep) /\ WF_vars(DestructorStep)

FairSpec == Spec /\ Fairness

-----------------------------------------------------------------------------
(* Safety                                                                  *)

Live == {queue[i] : i \in DOMAIN queue} \cup active

\* An accepted download is in one place: waiting, worked on, or in the
\* history; none is lost between the queue and the worker, none is doubled
\* by a cancel_all that meets the worker.
OnePlace ==
    LET past == {finished[i].ticket : i \in DOMAIN finished}
    IN  /\ 1..accepted = {item.ticket : item \in Live} \cup past
        /\ Len(queue) + Cardinality(active) + Len(finished) = accepted

\* enqueue refuses an id that waits or is worked on: the one destination of
\* an id is never written for two downloads that are still to be answered.
NoDuplicateId == \A d, e \in Live : d.id = e.id => d = e

\* "Called once on success", "once on terminal failure": each download has at
\* most one final callback, the one the history tells, whether the worker or
\* a caller of cancel makes it.
CalledBackOnce ==
    /\ \A i, j \in DOMAIN told : told[i].ticket = told[j].ticket => i = j
    /\ \A i \in DOMAIN finished : \E j \in DOMAIN told : told[j] = finished[i]

\* A cancel that comes while process_item still looks at the flag is seen:
\* no further request is made for that download.
CancelStopsRetries == cancelDue => worker # "download"

\* A download reported complete left a whole file, unless a later download of
\* the same id has been at it; less than that takes a failed write.
CompletedIsOnDisk ==
    \A i \in DOMAIN told :
        /\ told[i].status = "Completed"
        /\ \A j \in DOMAIN told : told[j].id = told[i].id => told[j].ticket <= told[i].ticket
        /\ \A d \in Live : d.id = told[i].id => d.ticket = told[i].ticket
        => files[told[i].id] \in IF NoFaultYet THEN {"good", "bad"}
                                               ELSE Content \ {"absent"}

-----------------------------------------------------------------------------
(* What it promises, and that it keeps it                                  *)

Queue == INSTANCE DownloadQueue WITH
             Ids <- Paths,
             Statuses <- Status,
             Withdrawn <- "Cancelled",
             waiting <- queue,
             current <- active,
             answers <- {<<told[i].ticket, told[i].status>> : i \in DOMAIN told}

\* The manager is a queue: first come, first served, one at a time, every
\* download answered once; cancels and retries show nothing else.
ImplementsQueue == Queue!QueueSpec

\* The destructor returns: a worker that misses the cancel still ends.  Only a
\* client that ends the process keeps it from that.
DestructorReturns == owner # "open" ~> (owner = "gone" \/ Ps4Ended)

\* Every accepted download is answered, whatever else is cancelled or fails,
\* unless the client ends the process, which it does for storage alone.
EveryDownloadEnds ==
    \A t \in Tickets :
        accepted >= t ~> ((\E i \in DOMAIN finished : finished[i].ticket = t)
                             \/ (Ps4Ended /\ ~NoFaultYet))

-----------------------------------------------------------------------------
(* What the header says and the code does not do                           *)

\* DownloadManager.hpp: cancel is of "the download with the given id".  Only
\* a download that some cancel was meant for ends as cancelled.
OnlyCancelledWhenAsked ==
    worker = "store" /\ result = "Cancelled" => \A item \in active : item.ticket \in asked
=============================================================================
