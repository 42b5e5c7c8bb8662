---------------------------- MODULE HttpClient ----------------------------
(***************************************************************************)
(* HttpClient::download and the cancel flag of src/networking/HttpClient.  *)
(* One client object serves the whole program: the catalogue refresh calls *)
(* get, the package manager (or a DownloadManager) calls download, and     *)
(* both clear the one flag that cancel sets.                               *)
(*                                                                         *)
(* The transfer itself is libcurl's: what an attempt brings is a choice.   *)
(* A destination file is known by what it holds:                           *)
(*   "absent"   there is no file          "partial"  bytes of an attempt   *)
(*   "good"     the bytes published       "bad"      other complete bytes  *)
(*   "garbled"  a complete answer written at the wrong offset              *)
(***************************************************************************)
EXTENDS Storage

CONSTANTS Paths,              \* destination paths
          HttpRetries         \* HttpOptions::max_retries

ASSUME HttpRetriesIsNat == HttpRetries \in Nat

VARIABLES httpCancelled,      \* m_cancelled
          files,              \* what each destination path holds
          transfer            \* the frame of the running call of download

httpVars == <<httpCancelled, files, transfer>>

Content == {"absent", "partial", "good", "bad", "garbled"}

\* rewound: every seek back to the start of the file has taken effect.
Transfers == [phase : {"idle", "trying", "ok", "failed"}, attempt : Nat, rewound : BOOLEAN]
NoTransfer == [phase |-> "idle", attempt |-> 0, rewound |-> TRUE]

HttpInit == /\ httpCancelled = FALSE
            /\ files = [p \in Paths |-> "absent"]
            /\ transfer = NoTransfer

HttpTypeOK == /\ httpCancelled \in BOOLEAN
              /\ files \in [Paths -> Content]
              /\ transfer \in Transfers

-----------------------------------------------------------------------------

HttpCancel == httpCancelled' = TRUE

\* get clears the flag before its request: also a flag set for a download.
HttpGet == httpCancelled' = FALSE

\* download clears the flag and truncates its destination.  When the file
\* cannot be opened nothing changed; when curl cannot start, the emptied file
\* stays behind.
OpenDestination(p) ==
    /\ httpCancelled' = FALSE
    /\ \E fails \in BOOLEAN, left \in {files[p], "partial"} :
          /\ Mutation(fails)
          /\ fails \/ left = "partial"
          /\ files' = [files EXCEPT ![p] = left]
          /\ transfer' = [NoTransfer EXCEPT
                            !.phase = IF fails THEN "failed" ELSE "trying"]

\* An attempt ends with a 2xx answer: its bytes stand where the stream was.
\* Closing the file writes what is still in its buffer; download does not look
\* whether that worked.
Deliver(p) ==
    /\ transfer.phase = "trying"
    /\ \E written \in Content \ {"absent"}, fails \in BOOLEAN :
          /\ Mutation(fails)
          /\ fails <=> written = "partial"
          /\ transfer.rewound => written # "garbled"
          /\ files' = [files EXCEPT ![p] = written]
    /\ transfer' = [transfer EXCEPT !.phase = "ok"]
    /\ UNCHANGED httpCancelled

\* The partial file is removed; the result of the removal is not looked at.
DropPartial(p) ==
    \E fails \in BOOLEAN :
       /\ Mutation(fails)
       /\ files' = [files EXCEPT ![p] = IF fails THEN "partial" ELSE "absent"]
       /\ transfer' = [transfer EXCEPT !.phase = "failed"]
       /\ UNCHANGED httpCancelled

\* An answer outside 2xx ends the loop: it is not retried.
HttpError(p) == transfer.phase = "trying" /\ DropPartial(p)

\* curl failed (or the progress callback aborted it) and there is no retry.
Abandon(p) ==
    /\ transfer.phase = "trying"
    /\ httpCancelled \/ transfer.attempt + 1 >= HttpRetries
    /\ DropPartial(p)

\* curl failed and the loop goes round.  seekp comes before clear: after a
\* failed write the stream is not good and the seek does nothing.
RetryTransfer ==
    /\ transfer.phase = "trying"
    /\ ~httpCancelled
    /\ transfer.attempt + 1 < HttpRetries
    /\ \E writeFailed \in BOOLEAN :
          /\ Mutation(writeFailed)
          /\ transfer' = [transfer EXCEPT !.attempt = @ + 1,
                                          !.rewound = IF writeFailed THEN FALSE ELSE @]
    /\ UNCHANGED <<httpCancelled, files>>

TransferStep(p) == Deliver(p) \/ HttpError(p) \/ Abandon(p) \/ RetryTransfer
=============================================================================
