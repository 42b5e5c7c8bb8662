--------------------------- MODULE PS4HttpClient ---------------------------
(***************************************************************************)
(* PS4HttpClient::download (src/platform/ps4): the client of the console   *)
(* has the flag, the destinations and the promises of HttpClient and a     *)
(* retry loop of its own, over libSceHttp.  The file is opened and emptied *)
(* in each attempt, so that nothing is ever written at a wrong offset, and *)
(* max_retries counts the attempts after the first.                        *)
(*                                                                         *)
(* The removal of a partial file is the overload that throws; nobody       *)
(* catches, and the process ends.                                          *)
(***************************************************************************)
EXTENDS HttpClient, Naturals

VARIABLE attemptFile          \* the file of the running attempt: "closed",
                              \* "open", or "threw" when its removal did

Ps4Init == attemptFile = "closed"

Ps4TypeOK == attemptFile \in {"closed", "open", "threw"}

Ps4Ended == attemptFile = "threw"

-----------------------------------------------------------------------------

\* Up to the loop.  Without a context it returns at once.
Ps4Begin == /\ httpCancelled' = FALSE
            /\ \E phase \in {"failed", "trying"} :
                  transfer' = [NoTransfer EXCEPT !.phase = phase]
            /\ UNCHANGED <<faults, files, attemptFile>>

AtLoop == transfer.phase = "trying" /\ attemptFile = "closed"
InAttempt == transfer.phase = "trying" /\ attemptFile = "open"

ReturnsFalse == transfer' = [transfer EXCEPT !.phase = "failed"]

\* The flag is looked at before each attempt; the destination is left alone.
Ps4Stops == /\ AtLoop
            /\ httpCancelled
            /\ ReturnsFalse
            /\ UNCHANGED <<faults, httpCancelled, files, attemptFile>>

Ps4Opens(p) == /\ AtLoop
               /\ ~httpCancelled
               /\ files' = [files EXCEPT ![p] = "partial"]
               /\ attemptFile' = "open"
               /\ UNCHANGED <<faults, httpCancelled, transfer>>

Ps4CannotOpen == /\ AtLoop
                 /\ ~httpCancelled
                 /\ Mutation(TRUE)
                 /\ ReturnsFalse
                 /\ UNCHANGED <<httpCancelled, files, attemptFile>>

\* The loop goes round, or ends after its last attempt.
GoesRound == IF transfer.attempt < HttpRetries
             THEN transfer' = [transfer EXCEPT !.attempt = @ + 1]
             ELSE ReturnsFalse

\* No connection, no request or not sent: the emptied file stays.
Ps4NotSent == /\ InAttempt
              /\ attemptFile' = "closed"
              /\ GoesRound
              /\ UNCHANGED <<faults, httpCancelled, files>>

\* remove(dest_path), then what follows it; a removal that fails throws.
Removes(p, Then) ==
    \/ /\ files' = [files EXCEPT ![p] = "absent"]
       /\ attemptFile' = "closed"
       /\ Then
       /\ UNCHANGED faults
    \/ /\ Mutation(TRUE)
       /\ attemptFile' = "threw"
       /\ UNCHANGED <<files, transfer>>

\* The flag is looked at after each part that was read.
Ps4CancelledInAttempt(p) == /\ InAttempt
                            /\ httpCancelled
                            /\ Removes(p, ReturnsFalse)
                            /\ UNCHANGED httpCancelled

\* A 2xx answer without a read error; no write is looked at.
Ps4Delivers(p) ==
    /\ InAttempt
    /\ \E written \in {"partial", "good", "bad"} :
          /\ Mutation(written = "partial")
          /\ files' = [files EXCEPT ![p] = written]
    /\ attemptFile' = "closed"
    /\ transfer' = [transfer EXCEPT !.phase = "ok"]
    /\ UNCHANGED httpCancelled

\* A read error, or an answer outside 2xx, which is retried here.
Ps4AttemptFails(p) == /\ InAttempt
                      /\ Removes(p, GoesRound)
                      /\ UNCHANGED httpCancelled

Ps4TransferStep(p) == \/ Ps4Stops \/ Ps4Opens(p) \/ Ps4CannotOpen \/ Ps4NotSent
                      \/ Ps4CancelledInAttempt(p) \/ Ps4Delivers(p) \/ Ps4AttemptFails(p)
=============================================================================
