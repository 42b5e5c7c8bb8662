------------------------- MODULE HttpClient_proofs -------------------------
(***************************************************************************)
(* Lemmas about HttpClient and the storage below it, for the proofs about  *)
(* the components that call it.                                            *)
(***************************************************************************)
EXTENDS HttpClient, TLAPS

-----------------------------------------------------------------------------
(* Storage                                                                 *)

\* The budget of faults keeps its type, and a fault stays a fault.
StorageStep == StorageTypeOK' /\ (NoFaultYet' => NoFaultYet)

LEMMA UnchangedFaults ==
  ASSUME StorageTypeOK, UNCHANGED faults
  PROVE  StorageStep /\ (NoFaultYet => NoFaultYet')
BY DEF StorageTypeOK, StorageStep, NoFaultYet

\* A mutation of the file system, failed or not, stays within the budget.
LEMMA MutationTyped ==
  ASSUME StorageTypeOK, NEW fails \in BOOLEAN, Mutation(fails)
  PROVE  StorageStep /\ (fails => ~NoFaultYet')
BY MaxFaultsIsNat DEF StorageTypeOK, Mutation, NoFaultYet, StorageStep

-----------------------------------------------------------------------------
(* HttpClient                                                              *)

LEMMA NoTransferTyped == NoTransfer \in Transfers
BY DEF NoTransfer, Transfers

LEMMA TransferTyped ==
  ASSUME StorageTypeOK, HttpTypeOK, NEW p, TransferStep(p)
  PROVE  StorageStep /\ HttpTypeOK'
<1>1. CASE Deliver(p)
  BY <1>1, MutationTyped DEF Deliver, HttpTypeOK, Content, Transfers
<1>2. CASE HttpError(p)
  BY <1>2, MutationTyped DEF HttpError, DropPartial, HttpTypeOK, Content, Transfers
<1>3. CASE Abandon(p)
  BY <1>3, MutationTyped DEF Abandon, DropPartial, HttpTypeOK, Content, Transfers
<1>4. CASE RetryTransfer
  <2>1. PICK writeFailed \in BOOLEAN :
           /\ Mutation(writeFailed)
           /\ transfer' = [transfer EXCEPT !.attempt = @ + 1,
                                           !.rewound = IF writeFailed THEN FALSE ELSE @]
           /\ UNCHANGED <<httpCancelled, files>>
    BY <1>4 DEF RetryTransfer
  <2>2. transfer' \in Transfers
    <3> DEFINE next == [transfer EXCEPT !.attempt = @ + 1]
    <3>1. next \in Transfers
      BY DEF HttpTypeOK, Transfers
    <3>2. (IF writeFailed THEN FALSE ELSE transfer.rewound) \in BOOLEAN
      BY DEF HttpTypeOK, Transfers
    <3>q. QED BY <2>1, <3>1, <3>2 DEF Transfers
  <2>q. QED BY <2>1, <2>2, MutationTyped DEF HttpTypeOK, Transfers
<1>q. QED BY <1>1, <1>2, <1>3, <1>4 DEF TransferStep

LEMMA OpenTyped ==
  ASSUME StorageTypeOK, HttpTypeOK, NEW p \in Paths, OpenDestination(p)
  PROVE  StorageStep /\ HttpTypeOK'
<1>1. PICK fails \in BOOLEAN, left \in {files[p], "partial"} :
         /\ Mutation(fails)
         /\ files' = [files EXCEPT ![p] = left]
         /\ transfer' = [NoTransfer EXCEPT !.phase = IF fails THEN "failed" ELSE "trying"]
  BY DEF OpenDestination
<1>2. StorageStep
  BY <1>1, MutationTyped
<1>3. files' \in [Paths -> Content]
  BY <1>1 DEF HttpTypeOK, Content, Transfers
<1>4. transfer' \in Transfers
  BY <1>1 DEF NoTransfer, Transfers
<1>q. QED BY <1>2, <1>3, <1>4 DEF OpenDestination, HttpTypeOK

-----------------------------------------------------------------------------
(* What a download leaves                                                  *)

\* What a completed download may have left.
Whole == IF NoFaultYet THEN {"good", "bad"} ELSE Content \ {"absent"}

\* A stream that was not rewound is the work of a failed write.
RewoundOK == NoFaultYet => transfer.rewound

LEMMA WholeGrows ==
  ASSUME StorageStep
  PROVE  Whole \subseteq Whole'
BY DEF Whole, StorageStep, Content

\* The phases of a call: it starts, goes on, and ends with a result.
LEMMA OpenStarts ==
  ASSUME StorageTypeOK, HttpTypeOK, NEW p \in Paths, OpenDestination(p)
  PROVE  /\ transfer'.phase \in {"failed", "trying"} /\ RewoundOK'
         /\ httpCancelled' = FALSE
         /\ \A q \in Paths \ {p} : files'[q] = files[q]
BY DEF OpenDestination, NoTransfer, HttpTypeOK, RewoundOK

\* A call that goes on touches its own destination, and delivers what is whole.
LEMMA TransferGoesOn ==
  ASSUME StorageTypeOK, HttpTypeOK, RewoundOK, NEW p \in Paths, TransferStep(p)
  PROVE  /\ transfer.phase = "trying" /\ transfer'.phase # "idle" /\ RewoundOK'
         /\ httpCancelled' = httpCancelled
         /\ \A q \in Paths \ {p} : files'[q] = files[q]
         /\ transfer'.phase = "ok" => files'[p] \in Whole'
<1> USE DEF HttpTypeOK, Transfers, RewoundOK
<1>1. CASE Deliver(p)
  <2>1. PICK written \in Content \ {"absent"}, fails \in BOOLEAN :
           /\ Mutation(fails)
           /\ fails <=> written = "partial"
           /\ transfer.rewound => written # "garbled"
           /\ files' = [files EXCEPT ![p] = written]
    BY <1>1 DEF Deliver
  <2>2. StorageStep /\ (fails => ~NoFaultYet')
    BY <2>1, MutationTyped
  <2>3. files'[p] = written /\ \A q \in Paths \ {p} : files'[q] = files[q]
    BY <2>1
  <2>4. written \in Whole'
    BY <2>1, <2>2 DEF Whole, StorageStep, Content
  <2>5. transfer.phase = "trying" /\ transfer'.phase = "ok" /\ transfer'.rewound = transfer.rewound
    BY <1>1 DEF Deliver
  <2>q. QED BY <1>1, <2>2, <2>3, <2>4, <2>5 DEF Deliver, StorageStep
<1>2. CASE HttpError(p) \/ Abandon(p)
  <2>1. PICK fails \in BOOLEAN :
           /\ Mutation(fails)
           /\ files' = [files EXCEPT ![p] = IF fails THEN "partial" ELSE "absent"]
           /\ transfer' = [transfer EXCEPT !.phase = "failed"]
           /\ UNCHANGED httpCancelled
    BY <1>2 DEF HttpError, Abandon, DropPartial
  <2>2. transfer.phase = "trying"
    BY <1>2 DEF HttpError, Abandon
  <2>3. transfer'.phase = "failed" /\ transfer'.rewound = transfer.rewound
    BY <2>1
  <2>q. QED BY <2>1, <2>2, <2>3, MutationTyped DEF StorageStep
<1>3. CASE RetryTransfer
  <2>1. PICK writeFailed \in BOOLEAN :
           /\ Mutation(writeFailed)
           /\ transfer' = [transfer EXCEPT !.attempt = @ + 1,
                                           !.rewound = IF writeFailed THEN FALSE ELSE @]
    BY <1>3 DEF RetryTransfer
  <2>2. /\ transfer.phase = "trying" /\ transfer'.phase = "trying"
        /\ transfer'.rewound = IF writeFailed THEN FALSE ELSE transfer.rewound
        /\ UNCHANGED <<httpCancelled, files>>
    BY <1>3, <2>1 DEF RetryTransfer
  <2>q. QED BY <2>1, <2>2, MutationTyped DEF StorageStep
<1>q. QED BY <1>1, <1>2, <1>3 DEF TransferStep
=============================================================================
