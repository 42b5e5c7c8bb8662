------------------------------ MODULE Storage ------------------------------
(***************************************************************************)
(* The file system as the client sees it (src/filesystem).  Every mutation *)
(* of Filesystem answers TRUE or FALSE and never throws: the error_code is *)
(* turned into a result, which most callers ignore.  A FALSE answer is     *)
(* charged to a budget of storage faults, so that a property can say       *)
(* "unless storage failed" and TLC can bound how often it does.            *)
(***************************************************************************)
EXTENDS Naturals

CONSTANT MaxFaults            \* storage faults of one behaviour (a bound)

ASSUME MaxFaultsIsNat == MaxFaults \in Nat

VARIABLE faults               \* faults storage may still produce

\* A mutation of the file system that fails when `fails` is TRUE.
Mutation(fails) == IF fails THEN faults > 0 /\ faults' = faults - 1
                            ELSE UNCHANGED faults

StorageInit == faults = MaxFaults

StorageTypeOK == faults \in 0..MaxFaults

\* No call on the file system has failed so far.
NoFaultYet == faults = MaxFaults
=============================================================================
