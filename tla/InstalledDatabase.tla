------------------------- MODULE InstalledDatabase -------------------------
(***************************************************************************)
(* InstalledDatabase (src/config): the list of installed applications kept *)
(* in memory and rewritten as one JSON file after every mutation.          *)
(*                                                                         *)
(* A record is known by the version it names.  The vector of records holds *)
(* at most one record per id (upsert replaces), so it is a function from   *)
(* ids to a version or None; its order is never used.                      *)
(***************************************************************************)
EXTENDS Storage, AppIds

VARIABLES records,            \* m_records
          dbFile              \* installed.json

dbVars == <<records, dbFile>>

Records == [Apps -> VersionOrNone]
NoRecords == [a \in Apps |-> None]

\* "malformed" is any text that does not parse: an emptied or cut-off file.
DbFile == [state : {"missing", "malformed", "written"}, records : Records]
MalformedFile == [state |-> "malformed", records |-> NoRecords]
Written(recs) == [state |-> "written", records |-> recs]

DbInit == /\ records = NoRecords
          /\ dbFile = [state |-> "missing", records |-> NoRecords]

DbTypeOK == records \in Records /\ dbFile \in DbFile

-----------------------------------------------------------------------------

\* is_installed, find
IsInstalled(a) == records[a] # None

\* What load leaves in memory: nothing when the file is missing or malformed.
LoadedRecords == IF dbFile.state = "written" THEN dbFile.records ELSE NoRecords

\* Startup ignores what load returns and goes on with what it left: nothing,
\* also where the file is there and cannot be opened.
LoadRecords ==
    \E fails \in BOOLEAN :
       /\ Mutation(fails)
       /\ records' = IF fails THEN NoRecords ELSE LoadedRecords
       /\ UNCHANGED dbFile

\* upsert, up to its call of save
UpsertRecord(a, v) == records' = [records EXCEPT ![a] = v]

\* remove, up to its call of save
EraseRecord(a) == records' = [records EXCEPT ![a] = None]

\* save opens installed.json for writing, which empties it; a failure to open
\* leaves the file alone and ends the save.
SaveOpens == dbFile' = MalformedFile /\ UNCHANGED <<records, faults>>
SaveCannotOpen == Mutation(TRUE) /\ UNCHANGED dbVars

\* The text reaches the file, or only part of it does: the stream's state is
\* not looked at and save returns true either way.
SaveWrites ==
    \E fails \in BOOLEAN :
       /\ Mutation(fails)
       /\ dbFile' = IF fails THEN MalformedFile ELSE Written(records)
       /\ UNCHANGED records
=============================================================================
