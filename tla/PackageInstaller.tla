-------------------------- MODULE PackageInstaller --------------------------
(***************************************************************************)
(* PackageInstaller (src/packages): unpacks an archive into a staging      *)
(* directory and swaps it with the install directory; removes an installed *)
(* application.                                                            *)
(*                                                                         *)
(* A directory is known by the version last put in it and by how sound its *)
(* content is:                                                             *)
(*   "absent"  no directory                                                *)
(*   "part"    only files of the published package of that version         *)
(*   "whole"   all of them and nothing else                                *)
(*   "mixed"   next to files of another version, or to a cut-off one       *)
(*   "rogue"   with files of an archive that is not the published one      *)
(* and by the version its calcium-meta.json names.                         *)
(***************************************************************************)
EXTENDS Storage, AppIds

CONSTANT Entries              \* file entries of a published package

ASSUME EntriesIsNat == Entries \in Nat

VARIABLES installerCancelled, \* m_cancelled
          staging,            \* <install_root>/<id>.staging
          installed,          \* <install_root>/<id>
          entries             \* file entries of the archive still unread

installerVars == <<installerCancelled, staging, installed, entries>>

DirState == {"absent", "part", "whole", "mixed", "rogue"}
Dir == [state : DirState, version : VersionOrNone, marker : VersionOrNone]
NoDir == [state |-> "absent", version |-> None, marker |-> None]
FreshDir(v) == [state |-> "part", version |-> v, marker |-> None]

InstallerInit == /\ installerCancelled = FALSE
                 /\ staging = [a \in Apps |-> NoDir]
                 /\ installed = [a \in Apps |-> NoDir]
                 /\ entries = 0

InstallerTypeOK == /\ installerCancelled \in BOOLEAN
                   /\ staging \in [Apps -> Dir]
                   /\ installed \in [Apps -> Dir]
                   /\ entries \in 0..Entries

Present(d) == d.state # "absent"

\* What remove_all leaves of a directory: nothing, or, when it fails, the
\* directory as it was or with some of its files, perhaps all, gone.
RemainsOf(d, fails) == IF fails THEN {d, [d EXCEPT !.state = "part"]} ELSE {NoDir}

\* remove_all(d) where d' is named by `to`.
RemoveAll(d, to) ==
    \E fails \in BOOLEAN : Mutation(fails) /\ to \in RemainsOf(d, fails)

-----------------------------------------------------------------------------

\* A staging directory that survived its removal and gets version v on top.
Overlaid(d, v) ==
    [state   |-> IF d.state = "rogue" THEN "rogue"
                 ELSE IF d.version = v /\ d.state \in {"part", "whole"} THEN "part"
                 ELSE "mixed",
     version |-> v,
     marker  |-> d.marker]

\* Faulty variant: a leftover staging directory is not removed.
BeginStagingOnLeftover(a, v) ==
    /\ installerCancelled' = FALSE
    /\ staging' = [staging EXCEPT ![a] = IF Present(@) THEN Overlaid(@, v)
                                                       ELSE FreshDir(v)]
    /\ entries' = Entries
    /\ UNCHANGED <<installed, faults>>

\* Faulty variant: the old install makes way before extraction, not after it.
BeginStagingWithoutOld(a, v) ==
    /\ installerCancelled' = FALSE
    /\ staging' = [staging EXCEPT ![a] = FreshDir(v)]
    /\ installed' = [installed EXCEPT ![a] = NoDir]
    /\ entries' = Entries
    /\ UNCHANGED faults

\* install, up to extraction: clear the flag, remove leftovers, create staging.
\* Nobody looks whether it was created: the first file written would create it
\* again, and without any the rename fails.
BeginStaging(a, v) ==
    /\ installerCancelled' = FALSE
    /\ \E d \in Dir :
          /\ IF Present(staging[a]) THEN RemoveAll(staging[a], d)
                                    ELSE d = NoDir /\ UNCHANGED faults
          /\ staging' = [staging EXCEPT ![a] = IF Present(d) THEN Overlaid(d, v)
                                                             ELSE FreshDir(v)]
    /\ entries' = Entries
    /\ UNCHANGED installed

\* Faulty variant: the loop goes on without a header left to read.
ExtractEntryPastEnd(a, content) ==
    /\ ~installerCancelled
    /\ entries' = entries - 1
    /\ staging' = [staging EXCEPT ![a].state = IF content = "good" THEN @ ELSE "rogue"]
    /\ UNCHANGED <<installerCancelled, installed, faults>>

\* Faulty variant: the loop does not move on to the next header.
ExtractSameEntry(a, content) ==
    /\ ~installerCancelled
    /\ entries > 0
    /\ staging' = [staging EXCEPT ![a].state = IF content = "good" THEN @ ELSE "rogue"]
    /\ UNCHANGED <<installerCancelled, installed, entries, faults>>

\* One turn of extract_zip: a file entry is inflated and written.  The stream
\* is asked before it is closed, so what the close cannot write goes unnoticed.
ExtractEntry(a, content) ==
    /\ ~installerCancelled
    /\ entries > 0
    /\ entries' = entries - 1
    /\ \E fails \in BOOLEAN :
          /\ Mutation(fails)
          /\ staging' = [staging EXCEPT ![a].state =
                           IF content # "good" THEN "rogue"
                           ELSE IF fails /\ @ = "part" THEN "mixed" ELSE @]
    /\ UNCHANGED <<installerCancelled, installed>>

\* extract_zip returns a count: at the first header that is not a local file
\* header, or that cannot be read in full.  A published archive gets there
\* after its last entry, other bytes may do so at any point, and so may any
\* archive when a read fails.
ArchiveEnds(a, content) ==
    /\ ~installerCancelled
    /\ \E fails \in BOOLEAN :
          /\ Mutation(fails)
          /\ fails \/ entries = 0 \/ content # "good"
          /\ staging' = [staging EXCEPT ![a].state =
                           IF ~fails /\ content = "good" /\ @ = "part" THEN "whole" ELSE @]
    /\ UNCHANGED <<installerCancelled, installed, entries>>

\* extract_zip returns -1: a cut-off or unsupported entry, bytes that do not
\* inflate, or (for a published archive) a file that cannot be written.
ExtractionFails(content) ==
    /\ ~installerCancelled
    /\ \E fails \in BOOLEAN : Mutation(fails) /\ (fails \/ content # "good")
    /\ UNCHANGED installerVars

\* The loop of extract_zip reads the flag and leaves.
ExtractionStops == installerCancelled /\ UNCHANGED <<installerVars, faults>>

\* remove_all(staging) after a cancelled or failed extraction
DiscardStaging(a) ==
    /\ \E d \in Dir : RemoveAll(staging[a], d) /\ staging' = [staging EXCEPT ![a] = d]
    /\ UNCHANGED <<installerCancelled, installed, entries>>

\* The old install of an upgrade is removed; the result is not looked at.
RemoveOld(a) ==
    /\ \E d \in Dir :
          /\ IF Present(installed[a]) THEN RemoveAll(installed[a], d)
                                      ELSE d = NoDir /\ UNCHANGED faults
          /\ installed' = [installed EXCEPT ![a] = d]
    /\ UNCHANGED <<installerCancelled, staging, entries>>

\* rename(staging, final) succeeds where final is gone or an empty directory.
MoveIn(a) ==
    /\ installed[a].state \in {"absent", "part"}
    /\ installed' = [installed EXCEPT ![a] = staging[a]]
    /\ staging' = [staging EXCEPT ![a] = NoDir]
    /\ UNCHANGED <<installerCancelled, entries, faults>>

\* rename fails (always possible over what remains of an old install): the
\* staging directory is removed.
CannotMoveIn(a) ==
    /\ Present(installed[a]) \/ faults > 0
    /\ \E d \in Dir :
          /\ \E more \in BOOLEAN :
                /\ d \in RemainsOf(staging[a], more)
                /\ LET cost == (IF Present(installed[a]) THEN 0 ELSE 1)
                               + (IF more THEN 1 ELSE 0)
                   IN  faults >= cost /\ faults' = faults - cost
          /\ staging' = [staging EXCEPT ![a] = d]
    /\ UNCHANGED <<installerCancelled, installed, entries>>

\* write_marker: calcium-meta.json, whose result is not looked at
WriteMarker(a, v) ==
    /\ \E fails \in BOOLEAN :
          /\ Mutation(fails)
          /\ installed' = [installed EXCEPT ![a].marker = IF fails THEN None ELSE v]
    /\ UNCHANGED <<installerCancelled, staging, entries>>

\* uninstall of a directory that is there; TRUE when remove_all says so
RemoveInstalled(a, ok) ==
    /\ Present(installed[a])
    /\ Mutation(~ok)
    /\ \E d \in RemainsOf(installed[a], ~ok) : installed' = [installed EXCEPT ![a] = d]
    /\ UNCHANGED <<installerCancelled, staging, entries>>
=============================================================================
