------------------------------ MODULE Settings ------------------------------
(***************************************************************************)
(* The settings screen over Config, and the process around it: what a      *)
(* start of the client makes of config.json (Application::init_config,     *)
(* init_repositories, init_packages), what the screen shows and changes,   *)
(* and what is left of it for the next start.                              *)
(*                                                                         *)
(* RepositoryManager and PackageManager copy the settings when the process *)
(* starts; nothing tells them of a later change.                           *)
(***************************************************************************)
EXTENDS Config

CONSTANT MaxRows              \* repositories in the list (a bound)

\* The list has room for what a person may have written.
ASSUME MaxRowsHoldFile == MaxRows \in Nat /\ MaxRows >= 2

VARIABLES process,            \* "off", "running"
          onScreen,           \* the settings screen is the current one
          rows,               \* m_repo_rows
          verifyToggle,       \* m_toggle_verify.value
          saving,             \* save has opened config.json and not yet written
          ids                 \* ids std::rand has given in this process

\* History, read by properties only: what the screen showed when Save was last
\* pressed, and whether the process died before that was written.
VARIABLES seen, cutShort

screenVars == <<onScreen, rows, verifyToggle>>
vars == <<configVars, faults, process, screenVars, saving, ids, seen, cutShort>>

\* Where nothing is expected of the next start.
Nothing == [known |-> FALSE, settings |-> Defaults]
Known(settings) == [known |-> TRUE, settings |-> settings]

Init == /\ StorageInit /\ ConfigInit
        /\ process = "off"
        /\ onScreen = FALSE /\ rows = <<>> /\ verifyToggle = TRUE
        /\ saving = FALSE
        /\ ids = 0
        /\ seen = Nothing /\ cutShort = FALSE

TypeOK == /\ StorageTypeOK /\ ConfigTypeOK
          /\ process \in {"off", "running"}
          /\ onScreen \in BOOLEAN
          /\ rows \in Seq(Sources) /\ Len(rows) <= MaxRows
          /\ verifyToggle \in BOOLEAN
          /\ saving \in BOOLEAN
          /\ ids \in 0..MaxIds
          /\ seen \in [known : BOOLEAN, settings : SettingsData]
          /\ cutShort \in BOOLEAN

-----------------------------------------------------------------------------
(* The process                                                             *)

\* What the managers copy when the process starts: RepositoryManager registers
\* the enabled repositories, PackageManager takes the rest.
Applied(settings) == [settings EXCEPT !.repositories = Enabled(@)]

\* Application::init: load what there is, on failure go on with what that left.
Boot == /\ process = "off"
        /\ process' = "running"
        /\ Load
        /\ UNCHANGED <<screenVars, ids, saving, seen, cutShort>>

\* The memory is gone, the file stays.
Forget == /\ process' = "off"
          /\ config' = Defaults
          /\ onScreen' = FALSE /\ rows' = <<>> /\ verifyToggle' = TRUE
          /\ ids' = 0
          /\ UNCHANGED <<configFile, faults, seen>>

\* The window is closed or the process dies between two inputs: nothing is saved.
Exit == process = "running" /\ ~saving /\ Forget /\ UNCHANGED <<saving, cutShort>>

\* The process dies between the two steps of a save.
Crash == process = "running" /\ saving /\ Forget /\ saving' = FALSE /\ cutShort' = TRUE

-----------------------------------------------------------------------------
(* The screen                                                              *)

Idle == process = "running" /\ ~saving

\* A change of the screen alone.
Shows == Idle /\ onScreen /\ UNCHANGED <<configVars, faults, process, onScreen, saving,
                                         ids, seen, cutShort>>

\* A change of screen and settings.
Edits == Idle /\ onScreen /\ UNCHANGED <<configFile, faults, process, onScreen, verifyToggle,
                                         saving, seen, cutShort>>

\* on_enter, also where the screen is the current one: what was not saved of
\* the toggles is forgotten, added and removed repositories are not.  Leaving
\* changes nothing, so that going elsewhere and coming back is this step.
Enter == /\ Idle
         /\ onScreen' = TRUE
         /\ verifyToggle' = config.verify
         /\ rows' = config.repositories
         /\ UNCHANGED <<configVars, faults, process, saving, ids, seen, cutShort>>

ToggleVerify == Shows /\ verifyToggle' = ~verifyToggle /\ UNCHANGED rows

ToggleRow(i) == /\ Shows
                /\ rows' = [rows EXCEPT ![i].enabled = ~@]
                /\ UNCHANGED verifyToggle

\* The first row with the id of row k, where std::remove_if begins to shift.
FirstLike(k) == CHOOSE j \in DOMAIN rows :
                   /\ rows[j].id = rows[k].id
                   /\ \A i \in 1..(j - 1) : rows[i].id # rows[k].id

\* One turn of it: a row that stays moves to the first free place.
ShiftTurn(now, n, k) ==
    IF now.at[n].id = now.at[k].id THEN now
    ELSE [at |-> [now.at EXCEPT ![now.to] = now.at[n]], to |-> now.to + 1]

\* The button of a row erases by the id of that row, which the predicate of
\* std::remove_if reads through a reference into the vector that it shifts: after
\* the first move it compares with the row that took that place.
Shifted(k) ==
    LET after[n \in 0..Len(rows)] ==
          IF n <= FirstLike(k) THEN [at |-> rows, to |-> FirstLike(k)]
          ELSE ShiftTurn(after[n - 1], n, k)
    IN  after[Len(rows)]

\* Faulty variant: remove_if without erase.
ShiftRow(k) == Shifted(k).at

EraseRow(k) == LET end == Shifted(k) IN SubSeq(end.at, 1, end.to - 1)

RemoveRow(k) ==
    /\ Edits
    /\ config' = [config EXCEPT !.repositories = Removed(@, rows[k].id)]
    /\ rows' = EraseRow(k)
    /\ UNCHANGED ids

\* Add Repository: the id is the next of std::rand, which nothing seeds, so each
\* process gives the same ids in the same order.
AddRepository(url) ==
    /\ Edits
    /\ ids < MaxIds
    /\ Len(rows) < MaxRows /\ Len(config.repositories) < MaxRows
    /\ ids' = ids + 1
    /\ LET new == [id |-> ids + 1, url |-> url, enabled |-> TRUE]
       IN  /\ config' = [config EXCEPT !.repositories = Added(@, new)]
           /\ rows' = Append(rows, new)

-----------------------------------------------------------------------------
(* Save Settings                                                           *)

Agree == [i \in DOMAIN rows |-> [rows[i] EXCEPT !.enabled = TRUE]]
            = [i \in DOMAIN config.repositories |->
                  [config.repositories[i] EXCEPT !.enabled = TRUE]]

\* apply_to_config: a row sets the flag of the first repository with its id, ...
ApplyRow(sources, row) ==
    LET same == {i \in DOMAIN sources : sources[i].id = row.id}
    IN  [i \in DOMAIN sources |->
           IF i \in same /\ \A j \in same : i <= j
           THEN [sources[i] EXCEPT !.enabled = row.enabled] ELSE sources[i]]

\* ... and each row does.
ApplyRows(sources) ==
    LET after[n \in 0..Len(rows)] ==
          IF n = 0 THEN sources ELSE ApplyRow(after[n - 1], rows[n])
    IN  after[Len(rows)]

\* The button: settings are changed, then save opens the file; the screen says
\* "Settings saved." whatever comes of it.
PressSave ==
    /\ Idle /\ onScreen
    /\ config' = [verify |-> verifyToggle, repositories |-> ApplyRows(config.repositories)]
    /\ seen' = IF Agree /\ Distinct(rows) /\ IsUtf8(config)
               THEN Known([verify |-> verifyToggle, repositories |-> Enabled(rows)])
               ELSE Nothing
    /\ \/ SaveOpens /\ saving' = TRUE /\ UNCHANGED faults
       \/ SaveCannotOpen /\ UNCHANGED saving
    /\ UNCHANGED <<process, screenVars, ids, cutShort>>

FinishSave == /\ process = "running" /\ saving
              /\ SaveWrites
              /\ saving' = FALSE
              /\ cutShort' = FALSE
              /\ UNCHANGED <<process, screenVars, ids, seen>>

-----------------------------------------------------------------------------

Next == \/ Boot \/ Exit \/ Crash
        \/ Enter \/ ToggleVerify
        \/ \E i \in DOMAIN rows : ToggleRow(i) \/ RemoveRow(i)
        \/ \E url \in Urls : AddRepository(url)
        \/ PressSave \/ FinishSave

Spec == Init /\ [][Next]_vars

-----------------------------------------------------------------------------
(* Properties                                                              *)

\* Rows and settings are changed by two pieces of code for each button.  As long
\* as no id occurs twice, no button makes the screen list other repositories, or
\* in another order, than the settings hold, and entering makes them agree.
RowsMirrorConfig ==
    [][onScreen' /\ (onScreen /\ process = "running" => Agree /\ Distinct(rows)) => Agree']_vars

\* The next start registers the repositories that the screen showed as enabled,
\* and verifies or not as it showed, when Save was last pressed; unless storage
\* failed, the process died in the middle of the save, two repositories shared
\* an id or a text was not UTF-8.
NextStartFollowsScreen ==
    [][process = "off" /\ process' = "running" /\ seen.known /\ ~cutShort /\ NoFaultYet' =>
          Applied(config') = seen.settings]_vars
=============================================================================
