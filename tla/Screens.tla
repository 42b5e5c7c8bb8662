------------------------------ MODULE Screens ------------------------------
(***************************************************************************)
(* The user interface (src/ui) over the operations of AppManager: UIManager *)
(* and its screens on the UI thread, and the events the operation thread   *)
(* sends, through one callback that each listening screen replaces when it *)
(* is entered.  The callback runs on the operation thread, under a mutex   *)
(* that guards the callback alone, not the screen it belongs to.           *)
(***************************************************************************)
EXTENDS Operations, FiniteSets, SequencesExt

CONSTANTS Browsers,           \* screens that list the catalogue
          Plain,              \* screens with neither applications nor events
          HistoryLimit        \* screens kept to go back to

ASSUME HistoryLimitIsPositive == HistoryLimit \in Nat \ {0}

Listeners == {"detail", "installed", "downloads"}
ASSUME ScreensDiffer == (Browsers \cup Plain) \cap Listeners = {}

ScreenIds == Browsers \cup Plain \cup Listeners

VARIABLES phase,              \* of the Application: main loop, destruction
          current, history,   \* m_current_id, m_history
          ui,                 \* where the UI thread is in navigate
          subscriber,         \* the screen m_event_cb belongs to
          detail,             \* members of AppDetailScreen
          list,               \* of InstalledScreen
          rows, cancelOn,     \* of DownloadsScreen: rows, and which buttons react
          said,               \* events of the operation that went out
          inCallback          \* the event AppDetailScreen's callback has let in

\* History, read by properties only, of the current screen since it was entered:
\* a result it is about went out after it had read its state and before it had
\* subscribed; an event let in for another application was still in the callback
\* of the detail screen when that screen was entered.
VARIABLES missed, borrowed

traces == <<missed, borrowed>>

uiVars == <<phase, current, history, ui>>
screenVars == <<detail, list, rows, cancelOn>>
threadVars == <<said, inCallback>>
vars == <<opsVars, uiVars, subscriber, screenVars, threadVars, traces>>

Events == {"started", "progress", "result"}
NoRows == [a \in Apps |-> "none"]
NewDetail == [app |-> None, shown |-> None, active |-> FALSE,
              primaryOn |-> TRUE, secondaryOn |-> TRUE]
NewList == [items |-> {}, selected |-> None, uninstallOn |-> TRUE]

Init == /\ OpsInit
        /\ phase = "running"
        /\ current \in Browsers
        /\ history = <<>>
        /\ ui = "handling"
        /\ subscriber = "none"
        /\ detail = NewDetail
        /\ list = NewList
        /\ rows = NoRows /\ cancelOn = {}
        /\ said = "nothing" /\ inCallback = "none"
        /\ missed = FALSE /\ borrowed = FALSE

TypeOK == /\ OpsTypeOK
          /\ phase \in {"running", "unscreened", "ended"}
          /\ current \in ScreenIds
          /\ history \in Seq(ScreenIds) /\ Len(history) <= HistoryLimit
          /\ ui \in {"handling", "entering", "subscribing"}
          /\ subscriber \in Listeners \cup {"none"}
          /\ detail \in [app : Apps \cup {None}, shown : VersionOrNone, active : BOOLEAN,
                         primaryOn : BOOLEAN, secondaryOn : BOOLEAN]
          /\ list \in [items : SUBSET Apps, selected : Apps \cup {None}, uninstallOn : BOOLEAN]
          /\ rows \in [Apps -> {"none", "active", "over"}]
          /\ cancelOn \subseteq Apps
          /\ said \in {"nothing", "started", "result"}
          /\ inCallback \in Events \cup {"none"}
          /\ missed \in BOOLEAN /\ borrowed \in BOOLEAN

Busy == stage # "idle"

-----------------------------------------------------------------------------
(* Navigation                                                              *)

\* The UI thread is between two inputs.
Free == phase = "running" /\ ui = "handling"

\* A screen becomes the current one; those that listen go on to subscribe.
Arrive(s) == /\ current' = s
             /\ ui' = IF s \in Listeners THEN "entering" ELSE "handling"

\* Faulty variant: the history has no limit.
PushUnlimited(s) == history' = Append(history, s)

\* The screen left is remembered; beyond the limit the oldest goes.
Push(s) == LET longer == Append(history, s)
           IN  history' = IF Len(longer) > HistoryLimit THEN Tail(longer) ELSE longer

\* Faulty variant: the screen shown is remembered also when it is entered again.
NavigateAlways(s) == Push(current) /\ Arrive(s) /\ UNCHANGED phase

Navigate(s) == /\ IF s # current THEN Push(current) ELSE UNCHANGED history
               /\ Arrive(s)
               /\ UNCHANGED phase

\* The sidebar, or a button of the home screen.
Choose(s) == /\ Free
             /\ s # "detail"
             /\ Navigate(s)
             /\ UNCHANGED <<opsVars, subscriber, screenVars, threadVars, traces>>

\* UIManager::open_app: the detail screen learns of its application first.
OpenApp(a) == /\ detail' = [detail EXCEPT !.app = a]
              /\ Navigate("detail")
              /\ UNCHANGED <<opsVars, subscriber, list, rows, cancelOn, threadVars, traces>>

\* A card of the catalogue; search, category and layout decide which there are.
OpenCard(a) == Free /\ current \in Browsers /\ IsOffered(a) /\ OpenApp(a)

OpenSelected == /\ Free /\ current = "installed"
                /\ list.selected # None
                /\ OpenApp(list.selected)

\* Escape, Backspace on the detail screen or its button.
GoBack == /\ Free
          /\ history # <<>>
          /\ Arrive(Last(history))
          /\ history' = Front(history)
          /\ UNCHANGED <<opsVars, phase, subscriber, screenVars, threadVars, traces>>

-----------------------------------------------------------------------------
(* on_enter of the screens that listen: they read, then they subscribe     *)

Entering(s) == /\ phase = "running" /\ ui = "entering" /\ current = s
               /\ ui' = "subscribing"
               /\ missed' = FALSE
               /\ borrowed' = (s = "detail" /\ inCallback \in {"started", "progress"}
                                  /\ job.app # detail.app)
               /\ UNCHANGED <<opsVars, phase, current, history, subscriber, threadVars>>

\* refresh_state sets the buttons by the flag that is reset after it.
EnterDetail == /\ Entering("detail")
               /\ detail' = [detail EXCEPT !.shown = records[detail.app], !.active = FALSE,
                                           !.primaryOn = ~detail.active,
                                           !.secondaryOn = ~detail.active]
               /\ UNCHANGED <<list, rows, cancelOn>>

\* rebuild_list: what the catalogue offers and the database records; the
\* selection goes.
Rebuild == list' = [list EXCEPT !.items = {a \in Apps : IsOffered(a) /\ IsInstalled(a)},
                                !.selected = None]

EnterInstalled == Entering("installed") /\ Rebuild /\ UNCHANGED <<detail, rows, cancelOn>>

\* Faulty variant: the rows stay.
EnterDownloadsAgain == Entering("downloads") /\ UNCHANGED screenVars

EnterDownloads == /\ Entering("downloads")
                  /\ rows' = NoRows /\ cancelOn' = {}
                  /\ UNCHANGED <<detail, list>>

\* set_event_callback waits for a callback that is running.
Subscribe == /\ phase = "running" /\ ui = "subscribing"
             /\ inCallback = "none"
             /\ subscriber' = current
             /\ ui' = "handling"
             /\ UNCHANGED <<opsVars, phase, current, history, screenVars, threadVars, traces>>

-----------------------------------------------------------------------------
(* Buttons                                                                 *)

Accepted == said' = "nothing" /\ missed' = FALSE /\ UNCHANGED borrowed

\* Install, or Update where another version is installed; Launch otherwise,
\* which changes nothing here.  A busy manager refuses.
ClickPrimary == /\ Free /\ current = "detail"
                /\ detail.app # None /\ detail.primaryOn
                /\ detail.shown # offered[detail.app]
                /\ AcceptInstall(detail.app)
                /\ Accepted
                /\ UNCHANGED <<uiVars, subscriber, screenVars, inCallback>>

\* Uninstall where the application is shown as installed; Back otherwise.
ClickSecondary == /\ Free /\ current = "detail"
                  /\ detail.app # None /\ detail.secondaryOn
                  /\ detail.shown # None
                  /\ AcceptUninstall(detail.app)
                  /\ Accepted
                  /\ UNCHANGED <<uiVars, subscriber, screenVars, inCallback>>

Select(a) == /\ Free /\ current = "installed"
             /\ a \in list.items
             /\ list' = [list EXCEPT !.selected = a]
             /\ UNCHANGED <<opsVars, uiVars, subscriber, detail, rows, cancelOn, threadVars,
                            traces>>

ClickUninstall == /\ Free /\ current = "installed"
                  /\ list.uninstallOn
                  /\ list.selected # None
                  /\ AcceptUninstall(list.selected)
                  /\ Accepted
                  /\ UNCHANGED <<uiVars, subscriber, screenVars, inCallback>>

\* update of the current screen, once per frame: which buttons react.
Frame ==
    /\ Free /\ current \in Listeners
    /\ detail' = IF current # "detail" THEN detail
                 ELSE [detail EXCEPT !.primaryOn = ~detail.active /\ ~Busy,
                                     !.secondaryOn = ~detail.active]
    /\ list' = IF current # "installed" THEN list
               ELSE [list EXCEPT !.uninstallOn = list.selected # None /\ ~Busy]
    /\ cancelOn' = IF current # "downloads" THEN cancelOn
                   ELSE {a \in Apps : rows[a] = "active"}
    /\ UNCHANGED <<opsVars, uiVars, subscriber, rows, threadVars, traces>>

-----------------------------------------------------------------------------
(* The operation thread: emit                                              *)

\* Faulty variant: a failed install leaves its row as it is.
TellRowsOfSuccess(e) ==
    /\ rows' = [rows EXCEPT ![job.app] =
                  CASE e = "started"                              -> "active"
                    [] e = "progress" /\ @ # "none"               -> "active"
                    [] e = "result" /\ @ # "none" /\ stage = "done" -> "over"
                    [] OTHER                                      -> @]
    /\ cancelOn' = IF e = "started" /\ rows[job.app] = "none" THEN cancelOn \cup {job.app}
                                                              ELSE cancelOn

\* DownloadsScreen: the start of an install makes a row, whose button reacts at
\* once; later events change a row that is there ("over": complete or failed).
TellRows(e) ==
    /\ rows' = [rows EXCEPT ![job.app] =
                  CASE e = "started"                -> "active"
                    [] e = "progress" /\ @ # "none" -> "active"
                    [] e = "result" /\ @ # "none"   -> "over"
                    [] OTHER                        -> @]
    /\ cancelOn' = IF e = "started" /\ rows[job.app] = "none" THEN cancelOn \cup {job.app}
                                                              ELSE cancelOn

Installing == job.kind = "install"

TellDownloads(e) == /\ subscriber = "downloads"
                    /\ IF Installing THEN TellRows(e) ELSE UNCHANGED <<rows, cancelOn>>
                    /\ UNCHANGED <<detail, list, inCallback>>

\* Faulty variant: the list is rebuilt when an uninstall starts.
TellInstalledEarly(e) == /\ subscriber = "installed"
                         /\ IF e = "started" /\ ~Installing THEN Rebuild ELSE UNCHANGED list
                         /\ UNCHANGED <<detail, rows, cancelOn, inCallback>>

TellInstalled(e) == /\ subscriber = "installed"
                    /\ IF e = "result" /\ ~Installing THEN Rebuild ELSE UNCHANGED list
                    /\ UNCHANGED <<detail, rows, cancelOn, inCallback>>

\* The screens are destroyed, the callback still names one.  The call into freed
\* memory may leave no trace, as here, or end the process (CallKills).
TellDead == phase = "unscreened" /\ subscriber # "none" /\ UNCHANGED <<screenVars, inCallback>>

\* Faulty variant: the callback does not compare the application.
TellDetailOfAll(e) == /\ subscriber = "detail"
                      /\ inCallback' = e
                      /\ UNCHANGED screenVars

\* AppDetailScreen's callback lets an event of its application in, ...
TellDetail(e) == /\ subscriber = "detail"
                 /\ inCallback' = IF detail.app = job.app THEN e ELSE "none"
                 /\ UNCHANGED screenVars

TellNobody == subscriber = "none" /\ UNCHANGED <<screenVars, inCallback>>

\* Faulty variant: only the result of an install makes the page read again.
ActOnInstalls ==
    /\ inCallback # "none"
    /\ detail' = IF phase # "running" THEN detail
                 ELSE IF inCallback # "result" THEN [detail EXCEPT !.active = TRUE]
                 ELSE [detail EXCEPT !.active = FALSE,
                                     !.shown = IF Installing THEN records[detail.app] ELSE @,
                                     !.primaryOn = TRUE, !.secondaryOn = TRUE]
    /\ inCallback' = "none"
    /\ UNCHANGED <<opsVars, uiVars, subscriber, list, rows, cancelOn, said, traces>>

\* ... and acts on it, whatever application the screen shows by then.
ActOnEvent ==
    /\ inCallback # "none"
    /\ detail' = IF phase # "running" THEN detail
                 ELSE IF inCallback # "result" THEN [detail EXCEPT !.active = TRUE]
                 ELSE [detail EXCEPT !.active = FALSE, !.shown = records[detail.app],
                                     !.primaryOn = TRUE, !.secondaryOn = TRUE]
    /\ inCallback' = "none"
    /\ UNCHANGED <<opsVars, uiVars, subscriber, list, rows, cancelOn, said, traces>>

Emit(e) == /\ inCallback = "none"
           /\ \/ /\ phase = "running"
                 /\ TellDetail(e) \/ TellInstalled(e) \/ TellDownloads(e)
              \/ TellDead
              \/ TellNobody
           /\ UNCHANGED <<opsVars, uiVars, subscriber>>

EmitStarted == /\ stage = "running" /\ said = "nothing"
               /\ said' = "started"
               /\ Emit("started")
               /\ UNCHANGED traces

EmitProgress == /\ stage \in {"running", "done"} /\ Installing /\ said = "started"
                /\ Emit("progress")
                /\ UNCHANGED <<said, traces>>

\* The current screen has read, has not subscribed, and the result is about it.
Misses == /\ phase = "running" /\ ui = "subscribing"
          /\ subscriber # current
          /\ \/ current = "detail" /\ job.app = detail.app
             \/ current = "installed" /\ ~Installing

EmitResult == /\ stage \in {"done", "failed"} /\ said = "started"
              /\ said' = "result"
              /\ Emit("result")
              /\ missed' = (missed \/ Misses) /\ UNCHANGED borrowed

\* PackageManager works, between its events.
Work == /\ said = "started" /\ inCallback = "none"
        /\ Perform \/ Fail
        /\ UNCHANGED <<uiVars, subscriber, screenVars, threadVars, traces>>

Release == /\ said = "result" /\ inCallback = "none"
           /\ Finish
           /\ UNCHANGED <<uiVars, subscriber, screenVars, threadVars, traces>>

-----------------------------------------------------------------------------
(* The refresh thread, and the end                                         *)

Refresh == Publish /\ UNCHANGED <<uiVars, subscriber, screenVars, threadVars, traces>>

\* The main loop ends on a closed window, a signal or Escape, and ~Application
\* destroys its members from the last to the first: UIManager with its screens,
\* whose state is gone, ...
Quit == /\ Free
        /\ phase' = "unscreened"
        /\ current' \in Browsers /\ history' = <<>>
        /\ detail' = NewDetail /\ list' = NewList
        /\ rows' = NoRows /\ cancelOn' = {}
        /\ UNCHANGED <<opsVars, ui, subscriber, threadVars, traces>>

CallKills == /\ phase = "unscreened" /\ subscriber # "none"
             /\ Busy
             /\ said # "result" \/ inCallback # "none"
             /\ phase' = "ended"
             /\ Stop
             /\ inCallback' = "none"
             /\ UNCHANGED <<current, history, ui, subscriber, screenVars, said, traces>>

\* ... then AppManager, which joins the operation thread.
DestroyManager == /\ phase = "unscreened"
                  /\ stage = "idle"
                  /\ phase' = "ended"
                  /\ Stop
                  /\ UNCHANGED <<current, history, ui, subscriber, screenVars, threadVars, traces>>

-----------------------------------------------------------------------------

UiStep == \/ \E s \in ScreenIds : Choose(s)
          \/ \E a \in Apps : OpenCard(a) \/ Select(a)
          \/ OpenSelected \/ GoBack
          \/ EnterDetail \/ EnterInstalled \/ EnterDownloads \/ Subscribe
          \/ ClickPrimary \/ ClickSecondary \/ ClickUninstall
          \/ Frame

OpStep == EmitStarted \/ EmitProgress \/ EmitResult \/ ActOnEvent \/ Work \/ Release

EndStep == Quit \/ CallKills \/ DestroyManager

Next == UiStep \/ OpStep \/ Refresh \/ EndStep

Spec == Init /\ [][Next]_vars

-----------------------------------------------------------------------------
(* Properties                                                              *)

\* While the downloads screen has the events, a row it shows as running is the
\* running install: no row is left running by a result that went elsewhere.
ActiveRowIsRunning ==
    Free /\ subscriber = "downloads" =>
        \A a \in Apps : rows[a] = "active" => Busy /\ Installing /\ job.app = a

\* A cancel button of the downloads screen that reacts while an operation runs
\* cancels the application of its row, although cancel names none and which
\* buttons react is only looked at once per frame.
CancelHitsItsRow ==
    Free /\ current = "downloads" /\ Busy => \A a \in cancelOn : job.app = a

\* Going back always changes the screen, also after the oldest were forgotten.
BackChangesScreen ==
    LET trail == Append(history, current)
    IN  \A i \in 1..Len(history) : trail[i] # trail[i + 1]

\* An operation on the detail screen's application has not told it its result.
OwnPending == Busy /\ job.app = detail.app /\ ~(said = "result" /\ inCallback = "none")

\* What the detail screen shows of its application is what the database
\* records, also while operations on other applications run and send it their
\* events, at every moment but two: while an operation on its own application
\* has not told its result, and after that result went out in between of the
\* screen's reading and its subscription, so that somebody else got it.
DetailIsCurrent ==
    Free /\ current = "detail" /\ ~OwnPending /\ ~missed => detail.shown = records[detail.app]

\* The detail screen takes itself for working, and so holds its buttons back
\* frame after frame, only while an operation on its own application runs: it
\* is not misled by an event of another one, nor left so by a result that went
\* elsewhere.  (What misleads it is an event that its callback had let in, and
\* not acted on, before the screen was entered for another application.)
DetailWorksForItself ==
    Free /\ current = "detail" /\ ~borrowed /\ detail.active => Busy /\ job.app = detail.app

\* The installed screen lists nothing that is gone, also while an install runs,
\* with the same two exceptions: an uninstall that has not told its result, and
\* one whose result went out between reading and subscription.
NoGhostEntry ==
    Free /\ current = "installed" /\ ~missed /\ ~(Busy /\ ~Installing /\ said # "result") =>
        \A a \in list.items : IsInstalled(a)

-----------------------------------------------------------------------------
(* What comments and docs say and the code does not do                     *)

\* README.md:13: "Downloads page -- Live progress, cancellation, and retry
\* support".  An install that has reported its start and runs has a row on the
\* downloads screen.
DownloadsShowInstall ==
    Free /\ current = "downloads" /\ Busy /\ Installing /\ said = "started" =>
        rows[job.app] = "active"

\* Application.hpp: "order matters for construction/destruction".  An event
\* goes to a screen that is alive.
OnlyLivingScreensAreCalled ==
    [][said' # said /\ subscriber # "none" => phase = "running"]_vars
=============================================================================
