--------------------------- MODULE Screens_proofs ---------------------------
(***************************************************************************)
(* What the screens show, for every set of applications, versions and      *)
(* screens and every limit of the history.                                 *)
(***************************************************************************)
EXTENDS Screens, TLAPS

-----------------------------------------------------------------------------
(* Types                                                                   *)

DetailStates == [app : Apps \cup {None}, shown : VersionOrNone, active : BOOLEAN,
                 primaryOn : BOOLEAN, secondaryOn : BOOLEAN]
ListStates == [items : SUBSET Apps, selected : Apps \cup {None}, uninstallOn : BOOLEAN]

\* Type correctness but for the history.
FrameOK ==
  /\ OpsTypeOK
  /\ phase \in {"running", "unscreened", "ended"}
  /\ current \in ScreenIds
  /\ ui \in {"handling", "entering", "subscribing"}
  /\ subscriber \in Listeners \cup {"none"}
  /\ detail \in DetailStates
  /\ list \in ListStates
  /\ rows \in [Apps -> {"none", "active", "over"}]
  /\ cancelOn \subseteq Apps
  /\ said \in {"nothing", "started", "result"}
  /\ inCallback \in Events \cup {"none"}
  /\ missed \in BOOLEAN /\ borrowed \in BOOLEAN

\* The history, and what is shown after it: no screen twice in a row.
TrailOK ==
  /\ history \in Seq(ScreenIds) /\ Len(history) <= HistoryLimit
  /\ history # <<>> => history[Len(history)] # current
  /\ \A i \in 1..(Len(history) - 1) : history[i] # history[i + 1]

\* A job while there is one; events belong to it and come in their order.
JobOK ==
  /\ IF Busy THEN job \in Job ELSE job = NoJob /\ inCallback = "none"
  /\ inCallback = "result" => said = "result"
  /\ inCallback \in {"started", "progress"} => said = "started"

\* A listening screen that is entered has the events, and while the callback of
\* the detail screen has let one in nobody takes them over.
SubscriberOK ==
  /\ inCallback # "none" => subscriber = "detail"
  /\ ui # "handling" => current \in Listeners
  /\ phase = "running" /\ ui = "handling" /\ current \in Listeners => subscriber = current

\* The detail screen is not shown, nor kept to go back to, before it has got
\* an application; and its callback lets no event in.
NamedOK ==
  phase = "running" /\ detail.app \notin Apps =>
     /\ current # "detail" /\ inCallback = "none"
     /\ \A i \in 1..Len(history) : history[i] # "detail"

\* Going back leads to a screen.
LEMMA LastTyped ==
  ASSUME TrailOK, history # <<>>
  PROVE  Last(history) \in ScreenIds
BY DEF TrailOK, Last

\* The state of a client that does not run has its type.
LEMMA NothingTyped == Nothing \in [Apps -> VersionOrNone]
BY DEF Nothing, VersionOrNone

\* rebuild_list keeps the type of the list.
LEMMA RebuildTyped ==
  ASSUME list \in ListStates, Rebuild
  PROVE  list' \in ListStates
BY DEF Rebuild, ListStates

\* So does the end of the process that of the operations.
LEMMA StopTyped ==
  ASSUME OpsTypeOK, Stop
  PROVE  OpsTypeOK'
BY NothingTyped DEF Stop, OpsTypeOK, Stages

\* And the start of an operation.
LEMMA AcceptTyped ==
  ASSUME OpsTypeOK, NEW a \in Apps, AcceptInstall(a) \/ AcceptUninstall(a)
  PROVE  OpsTypeOK'
BY DEF OpsTypeOK, AcceptInstall, AcceptUninstall, Accept, IsOffered, Job, VersionOrNone, Stages

\* What an event changes, whoever gets it.
LEMMA TellsTyped ==
  ASSUME FrameOK, JobOK, Busy, NEW e \in Events, Emit(e)
  PROVE  /\ list' \in ListStates
         /\ rows' \in [Apps -> {"none", "active", "over"}]
         /\ cancelOn' \subseteq Apps
         /\ inCallback' \in Events \cup {"none"}
         /\ UNCHANGED <<opsVars, uiVars, subscriber, detail>>
<1> USE DEF FrameOK, JobOK, Emit, Job, Events, screenVars
<1>1. CASE TellDetail(e) \/ TellDead \/ TellNobody
  BY <1>1 DEF TellDetail, TellDead, TellNobody
<1>2. CASE TellInstalled(e)
  BY <1>2, RebuildTyped DEF TellInstalled
<1>3. CASE TellDownloads(e)
  BY <1>3 DEF TellDownloads, TellRows
<1>q. QED BY <1>1, <1>2, <1>3

\* Every step keeps the types; the application the detail screen names has a record.
LEMMA FrameKept ==
  ASSUME FrameOK, TrailOK, NamedOK, JobOK, SubscriberOK, [Next]_vars
  PROVE  FrameOK'
<1> USE DEF FrameOK, JobOK, Free, Job, NoJob, VersionOrNone, NoRows, NewDetail, NewList,
            DetailStates, ListStates, Listeners, OpsTypeOK, Stages, ScreenIds, Events, Busy,
            uiVars, screenVars, threadVars, opsVars, traces
<1>1. ASSUME NEW s \in ScreenIds, Choose(s) PROVE FrameOK'
  BY <1>1 DEF Choose, Navigate, Arrive
<1>2. ASSUME NEW a \in Apps, OpenCard(a) PROVE FrameOK'
  BY <1>2 DEF OpenCard, OpenApp, Navigate, Arrive
<1>3. ASSUME NEW a \in Apps, Select(a) PROVE FrameOK'
  BY <1>3 DEF Select
<1>4. CASE OpenSelected
  BY <1>4 DEF OpenSelected, OpenApp, Navigate, Arrive
<1>5. CASE GoBack
  BY <1>5, LastTyped DEF GoBack, Arrive
<1>6. CASE EnterDetail
  <2> HIDE DEF OpsTypeOK, DetailStates, ListStates, Job, NoJob, VersionOrNone, NoRows, NewDetail,
              NewList
  <2>1. detail.app \in Apps
    BY <1>6 DEF EnterDetail, Entering, NamedOK
  <2>2. records[detail.app] \in VersionOrNone
    BY <2>1 DEF OpsTypeOK
  <2>3. (~detail.active) \in BOOLEAN
    OBVIOUS
  <2>4. detail' \in DetailStates
    BY <1>6, <2>2, <2>3 DEF EnterDetail, DetailStates
  <2>5. OpsTypeOK'
    BY <1>6 DEF EnterDetail, Entering, OpsTypeOK
  <2>q. QED BY <1>6, <2>3, <2>4, <2>5 DEF EnterDetail, Entering
<1>7. CASE EnterInstalled
  <2> HIDE DEF OpsTypeOK, DetailStates, ListStates, Job, NoJob, VersionOrNone, NoRows, NewDetail,
              NewList
  <2>1. list' \in ListStates
    BY <1>7, RebuildTyped DEF EnterInstalled
  <2>2. OpsTypeOK'
    BY <1>7 DEF EnterInstalled, Entering, OpsTypeOK
  <2>q. QED BY <1>7, <2>1, <2>2 DEF EnterInstalled, Entering
<1>8. CASE EnterDownloads
  <2> HIDE DEF OpsTypeOK, DetailStates, ListStates, Job, NoJob, VersionOrNone, NoRows, NewDetail,
              NewList
  <2>1. OpsTypeOK'
    BY <1>8 DEF EnterDownloads, Entering, OpsTypeOK
  <2>2. rows' \in [Apps -> {"none", "active", "over"}]
    BY <1>8 DEF EnterDownloads, NoRows
  <2>q. QED BY <1>8, <2>1, <2>2 DEF EnterDownloads, Entering
<1>9. CASE Subscribe
  <2> HIDE DEF OpsTypeOK, DetailStates, ListStates, Job, NoJob, VersionOrNone, NoRows, NewDetail,
              NewList
  <2>1. OpsTypeOK'
    BY <1>9 DEF Subscribe, OpsTypeOK
  <2>2. current \in Listeners
    BY <1>9 DEF Subscribe, SubscriberOK
  <2>q. QED BY <1>9, <2>1, <2>2 DEF Subscribe
<1>10. CASE ClickPrimary
  <2> HIDE DEF OpsTypeOK, DetailStates, ListStates, Job, NoJob, VersionOrNone, NoRows, NewDetail,
              NewList
  <2>1. OpsTypeOK'
    <3> detail.app \in Apps BY <1>10 DEF ClickPrimary, NamedOK
    <3>q. QED BY <1>10, AcceptTyped DEF ClickPrimary
  <2>q. QED BY <1>10, <2>1 DEF ClickPrimary, Accepted
<1>11. CASE ClickSecondary
  <2> HIDE DEF OpsTypeOK, DetailStates, ListStates, Job, NoJob, VersionOrNone, NoRows, NewDetail,
              NewList
  <2>1. OpsTypeOK'
    <3> detail.app \in Apps BY <1>11 DEF ClickSecondary, NamedOK
    <3>q. QED BY <1>11, AcceptTyped DEF ClickSecondary
  <2>q. QED BY <1>11, <2>1 DEF ClickSecondary, Accepted
<1>12. CASE ClickUninstall
  <2> HIDE DEF OpsTypeOK, DetailStates, ListStates, Job, NoJob, VersionOrNone, NoRows, NewDetail,
              NewList
  <2>1. OpsTypeOK'
    <3> list.selected \in Apps BY <1>12 DEF ClickUninstall, ListStates
    <3>q. QED BY <1>12, AcceptTyped DEF ClickUninstall
  <2>q. QED BY <1>12, <2>1 DEF ClickUninstall, Accepted
<1>13. CASE Frame
  <2> HIDE DEF OpsTypeOK, DetailStates, ListStates, Job, NoJob, VersionOrNone, NoRows, NewDetail,
              NewList
  <2>1. OpsTypeOK'
    BY <1>13 DEF Frame, OpsTypeOK
  <2>2. /\ (~detail.active) \in BOOLEAN
        /\ (~detail.active /\ ~Busy) \in BOOLEAN
        /\ (list.selected # None /\ ~Busy) \in BOOLEAN
    OBVIOUS
  <2>3. detail' \in DetailStates
    BY <1>13, <2>2 DEF Frame, DetailStates
  <2>4. list' \in ListStates
    BY <1>13, <2>2 DEF Frame, ListStates
  <2>q. QED BY <1>13, <2>1, <2>3, <2>4 DEF Frame
<1>14. CASE EmitStarted
  BY <1>14, TellsTyped DEF EmitStarted
<1>15. CASE EmitProgress
  BY <1>15, TellsTyped DEF EmitProgress
<1>16. CASE EmitResult
  BY <1>16, TellsTyped DEF EmitResult
<1>17. CASE ActOnEvent
  <2> HIDE DEF OpsTypeOK, DetailStates, ListStates, Job, NoJob, VersionOrNone, NoRows, NewDetail,
              NewList
  <2>1. OpsTypeOK'
    BY <1>17 DEF ActOnEvent, OpsTypeOK
  <2>2. phase = "running" => records[detail.app] \in VersionOrNone
    BY <1>17 DEF ActOnEvent, NamedOK, OpsTypeOK
  <2>3. detail' \in DetailStates
    BY <1>17, <2>2 DEF ActOnEvent, DetailStates
  <2>q. QED BY <1>17, <2>1, <2>3 DEF ActOnEvent
<1>18. CASE Work
  BY <1>18 DEF Work, Perform, Fail
<1>19. CASE Release
  BY <1>19 DEF Release, Finish
<1>20. CASE Refresh
  BY <1>20 DEF Refresh, Publish
<1>21. CASE Quit
  BY <1>21 DEF Quit
<1>22. CASE CallKills
  <2> HIDE DEF OpsTypeOK, DetailStates, ListStates, Job, NoJob, VersionOrNone, NoRows, NewDetail,
              NewList
  <2>1. OpsTypeOK'
    BY <1>22, StopTyped DEF CallKills
  <2>q. QED BY <1>22, <2>1 DEF CallKills
<1>23. CASE DestroyManager
  <2> HIDE DEF OpsTypeOK, DetailStates, ListStates, Job, NoJob, VersionOrNone, NoRows, NewDetail,
              NewList
  <2>1. OpsTypeOK'
    BY <1>23, StopTyped DEF DestroyManager
  <2>q. QED BY <1>23, <2>1 DEF DestroyManager
<1>24. CASE UNCHANGED vars
  BY <1>24 DEF vars
<1>q. QED BY <1>1, <1>2, <1>3, <1>4, <1>5, <1>6, <1>7, <1>8, <1>9, <1>10, <1>11, <1>12, <1>13,
          <1>14, <1>15, <1>16, <1>17, <1>18, <1>19, <1>20, <1>21, <1>22, <1>23, <1>24
     DEF Next, UiStep, OpStep, EndStep

\* The events stay with their job, and with the screen that is shown.
LEMMA ThreadsKept ==
  ASSUME FrameOK, JobOK, SubscriberOK, [Next]_vars
  PROVE  JobOK' /\ SubscriberOK'
<1> USE DEF FrameOK, JobOK, SubscriberOK, Free, Job, NoJob, OpsTypeOK, Stages, ScreenIds,
            Listeners, Events, Busy, uiVars, screenVars, threadVars, opsVars
<1>1. ASSUME NEW s \in ScreenIds, Choose(s) PROVE JobOK' /\ SubscriberOK'
  BY <1>1 DEF Choose, Navigate, Arrive
<1>2. ASSUME NEW a \in Apps, OpenCard(a) PROVE JobOK' /\ SubscriberOK'
  BY <1>2 DEF OpenCard, OpenApp, Navigate, Arrive
<1>3. ASSUME NEW a \in Apps, Select(a) PROVE JobOK' /\ SubscriberOK'
  BY <1>3 DEF Select
<1>4. CASE OpenSelected
  BY <1>4 DEF OpenSelected, OpenApp, Navigate, Arrive
<1>5. CASE GoBack
  BY <1>5 DEF GoBack, Arrive
<1>6. CASE EnterDetail
  BY <1>6 DEF EnterDetail, Entering
<1>7. CASE EnterInstalled
  BY <1>7 DEF EnterInstalled, Entering, Rebuild
<1>8. CASE EnterDownloads
  BY <1>8 DEF EnterDownloads, Entering
<1>9. CASE Subscribe
  BY <1>9 DEF Subscribe
<1>10. CASE ClickPrimary
  BY <1>10 DEF ClickPrimary, AcceptInstall, Accept, Accepted, IsOffered, VersionOrNone,
       DetailStates
<1>11. CASE ClickSecondary
  BY <1>11 DEF ClickSecondary, AcceptUninstall, Accept, Accepted, DetailStates, ListStates
<1>12. CASE ClickUninstall
  BY <1>12 DEF ClickUninstall, AcceptUninstall, Accept, Accepted, DetailStates, ListStates
<1>13. CASE Frame
  BY <1>13 DEF Frame
<1>14. CASE EmitStarted
  BY <1>14 DEF EmitStarted, Emit, TellDetail, TellInstalled, TellDownloads, TellRows,
       TellDead, TellNobody, Rebuild
<1>15. CASE EmitProgress
  BY <1>15 DEF EmitProgress, Emit, TellDetail, TellInstalled, TellDownloads, TellRows,
       TellDead, TellNobody, Rebuild
<1>16. CASE EmitResult
  BY <1>16 DEF EmitResult, Emit, TellDetail, TellInstalled, TellDownloads, TellRows,
       TellDead, TellNobody, Rebuild
<1>17. CASE ActOnEvent
  BY <1>17 DEF ActOnEvent
<1>18. CASE Work
  BY <1>18 DEF Work, Perform, Fail
<1>19. CASE Release
  BY <1>19 DEF Release, Finish
<1>20. CASE Refresh
  BY <1>20 DEF Refresh, Publish
<1>21. CASE Quit
  BY <1>21 DEF Quit
<1>22. CASE CallKills
  BY <1>22 DEF CallKills, Stop, Nothing
<1>23. CASE DestroyManager
  BY <1>23 DEF DestroyManager, Stop, Nothing
<1>24. CASE UNCHANGED vars
  BY <1>24 DEF vars
<1>q. QED BY <1>1, <1>2, <1>3, <1>4, <1>5, <1>6, <1>7, <1>8, <1>9, <1>10, <1>11, <1>12, <1>13,
          <1>14, <1>15, <1>16, <1>17, <1>18, <1>19, <1>20, <1>21, <1>22, <1>23, <1>24
     DEF Next, UiStep, OpStep, EndStep

\* Entering a screen that is not shown pushes the one that is; the oldest may go.
LEMMA PushKeeps ==
  ASSUME FrameOK, TrailOK, NamedOK, NEW s \in ScreenIds, Navigate(s)
  PROVE  /\ history' \in Seq(ScreenIds) /\ Len(history') <= HistoryLimit
         /\ history' # <<>> => history'[Len(history')] # current'
         /\ \A i \in 1..(Len(history') - 1) : history'[i] # history'[i + 1]
         /\ phase = "running" /\ detail.app \notin Apps =>
               \A i \in 1..Len(history') : history'[i] # "detail"
<1> USE DEF Navigate, Arrive, TrailOK
<1> current \in ScreenIds BY DEF FrameOK
<1>1. CASE s = current
  BY <1>1 DEF NamedOK
<1>2. CASE s # current
  <2> DEFINE longer == Append(history, current)
  <2>1. /\ longer \in Seq(ScreenIds) /\ Len(longer) = Len(history) + 1
        /\ longer[Len(longer)] = current
        /\ \A i \in 1..Len(history) : longer[i] = history[i]
    OBVIOUS
  <2>2. \A i \in 1..(Len(longer) - 1) : longer[i] # longer[i + 1]
    BY <2>1
  <2>3. phase = "running" /\ detail.app \notin Apps =>
        \A i \in 1..Len(longer) : longer[i] # "detail"
    BY <2>1 DEF NamedOK
  <2>4. CASE Len(longer) > HistoryLimit
    <3>1. history' = Tail(longer)
      BY <1>2, <2>4 DEF Push
    <3> HIDE DEF longer
    <3>2. /\ Tail(longer) \in Seq(ScreenIds) /\ Len(Tail(longer)) = Len(longer) - 1
          /\ \A i \in 1..Len(Tail(longer)) : Tail(longer)[i] = longer[i + 1]
      BY <2>1
    <3> DEFINE kept == Tail(longer)
    <3>3. Len(history) = HistoryLimit
      BY <2>1, <2>4, HistoryLimitIsPositive
    <3> HIDE DEF kept
    <3>4. Len(kept) = HistoryLimit /\ kept[Len(kept)] = current
      BY <2>1, <3>2, <3>3, HistoryLimitIsPositive DEF kept
    <3>5. \A i \in 1..(Len(kept) - 1) : kept[i] # kept[i + 1]
      BY <2>1, <2>2, <3>2, <3>3, <3>4, HistoryLimitIsPositive DEF kept
    <3>6. phase = "running" /\ detail.app \notin Apps =>
          \A i \in 1..Len(kept) : kept[i] # "detail"
      BY <2>1, <2>3, <3>2, <3>3, <3>4 DEF kept
    <3>q. QED BY <1>2, <3>1, <3>2, <3>4, <3>5, <3>6, HistoryLimitIsPositive DEF kept
  <2>5. CASE ~(Len(longer) > HistoryLimit)
    <3>1. history' = longer
      BY <1>2, <2>5 DEF Push
    <3>q. QED BY <1>2, <2>1, <2>2, <2>3, <2>5, <3>1, HistoryLimitIsPositive
  <2>q. QED BY <2>4, <2>5
<1>q. QED BY <1>1, <1>2

\* Going back takes the last one off.
LEMMA PopKeeps ==
  ASSUME FrameOK, TrailOK, NamedOK, GoBack
  PROVE  TrailOK' /\ NamedOK'
<1> DEFINE n == Len(history)
<1>1. history \in Seq(ScreenIds) /\ n \in Nat \ {0} /\ n <= HistoryLimit
  BY DEF GoBack, TrailOK
<1>2. /\ history' = SubSeq(history, 1, n - 1)
      /\ current' = history[n]
      /\ UNCHANGED <<phase, detail, inCallback>>
  BY <1>1 DEF GoBack, Arrive, Front, Last, screenVars, threadVars
<1> HIDE DEF n
<1>3. /\ history' \in Seq(ScreenIds) /\ Len(history') = n - 1
      /\ \A i \in 1..(n - 1) : history'[i] = history[i]
  <2>1. n - 1 \in Nat /\ n - 1 <= Len(history)
    BY <1>1 DEF n
  <2>2. \A i \in 1..(n - 1) : history[i] \in ScreenIds
    BY <1>1 DEF n
  <2>3. SubSeq(history, 1, n - 1) = [i \in 1..(n - 1) |-> history[i]]
    BY <1>1, <2>1
  <2> DEFINE shorter == [i \in 1..(n - 1) |-> history[i]]
  <2>4. shorter \in Seq(ScreenIds) /\ Len(shorter) = n - 1
    BY <2>1, <2>2
  <2>5. \A i \in 1..(n - 1) : shorter[i] = history[i]
    OBVIOUS
  <2> HIDE DEF shorter
  <2>6. history' = shorter
    BY <1>2, <2>3 DEF shorter
  <2>q. QED BY <2>4, <2>5, <2>6
<1>4. TrailOK'
  <2>1. \A i \in 1..(n - 1) : history[i] # history[i + 1]
    BY DEF TrailOK, n
  <2>2. history' # <<>> => history'[n - 1] # current'
    <3> SUFFICES ASSUME history' # <<>> PROVE history'[n - 1] # current'
      OBVIOUS
    <3>1. n - 1 \in 1..(n - 1)
      BY <1>1, <1>3
    <3>q. QED BY <1>1, <1>2, <1>3, <2>1, <3>1
  <2>3. \A i \in 1..(n - 1 - 1) : history'[i] # history'[i + 1]
    BY <1>1, <1>3, <2>1
  <2>q. QED BY <1>1, <1>3, <2>2, <2>3, HistoryLimitIsPositive DEF TrailOK
<1>5. NamedOK'
  BY <1>1, <1>2, <1>3 DEF NamedOK, n
<1>q. QED BY <1>4, <1>5

\* Opening an application names it before its screen is entered.
LEMMA OpenKeeps ==
  ASSUME FrameOK, TrailOK, NamedOK, NEW a \in Apps, OpenApp(a)
  PROVE  TrailOK' /\ NamedOK'
<1>1. "detail" \in ScreenIds
  BY DEF ScreenIds, Listeners
<1>2. detail'.app = a
  BY DEF OpenApp, FrameOK, DetailStates
<1>q. QED BY <1>1, <1>2, PushKeeps DEF OpenApp, Navigate, Arrive, TrailOK, NamedOK

\* An event moves no screen.
LEMMA EmitKeeps ==
  ASSUME FrameOK, TrailOK, NamedOK, JobOK, Busy, NEW e \in Events, Emit(e)
  PROVE  TrailOK' /\ NamedOK'
<1>1. detail' = detail /\ UNCHANGED <<phase, current, history>>
  BY TellsTyped DEF uiVars
<1>2. phase = "running" /\ detail.app \notin Apps => inCallback' = "none"
  BY DEF Emit, TellDetail, TellInstalled, TellDownloads, TellDead, TellNobody, JobOK, Job,
       screenVars
<1>q. QED BY <1>1, <1>2 DEF TrailOK, NamedOK

\* Every step keeps the trail of screens.
LEMMA TrailKept ==
  ASSUME FrameOK, TrailOK, NamedOK, JobOK, SubscriberOK, [Next]_vars
  PROVE  TrailOK' /\ NamedOK'
<1> USE DEF Free, uiVars, screenVars, threadVars
<1>1. ASSUME NEW s \in ScreenIds, Choose(s) PROVE TrailOK' /\ NamedOK'
  BY <1>1, PushKeeps DEF Choose, Navigate, Arrive, TrailOK, NamedOK
<1>2. ASSUME NEW a \in Apps, OpenCard(a) PROVE TrailOK' /\ NamedOK'
  BY <1>2, OpenKeeps DEF OpenCard
<1>3. ASSUME NEW a \in Apps, Select(a) PROVE TrailOK' /\ NamedOK'
  BY <1>3 DEF Select, TrailOK, NamedOK
<1>4. CASE OpenSelected
  <2> list.selected \in Apps
    BY <1>4 DEF OpenSelected, FrameOK, ListStates
  <2>q. QED BY <1>4, OpenKeeps DEF OpenSelected
<1>5. CASE GoBack
  BY <1>5, PopKeeps
<1>6. CASE EnterDetail
  BY <1>6 DEF EnterDetail, TrailOK, NamedOK, Entering, FrameOK, DetailStates
<1>7. CASE EnterInstalled
  BY <1>7 DEF EnterInstalled, TrailOK, NamedOK, Entering
<1>8. CASE EnterDownloads
  BY <1>8 DEF EnterDownloads, TrailOK, NamedOK, Entering
<1>9. CASE Subscribe
  BY <1>9 DEF Subscribe, TrailOK, NamedOK
<1>10. CASE ClickPrimary
  BY <1>10 DEF ClickPrimary, TrailOK, NamedOK, Accepted
<1>11. CASE ClickSecondary
  BY <1>11 DEF ClickSecondary, TrailOK, NamedOK, Accepted
<1>12. CASE ClickUninstall
  BY <1>12 DEF ClickUninstall, TrailOK, NamedOK, Accepted
<1>13. CASE Frame
  BY <1>13 DEF Frame, TrailOK, NamedOK, FrameOK, DetailStates
<1>14. CASE EmitStarted
  BY <1>14, EmitKeeps DEF EmitStarted, Events, Busy
<1>15. CASE EmitProgress
  BY <1>15, EmitKeeps DEF EmitProgress, Events, Busy
<1>16. CASE EmitResult
  BY <1>16, EmitKeeps DEF EmitResult, Events, Busy
<1>17. CASE ActOnEvent
  <2>1. detail'.app = detail.app
    BY <1>17 DEF ActOnEvent, FrameOK, DetailStates
  <2>q. QED BY <1>17, <2>1 DEF ActOnEvent, TrailOK, NamedOK
<1>18. CASE Work
  BY <1>18 DEF Work, TrailOK, NamedOK
<1>19. CASE Release
  BY <1>19 DEF Release, TrailOK, NamedOK
<1>20. CASE Refresh
  BY <1>20 DEF Refresh, TrailOK, NamedOK
<1>21. CASE Quit
  BY <1>21, HistoryLimitIsPositive DEF Quit, TrailOK, NamedOK
<1>22. CASE CallKills
  BY <1>22 DEF CallKills, TrailOK, NamedOK
<1>23. CASE DestroyManager
  BY <1>23 DEF DestroyManager, TrailOK, NamedOK
<1>24. CASE UNCHANGED vars
  BY <1>24 DEF vars, TrailOK, NamedOK
<1>q. QED BY <1>1, <1>2, <1>3, <1>4, <1>5, <1>6, <1>7, <1>8, <1>9, <1>10, <1>11, <1>12, <1>13,
          <1>14, <1>15, <1>16, <1>17, <1>18, <1>19, <1>20, <1>21, <1>22, <1>23, <1>24
     DEF Next, UiStep, OpStep, EndStep

-----------------------------------------------------------------------------
(* What the screens show                                                   *)

\* Rows are made while the downloads screen has the events, and it has none
\* when it gets them; an active row is the install that has not told its result.
RowsOK ==
  phase = "running" =>
    /\ subscriber = "downloads" =>
         /\ \A a \in Apps : rows[a] = "active" =>
              Busy /\ Installing /\ job.app = a /\ said = "started"
         /\ Busy => \A a \in cancelOn : job.app = a
    /\ ui = "subscribing" /\ current = "downloads" /\ subscriber # "downloads" =>
         rows = NoRows /\ cancelOn = {}

\* The screen s has read its state.
Read(s) == phase = "running" /\ current = s /\ ui # "entering"

\* The detail screen knows of every result that has gone out about its
\* application, but for one it missed, and ...
ShownOK ==
  Read("detail") /\ ~OwnPending /\ ~missed => detail.shown = records[detail.app]

\* ... takes itself for working while its own operation has not told its
\* result, or its callback has not acted on that; it lets in what is its own.
WorkingOK ==
  Read("detail") =>
    /\ ~borrowed /\ inCallback \in {"started", "progress"} => job.app = detail.app
    /\ ~borrowed /\ detail.active =>
         Busy /\ job.app = detail.app /\ (said = "started" \/ inCallback # "none")
    /\ ui = "subscribing" /\ subscriber # "detail" => ~detail.active

\* The installed screen knows of every uninstall that has told its result.
ListOK ==
  Read("installed") /\ ~missed /\ ~(Busy /\ ~Installing /\ said # "result") =>
    \A a \in list.items : IsInstalled(a)

\* An event of the operation changes the row of its application only.
LEMMA RowsTold ==
  ASSUME FrameOK, JobOK, SubscriberOK, RowsOK, Busy, NEW e \in Events, Emit(e),
         said' = IF e = "progress" THEN said ELSE e,
         e = "progress" => said = "started"
  PROVE  RowsOK'
<1> USE DEF FrameOK, Busy, Installing, opsVars, uiVars, screenVars
<1>0. UNCHANGED <<opsVars, uiVars, subscriber>>
  BY DEF Emit
<1>1. CASE phase # "running"
  BY <1>0, <1>1 DEF RowsOK
<1>2. CASE phase = "running" /\ subscriber # "downloads"
  BY <1>0, <1>2 DEF RowsOK, Emit, TellDetail, TellInstalled, TellDownloads, TellDead, TellNobody
<1>3. CASE phase = "running" /\ subscriber = "downloads"
  <2>1. TellDownloads(e)
    BY <1>3 DEF Emit, TellDetail, TellInstalled, TellDead, TellNobody
  <2>2. CASE ~Installing
    BY <1>0, <1>3, <2>1, <2>2 DEF TellDownloads, RowsOK
  <2>3. CASE Installing
    <3>1. TellRows(e) /\ job.app \in Apps
      BY <2>1, <2>3 DEF TellDownloads, JobOK, Job
    <3>2. \A a \in cancelOn' : job.app = a
      BY <1>3, <3>1 DEF RowsOK, TellRows
    <3>3. \A a \in Apps : rows'[a] = "active" => job.app = a /\ e # "result"
      BY <1>3, <3>1 DEF RowsOK, TellRows, Events
    <3>q. QED BY <1>0, <1>3, <2>3, <3>2, <3>3 DEF RowsOK, Events
  <2>q. QED BY <2>2, <2>3
<1>q. QED BY <1>1, <1>2, <1>3

\* Every step keeps what the rows say of the install.
LEMMA RowsKept ==
  ASSUME FrameOK, JobOK, SubscriberOK, RowsOK, [Next]_vars
  PROVE  RowsOK'
<1> USE DEF FrameOK, JobOK, SubscriberOK, RowsOK, Free, Busy, Installing, Listeners, uiVars,
            screenVars, threadVars, opsVars
<1>1. ASSUME NEW s \in ScreenIds, Choose(s) PROVE RowsOK'
  BY <1>1 DEF Choose, Navigate, Arrive
<1>2. ASSUME NEW a \in Apps, OpenCard(a) PROVE RowsOK'
  BY <1>2 DEF OpenCard, OpenApp, Navigate, Arrive
<1>3. ASSUME NEW a \in Apps, Select(a) PROVE RowsOK'
  BY <1>3 DEF Select
<1>4. CASE OpenSelected
  BY <1>4 DEF OpenSelected, OpenApp, Navigate, Arrive
<1>5. CASE GoBack
  BY <1>5 DEF GoBack, Arrive
<1>6. CASE EnterDetail
  BY <1>6 DEF EnterDetail, Entering
<1>7. CASE EnterInstalled
  BY <1>7 DEF EnterInstalled, Entering, Rebuild
<1>8. CASE EnterDownloads
  BY <1>8 DEF EnterDownloads, Entering, NoRows
<1>9. CASE Subscribe
  BY <1>9 DEF Subscribe, NoRows
<1>10. CASE ClickPrimary
  BY <1>10 DEF ClickPrimary, AcceptInstall, Accept, Accepted, NoJob
<1>11. CASE ClickSecondary
  BY <1>11 DEF ClickSecondary, AcceptUninstall, Accept, Accepted
<1>12. CASE ClickUninstall
  BY <1>12 DEF ClickUninstall, AcceptUninstall, Accept, Accepted
<1>13. CASE Frame
  BY <1>13 DEF Frame
<1>14. CASE EmitStarted
  BY <1>14, RowsTold DEF EmitStarted, Events
<1>15. CASE EmitProgress
  BY <1>15, RowsTold DEF EmitProgress, Events
<1>16. CASE EmitResult
  BY <1>16, RowsTold DEF EmitResult, Events
<1>17. CASE ActOnEvent
  BY <1>17 DEF ActOnEvent
<1>18. CASE Work
  BY <1>18 DEF Work, Perform, Fail
<1>19. CASE Release
  BY <1>19 DEF Release, Finish
<1>20. CASE Refresh
  BY <1>20 DEF Refresh, Publish
<1>21. CASE Quit
  BY <1>21 DEF Quit
<1>22. CASE CallKills
  BY <1>22 DEF CallKills
<1>23. CASE DestroyManager
  BY <1>23 DEF DestroyManager
<1>24. CASE UNCHANGED vars
  BY <1>24 DEF vars
<1>q. QED BY <1>1, <1>2, <1>3, <1>4, <1>5, <1>6, <1>7, <1>8, <1>9, <1>10, <1>11, <1>12, <1>13,
          <1>14, <1>15, <1>16, <1>17, <1>18, <1>19, <1>20, <1>21, <1>22, <1>23, <1>24
     DEF Next, UiStep, OpStep, EndStep

\* Every step keeps what the detail screen shows.
LEMMA ShownKept ==
  ASSUME FrameOK, NamedOK, JobOK, SubscriberOK, ShownOK, [Next]_vars
  PROVE  ShownOK'
<1> USE DEF FrameOK, JobOK, SubscriberOK, ShownOK, OwnPending, Read, Free, Busy, Installing,
            Listeners, uiVars, screenVars, threadVars, opsVars, traces
<1>1. ASSUME NEW s \in ScreenIds, Choose(s) PROVE ShownOK'
  BY <1>1 DEF Choose, Navigate, Arrive
<1>2. ASSUME NEW a \in Apps, OpenCard(a) PROVE ShownOK'
  BY <1>2 DEF OpenCard, OpenApp, Navigate, Arrive, Free, FrameOK
<1>3. ASSUME NEW a \in Apps, Select(a) PROVE ShownOK'
  BY <1>3 DEF Select
<1>4. CASE OpenSelected
  BY <1>4 DEF OpenSelected, OpenApp, Navigate, Arrive
<1>5. CASE GoBack
  BY <1>5 DEF GoBack, Arrive
<1>6. CASE EnterDetail
  BY <1>6 DEF EnterDetail, Entering, DetailStates
<1>7. CASE EnterInstalled
  BY <1>7 DEF EnterInstalled, Entering, Rebuild
<1>8. CASE EnterDownloads
  BY <1>8 DEF EnterDownloads, Entering
<1>9. CASE Subscribe
  BY <1>9 DEF Subscribe
<1>10. CASE ClickPrimary
  BY <1>10 DEF ClickPrimary, AcceptInstall, Accept, Accepted, NoJob
<1>11. CASE ClickSecondary
  BY <1>11 DEF ClickSecondary, AcceptUninstall, Accept, Accepted
<1>12. CASE ClickUninstall
  BY <1>12 DEF ClickUninstall, AcceptUninstall, Accept, Accepted
<1>13. CASE Frame
  BY <1>13 DEF Frame, DetailStates
<1>14. CASE EmitStarted
  BY <1>14 DEF EmitStarted, Emit, TellDetail, TellInstalled, TellDownloads, TellDead,
       TellNobody, Events
<1>15. CASE EmitProgress
  BY <1>15 DEF EmitProgress, Emit, TellDetail, TellInstalled, TellDownloads, TellDead,
       TellNobody, Events
<1>16. CASE EmitResult
  BY <1>16 DEF EmitResult, Emit, TellDetail, TellInstalled, TellDownloads, TellDead,
       TellNobody, Misses, Events
<1>17. CASE ActOnEvent
  BY <1>17 DEF ActOnEvent, DetailStates, Events
<1>18. CASE Work
  <2>1. UNCHANGED <<uiVars, detail, said, inCallback, missed, job>> /\ said = "started"
    BY <1>18 DEF Work, Perform, Fail
  <2>2. Busy /\ Busy'
    BY <1>18 DEF Work, Perform, Fail
  <2>3. CASE job.app = detail.app
    BY <2>1, <2>2, <2>3
  <2>4. CASE job.app # detail.app
    <3>1. current = "detail" /\ phase = "running" => records'[detail.app] = records[detail.app]
      BY <1>18, <2>4 DEF Work, Perform, Fail, NamedOK, OpsTypeOK
    <3>q. QED BY <2>1, <2>2, <2>4, <3>1
  <2>q. QED BY <2>3, <2>4
<1>19. CASE Release
  BY <1>19 DEF Release, Finish
<1>20. CASE Refresh
  BY <1>20 DEF Refresh, Publish
<1>21. CASE Quit
  BY <1>21 DEF Quit
<1>22. CASE CallKills
  BY <1>22 DEF CallKills
<1>23. CASE DestroyManager
  BY <1>23 DEF DestroyManager
<1>24. CASE UNCHANGED vars
  BY <1>24 DEF vars
<1>q. QED BY <1>1, <1>2, <1>3, <1>4, <1>5, <1>6, <1>7, <1>8, <1>9, <1>10, <1>11, <1>12, <1>13,
          <1>14, <1>15, <1>16, <1>17, <1>18, <1>19, <1>20, <1>21, <1>22, <1>23, <1>24
     DEF Next, UiStep, OpStep, EndStep

\* Every step keeps what its working flag says.
LEMMA WorkingKept ==
  ASSUME FrameOK, NamedOK, JobOK, SubscriberOK, WorkingOK, [Next]_vars
  PROVE  WorkingOK'
<1> USE DEF FrameOK, JobOK, SubscriberOK, WorkingOK, Read, Free, Busy, Installing,
            Listeners, uiVars, screenVars, threadVars, opsVars, traces
<1>1. ASSUME NEW s \in ScreenIds, Choose(s) PROVE WorkingOK'
  BY <1>1 DEF Choose, Navigate, Arrive
<1>2. ASSUME NEW a \in Apps, OpenCard(a) PROVE WorkingOK'
  BY <1>2 DEF OpenCard, OpenApp, Navigate, Arrive, Free, FrameOK
<1>3. ASSUME NEW a \in Apps, Select(a) PROVE WorkingOK'
  BY <1>3 DEF Select
<1>4. CASE OpenSelected
  BY <1>4 DEF OpenSelected, OpenApp, Navigate, Arrive
<1>5. CASE GoBack
  BY <1>5 DEF GoBack, Arrive
<1>6. CASE EnterDetail
  BY <1>6 DEF EnterDetail, Entering, DetailStates
<1>7. CASE EnterInstalled
  BY <1>7 DEF EnterInstalled, Entering, Rebuild
<1>8. CASE EnterDownloads
  BY <1>8 DEF EnterDownloads, Entering
<1>9. CASE Subscribe
  BY <1>9 DEF Subscribe
<1>10. CASE ClickPrimary
  BY <1>10 DEF ClickPrimary, AcceptInstall, Accept, Accepted, NoJob
<1>11. CASE ClickSecondary
  BY <1>11 DEF ClickSecondary, AcceptUninstall, Accept, Accepted
<1>12. CASE ClickUninstall
  BY <1>12 DEF ClickUninstall, AcceptUninstall, Accept, Accepted
<1>13. CASE Frame
  BY <1>13 DEF Frame, DetailStates
<1>14. CASE EmitStarted
  BY <1>14 DEF EmitStarted, Emit, TellDetail, TellInstalled, TellDownloads, TellDead,
       TellNobody, Events
<1>15. CASE EmitProgress
  BY <1>15 DEF EmitProgress, Emit, TellDetail, TellInstalled, TellDownloads, TellDead,
       TellNobody, Events
<1>16. CASE EmitResult
  BY <1>16 DEF EmitResult, Emit, TellDetail, TellInstalled, TellDownloads, TellDead,
       TellNobody, Misses, Events
<1>17. CASE ActOnEvent
  BY <1>17 DEF ActOnEvent, DetailStates, Events
<1>18. CASE Work
  BY <1>18 DEF Work, Perform, Fail
<1>19. CASE Release
  BY <1>19 DEF Release, Finish
<1>20. CASE Refresh
  BY <1>20 DEF Refresh, Publish
<1>21. CASE Quit
  BY <1>21 DEF Quit
<1>22. CASE CallKills
  BY <1>22 DEF CallKills
<1>23. CASE DestroyManager
  BY <1>23 DEF DestroyManager
<1>24. CASE UNCHANGED vars
  BY <1>24 DEF vars
<1>q. QED BY <1>1, <1>2, <1>3, <1>4, <1>5, <1>6, <1>7, <1>8, <1>9, <1>10, <1>11, <1>12, <1>13,
          <1>14, <1>15, <1>16, <1>17, <1>18, <1>19, <1>20, <1>21, <1>22, <1>23, <1>24
     DEF Next, UiStep, OpStep, EndStep

\* Every step keeps what the installed screen knows.
LEMMA ListKept ==
  ASSUME FrameOK, JobOK, SubscriberOK, ListOK, [Next]_vars
  PROVE  ListOK'
<1> USE DEF FrameOK, JobOK, SubscriberOK, ListOK, Read, Free, Busy, Installing, Listeners,
            uiVars, screenVars, threadVars, opsVars, traces, IsInstalled
<1>1. ASSUME NEW s \in ScreenIds, Choose(s) PROVE ListOK'
  BY <1>1 DEF Choose, Navigate, Arrive
<1>2. ASSUME NEW a \in Apps, OpenCard(a) PROVE ListOK'
  BY <1>2 DEF OpenCard, OpenApp, Navigate, Arrive
<1>3. ASSUME NEW a \in Apps, Select(a) PROVE ListOK'
  BY <1>3 DEF Select, ListStates
<1>4. CASE OpenSelected
  BY <1>4 DEF OpenSelected, OpenApp, Navigate, Arrive
<1>5. CASE GoBack
  BY <1>5 DEF GoBack, Arrive
<1>6. CASE EnterDetail
  BY <1>6 DEF EnterDetail, Entering
<1>7. CASE EnterInstalled
  BY <1>7 DEF EnterInstalled, Entering, Rebuild, ListStates
<1>8. CASE EnterDownloads
  BY <1>8 DEF EnterDownloads, Entering
<1>9. CASE Subscribe
  BY <1>9 DEF Subscribe
<1>10. CASE ClickPrimary
  BY <1>10 DEF ClickPrimary, AcceptInstall, Accept, Accepted, NoJob
<1>11. CASE ClickSecondary
  BY <1>11 DEF ClickSecondary, AcceptUninstall, Accept, Accepted
<1>12. CASE ClickUninstall
  BY <1>12 DEF ClickUninstall, AcceptUninstall, Accept, Accepted
<1>13. CASE Frame
  BY <1>13 DEF Frame, ListStates
<1>14. CASE EmitStarted
  BY <1>14 DEF EmitStarted, Emit, TellDetail, TellInstalled, TellDownloads, TellDead,
       TellNobody, Rebuild, ListStates
<1>15. CASE EmitProgress
  BY <1>15 DEF EmitProgress, Emit, TellDetail, TellInstalled, TellDownloads, TellDead,
       TellNobody, Rebuild, ListStates
<1>16. CASE EmitResult
  <2>1. said' = "result" /\ UNCHANGED <<opsVars, uiVars, subscriber>> /\ missed' = (missed \/ Misses)
    BY <1>16 DEF EmitResult, Emit
  <2>2. CASE phase = "running" /\ current = "installed" /\ subscriber = "installed" /\ ~Installing
    <3>1. Rebuild
      BY <1>16, <2>2 DEF EmitResult, Emit, TellDetail, TellInstalled, TellDownloads, TellDead,
                         TellNobody
    <3>2. \A a \in list'.items : IsInstalled(a)
      BY <3>1 DEF Rebuild, ListStates
    <3>q. QED BY <2>1, <2>2, <3>2
  <2>3. CASE phase = "running" /\ current = "installed" /\ subscriber # "installed" /\ ~Installing
    BY <2>1, <2>3 DEF Misses
  <2>4. CASE phase = "running" /\ current = "installed" /\ Installing
    <3>1. list' = list
      BY <1>16, <2>4 DEF EmitResult, Emit, TellDetail, TellInstalled, TellDownloads, TellDead,
                         TellNobody
    <3>q. QED BY <2>1, <2>4, <3>1
  <2>q. QED BY <2>1, <2>2, <2>3, <2>4
<1>17. CASE ActOnEvent
  BY <1>17 DEF ActOnEvent
<1>18. CASE Work
  <2>1. /\ UNCHANGED <<uiVars, list, said, missed, job>> /\ said = "started"
        /\ Busy /\ Busy' /\ job \in Job /\ list.items \subseteq Apps
    BY <1>18 DEF Work, Perform, Fail, ListStates
  <2>2. CASE Installing
    <3>1. job.version # None
      BY <2>1, <2>2, NoneIsNeither DEF Job
    <3>2. \A a \in Apps : records[a] # None => records'[a] # None
      BY <1>18, <3>1 DEF Work, Perform, Fail, OpsTypeOK
    <3>q. QED BY <2>1, <2>2, <3>2
  <2>3. CASE ~Installing
    BY <2>1, <2>3
  <2>q. QED BY <2>2, <2>3
<1>19. CASE Release
  BY <1>19 DEF Release, Finish
<1>20. CASE Refresh
  BY <1>20 DEF Refresh, Publish
<1>21. CASE Quit
  BY <1>21 DEF Quit
<1>22. CASE CallKills
  BY <1>22 DEF CallKills
<1>23. CASE DestroyManager
  BY <1>23 DEF DestroyManager
<1>24. CASE UNCHANGED vars
  BY <1>24 DEF vars
<1>q. QED BY <1>1, <1>2, <1>3, <1>4, <1>5, <1>6, <1>7, <1>8, <1>9, <1>10, <1>11, <1>12, <1>13,
          <1>14, <1>15, <1>16, <1>17, <1>18, <1>19, <1>20, <1>21, <1>22, <1>23, <1>24
     DEF Next, UiStep, OpStep, EndStep

-----------------------------------------------------------------------------
(* The invariant and what it implies                                       *)

IInv == /\ FrameOK /\ TrailOK /\ NamedOK /\ JobOK /\ SubscriberOK
        /\ RowsOK /\ ShownOK /\ WorkingOK /\ ListOK

\* The invariant holds at the start, ...
LEMMA InitIInv == Init => IInv
<1> SUFFICES ASSUME Init PROVE IInv
  OBVIOUS
<1> USE DEF Init
<1>1. OpsTypeOK /\ ~Busy /\ job = NoJob
  BY NothingTyped DEF OpsInit, OpsTypeOK, Stages, Busy
<1>2. current \in ScreenIds /\ current \notin Listeners
  BY ScreensDiffer DEF ScreenIds
<1>3. /\ detail \in DetailStates /\ list \in ListStates
      /\ rows \in [Apps -> {"none", "active", "over"}]
  BY DEF NewDetail, NewList, NoRows, DetailStates, ListStates, VersionOrNone
<1>4. FrameOK
  BY <1>1, <1>2, <1>3 DEF FrameOK
<1>5. TrailOK /\ NamedOK /\ JobOK /\ SubscriberOK
  BY <1>1, <1>2, HistoryLimitIsPositive DEF TrailOK, NamedOK, JobOK, SubscriberOK, Listeners
<1>6. RowsOK /\ ShownOK /\ WorkingOK /\ ListOK
  BY <1>1, <1>2 DEF RowsOK, ShownOK, WorkingOK, ListOK, Read, Listeners
<1>q. QED BY <1>4, <1>5, <1>6 DEF IInv

\* ... every step keeps it, ...
LEMMA StepIInv == IInv /\ [Next]_vars => IInv'
<1> SUFFICES ASSUME IInv, [Next]_vars PROVE IInv'
  OBVIOUS
<1>1. FrameOK'
  BY FrameKept DEF IInv
<1>2. TrailOK' /\ NamedOK'
  BY TrailKept DEF IInv
<1>3. JobOK' /\ SubscriberOK'
  BY ThreadsKept DEF IInv
<1>4. RowsOK' /\ ShownOK' /\ WorkingOK' /\ ListOK'
  BY RowsKept, ShownKept, WorkingKept, ListKept DEF IInv
<1>q. QED BY <1>1, <1>2, <1>3, <1>4 DEF IInv

\* The invariant holds in every state the screens reach.
THEOREM ScreensInvariant == Spec => []IInv
BY InitIInv, StepIInv, PTL DEF Spec

\* ... and it implies the properties the runs check.
LEMMA IInvImplies ==
  IInv => TypeOK /\ ActiveRowIsRunning /\ CancelHitsItsRow /\ BackChangesScreen
            /\ DetailIsCurrent /\ DetailWorksForItself /\ NoGhostEntry
<1> SUFFICES ASSUME IInv
             PROVE  TypeOK /\ ActiveRowIsRunning /\ CancelHitsItsRow /\ BackChangesScreen
                      /\ DetailIsCurrent /\ DetailWorksForItself /\ NoGhostEntry
  OBVIOUS
<1>1. TypeOK
  BY DEF IInv, FrameOK, TrailOK, TypeOK, DetailStates, ListStates
<1>2. ActiveRowIsRunning /\ CancelHitsItsRow
  BY DEF IInv, SubscriberOK, RowsOK, ActiveRowIsRunning, CancelHitsItsRow, Free, Listeners
<1>3. BackChangesScreen
  <2> DEFINE trail == Append(history, current)
  <2>1. history \in Seq(ScreenIds) /\ current \in ScreenIds
    BY DEF IInv, TrailOK, FrameOK
  <2>2. trail[Len(history) + 1] = current /\ \A i \in 1..Len(history) : trail[i] = history[i]
    BY <2>1
  <2>3. ASSUME NEW i \in 1..Len(history) PROVE trail[i] # trail[i + 1]
    <3>1. CASE i = Len(history)
      BY <2>1, <2>2, <3>1 DEF IInv, TrailOK
    <3>2. CASE i # Len(history)
      BY <2>1, <2>2, <3>2 DEF IInv, TrailOK
    <3>q. QED BY <3>1, <3>2
  <2>q. QED BY <2>3 DEF BackChangesScreen
<1>4. DetailIsCurrent /\ DetailWorksForItself /\ NoGhostEntry
  BY DEF IInv, ShownOK, WorkingOK, ListOK, Read, DetailIsCurrent, DetailWorksForItself, NoGhostEntry,
         Free
<1>q. QED BY <1>1, <1>2, <1>3, <1>4

\* Every variable has its type, and the history its limit (UIManager::navigate).
THEOREM ScreensTypeCorrect == Spec => []TypeOK
BY ScreensInvariant, IInvImplies, PTL

\* The downloads screen shows no install as running that is over, and its
\* buttons cancel no other application (DownloadsScreen::on_enter, AppManager::cancel).
THEOREM RowsFollowTheInstall == Spec => [](ActiveRowIsRunning /\ CancelHitsItsRow)
BY ScreensInvariant, IInvImplies, PTL

\* Going back never shows the same screen again (UIManager::navigate, go_back).
THEOREM BackAlwaysChangesScreen == Spec => []BackChangesScreen
BY ScreensInvariant, IInvImplies, PTL

\* The detail and the installed screen agree with the database, also while
\* operations on other applications run, but for an operation of their own that
\* has not told its result, or told it between their reading and their
\* subscription (AppDetailScreen::on_enter, InstalledScreen::on_enter and their
\* callbacks).
THEOREM ScreensShowTheRecords == Spec => [](DetailIsCurrent /\ NoGhostEntry)
BY ScreensInvariant, IInvImplies, PTL

\* No event of another application makes the detail screen hold its buttons
\* back, but for one already let into its callback when the screen was entered
\* (AppDetailScreen's callback, which compares first and acts later).
THEOREM DetailIsNotMisled == Spec => []DetailWorksForItself
BY ScreensInvariant, IInvImplies, PTL
=============================================================================
