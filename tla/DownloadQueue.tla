--------------------------- MODULE DownloadQueue ---------------------------
(***************************************************************************)
(* What the download manager promises its users: the accepted downloads    *)
(* wait in the order they came in, one at a time is worked on, and each    *)
(* is answered once, with one of three results.  No id is twice among the  *)
(* downloads still to be answered.                                         *)
(***************************************************************************)
EXTENDS Naturals, SequencesExt

CONSTANTS Ids,                \* download ids
          Statuses,           \* the results a download may be answered with
          Withdrawn           \* the one of a download cancelled while waiting

VARIABLES waiting,            \* accepted and not begun, in order
          current,            \* the download worked on, at most one
          answers,            \* <<ticket, status>> of every answered download
          accepted            \* number of downloads accepted so far

queueVars == <<waiting, current, answers, accepted>>

\* A download is a record of its id and its ticket, the number of its acceptance.
Unanswered(d) == \A s \in Statuses : <<d.ticket, s>> \notin answers
Waiting == {waiting[i] : i \in DOMAIN waiting}

QueueInit == waiting = <<>> /\ current = {} /\ answers = {} /\ accepted = 0

\* A download is taken in unless one of the same id waits or is worked on.
Accept(id) ==
    /\ \A d \in Waiting \cup current : d.id # id
    /\ accepted' = accepted + 1
    /\ waiting' = Append(waiting, [id |-> id, ticket |-> accepted + 1])
    /\ UNCHANGED <<current, answers>>

\* A waiting download is answered as withdrawn; the others keep their order.
Withdraw(id) ==
    /\ \E i \in DOMAIN waiting :
          /\ waiting[i].id = id
          /\ waiting' = RemoveAt(waiting, i)
          /\ answers' = answers \cup {<<waiting[i].ticket, Withdrawn>>}
    /\ UNCHANGED <<current, accepted>>

\* All waiting downloads are.
WithdrawAll == /\ waiting' = <<>>
               /\ answers' = answers \cup {<<d.ticket, Withdrawn>> : d \in Waiting}
               /\ UNCHANGED <<current, accepted>>

\* The oldest waiting download is begun when nothing else is worked on, ...
Begin ==
    /\ waiting # <<>> /\ current = {}
    /\ current' = {Head(waiting)}
    /\ waiting' = Tail(waiting)
    /\ UNCHANGED <<answers, accepted>>

\* ... answered once, ...
Answer(s) ==
    \E d \in current :
       /\ Unanswered(d)
       /\ answers' = answers \cup {<<d.ticket, s>>}
       /\ UNCHANGED <<waiting, current, accepted>>

\* ... and put away when it was answered.
PutAway == /\ \A d \in current : ~Unanswered(d)
           /\ current # {} /\ current' = {}
           /\ UNCHANGED <<waiting, answers, accepted>>

QueueNext == \/ \E id \in Ids : Accept(id) \/ Withdraw(id)
             \/ WithdrawAll
             \/ \E s \in Statuses : Answer(s)
             \/ Begin \/ PutAway

QueueSpec == QueueInit /\ [][QueueNext]_queueVars
=============================================================================
