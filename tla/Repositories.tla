---------------------------- MODULE Repositories ----------------------------
(***************************************************************************)
(* RepositoryManager and its Repository objects (src/repository), the      *)
(* thread that refreshes them once and the reader that lists them.         *)
(*                                                                         *)
(* A repository guards its list with a mutex of its own, except that apps  *)
(* returns a reference: the reader asks is_loaded under the mutex and then *)
(* copies without it.  The list of repositories does not change after      *)
(* configure.                                                              *)
(***************************************************************************)
EXTENDS MetadataParser, Naturals

CONSTANTS Count,              \* repositories that were registered
          Indexes             \* texts a repository may answer with

ASSUME CountIsNat == Count \in Nat
ASSUME IndexesAreTexts == Indexes \subseteq IndexTexts

Repos == 1..Count             \* in the order of the settings

VARIABLES repos,              \* m_loaded and m_apps of each repository
          turn,               \* the repository refresh_all is at
          fetched,            \* what load_from_json has parsed
          storing,            \* it holds the mutex and replaces the list
          reader              \* the frame of all_apps on the UI thread

Places == 1..(Count + 1)
Readers == [active : BOOLEAN, at : Places, copying : BOOLEAN, got : SUBSET Offers]

repoVars == <<repos, turn, fetched, storing>>

NewRepo == [loaded |-> FALSE, offers |-> {}]
NotReading == [active |-> FALSE, at |-> 1, copying |-> FALSE, got |-> {}]

ReposInit == /\ repos = [r \in Repos |-> NewRepo]
             /\ turn = 1
             /\ fetched = {}
             /\ storing = FALSE
             /\ reader = NotReading

ReposTypeOK == /\ repos \in [Repos -> [loaded : BOOLEAN, offers : SUBSET Offers]]
               /\ turn \in Places
               /\ fetched \subseteq Offers
               /\ storing \in BOOLEAN
               /\ reader \in Readers

IsStoring(r) == storing /\ turn = r

-----------------------------------------------------------------------------
(* The refresh thread                                                      *)

\* Faulty variants: a failure skips the next repository too; it ends the refresh.
RefusedTwice == /\ turn' = turn + 2
                /\ UNCHANGED <<repos, fetched, storing>>
RefusedForAll == /\ turn' = Count + 1
                 /\ UNCHANGED <<repos, fetched, storing>>

\* Repository::refresh and load_from_json up to the mutex: no answer (no
\* network, an error status, no such file) or one that does not parse ends the
\* refresh of this repository, and refresh_all goes on with the next.
Refused == /\ turn' = turn + 1
           /\ UNCHANGED <<repos, fetched, storing>>

StoreBegins(t) == /\ fetched' = ParsedOffers(t)
                  /\ storing' = TRUE
                  /\ UNCHANGED <<repos, turn>>

\* The list is replaced, the mutex released, refresh_all goes on.
StoreEnds == /\ storing
             /\ repos' = [repos EXCEPT ![turn] = [loaded |-> TRUE, offers |-> fetched]]
             /\ turn' = turn + 1
             /\ storing' = FALSE
             /\ fetched' = {}

IsRefreshed == turn > Count

-----------------------------------------------------------------------------
(* The reader                                                              *)

\* all_apps of what is stored, without a reader in the way
Listing == UNION {repos[r].offers : r \in {q \in Repos : repos[q].loaded}}

BeginRead == reader' = [NotReading EXCEPT !.active = TRUE]

\* Faulty variant: apps is copied without asking is_loaded.
LookAnyway == /\ reader.active /\ reader.at \in Repos /\ ~reader.copying
              /\ reader' = [reader EXCEPT !.copying = TRUE]

\* is_loaded waits for the mutex.
Look == /\ reader.active /\ reader.at \in Repos /\ ~reader.copying
        /\ ~IsStoring(reader.at)
        /\ reader' = IF repos[reader.at].loaded THEN [reader EXCEPT !.copying = TRUE]
                                                ELSE [reader EXCEPT !.at = @ + 1]

\* The copy of apps() takes no mutex.
Copy == /\ reader.active /\ reader.copying
        /\ reader' = [reader EXCEPT !.got = @ \cup repos[reader.at].offers,
                                    !.copying = FALSE, !.at = @ + 1]

ReadEnds == reader.active /\ reader.at > Count /\ reader' = NotReading

\* find_app, under the mutex of one repository after the other: the first that
\* has the id answers.
Has(r, id) == \E o \in repos[r].offers : o.id = id

\* Faulty variant: only the first repository is asked.
FindsInFirst(id) == Count > 0 /\ Has(1, id)

Finds(id) == \E r \in Repos : Has(r, id)
FindWaits(id) == \E r \in Repos : IsStoring(r) /\ \A q \in 1..(r - 1) : ~Has(q, id)
=============================================================================
