----------------------------- MODULE Catalogue -----------------------------
(***************************************************************************)
(* The catalogue: the refresh thread of Application::run against the       *)
(* screens that list applications (HomeScreen, CatalogScreen), which read  *)
(* through AppManager on the UI thread and open what they list.            *)
(*                                                                         *)
(* Whether an application is installed, which AppManager writes into each  *)
(* answer, is the matter of Screens and is left out here.                  *)
(***************************************************************************)
EXTENDS Repositories, FiniteSets

CONSTANTS All,                \* no category
          Queries,            \* what a text in the search box matches: sets of ids
          FeaturedLimit       \* applications on the home screen

ASSUME AllIsNoCategory == All \notin Categories
ASSUME QueriesMatchApps == Queries \subseteq SUBSET Apps
ASSUME FeaturedLimitIsNat == FeaturedLimit \in Nat

VARIABLES phase,              \* of the process
          screen,             \* the current screen: "home", "catalog" or another
          purpose,            \* what the running read of the UI thread is for
          featured,           \* HomeScreen: ids shown
          all, filtered,      \* CatalogScreen: m_all_apps, m_filtered
          query, category,    \* m_search_query, m_active_category
          cards, dirty        \* m_cards (their ids), m_dirty

\* History, read by properties only: the repositories whose refresh was tried,
\* and whether all were when the catalogue was entered.
VARIABLES asked, enteredLate

listVars == <<featured, all, filtered, query, category, cards, dirty>>
uiVars == <<screen, purpose, listVars, enteredLate>>
vars == <<repoVars, reader, phase, uiVars, asked>>

NoQuery == [typed |-> FALSE, matches |-> {}]
Typed(q) == [typed |-> TRUE, matches |-> q]

Ids(offers) == {o.id : o \in offers}

\* UIManager::init has entered the home screen, and no repository is loaded yet.
Init == /\ ReposInit
        /\ phase = "running"
        /\ screen = "home" /\ purpose = "none"
        /\ featured = {}
        /\ all = {} /\ filtered = {}
        /\ query = NoQuery /\ category = All
        /\ cards = {} /\ dirty = TRUE
        /\ asked = {} /\ enteredLate = FALSE

TypeOK == /\ ReposTypeOK
          /\ phase \in {"running", "ended"}
          /\ screen \in {"home", "catalog", "other"}
          /\ purpose \in {"none", "featured", "catalog", "search", "category"}
          /\ featured \subseteq Apps
          /\ all \subseteq Offers /\ filtered \subseteq Offers
          /\ query \in [typed : BOOLEAN, matches : SUBSET Apps]
          /\ category \in Categories \cup {All}
          /\ cards \subseteq Apps
          /\ dirty \in BOOLEAN
          /\ asked \subseteq Repos
          /\ enteredLate \in BOOLEAN

-----------------------------------------------------------------------------
(* The refresh thread                                                      *)

\* One repository is asked.  What the parser throws nobody catches: the process
\* ends.
Fetch == /\ phase = "running" /\ turn \in Repos /\ ~storing
         /\ asked' = asked \cup {turn}
         /\ \/ Refused /\ UNCHANGED phase
            \/ \E t \in Indexes :
                  \/ Verdict(t) = "fails" /\ Refused /\ UNCHANGED phase
                  \/ Verdict(t) = "parsed" /\ StoreBegins(t) /\ UNCHANGED phase
                  \/ Verdict(t) = "throws" /\ phase' = "ended" /\ UNCHANGED repoVars
         /\ UNCHANGED <<reader, uiVars>>

Store == /\ phase = "running"
         /\ StoreEnds
         /\ UNCHANGED <<reader, phase, uiVars, asked>>

RefreshStep == Fetch \/ Store

-----------------------------------------------------------------------------
(* Entering and filtering                                                  *)

\* The UI thread is between two inputs.
Free == phase = "running" /\ ~reader.active

Read(for) == purpose' = for /\ BeginRead
NoRead == purpose' = "none" /\ UNCHANGED reader

EnterHome == /\ Free
             /\ screen' = "home"
             /\ Read("featured")
             /\ UNCHANGED <<repoVars, phase, listVars, enteredLate, asked>>

\* on_enter forgets the category and keeps the search text.
EnterCatalog == /\ Free
                /\ screen' = "catalog"
                /\ category' = All
                /\ enteredLate' = IsRefreshed
                /\ Read("catalog")
                /\ UNCHANGED <<repoVars, phase, featured, all, filtered, query, cards, dirty, asked>>

EnterOther == /\ Free
              /\ screen' = "other"
              /\ UNCHANGED <<repoVars, reader, phase, purpose, listVars, enteredLate, asked>>

\* Faulty variant: a text is looked for among what the screen lists.
ApplyFilterNarrowing(q, c) ==
    /\ query' = q /\ category' = c
    /\ IF q.typed THEN NoRead /\ filtered' = {o \in filtered : o.id \in q.matches} /\ dirty' = TRUE
       ELSE IF c # All THEN Read("category") /\ UNCHANGED <<filtered, dirty>>
       ELSE NoRead /\ filtered' = all /\ dirty' = TRUE

\* apply_filter asks the repositories for a text or a category; without either
\* it takes what was read on entering.
ApplyFilter(q, c) ==
    /\ query' = q /\ category' = c
    /\ IF q.typed THEN Read("search") /\ UNCHANGED <<filtered, dirty>>
       ELSE IF c # All THEN Read("category") /\ UNCHANGED <<filtered, dirty>>
       ELSE NoRead /\ filtered' = all /\ dirty' = TRUE

Refine(q, c) == /\ Free /\ screen = "catalog"
                /\ ApplyFilter(q, c)
                /\ UNCHANGED <<repoVars, phase, screen, featured, all, cards, enteredLate, asked>>

\* Typing, or Backspace.
Type(q) == Refine(Typed(q), category)
ClearQuery == query.typed /\ Refine(NoQuery, category)

\* A pill: those of the categories found on entering.
Pick(c) == /\ c = All \/ \E o \in all : o.category = c
           /\ Refine(NoQuery, c)

Matching(offers) == {o \in offers : o.id \in query.matches}
OfCategory(offers) == {o \in offers : o.category = category}

\* all_apps returns to whoever asked.
Shown(offers) == /\ filtered' = offers /\ dirty' = TRUE
                 /\ purpose' = "none" /\ ReadEnds
                 /\ UNCHANGED featured

\* The first few of what was read, by name: here any few.
TakeFeatured == /\ purpose = "featured"
                /\ \E some \in SUBSET Ids(reader.got) :
                      /\ Cardinality(some) <= FeaturedLimit
                      /\ some = {} => reader.got = {} \/ FeaturedLimit = 0
                      /\ featured' = some
                /\ purpose' = "none" /\ ReadEnds
                /\ UNCHANGED <<all, filtered, dirty>>

\* on_enter goes on with apply_filter, which reads once more for a search text.
TakeCatalog == /\ purpose = "catalog"
               /\ all' = reader.got
               /\ IF query.typed
                  THEN Read("search") /\ UNCHANGED <<featured, filtered, dirty>>
                  ELSE Shown(reader.got)

TakeSearch == purpose = "search" /\ Shown(Matching(reader.got)) /\ UNCHANGED all

TakeCategory == purpose = "category" /\ Shown(OfCategory(reader.got)) /\ UNCHANGED all

Take == /\ phase = "running" /\ reader.active /\ reader.at > Count
        /\ TakeFeatured \/ TakeCatalog \/ TakeSearch \/ TakeCategory
        /\ UNCHANGED <<repoVars, phase, screen, query, category, cards, enteredLate, asked>>

ReadStep == /\ phase = "running"
            /\ Look \/ Copy
            /\ UNCHANGED <<repoVars, phase, uiVars, asked>>

-----------------------------------------------------------------------------
(* Cards                                                                   *)

\* update of the catalogue, once per frame, or its render
Frame == /\ Free /\ screen = "catalog" /\ dirty
         /\ cards' = Ids(filtered)
         /\ dirty' = FALSE
         /\ UNCHANGED <<repoVars, reader, phase, screen, purpose, featured, all, filtered, query,
                        category, enteredLate, asked>>

\* A click on a card: the detail screen asks for the application by its id.
Open(id) == /\ Free
            /\ \/ screen = "catalog" /\ id \in cards
               \/ screen = "home" /\ id \in featured
            /\ ~FindWaits(id)
            /\ screen' = "other"
            /\ UNCHANGED <<repoVars, reader, phase, purpose, listVars, enteredLate, asked>>

Quit == /\ Free
        /\ phase' = "ended"
        /\ UNCHANGED <<repoVars, reader, uiVars, asked>>

UiStep == \/ EnterHome \/ EnterCatalog \/ EnterOther
          \/ \E q \in Queries : Type(q)
          \/ ClearQuery
          \/ \E c \in Categories \cup {All} : Pick(c)
          \/ ReadStep \/ Take \/ Frame
          \/ \E id \in Apps : Open(id)

Next == RefreshStep \/ UiStep \/ Quit

Spec == Init /\ [][Next]_vars

\* The refresh thread is not starved: a request has a time limit, a parse an
\* end, and nobody keeps the mutex of a repository.
FairSpec == Spec /\ WF_vars(RefreshStep)

-----------------------------------------------------------------------------
(* Properties                                                              *)

\* The list of a repository is not copied while the refresh thread replaces it,
\* though the copy takes no mutex.
NoTornRead == reader.copying => ~IsStoring(reader.at)

\* A card leads somewhere: find_app knows every application the screens list,
\* though they keep their lists while repositories are refreshed.
OpenFinds == \A id \in cards \cup featured \cup Ids(filtered) : Finds(id)

\* What the search box and the pills ask for, of every repository that answered.
Wanted == IF query.typed THEN Matching(Listing)
          ELSE IF category = All THEN Listing
          ELSE OfCategory(Listing)

\* The catalogue, when it was entered after the refresh, shows all that was
\* asked for and nothing else, in whatever order text and pills were used; so
\* do the cards once a frame has passed.
ShowsWhatWasAsked ==
    Free /\ screen = "catalog" /\ enteredLate =>
        filtered = Wanted /\ (~dirty => cards = Ids(Wanted))

\* A repository that fails does not keep the others from being asked; only the
\* end of the process does.
EveryRepositoryIsAsked == \A r \in Repos : phase = "running" ~> (r \in asked \/ phase = "ended")
=============================================================================
