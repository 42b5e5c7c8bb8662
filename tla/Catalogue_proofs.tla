-------------------------- MODULE Catalogue_proofs --------------------------
(***************************************************************************)
(* Proofs about Catalogue, for every number of repositories, every set of  *)
(* applications, categories, search texts and answers.                     *)
(***************************************************************************)
EXTENDS Catalogue, TLAPS

-----------------------------------------------------------------------------
(* The inductive invariant                                                 *)

\* What is loaded lies behind the refresh thread, which never comes back.
BehindOK == /\ \A r \in Repos : repos[r].loaded => r < turn
            /\ storing => turn \in Repos

\* What is copied is loaded.
CopyOK == reader.copying => reader.active /\ reader.at \in Repos /\ repos[reader.at].loaded

\* What was read, listed or put on a card is still there.
ListedOK == /\ reader.got \subseteq Listing
            /\ all \subseteq Listing /\ filtered \subseteq Listing
            /\ featured \subseteq Ids(Listing) /\ cards \subseteq Ids(Listing)

IInv == TypeOK /\ BehindOK /\ CopyOK /\ ListedOK

-----------------------------------------------------------------------------
(* Lemmas about the data                                                   *)

\* The parser returns applications.
LEMMA ParsedTyped ==
  ASSUME NEW t \in Indexes
  PROVE  ParsedOffers(t) \subseteq Offers
BY IndexesAreTexts DEF IndexTexts, Entries, ParsedOffers, ParseApp, Offers

LEMMA ListingHas ==
  ASSUME NEW o
  PROVE  o \in Listing <=> \E r \in Repos : repos[r].loaded /\ o \in repos[r].offers
BY DEF Listing

LEMMA ListingHasNext ==
  ASSUME NEW o
  PROVE  o \in Listing' <=> \E r \in Repos : repos'[r].loaded /\ o \in repos'[r].offers
BY DEF Listing, Repos

LEMMA ListingTyped ==
  ASSUME ReposTypeOK
  PROVE  Listing \subseteq Offers
BY ListingHas DEF ReposTypeOK

LEMMA IdsTyped ==
  ASSUME NEW offers \in SUBSET Offers
  PROVE  Ids(offers) \subseteq Apps
BY DEF Ids, Offers

LEMMA IdsMonotone ==
  ASSUME NEW some, NEW more, some \subseteq more
  PROVE  Ids(some) \subseteq Ids(more)
BY DEF Ids

LEMMA IdsMonotoneNext ==
  ASSUME Listing \subseteq Listing'
  PROVE  Ids(Listing) \subseteq Ids(Listing)'
BY DEF Ids

LEMMA SameListing ==
  ASSUME UNCHANGED repos
  PROVE  Listing' = Listing
BY DEF Listing, Repos

-----------------------------------------------------------------------------
(* The reader and the refresh thread                                       *)

LEMMA NextPlace ==
  /\ 1 \in Places /\ Repos \subseteq Places
  /\ \A r \in Repos : r + 1 \in Places
  /\ \A r \in Places : r \in Repos \/ r > Count
BY CountIsNat DEF Places, Repos

LEMMA BeginReadTyped ==
  ASSUME ReposTypeOK, BeginRead
  PROVE  reader' \in Readers /\ ~reader'.copying /\ reader'.got = {}
BY NextPlace DEF BeginRead, NotReading, ReposTypeOK, Readers

LEMMA ReadEndsTyped ==
  ASSUME ReposTypeOK, ReadEnds
  PROVE  reader' \in Readers /\ ~reader'.copying /\ reader'.got = {}
BY NextPlace DEF ReadEnds, NotReading, ReposTypeOK, Readers

\* A step of the reader keeps to what is loaded.
LEMMA ReadStepInv ==
  ASSUME IInv, ReadStep
  PROVE  IInv'
<1>1. UNCHANGED <<repos, turn, fetched, storing>> /\ UNCHANGED <<phase, screen, purpose, featured,
          all, filtered, query, category, cards, dirty, enteredLate, asked>>
  BY DEF ReadStep, repoVars, uiVars, listVars
<1>2. Listing' = Listing
  BY <1>1, SameListing
<1>3. CASE Look
  <2>1. reader' \in Readers
    BY <1>3, NextPlace DEF Look, IInv, TypeOK, ReposTypeOK, Readers
  <2>2. reader'.got = reader.got
    BY <1>3 DEF Look, IInv, TypeOK, ReposTypeOK, Readers
  <2>3. CopyOK'
    BY <1>1, <1>3 DEF Look, IInv, TypeOK, ReposTypeOK, Readers, CopyOK, Repos
  <2>q. QED
    BY <1>1, <1>2, <2>1, <2>2, <2>3
       DEF IInv, TypeOK, ReposTypeOK, BehindOK, ListedOK, Repos, Ids
<1>4. CASE Copy
  <2>1. reader.at \in Repos /\ repos[reader.at].loaded
    BY <1>4 DEF Copy, IInv, CopyOK
  <2>2. repos[reader.at].offers \subseteq Listing
    BY <2>1, ListingHas
  <2>3. reader' \in Readers
    BY <1>4, <2>1, NextPlace DEF Copy, IInv, TypeOK, ReposTypeOK, Readers
  <2>4. reader'.got \subseteq Listing /\ ~reader'.copying
    BY <1>4, <2>2 DEF Copy, IInv, TypeOK, ReposTypeOK, Readers, ListedOK
  <2>q. QED
    BY <1>1, <1>2, <2>3, <2>4
       DEF IInv, TypeOK, ReposTypeOK, BehindOK, CopyOK, ListedOK, Repos, Ids
<1>q. QED BY <1>3, <1>4 DEF ReadStep

LEMMA FetchInv ==
  ASSUME IInv, Fetch
  PROVE  IInv'
<1>1. UNCHANGED <<repos, reader, screen, purpose, featured, all, filtered, query, category, cards,
                  dirty, enteredLate>>
  BY DEF Fetch, uiVars, listVars, repoVars, Refused, StoreBegins
<1>2. Listing' = Listing
  BY <1>1, SameListing
<1>3. asked' \subseteq Repos /\ phase' \in {"running", "ended"}
  BY DEF Fetch, IInv, TypeOK
<1>4. /\ turn' \in Places /\ turn' >= turn
      /\ fetched' \subseteq Offers
      /\ storing' \in BOOLEAN
      /\ storing' => turn' \in Repos
  <2>1. turn \in Repos /\ ~storing
    BY DEF Fetch
  <2>2. CASE Refused
    BY <2>1, <2>2, CountIsNat DEF Refused, IInv, TypeOK, ReposTypeOK, Repos, Places
  <2>3. ASSUME NEW t \in Indexes, StoreBegins(t)
        PROVE  <1>4!1 /\ <1>4!2 /\ <1>4!3 /\ <1>4!4
    BY <2>1, <2>3, ParsedTyped, CountIsNat DEF StoreBegins, IInv, TypeOK, ReposTypeOK, Repos, Places
  <2>4. CASE UNCHANGED repoVars
    BY <2>1, <2>4, CountIsNat DEF repoVars, IInv, TypeOK, ReposTypeOK, Repos, Places
  <2>q. QED BY <2>2, <2>3, <2>4 DEF Fetch
<1>5. BehindOK'
  BY <1>1, <1>4, CountIsNat DEF IInv, TypeOK, ReposTypeOK, BehindOK, Repos, Places
<1>q. QED
  BY <1>1, <1>2, <1>3, <1>4, <1>5 DEF IInv, TypeOK, ReposTypeOK, CopyOK, ListedOK, Repos, Ids

\* What is replaced was not loaded, so nothing is lost.
LEMMA StoreInv ==
  ASSUME IInv, Store
  PROVE  IInv'
<1>1. UNCHANGED <<reader, phase, screen, purpose, featured, all, filtered, query, category, cards,
                  dirty, enteredLate, asked>>
  BY DEF Store, uiVars, listVars
<1>2. /\ storing /\ turn \in Repos
      /\ repos' = [repos EXCEPT ![turn] = [loaded |-> TRUE, offers |-> fetched]]
      /\ turn' = turn + 1 /\ storing' = FALSE /\ fetched' = {}
  BY DEF Store, StoreEnds, IInv, BehindOK
<1>3. ~repos[turn].loaded
  BY <1>2 DEF IInv, BehindOK, TypeOK, ReposTypeOK, Repos
<1>4. repos' \in [Repos -> [loaded : BOOLEAN, offers : SUBSET Offers]]
  BY <1>2 DEF IInv, TypeOK, ReposTypeOK
<1>5. \A r \in Repos : r # turn => repos'[r] = repos[r]
  BY <1>2 DEF IInv, TypeOK, ReposTypeOK
<1>6. repos'[turn].loaded
  BY <1>2 DEF IInv, TypeOK, ReposTypeOK
<1>7. Listing \subseteq Listing'
  BY <1>3, <1>5, ListingHas, ListingHasNext
<1>8. Ids(Listing) \subseteq Ids(Listing)'
  BY <1>7, IdsMonotoneNext
<1>9. BehindOK'
  BY <1>2, <1>5, CountIsNat DEF IInv, TypeOK, ReposTypeOK, BehindOK, Repos, Places
<1>10. CopyOK'
  BY <1>1, <1>3, <1>5 DEF IInv, CopyOK, Repos
<1>11. ListedOK'
  BY <1>1, <1>7, <1>8 DEF IInv, ListedOK
<1>12. TypeOK'
  BY <1>1, <1>2, <1>4, NextPlace DEF IInv, TypeOK, ReposTypeOK
<1>q. QED BY <1>9, <1>10, <1>11, <1>12 DEF IInv

-----------------------------------------------------------------------------
(* The UI thread                                                           *)

\* A step that changes neither the repositories nor what was read from them.
LEMMA OtherInv ==
  ASSUME IInv, UNCHANGED repoVars, reader' \in Readers, ~reader'.copying,
         reader'.got = {} \/ reader' = reader,
         UNCHANGED asked, phase' \in {"running", "ended"},
         screen' \in {"home", "catalog", "other"},
         purpose' \in {"none", "featured", "catalog", "search", "category"},
         query' \in [typed : BOOLEAN, matches : SUBSET Apps],
         category' \in Categories \cup {All},
         dirty' \in BOOLEAN, enteredLate' \in BOOLEAN,
         all' \subseteq Listing, filtered' \subseteq Listing,
         featured' \subseteq Ids(Listing), cards' \subseteq Ids(Listing)
  PROVE  IInv'
<1>1. Listing' = Listing /\ Ids(Listing)' = Ids(Listing)
  BY SameListing DEF repoVars, Ids
<1>2. Listing \subseteq Offers /\ Ids(Listing) \subseteq Apps
  BY ListingTyped, IdsTyped DEF IInv, TypeOK
<1>3. TypeOK'
  BY <1>2 DEF IInv, TypeOK, ReposTypeOK, repoVars, Repos, Places
<1>4. ListedOK'
  BY <1>1 DEF IInv, ListedOK
<1>5. BehindOK' /\ CopyOK'
  BY DEF IInv, BehindOK, CopyOK, repoVars, Repos
<1>q. QED BY <1>3, <1>4, <1>5 DEF IInv

LEMMA QueryTyped ==
  /\ NoQuery \in [typed : BOOLEAN, matches : SUBSET Apps]
  /\ \A q \in Queries : Typed(q) \in [typed : BOOLEAN, matches : SUBSET Apps]
BY QueriesMatchApps DEF NoQuery, Typed

\* Between two inputs nothing is being copied.
LEMMA FreeReader ==
  ASSUME IInv, Free
  PROVE  reader \in Readers /\ ~reader.copying
BY DEF IInv, TypeOK, ReposTypeOK, CopyOK, Free

LEMMA RefineInv ==
  ASSUME IInv, NEW q \in [typed : BOOLEAN, matches : SUBSET Apps],
         NEW c \in Categories \cup {All}, Refine(q, c)
  PROVE  IInv'
<1>1. /\ UNCHANGED repoVars
      /\ UNCHANGED <<phase, screen, featured, all, cards, enteredLate, asked>>
      /\ query' = q /\ category' = c
  BY DEF Refine, ApplyFilter
<1>2. /\ reader' \in Readers /\ ~reader'.copying
      /\ reader'.got = {} \/ reader' = reader
      /\ purpose' \in {"none", "search", "category"}
  BY FreeReader, BeginReadTyped DEF Refine, ApplyFilter, Read, NoRead, IInv, TypeOK
<1>3. /\ filtered' = filtered \/ filtered' = all
      /\ dirty' \in BOOLEAN
  BY DEF Refine, ApplyFilter, IInv, TypeOK
<1>q. QED
  BY <1>1, <1>2, <1>3, OtherInv DEF IInv, TypeOK, ListedOK

LEMMA TakeInv ==
  ASSUME IInv, Take
  PROVE  IInv'
<1>1. UNCHANGED <<repoVars, phase, screen, query, category, cards, enteredLate, asked>>
  BY DEF Take
<1>2. CASE TakeFeatured
  <2>1. reader' \in Readers /\ ~reader'.copying /\ reader'.got = {}
    BY <1>2, ReadEndsTyped DEF TakeFeatured, IInv, TypeOK
  <2>2. Ids(reader.got) \subseteq Ids(Listing)
    BY IdsMonotone DEF IInv, ListedOK
  <2>3. featured' \subseteq Ids(Listing)
    BY <1>2, <2>2 DEF TakeFeatured
  <2>4. purpose' = "none" /\ UNCHANGED <<all, filtered, dirty>>
    BY <1>2 DEF TakeFeatured
  <2>q. QED BY <1>1, <2>1, <2>3, <2>4, OtherInv DEF IInv, TypeOK, ListedOK
<1>3. ASSUME NEW offers, offers \subseteq reader.got, Shown(offers), all' \in {all, reader.got}
      PROVE  IInv'
  <2>1. reader' \in Readers /\ ~reader'.copying /\ reader'.got = {}
    BY <1>3, ReadEndsTyped DEF Shown, IInv, TypeOK
  <2>2. filtered' \subseteq Listing /\ all' \subseteq Listing
    BY <1>3 DEF Shown, IInv, ListedOK
  <2>3. purpose' = "none" /\ dirty' = TRUE /\ UNCHANGED featured
    BY <1>3 DEF Shown
  <2>q. QED BY <1>1, <2>1, <2>2, <2>3, OtherInv DEF IInv, TypeOK, ListedOK
<1>4. CASE TakeCatalog
  <2>1. CASE query.typed
    <3>1. reader' \in Readers /\ ~reader'.copying /\ reader'.got = {}
      BY <1>4, <2>1, BeginReadTyped DEF TakeCatalog, Read, IInv, TypeOK
    <3>2. all' \subseteq Listing /\ purpose' = "search" /\ UNCHANGED <<featured, filtered, dirty>>
      BY <1>4, <2>1 DEF TakeCatalog, Read, IInv, ListedOK
    <3>q. QED BY <1>1, <3>1, <3>2, OtherInv DEF IInv, TypeOK, ListedOK
  <2>2. CASE ~query.typed
    BY <1>3, <1>4, <2>2 DEF TakeCatalog
  <2>q. QED BY <2>1, <2>2
<1>5. CASE TakeSearch
  BY <1>3, <1>5 DEF TakeSearch, Matching
<1>6. CASE TakeCategory
  BY <1>3, <1>6 DEF TakeCategory, OfCategory
<1>q. QED BY <1>2, <1>4, <1>5, <1>6 DEF Take

LEMMA UiInv ==
  ASSUME IInv, UiStep \/ Quit
  PROVE  IInv'
<1>1. CASE EnterHome
  BY <1>1, BeginReadTyped, OtherInv DEF EnterHome, Read, listVars, IInv, TypeOK, ListedOK
<1>2. CASE EnterCatalog
  BY <1>2, BeginReadTyped, OtherInv
     DEF EnterCatalog, Read, IInv, TypeOK, ListedOK, IsRefreshed
<1>3. CASE EnterOther
  BY <1>3, FreeReader, OtherInv DEF EnterOther, listVars, IInv, TypeOK, ListedOK
<1>4. ASSUME NEW q \in Queries, Type(q) PROVE IInv'
  BY <1>4, QueryTyped, RefineInv DEF Type, IInv, TypeOK
<1>5. CASE ClearQuery
  BY <1>5, QueryTyped, RefineInv DEF ClearQuery, IInv, TypeOK
<1>6. ASSUME NEW c \in Categories \cup {All}, Pick(c) PROVE IInv'
  BY <1>6, QueryTyped, RefineInv DEF Pick
<1>7. CASE Frame
  <2>1. Ids(filtered) \subseteq Ids(Listing)
    BY IdsMonotone DEF IInv, ListedOK
  <2>q. QED
    BY <1>7, <2>1, FreeReader, OtherInv DEF Frame, IInv, TypeOK, ListedOK
<1>8. ASSUME NEW id \in Apps, Open(id) PROVE IInv'
  BY <1>8, FreeReader, OtherInv DEF Open, listVars, IInv, TypeOK, ListedOK
<1>9. CASE Quit
  BY <1>9, FreeReader, OtherInv DEF Quit, uiVars, listVars, IInv, TypeOK, ListedOK
<1>q. QED
  BY <1>1, <1>2, <1>3, <1>4, <1>5, <1>6, <1>7, <1>8, <1>9, ReadStepInv, TakeInv DEF UiStep

LEMMA InitInv ==
  ASSUME Init
  PROVE  IInv
<1>1. NewRepo \in [loaded : BOOLEAN, offers : SUBSET Offers] /\ ~NewRepo.loaded
  BY DEF NewRepo
<1>2. NotReading \in Readers /\ ~NotReading.copying /\ NotReading.got = {}
  BY NextPlace DEF NotReading, Readers
<1>3. TypeOK
  BY <1>1, <1>2, NextPlace, QueryTyped DEF Init, ReposInit, TypeOK, ReposTypeOK
<1>q. QED
  BY <1>1, <1>2, <1>3 DEF Init, ReposInit, IInv, BehindOK, CopyOK, ListedOK

LEMMA StutterInv ==
  ASSUME IInv, UNCHANGED vars
  PROVE  IInv'
BY DEF vars, repoVars, uiVars, listVars, IInv, TypeOK, ReposTypeOK, BehindOK, CopyOK, ListedOK,
       Listing, Ids, Repos, Places, Readers

LEMMA StepInv ==
  ASSUME IInv, [Next]_vars
  PROVE  IInv'
BY FetchInv, StoreInv, UiInv, StutterInv DEF Next, RefreshStep

THEOREM Invariant == Spec => []IInv
BY InitInv, StepInv, PTL DEF Spec

-----------------------------------------------------------------------------
(* Theorems                                                                *)

\* The model is type-correct.
THEOREM CatalogueTypeCorrect == Spec => []TypeOK
<1>1. IInv => TypeOK
  BY DEF IInv
<1>q. QED BY <1>1, Invariant, PTL

\* Repository::apps may do without the mutex: what a reader copies the refresh
\* thread has left behind.
THEOREM CopiesAreWhole == Spec => []NoTornRead
<1>1. IInv => NoTornRead
  BY CountIsNat DEF IInv, TypeOK, ReposTypeOK, BehindOK, CopyOK, NoTornRead, IsStoring, Repos, Places
<1>q. QED BY <1>1, Invariant, PTL

\* find_app knows whatever a screen lists.
THEOREM WhatIsListedIsFound == Spec => []OpenFinds
<1>1. ASSUME IInv
      PROVE  OpenFinds
  <2>1. SUFFICES ASSUME NEW id \in cards \cup featured \cup Ids(filtered)
                 PROVE  Finds(id)
    BY DEF OpenFinds
  <2>2. id \in Ids(Listing)
    BY <1>1, <2>1, IdsMonotone DEF IInv, ListedOK
  <2>3. PICK o \in Listing : o.id = id
    BY <2>2 DEF Ids
  <2>q. QED BY <2>3, ListingHas DEF Finds, Has
<1>q. QED BY <1>1, Invariant, PTL

-----------------------------------------------------------------------------
(* What the catalogue shows when it was entered after the refresh          *)

\* What a read is for.
PurposeOK == /\ reader.active <=> purpose # "none"
             /\ purpose \in {"catalog", "search", "category"} => screen = "catalog"
             /\ purpose = "featured" => screen = "home"
             /\ purpose = "catalog" => category = All
             /\ purpose = "search" => query.typed
             /\ purpose = "category" => ~query.typed /\ category # All

\* The cards are those of the last frame.
CardsOK == ~dirty => cards = Ids(filtered)

\* Since the catalogue was entered, after the refresh, nothing changes what a
\* read gets,
LateOK == enteredLate => IsRefreshed
GotOK == enteredLate /\ reader.active =>
            \A o : o \in reader.got <=>
                     \E r \in Repos : r < reader.at /\ repos[r].loaded /\ o \in repos[r].offers

\* so that what was read on entering is the catalogue, and what is listed
\* follows from it.
AllOK == enteredLate /\ screen = "catalog" /\ purpose # "catalog" => all = Listing
FilteredOK == enteredLate /\ screen = "catalog" /\ purpose = "none" => filtered = Wanted

LateInv == PurposeOK /\ CardsOK /\ LateOK /\ GotOK /\ AllOK /\ FilteredOK

\* A read that has come to the end has got everything.
LEMMA GotAll ==
  ASSUME IInv, GotOK, enteredLate, reader.active, reader.at > Count
  PROVE  reader.got = Listing
<1>1. \A r \in Repos : r < reader.at
  BY CountIsNat DEF IInv, TypeOK, ReposTypeOK, Readers, Repos, Places
<1>2. \A o : o \in reader.got <=> o \in Listing
  BY <1>1, ListingHas DEF GotOK
<1>q. QED BY <1>2

\* Once refreshed, the refresh thread is done.
LEMMA LateRefresh ==
  ASSUME IInv, LateInv, RefreshStep
  PROVE  LateInv'
<1>1. UNCHANGED <<reader, uiVars>>
  BY DEF RefreshStep, Fetch, Store
<1>2. turn \in Repos
  BY DEF RefreshStep, Fetch, Store, StoreEnds, IInv, BehindOK
<1>3. ~enteredLate
  BY <1>2, CountIsNat DEF LateInv, LateOK, IsRefreshed, Repos
<1>q. QED
  BY <1>1, <1>3 DEF LateInv, uiVars, listVars, PurposeOK, CardsOK, LateOK, GotOK, AllOK, FilteredOK,
                    Ids

LEMMA SameWanted ==
  ASSUME UNCHANGED <<repos, query, category>>
  PROVE  Wanted' = Wanted
BY SameListing DEF Wanted, Matching, OfCategory

LEMMA LateReadStep ==
  ASSUME IInv, LateInv, ReadStep
  PROVE  LateInv'
<1>1. UNCHANGED <<repoVars, phase, uiVars, asked>> /\ UNCHANGED <<repos, turn, query, category>>
  BY DEF ReadStep, repoVars, uiVars, listVars
<1>2. reader.active /\ reader'.active
  BY DEF ReadStep, Look, Copy, IInv, TypeOK, ReposTypeOK, Readers
<1>3. GotOK'
  <2>1. SUFFICES ASSUME enteredLate, NEW o
                 PROVE  o \in reader'.got <=>
                          \E r \in Repos : r < reader'.at /\ repos[r].loaded /\ o \in repos[r].offers
    BY <1>1 DEF GotOK, uiVars, Repos
  <2>2. o \in reader.got <=>
          \E r \in Repos : r < reader.at /\ repos[r].loaded /\ o \in repos[r].offers
    BY <1>2, <2>1 DEF LateInv, GotOK
  <2>3. reader.at \in Repos
    BY DEF ReadStep, Look, Copy, IInv, CopyOK
  <2>4. CASE Look /\ repos[reader.at].loaded
    BY <2>2, <2>4 DEF Look, IInv, TypeOK, ReposTypeOK, Readers
  <2>5. CASE Look /\ ~repos[reader.at].loaded
    <3>1. reader'.got = reader.got /\ reader'.at = reader.at + 1
      BY <2>5 DEF Look, IInv, TypeOK, ReposTypeOK, Readers
    <3>2. \A r \in Repos : r < reader.at + 1 <=> r < reader.at \/ r = reader.at
      BY <2>3, CountIsNat DEF Repos
    <3>q. QED BY <2>2, <2>5, <3>1, <3>2
  <2>6. CASE Copy
    <3>1. /\ reader'.got = reader.got \cup repos[reader.at].offers
          /\ reader'.at = reader.at + 1
          /\ repos[reader.at].loaded
      BY <2>6 DEF Copy, IInv, CopyOK, TypeOK, ReposTypeOK, Readers
    <3>2. \A r \in Repos : r < reader.at + 1 <=> r < reader.at \/ r = reader.at
      BY <2>3, CountIsNat DEF Repos
    <3>q. QED BY <2>2, <2>3, <3>1, <3>2
  <2>q. QED BY <2>4, <2>5, <2>6 DEF ReadStep
<1>4. Listing' = Listing /\ Wanted' = Wanted
  BY <1>1, SameListing, SameWanted
<1>q. QED
  BY <1>1, <1>2, <1>3, <1>4
     DEF LateInv, repoVars, uiVars, listVars, PurposeOK, CardsOK, LateOK, AllOK, FilteredOK,
         IsRefreshed, Ids

\* A read that begins has got nothing.
LEMMA LateBegin ==
  ASSUME IInv, BeginRead, UNCHANGED repos
  PROVE  GotOK' /\ reader'.active
<1>1. reader'.got = {} /\ reader'.at = 1 /\ reader'.active
  BY DEF BeginRead, NotReading
<1>2. \A r \in Repos : ~(r < 1)
  BY CountIsNat DEF Repos
<1>q. QED BY <1>1, <1>2 DEF GotOK, Repos

\* A step of the UI thread that reads nothing and changes no list.
LEMMA LateKeep ==
  ASSUME IInv, LateInv, Free, UNCHANGED <<repoVars, reader, purpose, all, filtered, query, category,
                                          enteredLate>>,
         screen' = screen \/ screen' # "catalog", CardsOK'
  PROVE  LateInv'
<1>1. Listing' = Listing /\ Wanted' = Wanted
  BY SameListing, SameWanted DEF repoVars
<1>2. purpose = "none" /\ ~reader.active
  BY DEF LateInv, PurposeOK, Free
<1>q. QED
  BY <1>1, <1>2 DEF LateInv, PurposeOK, LateOK, GotOK, AllOK, FilteredOK, repoVars, IsRefreshed

LEMMA LateEnter ==
  ASSUME IInv, LateInv, EnterHome \/ EnterCatalog
  PROVE  LateInv'
<1>1. /\ UNCHANGED <<repoVars, all, filtered, query, cards, dirty>>
      /\ BeginRead /\ UNCHANGED <<repos, turn>>
  BY DEF EnterHome, EnterCatalog, Read, listVars, repoVars
<1>2. GotOK' /\ reader'.active
  BY <1>1, LateBegin
<1>3. CASE EnterHome
  BY <1>1, <1>2, <1>3
     DEF EnterHome, Read, listVars, LateInv, PurposeOK, CardsOK, LateOK, AllOK, FilteredOK,
         IsRefreshed, Ids
<1>4. CASE EnterCatalog
  <2>1. /\ screen' = "catalog" /\ purpose' = "catalog" /\ category' = All
        /\ enteredLate' <=> turn > Count
    BY <1>4 DEF EnterCatalog, Read, IsRefreshed
  <2>2. PurposeOK' /\ AllOK' /\ FilteredOK'
    BY <1>2, <2>1 DEF PurposeOK, AllOK, FilteredOK
  <2>3. CardsOK' /\ LateOK'
    BY <1>1, <2>1 DEF LateInv, CardsOK, LateOK, IsRefreshed, Ids
  <2>q. QED BY <1>2, <2>2, <2>3 DEF LateInv
<1>q. QED BY <1>3, <1>4

LEMMA LateRefine ==
  ASSUME IInv, LateInv, NEW q \in [typed : BOOLEAN, matches : SUBSET Apps],
         NEW c \in Categories \cup {All}, Refine(q, c)
  PROVE  LateInv'
<1>1. /\ UNCHANGED <<repoVars, screen, all, cards, enteredLate>> /\ UNCHANGED <<repos, turn>>
      /\ screen = "catalog" /\ purpose = "none" /\ ~reader.active
      /\ query' = q /\ category' = c
      /\ ApplyFilter(q, c)
  BY DEF Refine, Free, ApplyFilter, LateInv, PurposeOK, repoVars
<1>2. Listing' = Listing
  BY <1>1, SameListing
<1>3. enteredLate => all = Listing
  BY <1>1 DEF LateInv, AllOK
<1>4. CASE q.typed \/ c # All
  <2>1. /\ BeginRead
        /\ \/ purpose' = "search" /\ q.typed
           \/ purpose' = "category" /\ ~q.typed /\ c # All
        /\ UNCHANGED <<filtered, dirty>>
    BY <1>1, <1>4 DEF ApplyFilter, Read
  <2>2. GotOK' /\ reader'.active
    BY <1>1, <2>1, LateBegin
  <2>q. QED
    BY <1>1, <1>2, <1>3, <1>4, <2>1, <2>2
       DEF LateInv, PurposeOK, CardsOK, LateOK, AllOK, FilteredOK, IsRefreshed, Ids
<1>5. CASE ~q.typed /\ c = All
  <2>1. NoRead /\ filtered' = all /\ dirty' = TRUE
    BY <1>1, <1>5 DEF ApplyFilter
  <2>2. Wanted' = Listing
    BY <1>1, <1>2, <1>5 DEF Wanted
  <2>q. QED
    BY <1>1, <1>2, <1>3, <2>1, <2>2
       DEF NoRead, LateInv, PurposeOK, CardsOK, LateOK, GotOK, AllOK, FilteredOK, IsRefreshed
<1>q. QED BY <1>4, <1>5

LEMMA LateTake ==
  ASSUME IInv, LateInv, Take
  PROVE  LateInv'
<1>1. /\ UNCHANGED <<repoVars, screen, query, category, cards, enteredLate>>
      /\ UNCHANGED <<repos, turn>>
      /\ reader.active /\ reader.at > Count
  BY DEF Take, repoVars
<1>2. Listing' = Listing /\ Wanted' = Wanted
  BY <1>1, SameListing, SameWanted
<1>3. enteredLate => reader.got = Listing
  BY <1>1, GotAll DEF LateInv
<1>4. ReadEnds => ~reader'.active
  BY DEF ReadEnds, NotReading
<1>5. CASE TakeFeatured
  BY <1>1, <1>2, <1>4, <1>5
     DEF TakeFeatured, LateInv, PurposeOK, CardsOK, LateOK, GotOK, AllOK, FilteredOK, IsRefreshed,
         Ids
<1>6. ASSUME NEW offers, Shown(offers), purpose # "featured",
             enteredLate => offers = Wanted /\ all' = Listing
      PROVE  LateInv'
  BY <1>1, <1>2, <1>4, <1>6
     DEF Shown, LateInv, PurposeOK, CardsOK, LateOK, GotOK, AllOK, FilteredOK, IsRefreshed
<1>7. CASE TakeCatalog /\ query.typed
  <2>1. BeginRead /\ purpose' = "search" /\ UNCHANGED <<filtered, dirty>> /\ all' = reader.got
    BY <1>7 DEF TakeCatalog, Read
  <2>2. GotOK' /\ reader'.active
    BY <1>1, <2>1, LateBegin
  <2>q. QED
    BY <1>1, <1>2, <1>3, <1>7, <2>1, <2>2
       DEF TakeCatalog, LateInv, PurposeOK, CardsOK, LateOK, AllOK, FilteredOK, IsRefreshed, Ids
<1>8. CASE TakeCatalog /\ ~query.typed
  <2>1. category = All /\ purpose = "catalog"
    BY <1>8 DEF TakeCatalog, LateInv, PurposeOK
  <2>2. Wanted = Listing
    BY <1>8, <2>1 DEF Wanted
  <2>3. Shown(reader.got) /\ all' = reader.got
    BY <1>8 DEF TakeCatalog
  <2>q. QED BY <1>3, <1>6, <2>1, <2>2, <2>3
<1>9. CASE TakeSearch
  <2>1. query.typed /\ purpose = "search" /\ screen = "catalog"
    BY <1>9 DEF TakeSearch, LateInv, PurposeOK
  <2>2. enteredLate => Matching(reader.got) = Wanted /\ all' = Listing
    BY <1>3, <1>9, <2>1 DEF TakeSearch, Wanted, LateInv, AllOK
  <2>q. QED BY <1>6, <1>9, <2>1, <2>2 DEF TakeSearch
<1>10. CASE TakeCategory
  <2>1. ~query.typed /\ category # All /\ purpose = "category" /\ screen = "catalog"
    BY <1>10 DEF TakeCategory, LateInv, PurposeOK
  <2>2. enteredLate => OfCategory(reader.got) = Wanted /\ all' = Listing
    BY <1>3, <1>10, <2>1 DEF TakeCategory, Wanted, LateInv, AllOK
  <2>q. QED BY <1>6, <1>10, <2>1, <2>2 DEF TakeCategory
<1>q. QED BY <1>5, <1>7, <1>8, <1>9, <1>10 DEF Take

LEMMA LateStep ==
  ASSUME IInv, LateInv, [Next]_vars
  PROVE  LateInv'
<1>1. CASE EnterOther \/ Frame \/ Quit \/ \E id \in Apps : Open(id)
  BY <1>1, LateKeep
     DEF EnterOther, Frame, Quit, Open, uiVars, listVars, LateInv, CardsOK, Ids, IInv, TypeOK
<1>2. ASSUME NEW q \in Queries, Type(q) PROVE LateInv'
  BY <1>2, QueryTyped, LateRefine DEF Type, IInv, TypeOK
<1>3. CASE ClearQuery
  BY <1>3, QueryTyped, LateRefine DEF ClearQuery, IInv, TypeOK
<1>4. ASSUME NEW c \in Categories \cup {All}, Pick(c) PROVE LateInv'
  BY <1>4, QueryTyped, LateRefine DEF Pick
<1>5. CASE UNCHANGED vars
  <2>1. Listing' = Listing /\ Wanted' = Wanted
    BY <1>5, SameListing, SameWanted DEF vars, repoVars, uiVars, listVars
  <2>q. QED
    BY <1>5, <2>1
       DEF vars, repoVars, uiVars, listVars, LateInv, PurposeOK, CardsOK, LateOK, GotOK, AllOK,
           FilteredOK, IsRefreshed, Ids, Repos
<1>q. QED
  BY <1>1, <1>2, <1>3, <1>4, <1>5, LateRefresh, LateEnter, LateReadStep, LateTake DEF Next, UiStep

\* Entered after the refresh, the catalogue shows what the search box and the
\* pills ask for, whatever order they were used in.
THEOREM CatalogueShowsWhatWasAsked == Spec => []ShowsWhatWasAsked
<1>1. Init => LateInv
  BY DEF Init, ReposInit, NotReading, LateInv, PurposeOK, CardsOK, LateOK, GotOK, AllOK, FilteredOK
<1>2. IInv /\ LateInv /\ [Next]_vars => LateInv'
  BY LateStep
<1>3. LateInv => ShowsWhatWasAsked
  BY DEF LateInv, PurposeOK, CardsOK, FilteredOK, ShowsWhatWasAsked, Free
<1>q. QED BY <1>1, <1>2, <1>3, Invariant, PTL DEF Spec
=============================================================================
