-------------------------- MODULE DocsPagesProofs --------------------------
(***************************************************************************)
(* Proofs about DocsPages, for any number of pages, any source sets with   *)
(* any dependencies and any row of bookmarks.                              *)
(*                                                                         *)
(* The invariant needs one fact more than the properties state: that the   *)
(* "all documentation is filtered" box the script remembers is in the      *)
(* document exactly when it is the one that is there, so that removing it  *)
(* leaves none; a page that has not finished loading has none.             *)
(***************************************************************************)
EXTENDS DocsPages, WellFoundedInduction, TLAPS

\* What the script's variables and the page's elements agree on.
BoxIsKnown(p) ==
    IF phase[p] = "loaded"
    THEN /\ attached[p] <=> active[p] = {}
         /\ messages[p] = IF active[p] = {} THEN 1 ELSE 0
         /\ hidden[p] <=> active[p] = {}
    ELSE ~attached[p] /\ messages[p] = 0

Stored(p) ==
    phase[p] = "loaded" =>
        \A s \in synced[p] : s \in inactive <=> s \notin active[p]

RowFits(p) ==
    phase[p] = "loaded" =>
        (bookmark[p] \in active[p] \/ Available(active[p]) = {})

FilterInv ==
    /\ FilterTypeOK
    /\ \A p \in Pages : BoxIsKnown(p) /\ Stored(p) /\ RowFits(p)

-----------------------------------------------------------------------------

\* A row has a first bookmark.
LEMMA RowNotEmpty == Row[1] \in Buttons
  BY FilterAssumption

\* The least of the available positions is a position of the row.
LEMMA FirstIsAvailable ==
    ASSUME NEW F \in SUBSET Buttons, Available(F) # {}
    PROVE  FirstAvailable(F) \in F
  <1>1. \E i \in Available(F) : \A j \in Available(F) : i <= j
    <2> DEFINE T    == Available(F)
               Less == {ss \in Nat \X Nat : ss[1] < ss[2]}
    <2>1. T \subseteq Nat /\ T # {}
      BY DEF Available
    <2>2. IsWellFoundedOn(Less, Nat)
      BY NatLessThanWellFounded, Zenon DEF OpToRel
    <2>3. \E i \in T : \A j \in T : ~ (<<j, i>> \in Less)
      <3> HIDE DEF T, Less
      <3> QED  BY <2>1, <2>2, WFMin
    <2>4. PICK i \in T : \A j \in T : ~ (<<j, i>> \in Less)
      BY <2>3
    <2>5. ASSUME NEW j \in T
          PROVE  i <= j
      <3>1. i \in Nat /\ j \in Nat /\ ~ (<<j, i>> \in Less)
        BY <2>1, <2>4
      <3>2. j < i => <<j, i>> \in Less
        BY <3>1
      <3> QED  BY <3>1, <3>2
    <2> QED  BY <2>5
  <1> QED  BY <1>1 DEF FirstAvailable, Available

\* refreshPlatformTabs returns a bookmark that the row can show.
LEMMA RowFollows ==
    ASSUME NEW F \in SUBSET Buttons, NEW b \in Buttons
    PROVE  /\ RefreshPlatformTabs(b, F) \in Buttons
           /\ RefreshPlatformTabs(b, F) \in F \/ Available(F) = {}
  BY FirstIsAvailable DEF RefreshPlatformTabs

\* What refreshFiltering leaves behind on the page it runs on.
LEMMA Refreshed ==
    ASSUME FilterTypeOK, NEW p \in Pages, NEW F \in SUBSET Buttons,
           attached[p] => messages[p] = 1, ~attached[p] => messages[p] = 0,
           F = {} => ~attached[p],
           RefreshFiltering(p, F)
    PROVE  /\ active'   \in [Pages -> SUBSET Buttons]
           /\ bookmark' \in [Pages -> Buttons]
           /\ messages' \in [Pages -> Nat]
           /\ attached' \in [Pages -> BOOLEAN]
           /\ hidden'   \in [Pages -> BOOLEAN]
           /\ active'[p] = F
           /\ bookmark'[p] \in F \/ Available(F) = {}
           /\ attached'[p] <=> F = {}
           /\ messages'[p] = IF F = {} THEN 1 ELSE 0
           /\ hidden'[p] <=> F = {}
           /\ \A q \in Pages \ {p} :
                 /\ active'[q] = active[q]
                 /\ bookmark'[q] = bookmark[q]
                 /\ messages'[q] = messages[q]
                 /\ attached'[q] = attached[q]
                 /\ hidden'[q] = hidden[q]
  <1>1. /\ active' = [active EXCEPT ![p] = F]
        /\ bookmark' = [bookmark EXCEPT ![p] = RefreshPlatformTabs(bookmark[p], F)]
        /\ hidden' = [hidden EXCEPT ![p] = F = {}]
    BY DEF RefreshFiltering, RefreshNoContentNotification
  <1>2. /\ RefreshPlatformTabs(bookmark[p], F) \in Buttons
        /\ RefreshPlatformTabs(bookmark[p], F) \in F \/ Available(F) = {}
    BY RowFollows DEF FilterTypeOK
  <1>3. /\ messages' \in [Pages -> Nat]
        /\ attached' \in [Pages -> BOOLEAN]
        /\ attached'[p] <=> F = {}
        /\ messages'[p] = IF F = {} THEN 1 ELSE 0
        /\ \A q \in Pages \ {p} : messages'[q] = messages[q] /\ attached'[q] = attached[q]
    <2>1. CASE F = {}
      <3>1. /\ messages' = [messages EXCEPT ![p] = messages[p] + 1]
            /\ attached' = [attached EXCEPT ![p] = TRUE]
            /\ messages[p] = 0
        BY <2>1 DEF RefreshFiltering, RefreshNoContentNotification
      <3> QED  BY <2>1, <3>1 DEF FilterTypeOK
    <2>2. CASE F # {} /\ attached[p]
      <3>1. /\ messages' = [messages EXCEPT ![p] = messages[p] - 1]
            /\ attached' = [attached EXCEPT ![p] = FALSE]
            /\ messages[p] = 1
        BY <2>2 DEF RefreshFiltering, RefreshNoContentNotification
      <3> QED  BY <2>2, <3>1 DEF FilterTypeOK
    <2>3. CASE F # {} /\ ~attached[p]
      BY <2>3 DEF RefreshFiltering, RefreshNoContentNotification, FilterTypeOK
    <2> QED  BY <2>1, <2>2, <2>3
  <1> QED  BY <1>1, <1>2, <1>3 DEF FilterTypeOK

\* The handlers that change nothing of the filters' state on any page that is
\* or becomes loaded keep the invariant.
LEMMA Untouched ==
    ASSUME FilterInv, UNCHANGED filterVars, phase' \in [Pages -> Phases],
           NEW p \in Pages, phase[p] # "loaded", phase'[p] # "loaded",
           \A q \in Pages \ {p} : phase'[q] = phase[q]
    PROVE  FilterInv'
  BY DEF FilterInv, FilterTypeOK, BoxIsKnown, Stored, RowFits, Available, filterVars,
         filterState

\* A page that is opened or closed starts from nothing.
LEMMA FreshKeeps ==
    ASSUME FilterInv, NEW p \in Pages, FreshFilters(p),
           phase' \in [Pages -> Phases], phase'[p] # "loaded",
           \A q \in Pages \ {p} : phase'[q] = phase[q]
    PROVE  FilterInv'
  <1>1. FilterTypeOK'
    BY RowNotEmpty DEF FilterInv, FilterTypeOK, FreshFilters
  <1>2. ASSUME NEW q \in Pages
        PROVE  BoxIsKnown(q)' /\ Stored(q)' /\ RowFits(q)'
    BY DEF FilterInv, FilterTypeOK, FreshFilters, BoxIsKnown, Stored, RowFits, Available
  <1> QED  BY <1>1, <1>2 DEF FilterInv

-----------------------------------------------------------------------------

\* A change of filters by a loaded page: what it refreshes to, what it stores
\* and what it claims agree.
LEMMA ChangeKeeps ==
    ASSUME FilterInv, NEW p \in Pages, phase[p] = "loaded", UNCHANGED phase,
           NEW F \in SUBSET Buttons, NEW S \in SUBSET Buttons,
           RefreshFiltering(p, F), F = {} => active[p] # {},
           Changes(p, S), inactive' \in SUBSET Buttons,
           \A s \in S : s \in inactive' <=> s \notin F,
           \A s \in Buttons \ S : /\ s \in inactive' <=> s \in inactive
                                  /\ s \in F <=> s \in active[p]
    PROVE  FilterInv'
  <1>1. /\ attached[p] => messages[p] = 1
        /\ ~attached[p] => messages[p] = 0
        /\ F = {} => ~attached[p]
    BY DEF FilterInv, BoxIsKnown, FilterTypeOK
  <1>2. synced' \in [Pages -> SUBSET Buttons]
    BY DEF FilterInv, FilterTypeOK, Changes
  <1>3. FilterTypeOK'
    BY <1>1, <1>2, Refreshed DEF FilterInv, FilterTypeOK
  <1>4. BoxIsKnown(p)' /\ RowFits(p)'
    BY <1>1, Refreshed DEF FilterInv, BoxIsKnown, RowFits, Available
  <1>5. Stored(p)'
    BY <1>1, Refreshed DEF FilterInv, FilterTypeOK, Stored, Changes
  <1>6. ASSUME NEW q \in Pages \ {p}
        PROVE  BoxIsKnown(q)' /\ Stored(q)' /\ RowFits(q)'
    <2>1. /\ active'[q] = active[q]
          /\ bookmark'[q] = bookmark[q]
          /\ messages'[q] = messages[q]
          /\ attached'[q] = attached[q]
          /\ hidden'[q] = hidden[q]
      BY <1>1, <1>6, Refreshed DEF FilterInv
    <2>2. synced'[q] = synced[q] \ S
      BY <1>6 DEF Changes
    <2>3. Stored(q)'
      BY <2>1, <2>2, <1>6 DEF FilterInv, FilterTypeOK, Stored
    <2> QED  BY <2>1, <2>3, <1>6 DEF FilterInv, BoxIsKnown, RowFits, Available
  <1> QED  BY <1>3, <1>4, <1>5, <1>6 DEF FilterInv

LEMMA FilterStepKeeps ==
    ASSUME FilterInv, NEW p \in Pages, FilterStep(p)
    PROVE  FilterInv'
  <1>1. ASSUME NEW s \in Buttons, FilterSourceset(p, s)
        PROVE  FilterInv'
    <2> DEFINE F == active[p] \ {s}
    <2>1. F \in SUBSET Buttons /\ active[p] # {} /\ inactive' \in SUBSET Buttons
      BY <1>1 DEF FilterSourceset, AddSourcesetFilterToCache, FilterInv, FilterTypeOK
    <2> QED  BY <1>1, <2>1, ChangeKeeps, F \in SUBSET Buttons, {s} \in SUBSET Buttons
             DEF FilterSourceset, AddSourcesetFilterToCache
  <1>2. ASSUME NEW s \in Buttons, UnfilterFromNone(p, s)
        PROVE  FilterInv'
    <2> DEFINE F == Dependencies[s] \cup {s}
    <2>1. F \in SUBSET Buttons /\ F # {} /\ inactive' \in SUBSET Buttons
      BY <1>2, FilterAssumption DEF UnfilterFromNone, RemoveSourcesetFilterFromCache,
                                   FilterInv, FilterTypeOK
    <2> QED  BY <1>2, <2>1, ChangeKeeps
             DEF UnfilterFromNone, RemoveSourcesetFilterFromCache
  <1>3. ASSUME NEW s \in Buttons, UnfilterSourceset(p, s)
        PROVE  FilterInv'
    <2> DEFINE F == active[p] \cup {s}
    <2>1. F \in SUBSET Buttons /\ F # {} /\ inactive' \in SUBSET Buttons
      BY <1>3 DEF UnfilterSourceset, RemoveSourcesetFilterFromCache, FilterInv, FilterTypeOK
    <2> QED  BY <1>3, <2>1, ChangeKeeps, {s} \in SUBSET Buttons
             DEF UnfilterSourceset, RemoveSourcesetFilterFromCache
  <1>4. ASSUME NEW s \in Buttons, TogglePlatformDependent(p, s)
        PROVE  FilterInv'
    BY <1>4 DEF TogglePlatformDependent, FilterInv, FilterTypeOK, BoxIsKnown, Stored,
                RowFits, Available
  <1> QED  BY <1>1, <1>2, <1>3, <1>4 DEF FilterStep

LEMMA LoadKeeps ==
    ASSUME FilterInv, NEW p \in Pages, Load(p)
    PROVE  FilterInv'
  <1> DEFINE F == Buttons \ inactive
  <1>1. /\ phase[p] = "scripted"
        /\ phase' = [phase EXCEPT ![p] = "loaded"]
        /\ RefreshFiltering(p, F)
        /\ synced' = [synced EXCEPT ![p] = Buttons]
        /\ inactive' = inactive
    BY DEF Load, Goto, InitializeFiltering
  <1>2. ~attached[p] /\ messages[p] = 0 /\ F \in SUBSET Buttons
    BY <1>1 DEF FilterInv, BoxIsKnown
  <1> HIDE DEF F
  <1>3. FilterTypeOK'
    BY <1>1, <1>2, Refreshed DEF FilterInv, FilterTypeOK, Phases
  <1>4. BoxIsKnown(p)' /\ RowFits(p)' /\ Stored(p)'
    BY <1>1, <1>2, Refreshed DEF FilterInv, FilterTypeOK, BoxIsKnown, RowFits, Stored,
                                 Available, F
  <1>5. ASSUME NEW q \in Pages \ {p}
        PROVE  BoxIsKnown(q)' /\ Stored(q)' /\ RowFits(q)'
    BY <1>1, <1>2, <1>5, Refreshed DEF FilterInv, FilterTypeOK, BoxIsKnown, RowFits,
                                       Stored, Available
  <1> QED  BY <1>3, <1>4, <1>5 DEF FilterInv

-----------------------------------------------------------------------------

LEMMA FilterInvInit == Init => FilterInv
  BY RowNotEmpty DEF Init, FilterInit, FilterInv, FilterTypeOK, BoxIsKnown, Stored, RowFits,
                     Phases

LEMMA FilterInvNext == FilterInv /\ [Next]_vars => FilterInv'
  <1> SUFFICES ASSUME FilterInv, [Next]_vars
               PROVE  FilterInv'
    OBVIOUS
  <1> USE DEF Goto
  <1>1. ASSUME NEW p \in Pages, NEW a \in Anchors[p] \cup {NoAnchor}, Open(p, a)
        PROVE  FilterInv'
    BY <1>1, FreshKeeps DEF Open, FilterInv, FilterTypeOK, Phases
  <1>2. ASSUME NEW p \in Pages, RunScript(p)
        PROVE  FilterInv'
    BY <1>2, Untouched DEF RunScript, FilterInv, FilterTypeOK, Phases
  <1>3. ASSUME NEW p \in Pages, Load(p)
        PROVE  FilterInv'
    BY <1>3, LoadKeeps
  <1>4. ASSUME NEW p \in Pages, LoadThrows(p)
        PROVE  FilterInv'
    BY <1>4, Untouched DEF LoadThrows, FilterInv, FilterTypeOK, Phases
  <1>5. ASSUME NEW p \in Pages, Close(p)
        PROVE  FilterInv'
    BY <1>5, FreshKeeps DEF Close, FilterInv, FilterTypeOK, Phases
  <1>6. ASSUME NEW p \in Pages, FilterStep(p)
        PROVE  FilterInv'
    BY <1>6, FilterStepKeeps
  <1>7. ASSUME NEW p \in Pages, TabStep(p)
        PROVE  FilterInv'
    <2>1. UNCHANGED <<phase, filterVars>>
      BY <1>7 DEF TabStep, ToggleSectionsEventHandler, HashChangeUnheard, HashChange, FireTimer
    <2> QED  BY <2>1 DEF FilterInv, FilterTypeOK, BoxIsKnown, Stored, RowFits, Available,
                         filterVars, filterState
  <1>8. CASE UNCHANGED vars
    BY <1>8 DEF vars, FilterInv, FilterTypeOK, BoxIsKnown, Stored, RowFits, Available,
                filterVars, filterState
  <1> QED  BY <1>1, <1>2, <1>3, <1>4, <1>5, <1>6, <1>7, <1>8 DEF Next

LEMMA FilterInvHolds == Spec => []FilterInv
  BY FilterInvInit, FilterInvNext, PTL DEF Spec

-----------------------------------------------------------------------------

(* For any pages and source sets: what a loaded page shows and what the
   browser stores agree on every filter that no other page has changed since
   (filterSourceset, unfilterSourceset and the storage they rewrite). *)
THEOREM StorageAgreesHolds == Spec => []StorageAgrees
  <1>1. FilterInv => StorageAgrees
    BY DEF FilterInv, Stored, StorageAgrees
  <1> QED  BY <1>1, FilterInvHolds, PTL

(* The box says "all documentation is filtered" exactly while it is, and a row
   of bookmarks shows a platform that is not filtered out whenever it has one
   (refreshNoContentNotification, refreshPlatformTabs, togglePlatformDependent). *)
THEOREM PageShowsFiltersHolds == Spec => []PageShowsFilters
  <1>1. FilterInv => MessageMatches
    BY DEF FilterInv, BoxIsKnown, MessageMatches
  <1>2. FilterInv => RowShowsAvailable
    BY DEF FilterInv, RowFits, RowShowsAvailable
  <1> QED  BY <1>1, <1>2, FilterInvHolds, PTL DEF PageShowsFilters

-----------------------------------------------------------------------------
(* The tabs and the anchor. *)

\* The tab shown after an anchor of p was looked at is a tab of p, and the
\* anchor's own when its content carries the tab's name.
LEMMA AnchorTab ==
    ASSUME NEW p \in Pages, NEW a \in Anchors[p], NEW shown \in Tabs[p] \cup {NoTab},
           NEW filters
    PROVE  /\ TabForAnchor(a, shown, filters) \in Tabs[p] \cup {NoTab}
           /\ a \in Marked => TabForAnchor(a, shown, filters) = TabOf[a]
  BY TabsAssumption DEF TabForAnchor

\* A scroll lands on the anchor or on none.
LEMMA LandingType ==
    ASSUME NEW a \in AllAnchors, NEW shown, NEW filters, NEW out
    PROVE  Landing(a, shown, filters, out) \in AllAnchors \cup {NoAnchor}
  BY DEF Landing

LEMMA PagesOwn ==
    ASSUME NEW p \in Pages
    PROVE  Tabs[p] \subseteq AllTabs /\ Anchors[p] \subseteq AllAnchors
  BY DEF AllTabs, AllAnchors

LEMMA FirstOrStored ==
    ASSUME NEW p \in Pages
    PROVE  InitTabs(p) \in Tabs[p] \cup {NoTab}
  BY TabsAssumption DEF InitTabs

LEMMA HandledAnchor ==
    ASSUME TabTypeOK, NEW p \in Pages, NEW a, NEW shown \in Tabs[p] \cup {NoTab},
           NEW filters, NEW out, NEW known \in BOOLEAN,
           HandleAnchor(p, a, shown, filters, out, known)
    PROVE  /\ tab'         \in [Pages -> AllTabs \cup {NoTab}]
           /\ tab'[p]      \in Tabs[p] \cup {NoTab}
           /\ \A q \in Pages \ {p} : tab'[q] = tab[q]
           /\ highlighted' \in [Pages -> AllAnchors \cup {NoAnchor}]
           /\ scrolledTo'  \in [Pages -> AllAnchors \cup {NoAnchor}]
           /\ timers'      \in [Pages -> Seq(AllAnchors)]
           /\ a \in Anchors[p] \cap Marked => /\ tab'[p] = TabOf[a]
                                            /\ highlighted'[p] = a
  <1>1. Tabs[p] \subseteq AllTabs /\ Anchors[p] \subseteq AllAnchors
    BY PagesOwn
  <1>2. CASE a \in Anchors[p]
    <2> DEFINE after == TabForAnchor(a, shown, filters)
               land  == Landing(a, after, filters, out)
    <2>1. after \in Tabs[p] \cup {NoTab} /\ (a \in Marked => after = TabOf[a])
      BY <1>2, AnchorTab
    <2>2. land \in AllAnchors \cup {NoAnchor}
      BY <1>1, <1>2, LandingType
    <2>3. /\ highlighted' = [highlighted EXCEPT ![p] = a]
          /\ tab' = [tab EXCEPT ![p] = after]
          /\ \/ scrolledTo' = [scrolledTo EXCEPT ![p] = land] /\ timers' = timers
             \/ timers' = [timers EXCEPT ![p] = Append(timers[p], a)]
                 /\ scrolledTo' = scrolledTo
      BY <1>2 DEF HandleAnchor, ToggleSections, ScrollToElementInContent
    <2> HIDE DEF after, land
    <2>4. Append(timers[p], a) \in Seq(AllAnchors)
      BY <1>1, <1>2 DEF TabTypeOK
    <2> QED  BY <1>1, <1>2, <2>1, <2>2, <2>3, <2>4 DEF TabTypeOK
  <1>3. CASE a \notin Anchors[p]
    BY <1>1, <1>3 DEF HandleAnchor, ToggleSections, TabTypeOK
  <1> QED  BY <1>2, <1>3

LEMMA TabTypeInit == Init => TabTypeOK
  BY DEF Init, TabInit, TabTypeOK

LEMMA FreshTabType ==
    ASSUME TabTypeOK, NEW p \in Pages, NEW a \in Anchors[p] \cup {NoAnchor},
           FreshTabs(p, a)
    PROVE  TabTypeOK'
  BY PagesOwn DEF TabTypeOK, FreshTabs

LEMMA TabTypeNext == TabTypeOK /\ [Next]_vars => TabTypeOK'
  <1> SUFFICES ASSUME TabTypeOK, [Next]_vars
               PROVE  TabTypeOK'
    OBVIOUS
  <1>1. ASSUME NEW p \in Pages, NEW a \in Anchors[p] \cup {NoAnchor}, Open(p, a)
        PROVE  TabTypeOK'
    BY <1>1, FreshTabType DEF Open
  <1>2. ASSUME NEW p \in Pages, Close(p)
        PROVE  TabTypeOK'
    BY <1>2, FreshTabType DEF Close
  <1>3. ASSUME NEW p \in Pages, Load(p)
        PROVE  TabTypeOK'
    <2>1. InitTabs(p) \in Tabs[p] \cup {NoTab}
      BY FirstOrStored
    <2>2. UNCHANGED <<hash, storedTab>>
      BY <1>3 DEF Load
    <2> QED  BY <1>3, <2>1, <2>2, HandledAnchor DEF Load, TabTypeOK
  <1>4. ASSUME NEW p \in Pages, NEW t \in Tabs[p], ToggleSectionsEventHandler(p, t)
        PROVE  TabTypeOK'
    BY <1>4, PagesOwn DEF ToggleSectionsEventHandler, ToggleSections, TabTypeOK
  <1>5. ASSUME NEW p \in Pages, NEW a \in Anchors[p] \cup {NoAnchor},
               HashChangeUnheard(p, a)
        PROVE  TabTypeOK'
    BY <1>5, PagesOwn DEF HashChangeUnheard, TabTypeOK
  <1>6. ASSUME NEW p \in Pages, NEW a \in Anchors[p] \cup {NoAnchor}, HashChange(p, a)
        PROVE  TabTypeOK'
    <2>1. tab[p] \in Tabs[p] \cup {NoTab}
      BY DEF TabTypeOK
    <2>2. hash' = [hash EXCEPT ![p] = a] /\ storedTab' = storedTab
      BY <1>6 DEF HashChange
    <2>3. hash' \in [Pages -> AllAnchors \cup {NoAnchor}]
      BY <2>2, PagesOwn DEF TabTypeOK
    <2> QED  BY <1>6, <2>1, <2>2, <2>3, HandledAnchor DEF HashChange, TabTypeOK
  <1>7. ASSUME NEW p \in Pages, FireTimer(p)
        PROVE  TabTypeOK'
    <2>1. Head(timers[p]) \in AllAnchors /\ Tail(timers[p]) \in Seq(AllAnchors)
      BY <1>7 DEF FireTimer, TabTypeOK
    <2>2. Landing(Head(timers[p]), tab[p], active[p], hidden[p]) \in AllAnchors \cup {NoAnchor}
      BY <2>1, LandingType
    <2> QED  BY <1>7, <2>1, <2>2 DEF FireTimer, TabTypeOK
  <1>8. ASSUME UNCHANGED tabVars
        PROVE  TabTypeOK'
    BY <1>8 DEF tabVars, TabTypeOK
  <1> QED  BY <1>1, <1>2, <1>3, <1>4, <1>5, <1>6, <1>7, <1>8
           DEF Next, TabStep, RunScript, LoadThrows, vars

(* Every variable keeps its type; no page is ever on a tab of another one,
   whatever tab the browser remembers. *)
THEOREM TypeOKHolds == Spec => []TypeOK
  <1>1. Spec => []TabTypeOK
    BY TabTypeInit, TabTypeNext, PTL DEF Spec
  <1>2. FilterInv /\ TabTypeOK => TypeOK
    BY DEF FilterInv, TypeOK
  <1> QED  BY <1>1, <1>2, FilterInvHolds, PTL

(* An anchor whose content carries its tab's name opens that tab, when a page
   loads at it and when the hash changes to it, whatever tab was remembered
   (the order of initTabs and handleAnchor in the load handler). *)
THEOREM AnchorOpensItsTabHolds == Spec => AnchorOpensItsTab
  <1> DEFINE Opens ==
        \A p \in Pages : \A a \in Anchors[p] \cap Marked :
           (/\ phase'[p] = "loaded"
            /\ hash'[p] = a
            /\ phase[p] = "scripted" \/ hash[p] # a)
               => tab'[p] = TabOf[a] /\ highlighted'[p] = a
  <1>1. ASSUME FilterInv, TabTypeOK, [Next]_vars
        PROVE  [Opens]_vars
    <2> SUFFICES ASSUME Next, NEW p \in Pages, NEW a \in Anchors[p] \cap Marked,
                        phase'[p] = "loaded", hash'[p] = a,
                        phase[p] = "scripted" \/ hash[p] # a
                 PROVE  tab'[p] = TabOf[a] /\ highlighted'[p] = a
      BY <1>1
    <2>1. a # NoAnchor
      BY PagesOwn, TabsAssumption
    <2>2. PICK q \in Pages :
               \/ \E b \in Anchors[q] \cup {NoAnchor} : Open(q, b)
               \/ RunScript(q) \/ Load(q) \/ LoadThrows(q) \/ Close(q)
               \/ FilterStep(q) /\ UNCHANGED tabVars
               \/ TabStep(q)
      BY DEF Next
    <2>3. CASE Load(q)
      <3>1. q = p
        BY <1>1, <2>3 DEF Load, Goto, FilterInv, FilterTypeOK, TabTypeOK
      <3>2. hash[p] = a /\ HandleAnchor(p, a, InitTabs(p), Buttons \ inactive,
                                        Buttons \subseteq inactive, FALSE)
        BY <2>3, <3>1 DEF Load
      <3> QED  BY <1>1, <3>2, FirstOrStored, HandledAnchor
    <2>4. CASE TabStep(q)
      <3>1. UNCHANGED phase
        BY <2>4 DEF TabStep, ToggleSectionsEventHandler, HashChangeUnheard, HashChange,
                    FireTimer
      <3>2. PICK b \in Anchors[q] \cup {NoAnchor} : HashChange(q, b)
        BY <1>1, <2>4, <3>1 DEF TabStep, ToggleSectionsEventHandler, HashChangeUnheard,
                                FireTimer, TabTypeOK
      <3>3. q = p /\ b = a
        BY <1>1, <3>1, <3>2 DEF HashChange, TabTypeOK
      <3>4. HandleAnchor(p, a, tab[p], Filters(p), hidden[p], phase[p] = "loaded")
        BY <3>2, <3>3 DEF HashChange
      <3>5. tab[p] \in Tabs[p] \cup {NoTab} /\ (phase[p] = "loaded") \in BOOLEAN
        BY <1>1 DEF TabTypeOK
      <3> QED  BY <1>1, <3>4, <3>5, HandledAnchor
    <2>5. ASSUME NEW b \in Anchors[q] \cup {NoAnchor}, Open(q, b)
          PROVE  FALSE
      BY <1>1, <2>5 DEF Open, Goto, FreshTabs, FilterInv, FilterTypeOK, TabTypeOK
    <2>6. CASE RunScript(q) \/ LoadThrows(q)
      BY <1>1, <2>6 DEF RunScript, LoadThrows, Goto, tabVars, FilterInv, FilterTypeOK
    <2>7. CASE Close(q)
      BY <1>1, <2>7 DEF Close, Goto, FreshTabs, FilterInv, FilterTypeOK, TabTypeOK
    <2>8. CASE FilterStep(q) /\ UNCHANGED tabVars
      BY <2>8 DEF FilterStep, FilterSourceset, UnfilterFromNone, UnfilterSourceset,
                  TogglePlatformDependent, tabVars
    <2> QED  BY <2>2, <2>3, <2>4, <2>5, <2>6, <2>7, <2>8
  <1>2. Spec => []TabTypeOK
    BY TabTypeInit, TabTypeNext, PTL DEF Spec
  <1> QED  BY <1>1, <1>2, FilterInvHolds, PTL DEF Spec, AnchorOpensItsTab
=============================================================================
