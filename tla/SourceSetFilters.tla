-------------------------- MODULE SourceSetFilters --------------------------
(***************************************************************************)
(* The source set filters of the documentation pages: the part of          *)
(* docs/scripts/platform-content-handler.js that keeps, per open page, the *)
(* list of active filters, and in the browser's localStorage, shared by    *)
(* all pages, the list of those that were switched off.                    *)
(*                                                                         *)
(* Each element of Pages is a browser tab.  The script runs to completion  *)
(* between two events, so that a handler is one action; pages interleave   *)
(* handler by handler, and no page listens to what another one stores.     *)
(*                                                                         *)
(* filteringContext.restrictedDependencies is the constant Buttons (the    *)
(* buttons of #filter-section), filteringContext.dependencies, once it is  *)
(* restricted to the buttons, the constant Dependencies.  The stored list  *)
(* is read only by membership: it is the set inactive, and no list stored  *)
(* is the empty set.  What data-filterable-current and the buttons'        *)
(* data-active say is a function of the filters of the last refresh.       *)
(***************************************************************************)
EXTENDS Integers, Sequences

CONSTANTS
    Pages,        \* the browser tabs
    Buttons,      \* the source sets that have a filter button
    Dependencies, \* Dependencies[s]: the source sets s depends on, among Buttons
    Row           \* the source sets of a row of platform bookmarks, in order

ASSUME FilterAssumption ==
    /\ Dependencies \in [Buttons -> SUBSET Buttons]
    /\ Row \in Seq(Buttons)
    /\ Row # <<>>

VARIABLES
    phase,    \* phase[p]: how far the page is, see Phases
    active,   \* active[p]: filteringContext.activeFilters
    bookmark, \* bookmark[p]: the row's bookmark that has data-active
    messages, \* messages[p]: "all documentation is filtered" boxes in the page
    attached, \* attached[p]: is sourcesetNotification one of them?
    hidden,   \* hidden[p]: is main-content's display "none"?
    inactive, \* localStorage 'inactive-filters', shared by the pages
    synced    \* history: synced[p], the filters no other page has changed since
              \* p loaded or changed them itself

filterState == <<active, bookmark, messages, attached, hidden, synced>>
filterVars  == <<filterState, inactive>>

(* closed; opening, before the script runs; scripted, before the load event;
   loaded; broken, when the load handler threw before its end. *)
Phases == {"closed", "opening", "scripted", "loaded", "broken"}

\* The row as a page is delivered: its first bookmark is the active one.
FilterInit ==
    /\ active   = [p \in Pages |-> {}]
    /\ bookmark = [p \in Pages |-> Row[1]]
    /\ messages = [p \in Pages |-> 0]
    /\ attached = [p \in Pages |-> FALSE]
    /\ hidden   = [p \in Pages |-> FALSE]
    /\ inactive = {}
    /\ synced   = [p \in Pages |-> {}]

\* A new document: the script's variables and the elements as delivered.
FreshFilters(p) ==
    /\ active'   = [active EXCEPT ![p] = {}]
    /\ bookmark' = [bookmark EXCEPT ![p] = Row[1]]
    /\ messages' = [messages EXCEPT ![p] = 0]
    /\ attached' = [attached EXCEPT ![p] = FALSE]
    /\ hidden'   = [hidden EXCEPT ![p] = FALSE]
    /\ synced'   = [synced EXCEPT ![p] = {}]
    /\ UNCHANGED inactive

-----------------------------------------------------------------------------
(* refreshFiltering *)

Available(filters) == {i \in 1..Len(Row) : Row[i] \in filters}

FirstAvailable(filters) ==
    Row[CHOOSE i \in Available(filters) :
            \A j \in Available(filters) : i <= j]

(* Faulty: a bookmark that is filtered out counts as active. *)
RefreshPlatformTabs_AnyActive(current, filters) == current

(* A row whose active bookmark is filtered out gets a click on its first
   available one; the click reaches togglePlatformDependent at once, because
   the load handler attached it before it called initializeFiltering. *)
RefreshPlatformTabs(current, filters) ==
    IF current \in filters \/ Available(filters) = {}
    THEN current
    ELSE FirstAvailable(filters)

RefreshNoContentNotification(p, filters) ==
    /\ hidden' = [hidden EXCEPT ![p] = filters = {}]
    /\ \/ /\ filters = {}
          /\ messages' = [messages EXCEPT ![p] = @ + 1]
          /\ attached' = [attached EXCEPT ![p] = TRUE]
       \/ /\ filters # {} /\ attached[p]
          /\ messages' = [messages EXCEPT ![p] = @ - 1]
          /\ attached' = [attached EXCEPT ![p] = FALSE]
       \/ /\ filters # {} /\ ~attached[p]
          /\ UNCHANGED <<messages, attached>>

RefreshFiltering(p, filters) ==
    /\ active'   = [active EXCEPT ![p] = filters]
    /\ bookmark' = [bookmark EXCEPT ![p] = RefreshPlatformTabs(@, filters)]
    /\ RefreshNoContentNotification(p, filters)

-----------------------------------------------------------------------------
(* Handlers *)

AddSourcesetFilterToCache(s) == inactive' = inactive \cup {s}

\* removeSourcesetFilterFromCache, for each name in S.
RemoveSourcesetFilterFromCache(S) == inactive' = inactive \ S

\* initializeFiltering, called by the load handler.
InitializeFiltering(p) ==
    /\ RefreshFiltering(p, Buttons \ inactive)
    /\ synced' = [synced EXCEPT ![p] = Buttons]
    /\ UNCHANGED inactive

\* The bookkeeping of the history variable: p changed the filters in S.
Changes(p, S) ==
    synced' = [q \in Pages |-> IF q = p THEN synced[q] \cup S
                                        ELSE synced[q] \ S]

\* A click on an active button; filterButtonHandler sends it here.
FilterSourceset(p, s) ==
    /\ phase[p] = "loaded"
    /\ s \in active[p]
    /\ RefreshFiltering(p, active[p] \ {s})
    /\ AddSourcesetFilterToCache(s)
    /\ Changes(p, {s})
    /\ UNCHANGED phase

(* Faulty: the dependencies come back on the page but stay in the storage. *)
UnfilterFromNone_ForgetsDependencies(p, s) ==
    /\ phase[p] = "loaded"
    /\ active[p] = {}
    /\ RefreshFiltering(p, Dependencies[s] \cup {s})
    /\ RemoveSourcesetFilterFromCache({s})
    /\ Changes(p, Dependencies[s] \cup {s})
    /\ UNCHANGED phase

\* The first branch of unfilterSourceset: nothing was active.
UnfilterFromNone(p, s) ==
    LET shown == Dependencies[s] \cup {s} IN
    /\ phase[p] = "loaded"
    /\ active[p] = {}
    /\ RefreshFiltering(p, shown)
    /\ RemoveSourcesetFilterFromCache(shown)
    /\ Changes(p, shown)
    /\ UNCHANGED phase

\* Its second branch.
UnfilterSourceset(p, s) ==
    /\ phase[p] = "loaded"
    /\ active[p] # {}
    /\ s \notin active[p]
    /\ RefreshFiltering(p, active[p] \cup {s})
    /\ RemoveSourcesetFilterFromCache({s})
    /\ Changes(p, {s})
    /\ UNCHANGED phase

(* togglePlatformDependent, by a click of the user: on a bookmark that is not
   filtered out, in content that is displayed.  The load handler attaches it
   before anything in it can throw, and a page it leaves broken has filtered
   nothing. *)
TogglePlatformDependent(p, s) ==
    /\ \/ phase[p] = "loaded" /\ s \in active[p] /\ ~hidden[p]
       \/ phase[p] = "broken"
    /\ \E i \in 1..Len(Row) : Row[i] = s
    /\ bookmark' = [bookmark EXCEPT ![p] = s]
    /\ UNCHANGED <<phase, active, messages, attached, hidden, synced, inactive>>

FilterStep(p) ==
    \E s \in Buttons :
        \/ FilterSourceset(p, s)
        \/ UnfilterFromNone(p, s)
        \/ UnfilterSourceset(p, s)
        \/ TogglePlatformDependent(p, s)

-----------------------------------------------------------------------------
FilterTypeOK ==
    /\ phase    \in [Pages -> Phases]
    /\ active   \in [Pages -> SUBSET Buttons]
    /\ bookmark \in [Pages -> Buttons]
    /\ messages \in [Pages -> Nat]
    /\ attached \in [Pages -> BOOLEAN]
    /\ hidden   \in [Pages -> BOOLEAN]
    /\ inactive \subseteq Buttons
    /\ synced   \in [Pages -> SUBSET Buttons]

(* A loaded page shows and stores the same choice: a filter that no other
   page has changed since is stored as switched off exactly when the page has
   it off.  Without this, a reload would bring back a filter the reader
   removed; unfilterSourceset removes several names from the storage, one
   call of removeSourcesetFilterFromCache each, and two pages rewrite the
   same list. *)
StorageAgrees ==
    \A p \in Pages : phase[p] = "loaded" =>
        \A s \in synced[p] : s \in inactive <=> s \notin active[p]

(* The "all documentation is filtered" box is in a loaded page exactly once
   when no filter is active, together with the content being hidden, and not
   at all otherwise, however often the filters were emptied and refilled. *)
MessageMatches ==
    \A p \in Pages : phase[p] = "loaded" =>
        /\ messages[p] = IF active[p] = {} THEN 1 ELSE 0
        /\ hidden[p] <=> active[p] = {}

(* A row of platform bookmarks never shows a platform the reader filtered out
   while it has another one to show: refreshPlatformTabs moves the choice
   with every change of the filters, on load too. *)
RowShowsAvailable ==
    \A p \in Pages : phase[p] = "loaded" =>
        (bookmark[p] \in active[p] \/ Available(active[p]) = {})

(* What refreshFiltering has to keep in step with the filters: the box and the
   rows of a loaded page, through loading, clicks on filters and bookmarks. *)
PageShowsFilters == MessageMatches /\ RowShowsAvailable
=============================================================================
