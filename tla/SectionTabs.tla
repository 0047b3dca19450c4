---------------------------- MODULE SectionTabs ----------------------------
(***************************************************************************)
(* The section tabs of a documentation page and the anchors into it: the   *)
(* part of docs/scripts/platform-content-handler.js that shows one tab's   *)
(* sections, remembers the last tab chosen in localStorage (shared by all  *)
(* pages), and brings the target of the address's hash into view, at once  *)
(* or, before the load handler is done, 50 ms later.                       *)
(*                                                                         *)
(* toggleSections gives data-active to one tab button and to the sections  *)
(* that tab lists and takes it from the others, so that tab[p] stands for  *)
(* both.  The element an anchor stands before is hidden in one of three    *)
(* ways: by itself, when it carries its section's data-togglable and that  *)
(* is not active (Marked); by itself, when the filters left nothing of it; *)
(* or only by an element around it.  getComputedStyle sees the first two.  *)
(***************************************************************************)
EXTENDS SourceSetFilters

CONSTANTS
    Tabs,       \* Tabs[p]: the tabs of the document in p
    FirstTab,   \* FirstTab[p]: the one delivered with data-active, or NoTab
    Anchors,    \* Anchors[p]: the names of its a[data-name] elements
    TabOf,      \* TabOf[a]: the tab that lists the section around anchor a
    Marked,     \* the anchors whose content carries data-togglable itself
    SourceSets, \* SourceSets[a]: data-filterable-set of the content of a
    NoTab, NoAnchor,
    MaxTimers   \* bound: timers pending when a hash change is allowed

AllTabs    == UNION {Tabs[p] : p \in Pages}
AllAnchors == UNION {Anchors[p] : p \in Pages}

ASSUME TabsAssumption ==
    /\ NoTab \notin AllTabs
    /\ NoAnchor \notin AllAnchors
    /\ FirstTab \in [Pages -> AllTabs \cup {NoTab}]
    /\ \A p \in Pages : FirstTab[p] \in IF Tabs[p] = {} THEN {NoTab} ELSE Tabs[p]
    /\ TabOf \in [AllAnchors -> AllTabs \cup {NoTab}]
    /\ \A p \in Pages : \A a \in Anchors[p] :
           TabOf[a] \in IF Tabs[p] = {} THEN {NoTab} ELSE Tabs[p]
    /\ Marked \subseteq AllAnchors
    /\ SourceSets \in [AllAnchors -> SUBSET Buttons]
    /\ MaxTimers \in Nat

VARIABLES
    tab,         \* tab[p]: the tab whose sections are shown, NoTab for none
    hash,        \* hash[p]: window.location.hash
    highlighted, \* highlighted[p]: highlightedAnchor
    scrolledTo,  \* scrolledTo[p]: the anchor #main was last scrolled to
    timers,      \* timers[p]: anchors of the pending timers of waitAndScroll
    storedTab    \* localStorage 'active-tab', shared by the pages

tabVars == <<tab, hash, highlighted, scrolledTo, timers, storedTab>>

TabInit ==
    /\ tab         = [p \in Pages |-> NoTab]
    /\ hash        = [p \in Pages |-> NoAnchor]
    /\ highlighted = [p \in Pages |-> NoAnchor]
    /\ scrolledTo  = [p \in Pages |-> NoAnchor]
    /\ timers      = [p \in Pages |-> <<>>]
    /\ storedTab   = NoTab

\* A new document at address a; its sections wait for the script.
FreshTabs(p, a) ==
    /\ tab'         = [tab EXCEPT ![p] = NoTab]
    /\ hash'        = [hash EXCEPT ![p] = a]
    /\ highlighted' = [highlighted EXCEPT ![p] = NoAnchor]
    /\ scrolledTo'  = [scrolledTo EXCEPT ![p] = NoAnchor]
    /\ timers'      = [timers EXCEPT ![p] = <<>>]
    /\ UNCHANGED storedTab

-----------------------------------------------------------------------------
(* Faulty: a page without tabs takes the remembered one too. *)
InitTabs_AnyPage(p) ==
    IF storedTab # NoTab THEN storedTab ELSE FirstTab[p]

(* The page's own first tab, then the tab remembered from any page, if this
   page has it. *)
InitTabs(p) ==
    IF storedTab \in Tabs[p] THEN storedTab ELSE FirstTab[p]

\* The content of a has nothing left under these filters.
FilteredOut(a, filters) == SourceSets[a] \cap filters = {}

\* handleAnchor: the tab after the anchor's content was looked at.
TabForAnchor(a, shown, filters) ==
    IF \/ a \in Marked /\ shown # TabOf[a]
       \/ FilteredOut(a, filters)
    THEN TabOf[a]
    ELSE shown

(* scrollToElement: the offset of an element that is not displayed is 0, so
   that the page goes to its top instead. *)
Landing(a, shown, filters, contentHidden) ==
    IF shown = TabOf[a] /\ ~FilteredOut(a, filters) /\ ~contentHidden
    THEN a
    ELSE NoAnchor

(* scrollToElementInContent: at once if topNavbarOffset is set, else by a
   timer. *)
ScrollToElementInContent(p, a, landing, navbarKnown) ==
    \/ /\ navbarKnown
       /\ scrolledTo' = [scrolledTo EXCEPT ![p] = landing]
       /\ UNCHANGED timers
    \/ /\ ~navbarKnown
       /\ timers' = [timers EXCEPT ![p] = Append(@, a)]
       /\ UNCHANGED scrolledTo

\* One tab's button and sections get data-active, the others lose it.
ToggleSections(p, t) == tab' = [tab EXCEPT ![p] = t]

(* handleAnchor for hash a, with the tab shown and the filters in force, and
   whether main-content is hidden and topNavbarOffset set. *)
HandleAnchor(p, a, shown, filters, contentHidden, navbarKnown) ==
    /\ highlighted' = [highlighted EXCEPT
                          ![p] = IF a \in Anchors[p] THEN a ELSE NoAnchor]
    /\ \/ /\ a \in Anchors[p]
          /\ LET after == TabForAnchor(a, shown, filters) IN
             /\ ToggleSections(p, after)
             /\ ScrollToElementInContent(p, a,
                    Landing(a, after, filters, contentHidden), navbarKnown)
       \/ /\ a \notin Anchors[p]
          /\ ToggleSections(p, shown)
          /\ UNCHANGED <<scrolledTo, timers>>

-----------------------------------------------------------------------------
(* Handlers *)

\* What the page filters by: a page whose load handler has not got that far
\* shows everything.
Filters(p) == IF phase[p] = "loaded" THEN active[p] ELSE Buttons

(* toggleSectionsEventHandler, attached to the tab row twice; the second run
   repeats the first. *)
ToggleSectionsEventHandler(p, t) ==
    /\ phase[p] \in {"loaded", "broken"}
    /\ ~hidden[p]
    /\ t \in Tabs[p]
    /\ storedTab' = t
    /\ ToggleSections(p, t)
    /\ UNCHANGED <<phase, filterVars, hash, highlighted, scrolledTo, timers>>

\* The address changes before the script has set window.onhashchange.
HashChangeUnheard(p, a) ==
    /\ phase[p] = "opening"
    /\ a # hash[p]
    /\ hash' = [hash EXCEPT ![p] = a]
    /\ UNCHANGED <<phase, filterVars, tab, highlighted, scrolledTo, timers,
                   storedTab>>

HashChange(p, a) ==
    /\ phase[p] \in {"scripted", "loaded", "broken"}
    /\ a # hash[p]
    /\ Len(timers[p]) < MaxTimers
    /\ hash' = [hash EXCEPT ![p] = a]
    /\ HandleAnchor(p, a, tab[p], Filters(p), hidden[p], phase[p] = "loaded")
    /\ UNCHANGED <<phase, filterVars, storedTab>>

(* The oldest timer of waitAndScroll fires.  Without topNavbarOffset it calls
   waitForScroll, which no script defines: the ReferenceError ends the timer
   and nothing scrolls. *)
FireTimer(p) ==
    /\ timers[p] # <<>>
    /\ timers' = [timers EXCEPT ![p] = Tail(@)]
    /\ scrolledTo' = [scrolledTo EXCEPT
           ![p] = IF phase[p] = "loaded"
                  THEN Landing(Head(timers[p]), tab[p], active[p], hidden[p])
                  ELSE @]
    /\ UNCHANGED <<phase, filterVars, tab, hash, highlighted, storedTab>>

TabStep(p) ==
    \/ \E t \in Tabs[p] : ToggleSectionsEventHandler(p, t)
    \/ \E a \in Anchors[p] \cup {NoAnchor} :
           HashChangeUnheard(p, a) \/ HashChange(p, a)
    \/ FireTimer(p)

-----------------------------------------------------------------------------
TabTypeOK ==
    /\ tab         \in [Pages -> AllTabs \cup {NoTab}]
    /\ hash        \in [Pages -> AllAnchors \cup {NoAnchor}]
    /\ highlighted \in [Pages -> AllAnchors \cup {NoAnchor}]
    /\ scrolledTo  \in [Pages -> AllAnchors \cup {NoAnchor}]
    /\ timers      \in [Pages -> Seq(AllAnchors)]
    /\ storedTab   \in AllTabs \cup {NoTab}
    /\ \A p \in Pages : tab[p] \in Tabs[p] \cup {NoTab}
=============================================================================
