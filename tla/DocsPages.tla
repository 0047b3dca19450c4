----------------------------- MODULE DocsPages -----------------------------
(***************************************************************************)
(* Documentation pages open side by side in one browser: SourceSetFilters  *)
(* and SectionTabs composed by the load handler, which initialises the     *)
(* filters, then the tabs, then looks at the anchor, and only then knows   *)
(* the height of the navigation bar.  Pages are opened, closed and         *)
(* reloaded at any time; what outlives them is the browser's localStorage. *)
(*                                                                         *)
(* Fault: sourceset_dependencies.js does not arrive.  initializeFiltering  *)
(* then throws, and the rest of the load handler does not run.             *)
(***************************************************************************)
EXTENDS SectionTabs

vars == <<phase, filterVars, tabVars>>

Init ==
    /\ phase = [p \in Pages |-> "closed"]
    /\ FilterInit
    /\ TabInit

Goto(p, from, to) ==
    /\ phase[p] \in from
    /\ phase' = [phase EXCEPT ![p] = to]

\* The browser opens the document in p, at its beginning or at an anchor.
Open(p, a) ==
    /\ Goto(p, {"closed"}, "opening")
    /\ FreshFilters(p)
    /\ FreshTabs(p, a)

\* The script is run: window.onhashchange and the load listener are set.
RunScript(p) ==
    /\ Goto(p, {"opening"}, "scripted")
    /\ UNCHANGED <<filterVars, tabVars>>

(* Faulty: the tabs are initialised after the anchor was looked at. *)
Load_TabsLast(p) ==
    /\ Goto(p, {"scripted"}, "loaded")
    /\ InitializeFiltering(p)
    /\ ToggleSections(p, InitTabs(p))
    /\ highlighted' = [highlighted EXCEPT ![p] = hash[p]]
    /\ timers' = [timers EXCEPT ![p] = IF hash[p] \in Anchors[p]
                                       THEN Append(@, hash[p]) ELSE @]
    /\ UNCHANGED <<hash, scrolledTo, storedTab>>

(* Faulty: handleAnchor is left to hashchange. *)
Load_NoAnchor(p) ==
    /\ Goto(p, {"scripted"}, "loaded")
    /\ InitializeFiltering(p)
    /\ ToggleSections(p, InitTabs(p))
    /\ UNCHANGED <<hash, highlighted, scrolledTo, timers, storedTab>>

\* The load event: initializeFiltering, initTabs, handleAnchor, then
\* topNavbarOffset (phase "loaded").
Load(p) ==
    /\ Goto(p, {"scripted"}, "loaded")
    /\ InitializeFiltering(p)
    /\ HandleAnchor(p, hash[p], InitTabs(p), Buttons \ inactive,
                    Buttons \subseteq inactive, FALSE)
    /\ UNCHANGED <<hash, storedTab>>

(* The load event when sourceset_dependencies is undefined: the listeners
   are attached, everything after initializeFiltering is skipped.  A click on
   a filter button then throws before it changes anything. *)
LoadThrows(p) ==
    /\ Goto(p, {"scripted"}, "broken")
    /\ UNCHANGED <<filterVars, tabVars>>

\* The page is closed or left; a reload is this and Open.
Close(p) ==
    /\ Goto(p, Phases \ {"closed"}, "closed")
    /\ FreshFilters(p)
    /\ FreshTabs(p, NoAnchor)

Next ==
    \E p \in Pages :
        \/ \E a \in Anchors[p] \cup {NoAnchor} : Open(p, a)
        \/ RunScript(p)
        \/ Load(p)
        \/ LoadThrows(p)
        \/ Close(p)
        \/ FilterStep(p) /\ UNCHANGED tabVars
        \/ TabStep(p)

(* The browser runs the script and fires the load event once the resources
   have arrived or failed, and its timers run. *)
Fairness ==
    \A p \in Pages :
        /\ WF_vars(RunScript(p))
        /\ WF_vars(Load(p) \/ LoadThrows(p))
        /\ WF_vars(FireTimer(p))

Spec == Init /\ [][Next]_vars /\ Fairness

-----------------------------------------------------------------------------
TypeOK == FilterTypeOK /\ TabTypeOK

(* The address wins over the remembered tab: when a page loads at an anchor
   whose content carries its tab's name, or the hash changes to one, that tab
   is the one shown and that content the one highlighted, whichever tab was
   last chosen on this page or another one. *)
AnchorOpensItsTab ==
    [][\A p \in Pages : \A a \in Anchors[p] \cap Marked :
           (/\ phase'[p] = "loaded"
            /\ hash'[p] = a
            /\ phase[p] = "scripted" \/ hash[p] # a)
               => tab'[p] = TabOf[a] /\ highlighted'[p] = a]_vars

(* A page opened at an anchor, or sent to one before it has loaded, is in the
   end scrolled there, although the scroll is first tried by a timer that
   gives up for good when it fires before the load handler is done.  Excused:
   the reader closes the page, leaves the anchor or its tab or filters it
   out, or the load handler threw. *)
AnchorReached ==
    \A p \in Pages : \A a \in Anchors[p] :
        (phase[p] \in {"opening", "scripted"} /\ hash[p] = a)
            ~> \/ scrolledTo[p] = a
               \/ hash[p] # a
               \/ phase[p] \in {"closed", "broken"}
               \/ phase[p] = "loaded" /\ Landing(a, tab[p], active[p], hidden[p]) # a
=============================================================================
