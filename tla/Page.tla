--------------------------------- MODULE Page ----------------------------------
(***************************************************************************)
(* One page of the site in the browser, with its scripts (resources/js).   *)
(* The pages name their scripts at the end of the body, in the order of    *)
(* Scripts; each is fetched from the server by itself, and the fetch may   *)
(* fail.  custom.js binds handlers at once, smoothscroll.js, the popup     *)
(* options and custom.js also leave callbacks for DOM ready.  Meanwhile    *)
(* and afterwards the user scrolls and clicks links.  Every link of the    *)
(* site is a path, as "/picture": no page has a link to one of its own     *)
(* sections, and none has an element of the class image-popup.             *)
(***************************************************************************)
EXTENDS Integers, Sequences, SequencesExt

CONSTANT Stops  \* the positions the user scrolls to

ASSUME PageAssumption == Stops \subseteq Nat /\ 0 \in Stops

VARIABLES phase,      \* "parsing", "alert", "parsed", "ready", "complete"; "left" for good
          next,       \* index in Scripts of the script the parser waits for
          loaded,     \* the scripts that arrived
          readyList,  \* callbacks waiting for DOM ready, in order
          bindings,   \* click handlers bound to links, in order
          bound,      \* which of "load" and "scroll" the window has a handler for
          preloader,  \* the overlay: "shown", "fading", "gone"
          pos,        \* scrollTop of the document
          scrollEvt,  \* the last scroll event: "none", "pending", "handled", "missed"
          topNav,     \* the navbar has the class top-nav-collapse
          clicked     \* history: a link was clicked

scriptVars == <<next, loaded, readyList, bindings, bound>>
scrollVars == <<pos, scrollEvt, topNav>>
vars == <<phase, scriptVars, preloader, scrollVars, clicked>>

(* The scripts in the order in which every page names them. *)
Scripts == <<"jquery", "bootstrap", "smoothscroll", "magnific", "options", "wow", "custom">>

(* The site's name in the header, and the entries of the menu. *)
Links == {"brand", "menu"}

TypeOK ==
  /\ phase \in {"parsing", "alert", "parsed", "ready", "complete", "left"}
  /\ next \in 1..(Len(Scripts) + 1) /\ loaded \subseteq Range(Scripts)
  /\ readyList \in Seq({"local", "popup", "anchor"})
  /\ bindings \in Seq({"collapse", "anchor"})
  /\ bound \subseteq {"load", "scroll"}
  /\ preloader \in {"shown", "fading", "gone"}
  /\ pos \in Stops /\ scrollEvt \in {"none", "pending", "handled", "missed"}
  /\ topNav \in BOOLEAN /\ clicked \in BOOLEAN

Init ==
  /\ phase = "parsing" /\ next = 1 /\ loaded = {}
  /\ readyList = <<>> /\ bindings = <<>> /\ bound = {}
  /\ preloader = "shown"
  /\ pos = 0 /\ scrollEvt = "none" /\ topNav = FALSE
  /\ clicked = FALSE

(* The page is there and no dialog holds it up. *)
Here == phase \notin {"alert", "left"}

-------------------------------------------------------------------------------
(* What each script leaves, given the scripts that have arrived.             *)

Nothing == [win |-> {}, click |-> <<>>, ready |-> <<>>]

(* bootstrap and magnific-popup define their plugins only if they find jQuery. *)
BootstrapRuns(have) == {"jquery", "bootstrap"} \subseteq have
MagnificRuns(have) == {"jquery", "magnific"} \subseteq have

(* smoothscroll.js says in a dialog that jQuery is missing, and then throws. *)
SmoothscrollAlerts(have) == "jquery" \notin have

(* Otherwise it leaves one callback, localScroll for the links .smoothScroll. *)
SmoothscrollBinds(have) ==
  IF SmoothscrollAlerts(have) THEN Nothing ELSE [Nothing EXCEPT !.ready = <<"local">>]

(* magnific-popup-options.js leaves one callback. *)
OptionsBinds(have) ==
  IF "jquery" \in have THEN [Nothing EXCEPT !.ready = <<"popup">>] ELSE Nothing

(* Fault: custom.js creates the WOW object first. *)
CustomBinds_WowFirst(have) ==
  IF {"jquery", "wow"} \subseteq have
  THEN [win |-> {"load", "scroll"}, click |-> <<"collapse">>, ready |-> <<"anchor">>]
  ELSE Nothing

(* custom.js: the handlers bound while it runs and the callback it leaves.  Its
   last statement, new WOW, throws without wow.min.js and loses nothing. *)
CustomBinds(have) ==
  IF "jquery" \in have
  THEN [win |-> {"load", "scroll"}, click |-> <<"collapse">>, ready |-> <<"anchor">>]
  ELSE Nothing

Binds(s, have) ==
  CASE s \notin have -> Nothing
    [] s \in have /\ s = "smoothscroll" -> SmoothscrollBinds(have)
    [] s \in have /\ s = "options" -> OptionsBinds(have)
    [] s \in have /\ s = "custom" -> CustomBinds(have)
    [] s \in have /\ s \notin {"smoothscroll", "options", "custom"} -> Nothing

-------------------------------------------------------------------------------
(* Loading.                                                                  *)

(* The next script arrives and runs, or its fetch fails. *)
RunScript ==
  /\ phase = "parsing" /\ next <= Len(Scripts)
  /\ LET s == Scripts[next] IN
     \E have \in {loaded, loaded \cup {s}} :
       LET b == Binds(s, have) IN
       /\ loaded' = have
       /\ bound' = bound \cup b.win
       /\ bindings' = bindings \o b.click
       /\ readyList' = readyList \o b.ready
       /\ phase' = IF s = "smoothscroll" /\ s \in have /\ SmoothscrollAlerts(have) THEN "alert"
                   ELSE IF next = Len(Scripts) THEN "parsed"
                   ELSE "parsing"
  /\ next' = next + 1
  /\ UNCHANGED <<preloader, scrollVars, clicked>>

(* The user closes the dialog. *)
DismissAlert ==
  /\ phase = "alert"
  /\ phase' = "parsing"
  /\ UNCHANGED <<scriptVars, preloader, scrollVars, clicked>>

(* jQuery calls the callbacks of a list in order, and the first exception ends
   the round: e0 is what they find, the result what they leave. *)
Called(list, e0, Run(_, _)) ==
  LET after[i \in 0..Len(list)] ==
        IF i = 0 THEN e0
        ELSE IF after[i - 1].threw THEN after[i - 1]
        ELSE Run(after[i - 1], list[i])
  IN after[Len(list)]

(* localScroll binds links with a hash only, and there are none. *)
LocalScroll(e) == e

(* magnifPopup calls the plugin, which finds no element to bind and is missing
   if its script is. *)
MagnifPopup(e) == [e EXCEPT !.threw = ~MagnificRuns(loaded)]

(* custom.js binds its smooth scrolling to the links of the navbar. *)
BindAnchor(e) == [e EXCEPT !.bindings = Append(@, "anchor")]

ReadyCallback(e, c) ==
  CASE c = "local" -> LocalScroll(e)
    [] c = "popup" -> MagnifPopup(e)
    [] c = "anchor" -> BindAnchor(e)

(* DOMContentLoaded. *)
DomReady ==
  /\ phase = "parsed"
  /\ phase' = "ready"
  /\ bindings' = Called(readyList, [threw |-> FALSE, bindings |-> bindings], ReadyCallback).bindings
  /\ readyList' = <<>>
  /\ UNCHANGED <<next, loaded, bound, preloader, scrollVars, clicked>>

(* The window's load event: $('.preloader').fadeOut(1000). *)
WindowLoad ==
  /\ phase = "ready"
  /\ phase' = "complete"
  /\ preloader' = IF "load" \in bound THEN "fading" ELSE preloader
  /\ UNCHANGED <<scriptVars, scrollVars, clicked>>

FadeEnds ==
  /\ Here /\ preloader = "fading"
  /\ preloader' = "gone"
  /\ UNCHANGED <<phase, scriptVars, scrollVars, clicked>>

-------------------------------------------------------------------------------
(* A click on a link.  The effect of the click so far: whether a handler threw
   and whether the default action was prevented.                             *)

(* $(".navbar-collapse").collapse('hide') is no method without bootstrap.  The
   links of the menu have this handler, the site's name has not. *)
CollapseHandler(e, h) ==
  IF h = "menu" /\ ~BootstrapRuns(loaded) THEN [e EXCEPT !.threw = TRUE] ELSE e

(* Fault: the default action is prevented before the target is looked up. *)
AnchorHandler_PreventsFirst(e) == [e EXCEPT !.prevented = TRUE, !.threw = TRUE]

(* custom.js wants to scroll to the element that the link names, but $(href) of a
   path is a syntax error: it throws before animate and preventDefault. *)
AnchorHandler(e) == [e EXCEPT !.threw = TRUE]

Handle(c, e, h) ==
  CASE c = "collapse" -> CollapseHandler(e, h)
    [] c = "anchor" -> AnchorHandler(e)

(* The handlers are called in the order they were bound; an exception leaves the
   event to the browser as it is. *)
Dispatch(e0, h) == Called(bindings, e0, LAMBDA e, c : Handle(c, e, h))

(* The browser goes to the other page, unless a handler prevented it. *)
Click(h) ==
  /\ Here
  /\ phase' = IF Dispatch([threw |-> FALSE, prevented |-> FALSE], h).prevented THEN phase ELSE "left"
  /\ clicked' = TRUE
  /\ UNCHANGED <<scriptVars, preloader, scrollVars>>

-------------------------------------------------------------------------------
(* Scrolling.                                                                *)

(* A change of the position schedules a scroll event; several become one. *)
UserScroll(p) ==
  /\ Here /\ p # pos
  /\ pos' = p
  /\ scrollEvt' = "pending"
  /\ UNCHANGED <<phase, scriptVars, preloader, topNav, clicked>>

(* Fault: the class is only ever added. *)
HandleScroll_NeverRemoves ==
  /\ Here /\ scrollEvt = "pending"
  /\ IF "scroll" \in bound
     THEN topNav' = (topNav \/ pos > 50) /\ scrollEvt' = "handled"
     ELSE topNav' = topNav /\ scrollEvt' = "missed"
  /\ UNCHANGED <<phase, scriptVars, preloader, pos, clicked>>

(* The scroll event.  The navbar is fixed, so its offset in the document is the
   position at the time of the call. *)
HandleScroll ==
  /\ Here /\ scrollEvt = "pending"
  /\ IF "scroll" \in bound
     THEN topNav' = (pos > 50) /\ scrollEvt' = "handled"
     ELSE topNav' = topNav /\ scrollEvt' = "missed"
  /\ UNCHANGED <<phase, scriptVars, preloader, pos, clicked>>

Next ==
  \/ RunScript \/ DismissAlert \/ DomReady \/ WindowLoad \/ FadeEnds
  \/ \E h \in Links : Click(h)
  \/ \E p \in Stops : UserScroll(p)
  \/ HandleScroll

(* The browser goes on loading, fading and delivering events; the user need not
   do anything, not even close the dialog. *)
Spec ==
  /\ Init /\ [][Next]_vars
  /\ WF_vars(RunScript) /\ WF_vars(DomReady) /\ WF_vars(WindowLoad)
  /\ WF_vars(FadeEnds) /\ WF_vars(HandleScroll)

-------------------------------------------------------------------------------
(* The overlay that covers the page goes away whenever jquery.js and custom.js
   arrived, whatever became of the other scripts (custom.js:6 binds it before
   anything that can fail), or the user leaves. *)
PreloaderGoes ==
  (phase = "parsed" /\ {"jquery", "custom"} \subseteq loaded)
    ~> (preloader = "gone" \/ phase = "left")

(* A link to another page is followed in every state of loading, with every
   script missing or present, although custom.js:27 binds its smooth scrolling
   to it and calls preventDefault. *)
PageLinksFollowed == clicked => phase = "left"

(* However the user scrolls while the scripts arrive and after, and whichever of
   the others fail, a page with jquery.js and custom.js whose scroll event is
   still to come ends up with the navbar compact exactly beyond position 50
   (custom.js:16): the event need not have been scheduled after the binding. *)
NavbarFollows ==
  ({"jquery", "custom"} \subseteq loaded /\ scrollEvt = "pending")
    ~> (phase = "left" \/ (scrollEvt = "handled" /\ (topNav <=> pos > 50)))
===============================================================================
