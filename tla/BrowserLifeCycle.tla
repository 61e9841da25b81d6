--------------------------- MODULE BrowserLifeCycle ---------------------------
(***************************************************************************)
(* The browsers of SimpleHandler, from their creation to the end of the    *)
(* message loop.                                                           *)
(*                                                                         *)
(* CEF creates a browser in a later task of the UI thread and reports it   *)
(* with OnAfterCreated.  A close may be refused by the page; else CEF      *)
(* calls DoClose, closes the window, and calls OnBeforeClose.  When the    *)
(* list of browsers gets empty the message loop is asked to end.  What is  *)
(* posted by then may still run or not: the model goes on, so that a       *)
(* private popup that is created too late is listed, and gets a router of  *)
(* its own, and nothing here depends on when the loop really ends.         *)
(***************************************************************************)
EXTENDS Naturals, FiniteSets

CONSTANTS
    Browsers,
    NoBrowser,
    PrivatePopups,  \* whether pages open windows named "private"
    CachePath,      \* whether the switch for the cache path is given
    SharedCache,    \* whether the switch for a shared cache is given
    MaxSeconds      \* bound: seconds that pass

ASSUME LifeCycleAssumption ==
    /\ NoBrowser \notin Browsers
    /\ {PrivatePopups, CachePath, SharedCache} \subseteq BOOLEAN
    /\ MaxSeconds \in Nat

VARIABLES
    phase,          \* browser -> where CEF is with it
    kind,           \* browser -> how it was created
    opener,         \* browser -> the one it is a popup or the tools of
    forced,         \* browser -> whether its page is asked before it is closed
    browserList,    \* browser_list_
    router,         \* whether message_router_ is set
    handlers,       \* whether message_handler_set_ has its handler
    isClosing,      \* is_closing_
    quit,           \* whether CefQuitMessageLoop was called
    cache,          \* browser -> cache path of its request context
    now             \* time(NULL)

vars == <<phase, kind, opener, forced, browserList, router, handlers, isClosing,
          quit, cache, now>>

handlerVars == <<browserList, router, handlers, isClosing, quit>>
origin      == <<kind, opener, cache>>

Phases == {"none", "creating", "open", "unloading", "closing", "closed"}
Kinds  == {"first", "popup", "private", "devtools"}
Listed == {"open", "unloading", "closing"}

\* Cache paths: none for a cache in memory, that of the application, and one below
\* it named after the second the context was created in.
InMemory    == <<>>
Application == <<"cache">>
CachePaths  == {InMemory, Application} \cup {<<"cache", t>> : t \in 0..MaxSeconds}

\* OnContextInitialized has created the first browser.
Init ==
    /\ \E first \in Browsers :
         phase = [b \in Browsers |-> IF b = first THEN "creating" ELSE "none"]
    /\ kind = [b \in Browsers |-> "first"]
    /\ opener = [b \in Browsers |-> NoBrowser]
    /\ forced = [b \in Browsers |-> FALSE]
    /\ cache = [b \in Browsers |-> Application]
    /\ browserList = {} /\ router = FALSE /\ handlers = FALSE
    /\ isClosing = FALSE /\ quit = FALSE /\ now = 0

------------------------------------------------------------------------------
\* Creation.

\* Browsers of one kind of creation are told apart by the number of them only.
Created(b, k, from, path) ==
    /\ phase[b] = "none"
    /\ phase' = [phase EXCEPT ![b] = "creating"]
    /\ kind' = [kind EXCEPT ![b] = k]
    /\ opener' = [opener EXCEPT ![b] = from]
    /\ cache' = [cache EXCEPT ![b] = path]

\* GetRequestContext.
ContextPath ==
    IF ~CachePath THEN InMemory ELSE IF SharedCache THEN Application ELSE <<"cache", now>>

\* OnBeforePopup: a private popup is created apart from its opener, any other is
\* left to CEF, which creates it in the context of the opener.
OnBeforePopup(b, new) ==
    /\ phase[b] \in {"open", "unloading"}
    /\ \/ PrivatePopups /\ Created(new, "private", NoBrowser, ContextPath)
       \/ Created(new, "popup", b, cache[b])
    /\ UNCHANGED <<forced, handlerVars, now>>

\* OnAfterCreated.
OnAfterCreated(b) ==
    /\ phase[b] = "creating"
    /\ phase' = [phase EXCEPT ![b] = "open"]
    /\ router' = TRUE
    /\ handlers' = (handlers \/ ~router)
    /\ browserList' = browserList \cup {b}
    /\ UNCHANGED <<origin, forced, isClosing, quit, now>>

\* The tools of b, from ShowDevTools to their OnBeforeClose.
DevToolsOf(b) ==
    {d \in Browsers : /\ opener[d] = b /\ kind[d] = "devtools"
                      /\ phase[d] \in Listed \cup {"creating"}}

------------------------------------------------------------------------------
\* Closing.

\* CloseBrowser of every browser in the set: an open one is to be unloaded.
Closing(Some, force) ==
    /\ phase' = [b \in Browsers |->
                   IF b \in Some /\ phase[b] = "open" THEN "unloading" ELSE phase[b]]
    /\ forced' = [b \in Browsers |->
                    forced[b] \/ (b \in Some /\ force /\ phase[b] \in {"open", "unloading"})]

\* The user, CanClose of the window or window.close() closes a browser.
CloseBrowser(b, force) ==
    /\ phase[b] = "open"
    /\ Closing({b}, force)
    /\ UNCHANGED <<origin, handlerVars, now>>

\* OnKeyEvent, F12: ShowDevTools opens the tools of b, or closes them; it does
\* nothing in the tools themselves.
ShowDevTools(b, new) ==
    /\ phase[b] \in {"open", "unloading"}
    /\ kind[b] # "devtools"
    /\ \/ /\ DevToolsOf(b) = {}
          /\ Created(new, "devtools", b, cache[b])
          /\ UNCHANGED forced
       \/ /\ DevToolsOf(b) # {}
          /\ Closing(DevToolsOf(b), TRUE)
          /\ UNCHANGED origin
    /\ UNCHANGED <<handlerVars, now>>

\* The page refuses to be unloaded.
RefuseClose(b) ==
    /\ phase[b] = "unloading"
    /\ ~forced[b]
    /\ phase' = [phase EXCEPT ![b] = "open"]
    /\ UNCHANGED <<origin, forced, handlerVars, now>>

\* DoClose.
DoClose(b) ==
    /\ phase[b] = "unloading"
    /\ phase' = [phase EXCEPT ![b] = "closing"]
    /\ isClosing' = (isClosing \/ Cardinality(browserList) = 1)
    /\ UNCHANGED <<origin, forced, browserList, router, handlers, quit, now>>

\* Mutant: the router is dropped when one browser is left, not none.
LastOfOne(rest) == Cardinality(rest) <= 1

\* Whether OnBeforeClose was that of the last browser in the list.
Last(rest) == rest = {}

\* CEF cancels popups that are not created yet when their opener goes.
Canceled(b) == {p \in Browsers : phase[p] = "creating" /\ opener[p] = b}

\* OnBeforeClose.
OnBeforeClose(b) ==
    LET rest == browserList \ {b} IN
    /\ phase[b] = "closing"
    /\ phase' = [p \in Browsers |->
                   IF p = b \/ p \in Canceled(b) THEN "closed" ELSE phase[p]]
    /\ browserList' = rest
    /\ router' = (router /\ ~Last(rest))
    /\ handlers' = (handlers /\ ~Last(rest))
    /\ quit' = (quit \/ Last(rest))
    /\ UNCHANGED <<origin, forced, isClosing, now>>

\* A second passes.
Tick ==
    /\ now < MaxSeconds
    /\ now' = now + 1
    /\ UNCHANGED <<phase, origin, forced, handlerVars>>

------------------------------------------------------------------------------

Next ==
    \/ \E b, new \in Browsers : OnBeforePopup(b, new) \/ ShowDevTools(b, new)
    \/ \E b \in Browsers :
         \/ OnAfterCreated(b) \/ RefuseClose(b) \/ DoClose(b) \/ OnBeforeClose(b)
         \/ \E force \in BOOLEAN : CloseBrowser(b, force)
    \/ Tick

Spec == Init /\ [][Next]_vars

------------------------------------------------------------------------------
\* Properties.

\* Every variable keeps its type.
TypeOK ==
    /\ phase \in [Browsers -> Phases]
    /\ kind \in [Browsers -> Kinds]
    /\ opener \in [Browsers -> Browsers \cup {NoBrowser}]
    /\ forced \in [Browsers -> BOOLEAN]
    /\ browserList \in SUBSET Browsers
    /\ {router, handlers, isClosing, quit} \subseteq BOOLEAN
    /\ cache \in [Browsers -> CachePaths]
    /\ now \in 0..MaxSeconds

\* The callbacks of a browser use message_router_ without a check, from
\* OnAfterCreated to OnBeforeClose; its handlers are there as long.
RouterServesBrowsers ==
    \A b \in Browsers : phase[b] \in Listed => router /\ handlers

\* The application does not go on without a window, nor one to come.
NoZombieProcess ==
    (\A b \in Browsers : phase[b] \in {"none", "closed"}) => quit

\* simple_handler.cc: all browser windows have closed when the loop is quit.
\* Popups to come are canceled with their opener, so only a private popup, which
\* OnBeforePopup creates on its own, can still be on its way.
QuitIsLast ==
    [][~quit /\ quit' => \A b \in Browsers :
         \/ phase'[b] \in {"none", "closed"}
         \/ phase'[b] = "creating" /\ kind'[b] = "private"]_vars

\* The message loop is quit with the last browser, neither later nor sooner.
QuitsWithTheLast == []NoZombieProcess /\ QuitIsLast

\* The router and its handler come before the first browser and go with the last
\* one, popups that are canceled and private ones that come too late
\* notwithstanding, as Windows describes it: a late one finds a new router.
Host == INSTANCE Windows WITH
    listed <- browserList,
    past <- {b \in Browsers : phase[b] = "closed"},
    router <- IF router /\ handlers THEN "up"
              ELSE IF ~router /\ ~handlers THEN "none" ELSE "half"

KeepsWindowsContract == Host!Spec

------------------------------------------------------------------------------
\* What the comments say and the code does not do.

\* simple_handler.cc: a private browser gets a unique cache path, which makes its
\* context completely isolated.
PrivateIsIsolated ==
    LET WithContext == {b \in Browsers : phase[b] # "none" /\ kind[b] \in {"first", "private"}} IN
    \A b, p \in WithContext :
      b # p /\ cache[b] # InMemory /\ ~SharedCache => cache[b] # cache[p]
==============================================================================
