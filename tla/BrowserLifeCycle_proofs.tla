------------------------ MODULE BrowserLifeCycle_proofs ------------------------
(***************************************************************************)
(* For any number of browsers, however they are opened and closed: the     *)
(* router is there as long as one may use it, and the message loop is quit *)
(* with the last browser, neither before nor never.                        *)
(***************************************************************************)
EXTENDS BrowserLifeCycle, TLAPS

\* The types the invariant needs.
PhaseType ==
    /\ phase \in [Browsers -> Phases]
    /\ kind \in [Browsers -> Kinds]
    /\ opener \in [Browsers -> Browsers \cup {NoBrowser}]

\* The list holds the browsers between OnAfterCreated and OnBeforeClose, and the
\* router is there while it is not empty.
ListInvariant ==
    /\ browserList = {b \in Browsers : phase[b] \in Listed}
    /\ browserList # {} => router
    /\ router = handlers
    /\ router \in BOOLEAN /\ handlers \in BOOLEAN

\* A browser that is being created is the first of all and alone, or private, or
\* its opener is still there to take it along.
CreationInvariant ==
    \A b \in Browsers : phase[b] = "creating" =>
      \/ kind[b] = "first" /\ \A o \in Browsers \ {b} : phase[o] = "none"
      \/ kind[b] = "private"
      \/ opener[b] \in browserList

Invariant == PhaseType /\ ListInvariant /\ CreationInvariant /\ NoZombieProcess

LEMMA InitInvariant == Init => Invariant
<1> SUFFICES ASSUME Init PROVE Invariant
  OBVIOUS
<1>1. PICK first \in Browsers :
        phase = [b \in Browsers |-> IF b = first THEN "creating" ELSE "none"]
  BY DEF Init
<1>2. \A b \in Browsers : phase[b] = IF b = first THEN "creating" ELSE "none"
  BY <1>1
<1>3. PhaseType
  BY <1>1 DEF Init, PhaseType, Phases, Kinds
<1>4. ListInvariant
  BY <1>2 DEF Init, ListInvariant, Listed
<1>5. CreationInvariant
  BY <1>2 DEF Init, CreationInvariant
<1>6. NoZombieProcess
  BY <1>2 DEF Init, NoZombieProcess
<1> QED
  BY <1>3, <1>4, <1>5, <1>6 DEF Invariant

\* A browser is created by one that is in the list.
LEMMA CreatedInvariant ==
    ASSUME Invariant, NEW b \in Browsers, NEW new \in Browsers, NEW k, NEW from, NEW path,
           Created(new, k, from, path), b \in browserList,
           \/ k = "private" /\ from = NoBrowser
           \/ k \in {"popup", "devtools"} /\ from = b,
           UNCHANGED handlerVars
    PROVE  Invariant'
<1>1. \A o \in Browsers : /\ phase'[o] = IF o = new THEN "creating" ELSE phase[o]
                          /\ kind'[o] = IF o = new THEN k ELSE kind[o]
                          /\ opener'[o] = IF o = new THEN from ELSE opener[o]
  BY DEF Created, Invariant, PhaseType
<1>2. phase[new] = "none" /\ phase[b] # "none"
  BY DEF Created, Invariant, ListInvariant, Listed
<1>3. UNCHANGED <<browserList, router, handlers, quit>>
  BY DEF handlerVars
<1>4. PhaseType'
  BY DEF Created, Invariant, PhaseType, Phases, Kinds
<1>5. ListInvariant'
  BY <1>1, <1>2, <1>3 DEF Invariant, ListInvariant, Listed
<1>6. CreationInvariant'
  <2> SUFFICES ASSUME NEW o \in Browsers, phase'[o] = "creating"
               PROVE  \/ kind'[o] = "first" /\ \A c \in Browsers \ {o} : phase'[c] = "none"
                      \/ kind'[o] = "private"
                      \/ opener'[o] \in browserList'
    BY DEF CreationInvariant
  <2>1. CASE o = new
    BY <1>1, <1>3, <2>1
  <2>2. CASE o # new
    <3>1. phase[o] = "creating" /\ phase[b] # "creating"
      BY <1>1, <2>2 DEF Invariant, ListInvariant, Listed
    <3>2. kind[o] = "private" \/ opener[o] \in browserList
      BY <1>2, <3>1 DEF Invariant, CreationInvariant
    <3> QED
      BY <1>1, <1>3, <2>2, <3>2
  <2> QED
    BY <2>1, <2>2
<1>7. NoZombieProcess'
  BY <1>1, <1>3 DEF NoZombieProcess
<1> QED
  BY <1>4, <1>5, <1>6, <1>7 DEF Invariant

\* A step between phases of the list changes nothing that matters here.
LEMMA SameListInvariant ==
    ASSUME Invariant, UNCHANGED <<kind, opener, browserList, router, handlers, quit>>,
           phase' \in [Browsers -> Phases],
           \A b \in Browsers : \/ phase'[b] = phase[b]
                               \/ phase[b] \in Listed /\ phase'[b] \in Listed
    PROVE  Invariant'
<1>1. PhaseType'
  BY DEF Invariant, PhaseType
<1>2. ListInvariant'
  BY DEF Invariant, ListInvariant
<1>3. CreationInvariant'
  BY DEF Invariant, CreationInvariant, Listed
<1>4. NoZombieProcess'
  BY DEF Invariant, NoZombieProcess, Listed
<1> QED
  BY <1>1, <1>2, <1>3, <1>4 DEF Invariant

LEMMA AfterCreatedInvariant ==
    ASSUME Invariant, NEW b \in Browsers, OnAfterCreated(b)
    PROVE  Invariant'
<1>1. \A o \in Browsers : phase'[o] = IF o = b THEN "open" ELSE phase[o]
  BY DEF OnAfterCreated, Invariant, PhaseType
<1>2. /\ UNCHANGED <<kind, opener, quit>>
      /\ browserList' = browserList \cup {b} /\ router' = TRUE /\ phase[b] = "creating"
  BY DEF OnAfterCreated, origin
<1>3. handlers' = TRUE
  BY DEF OnAfterCreated, Invariant, ListInvariant
<1>4. PhaseType'
  BY DEF OnAfterCreated, origin, Invariant, PhaseType, Phases
<1>5. ListInvariant'
  BY <1>1, <1>2, <1>3 DEF Invariant, ListInvariant, Listed
<1>6. CreationInvariant'
  BY <1>1, <1>2 DEF Invariant, CreationInvariant
<1>7. NoZombieProcess'
  BY <1>1, <1>2 DEF NoZombieProcess
<1> QED
  BY <1>4, <1>5, <1>6, <1>7 DEF Invariant

\* The last browser in the list takes along what was to be created for it.
LEMMA BeforeCloseInvariant ==
    ASSUME Invariant, NEW b \in Browsers, OnBeforeClose(b)
    PROVE  /\ Invariant'
           /\ quit' /\ ~quit => \A o \in Browsers :
                \/ phase'[o] \in {"none", "closed"}
                \/ phase'[o] = "creating" /\ kind'[o] = "private"
<1> DEFINE rest == browserList \ {b}
<1>1. \A o \in Browsers :
        phase'[o] = IF o = b \/ (phase[o] = "creating" /\ opener[o] = b) THEN "closed" ELSE phase[o]
  BY DEF OnBeforeClose, Canceled
<1>2. UNCHANGED <<kind, opener>> /\ phase[b] = "closing" /\ browserList' = rest
  BY DEF OnBeforeClose, origin
<1>3. quit' = (quit \/ rest = {}) /\ router' = (router /\ rest # {}) /\ handlers' = (handlers /\ rest # {})
  BY DEF OnBeforeClose, Last
<1>4. PhaseType'
  BY <1>2 DEF OnBeforeClose, Invariant, PhaseType, Phases
<1> HIDE DEF rest
<1>5. browserList' = {o \in Browsers : phase'[o] \in Listed}
  BY <1>1, <1>2 DEF rest, Invariant, ListInvariant, Listed
<1>6. ListInvariant'
  BY <1>2, <1>3, <1>5 DEF rest, Invariant, ListInvariant
<1>7. ASSUME NEW o \in Browsers, phase'[o] = "creating"
      PROVE  kind[o] = "private" \/ opener[o] \in rest
  <2>1. phase[o] = "creating" /\ o # b /\ opener[o] # b
    BY <1>1, <1>7
  <2>2. kind[o] = "private" \/ opener[o] \in browserList
    BY <1>2, <2>1 DEF Invariant, CreationInvariant
  <2> QED
    BY <2>1, <2>2 DEF rest
<1>8. CreationInvariant'
  BY <1>2, <1>7 DEF CreationInvariant
<1>9. NoZombieProcess'
  BY <1>2, <1>3, <1>5 DEF NoZombieProcess, Listed
<1>10. ASSUME rest = {}, NEW o \in Browsers
       PROVE  phase'[o] \in {"none", "closed"} \/ (phase'[o] = "creating" /\ kind'[o] = "private")
  <2>1. phase'[o] \notin Listed
    BY <1>2, <1>5, <1>10
  <2>2. phase'[o] \in {"none", "creating", "closed"}
    BY <1>4, <2>1 DEF PhaseType, Phases, Listed
  <2> QED
    BY <1>2, <1>7, <1>10, <2>2
<1>11. Invariant'
  BY <1>4, <1>6, <1>8, <1>9 DEF Invariant
<1> QED
  BY <1>3, <1>10, <1>11

LEMMA ClosingInvariant ==
    ASSUME Invariant, NEW Some, NEW force, Closing(Some, force), UNCHANGED <<origin, handlerVars>>
    PROVE  Invariant'
<1>1. \A b \in Browsers : \/ phase'[b] = phase[b]
                          \/ phase[b] \in Listed /\ phase'[b] \in Listed
  BY DEF Closing, Listed
<1>2. phase' \in [Browsers -> Phases]
  BY DEF Closing, Invariant, PhaseType, Phases
<1> QED
  BY <1>1, <1>2, SameListInvariant DEF origin, handlerVars

LEMMA NextInvariant == Invariant /\ [Next]_vars => Invariant'
<1> SUFFICES ASSUME Invariant, [Next]_vars PROVE Invariant'
  OBVIOUS
<1>1. CASE UNCHANGED vars
  BY <1>1 DEF vars, Invariant, PhaseType, ListInvariant, CreationInvariant,
              NoZombieProcess
<1>2. ASSUME UNCHANGED <<phase, origin, handlerVars>>
      PROVE  Invariant'
  BY <1>2 DEF origin, handlerVars, Invariant, PhaseType, ListInvariant, CreationInvariant,
              NoZombieProcess
<1>3. ASSUME NEW b \in Browsers, NEW new \in Browsers, OnBeforePopup(b, new)
      PROVE  Invariant'
  <2>1. b \in browserList /\ UNCHANGED handlerVars
    BY <1>3 DEF OnBeforePopup, Invariant, ListInvariant, Listed
  <2>2. \/ Created(new, "private", NoBrowser, ContextPath)
        \/ Created(new, "popup", b, cache[b])
    BY <1>3 DEF OnBeforePopup
  <2> QED
    BY <1>3, <2>1, <2>2, CreatedInvariant
<1>4. ASSUME NEW b \in Browsers, NEW new \in Browsers, ShowDevTools(b, new)
      PROVE  Invariant'
  <2>1. b \in browserList /\ UNCHANGED handlerVars
    BY <1>4 DEF ShowDevTools, Invariant, ListInvariant, Listed
  <2>2. \/ Created(new, "devtools", b, cache[b])
        \/ Closing(DevToolsOf(b), TRUE) /\ UNCHANGED origin
    BY <1>4 DEF ShowDevTools
  <2> QED
    BY <1>4, <2>1, <2>2, CreatedInvariant, ClosingInvariant
<1>5. ASSUME NEW b \in Browsers, RefuseClose(b) \/ DoClose(b)
      PROVE  Invariant'
  <2>1. /\ UNCHANGED <<kind, opener, browserList, router, handlers, quit>>
        /\ phase[b] = "unloading"
    BY <1>5 DEF RefuseClose, DoClose, origin, handlerVars
  <2>2. PICK to \in {"open", "closing"} : phase' = [phase EXCEPT ![b] = to]
    BY <1>5 DEF RefuseClose, DoClose
  <2>3. phase' \in [Browsers -> Phases]
    BY <2>2 DEF Invariant, PhaseType, Phases
  <2>4. \A o \in Browsers : \/ phase'[o] = phase[o]
                            \/ phase[o] \in Listed /\ phase'[o] \in Listed
    BY <2>1, <2>2 DEF Invariant, PhaseType, Listed
  <2> QED
    BY <1>5, <2>1, <2>3, <2>4, SameListInvariant
<1>6. ASSUME NEW b \in Browsers, NEW force \in BOOLEAN, CloseBrowser(b, force)
      PROVE  Invariant'
  BY <1>6, ClosingInvariant DEF CloseBrowser
<1>7. ASSUME Tick
      PROVE  Invariant'
  BY <1>2, <1>7 DEF Tick
<1> QED
  BY <1>1, <1>3, <1>4, <1>5, <1>6, <1>7, AfterCreatedInvariant, BeforeCloseInvariant DEF Next

LEMMA InvariantHolds == Spec => []Invariant
  BY InitInvariant, NextInvariant, PTL DEF Spec

\* However many browsers are opened and closed, the callbacks of each find the
\* router and its handlers.
THEOREM RouterIsThere == Spec => []RouterServesBrowsers
<1>1. Invariant => RouterServesBrowsers
  BY DEF Invariant, ListInvariant, RouterServesBrowsers
<1> QED
  BY <1>1, InvariantHolds, PTL

\* Only OnBeforeClose asks the message loop to end.
LEMMA NextQuits ==
    Invariant /\ [Next]_vars =>
      (~quit /\ quit' => \A b \in Browsers :
         \/ phase'[b] \in {"none", "closed"}
         \/ phase'[b] = "creating" /\ kind'[b] = "private")
<1> SUFFICES ASSUME Invariant, [Next]_vars, ~quit, quit'
             PROVE  \A b \in Browsers :
                      \/ phase'[b] \in {"none", "closed"}
                      \/ phase'[b] = "creating" /\ kind'[b] = "private"
  OBVIOUS
<1>1. PICK b \in Browsers : OnBeforeClose(b)
  BY DEF Next, vars, OnBeforePopup, ShowDevTools, OnAfterCreated, RefuseClose, DoClose,
         CloseBrowser, Tick, handlerVars
<1> QED
  BY <1>1, BeforeCloseInvariant

\* The message loop is asked to end with the last browser, when at most private
\* popups are still to be created; and no process is left behind that has no
\* browser and none to come.
THEOREM LoopEndsWithTheLast == Spec => QuitsWithTheLast
<1>1. Invariant => NoZombieProcess
  BY DEF Invariant
<1>2. Init /\ [][Next]_vars /\ []Invariant => QuitIsLast
  <2>1. Invariant /\ [Next]_vars =>
          [~quit /\ quit' => \A b \in Browsers :
             \/ phase'[b] \in {"none", "closed"}
             \/ phase'[b] = "creating" /\ kind'[b] = "private"]_vars
    BY NextQuits
  <2> QED
    BY <2>1, PTL DEF QuitIsLast
<1> QED
  BY <1>1, <1>2, InvariantHolds, PTL DEF Spec, QuitsWithTheLast

------------------------------------------------------------------------------
\* Types.

\* The variables CEF keeps of a browser, and those the handler keeps.
BrowserTypes ==
    /\ phase \in [Browsers -> Phases]
    /\ kind \in [Browsers -> Kinds]
    /\ opener \in [Browsers -> Browsers \cup {NoBrowser}]
    /\ forced \in [Browsers -> BOOLEAN]
    /\ cache \in [Browsers -> CachePaths]

HandlerTypes ==
    /\ browserList \in SUBSET Browsers
    /\ router \in BOOLEAN /\ handlers \in BOOLEAN /\ isClosing \in BOOLEAN /\ quit \in BOOLEAN

OtherTypes == now \in 0..MaxSeconds

LEMMA TypesAreTypeOK == TypeOK <=> BrowserTypes /\ HandlerTypes /\ OtherTypes
  BY DEF TypeOK, BrowserTypes, HandlerTypes, OtherTypes

LEMMA ContextPathType ==
    ASSUME now \in 0..MaxSeconds
    PROVE  ContextPath \in CachePaths
  BY DEF ContextPath, CachePaths

LEMMA CreatedTypes ==
    ASSUME BrowserTypes, NEW new \in Browsers, NEW k \in Kinds, NEW from \in Browsers \cup {NoBrowser},
           NEW path \in CachePaths, Created(new, k, from, path), UNCHANGED forced
    PROVE  BrowserTypes'
<1>1. "creating" \in Phases
  BY DEF Phases
<1> QED
  BY <1>1 DEF Created, BrowserTypes

LEMMA ClosingTypes ==
    ASSUME BrowserTypes, NEW Some, NEW force \in BOOLEAN, Closing(Some, force), UNCHANGED origin
    PROVE  BrowserTypes'
<1>1. phase' \in [Browsers -> Phases]
  BY DEF Closing, BrowserTypes, Phases
<1>2. forced' \in [Browsers -> BOOLEAN]
  BY DEF Closing, BrowserTypes
<1> QED
  BY <1>1, <1>2 DEF BrowserTypes, origin

\* The steps of one browser from OnAfterCreated to OnBeforeClose.
LEMMA BrowserStepTypes ==
    ASSUME BrowserTypes, HandlerTypes, OtherTypes, NEW b \in Browsers,
           OnAfterCreated(b) \/ RefuseClose(b) \/ DoClose(b) \/ OnBeforeClose(b)
    PROVE  BrowserTypes' /\ HandlerTypes' /\ OtherTypes'
<1>1. phase' \in [Browsers -> Phases]
  BY DEF OnAfterCreated, RefuseClose, DoClose, OnBeforeClose, BrowserTypes, Phases
<1>2. BrowserTypes'
  BY <1>1 DEF OnAfterCreated, RefuseClose, DoClose, OnBeforeClose, origin, BrowserTypes
<1>3. browserList' \in SUBSET Browsers
  BY DEF OnAfterCreated, RefuseClose, DoClose, OnBeforeClose, handlerVars, HandlerTypes
<1>4. router' \in BOOLEAN /\ handlers' \in BOOLEAN
  BY DEF OnAfterCreated, RefuseClose, DoClose, OnBeforeClose, handlerVars, HandlerTypes
<1>5. isClosing' \in BOOLEAN /\ quit' \in BOOLEAN
  BY DEF OnAfterCreated, RefuseClose, DoClose, OnBeforeClose, handlerVars, HandlerTypes
<1>6. OtherTypes'
  BY DEF OnAfterCreated, RefuseClose, DoClose, OnBeforeClose, OtherTypes
<1> QED
  BY <1>2, <1>3, <1>4, <1>5, <1>6 DEF HandlerTypes

LEMMA NextTypes == TypeOK /\ [Next]_vars => TypeOK'
<1> SUFFICES ASSUME BrowserTypes, HandlerTypes, OtherTypes, [Next]_vars
             PROVE  BrowserTypes' /\ HandlerTypes' /\ OtherTypes'
  BY TypesAreTypeOK DEF TypeOK, BrowserTypes, HandlerTypes, OtherTypes
<1>1. CASE UNCHANGED vars
  BY <1>1 DEF vars, BrowserTypes, HandlerTypes, OtherTypes
<1>2. ASSUME UNCHANGED handlerVars PROVE HandlerTypes'
  BY <1>2 DEF handlerVars, HandlerTypes
<1>3. ASSUME NEW b \in Browsers, NEW new \in Browsers, OnBeforePopup(b, new)
      PROVE  BrowserTypes' /\ HandlerTypes' /\ OtherTypes'
  <2>1. UNCHANGED <<forced, handlerVars, now>>
    BY <1>3 DEF OnBeforePopup
  <2>2. \/ Created(new, "private", NoBrowser, ContextPath)
        \/ Created(new, "popup", b, cache[b])
    BY <1>3 DEF OnBeforePopup
  <2>3. "private" \in Kinds /\ "popup" \in Kinds /\ cache[b] \in CachePaths /\ ContextPath \in CachePaths
    BY ContextPathType DEF Kinds, BrowserTypes, OtherTypes
  <2>4. BrowserTypes'
    BY <2>1, <2>2, <2>3, CreatedTypes
  <2> QED
    BY <1>2, <2>1, <2>4 DEF OtherTypes
<1>4. ASSUME NEW b \in Browsers, NEW new \in Browsers, ShowDevTools(b, new)
      PROVE  BrowserTypes' /\ HandlerTypes' /\ OtherTypes'
  <2>1. UNCHANGED <<handlerVars, now>>
    BY <1>4 DEF ShowDevTools
  <2>2. \/ Created(new, "devtools", b, cache[b]) /\ UNCHANGED forced
        \/ Closing(DevToolsOf(b), TRUE) /\ UNCHANGED origin
    BY <1>4 DEF ShowDevTools
  <2>3. "devtools" \in Kinds /\ cache[b] \in CachePaths
    BY DEF Kinds, BrowserTypes
  <2>4. BrowserTypes'
    BY <2>2, <2>3, CreatedTypes, ClosingTypes
  <2> QED
    BY <1>2, <2>1, <2>4 DEF OtherTypes
<1>5. ASSUME NEW b \in Browsers, NEW force \in BOOLEAN, CloseBrowser(b, force)
      PROVE  BrowserTypes' /\ HandlerTypes' /\ OtherTypes'
  BY <1>2, <1>5, ClosingTypes DEF CloseBrowser, OtherTypes
<1>6. CASE Tick
  <2>1. now' \in 0..MaxSeconds
    BY <1>6, LifeCycleAssumption DEF Tick, OtherTypes
  <2> QED
    BY <1>2, <1>6, <2>1 DEF Tick, BrowserTypes, OtherTypes, origin
<1> QED
  BY <1>1, <1>3, <1>4, <1>5, <1>6, BrowserStepTypes DEF Next

\* Every variable of the life cycle keeps its type, for any number of browsers and
\* seconds.
THEOREM LifeCycleTypeCorrect == Spec => []TypeOK
<1>1. Init => TypeOK
  <2> SUFFICES ASSUME Init PROVE TypeOK
    OBVIOUS
  <2>1. phase \in [Browsers -> Phases]
    BY DEF Init, Phases
  <2>2. kind \in [Browsers -> Kinds]
    BY DEF Init, Kinds
  <2>3. cache \in [Browsers -> CachePaths]
    BY DEF Init, CachePaths
  <2>4. opener \in [Browsers -> Browsers \cup {NoBrowser}] /\ forced \in [Browsers -> BOOLEAN]
    BY DEF Init
  <2>5. HandlerTypes
    BY DEF Init, HandlerTypes
  <2>6. OtherTypes
    BY LifeCycleAssumption DEF Init, OtherTypes
  <2> QED
    BY <2>1, <2>2, <2>3, <2>4, <2>5, <2>6, TypesAreTypeOK DEF BrowserTypes
<1> QED
  BY <1>1, NextTypes, PTL DEF Spec

------------------------------------------------------------------------------
\* What the windows promise the router.

Past   == {b \in Browsers : phase[b] = "closed"}
Router == IF router /\ handlers THEN "up"
          ELSE IF ~router /\ ~handlers THEN "none" ELSE "half"

LEMMA InitWindows == Init => Host!Init
<1> SUFFICES ASSUME Init PROVE Host!Init
  OBVIOUS
<1>1. Past = {}
  BY DEF Init, Past
<1>2. browserList = {} /\ Router = "none"
  BY DEF Init, Router
<1> QED
  BY <1>1, <1>2 DEF Host!Init, Past, Router

\* A step that neither lists a browser nor takes one from the list.
LEMMA SameWindows ==
    ASSUME UNCHANGED <<browserList, router, handlers>>,
           \A b \in Browsers : phase'[b] = "closed" <=> phase[b] = "closed"
    PROVE  UNCHANGED Host!vars
<1>1. Past' = Past /\ Router' = Router
  BY DEF Past, Router
<1> QED
  BY <1>1 DEF Host!vars, Past, Router

LEMMA AfterCreatedWindows ==
    ASSUME Invariant, NEW b \in Browsers, OnAfterCreated(b)
    PROVE  Host!Open(b)
<1>1. /\ \A o \in Browsers : phase'[o] = IF o = b THEN "open" ELSE phase[o]
      /\ phase[b] = "creating"
  BY DEF OnAfterCreated, Invariant, PhaseType
<1>2. browserList' = browserList \cup {b} /\ router' = TRUE /\ handlers' = TRUE
  BY DEF OnAfterCreated, Invariant, ListInvariant
<1>3. Past' = Past /\ b \notin Past /\ b \notin browserList
  BY <1>1 DEF Past, Invariant, ListInvariant, Listed
<1>4. Router' = "up"
  BY <1>2 DEF Router
<1> QED
  BY <1>2, <1>3, <1>4 DEF Host!Open, Past, Router

LEMMA BeforeCloseWindows ==
    ASSUME Invariant, NEW b \in Browsers, OnBeforeClose(b)
    PROVE  Host!Close(b)
<1>1. /\ \A o \in Browsers : phase'[o] = IF o = b \/ o \in Canceled(b) THEN "closed" ELSE phase[o]
      /\ phase[b] = "closing"
  BY DEF OnBeforeClose
<1>2. b \in browserList
  BY <1>1 DEF Invariant, ListInvariant, Listed
<1>3. Canceled(b) \in SUBSET (Browsers \ browserList)
  BY DEF Canceled, Invariant, ListInvariant, Listed
<1>4. Past' = Past \cup {b} \cup Canceled(b)
  BY <1>1, <1>3 DEF Past
<1>5. browserList' = browserList \ {b}
  BY DEF OnBeforeClose
<1>6. Router' = IF browserList' = {} THEN "none" ELSE Router
  <2>1. router' = (router /\ browserList' # {}) /\ handlers' = (handlers /\ browserList' # {})
    BY <1>5 DEF OnBeforeClose, Last
  <2>2. router /\ handlers
    BY <1>2 DEF Invariant, ListInvariant
  <2> QED
    BY <2>1, <2>2 DEF Router
<1> QED
  BY <1>2, <1>3, <1>4, <1>5, <1>6 DEF Host!Close, Past, Router

LEMMA NextWindows == Invariant /\ [Next]_vars => [Host!Next]_(Host!vars)
<1> SUFFICES ASSUME Invariant, [Next]_vars PROVE [Host!Next]_(Host!vars)
  OBVIOUS
<1>1. CASE UNCHANGED vars
  BY <1>1, SameWindows DEF vars
<1>2. ASSUME NEW b \in Browsers, NEW new \in Browsers, OnBeforePopup(b, new) \/ ShowDevTools(b, new)
      PROVE  UNCHANGED Host!vars
  <2>1. UNCHANGED <<browserList, router, handlers>>
    BY <1>2 DEF OnBeforePopup, ShowDevTools, handlerVars
  <2>2. \/ \E k \in Kinds : \E from, path : Created(new, k, from, path)
        \/ Closing(DevToolsOf(b), TRUE)
    BY <1>2 DEF OnBeforePopup, ShowDevTools, Kinds
  <2>3. \A o \in Browsers : phase'[o] = "closed" <=> phase[o] = "closed"
    BY <2>2 DEF Created, Closing, Invariant, PhaseType
  <2> QED
    BY <2>1, <2>3, SameWindows
<1>3. ASSUME NEW b \in Browsers,
             RefuseClose(b) \/ DoClose(b) \/ \E force \in BOOLEAN : CloseBrowser(b, force)
      PROVE  UNCHANGED Host!vars
  <2>1. UNCHANGED <<browserList, router, handlers>>
    BY <1>3 DEF RefuseClose, DoClose, CloseBrowser, handlerVars
  <2>2. \A o \in Browsers : phase'[o] = "closed" <=> phase[o] = "closed"
    BY <1>3 DEF RefuseClose, DoClose, CloseBrowser, Closing, Invariant, PhaseType
  <2> QED
    BY <2>1, <2>2, SameWindows
<1>4. ASSUME Tick
      PROVE  UNCHANGED Host!vars
  BY <1>4, SameWindows DEF Tick, handlerVars
<1> QED
  BY <1>1, <1>2, <1>3, <1>4, AfterCreatedWindows, BeforeCloseWindows DEF Next, Host!Next

\* For any number of browsers the life cycle keeps the promise of Windows: the
\* router is there for every listed browser and goes with the last one.
THEOREM WindowsArePromised == Spec => KeepsWindowsContract
<1>1. Init /\ [][Next]_vars /\ []Invariant => Host!Init /\ [][Host!Next]_(Host!vars)
  BY InitWindows, NextWindows, PTL
<1> QED
  BY <1>1, InvariantHolds DEF Spec, KeepsWindowsContract, Host!Spec
==============================================================================
