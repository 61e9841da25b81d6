----------------------------- MODULE QueryRouter -----------------------------
(***************************************************************************)
(* window.cefQuery, from the page to the browser process and back.         *)
(*                                                                         *)
(* A page asks through the renderer-side router of its process             *)
(* (CefMessageRouterRendererSideImpl); the browser-side router             *)
(* (CefMessageRouterBrowserSideImpl) gives the query to the program's      *)
(* QueryHandler, which answers through a Callback at once, later, or       *)
(* never.  Answers travel as a task of the UI thread, a message to the     *)
(* frame and a task of the renderer thread; meanwhile the page may cancel, *)
(* navigate or crash and the browser may close.  SimpleHandler decides     *)
(* which of these events reach the browser-side router.                    *)
(*                                                                         *)
(* One frame here is one frame in one renderer process: a cross-origin     *)
(* navigation replaces a frame by another one in another process.          *)
(***************************************************************************)
EXTENDS Integers, Sequences, FiniteSets

CONSTANTS
    Browsers,       \* browser identifiers
    Procs,          \* renderer processes, each with its own router
    Frames,
    FrameBrowser,   \* [Frames -> Browsers]
    FrameProc,      \* [Frames -> Procs]
    MainFrames,     \* the frames that are the main frame of their browser
    Kinds,          \* the kinds of request that pages send
    MaxContext,     \* bound: context ids issued by one renderer router
    MaxRequest,     \* bound: request ids issued by one renderer router
    Lossy           \* whether SendProcessMessage may lose a message

(***************************************************************************)
(* What QueryHandler::OnQuery tells apart in a request:                    *)
(*   file   a well-formed Dialog request, answered when it is dismissed    *)
(*   pdf    a well-formed PrintToPDF request, answered when it is printed  *)
(*   dev    a well-formed DevToolsMessage request, answered at once        *)
(*   short  PrintToPDF or DevToolsMessage with too few parameters          *)
(*   odd    a Dialog request of an unknown dialog kind                     *)
(*   other  anything else                                                  *)
(***************************************************************************)
AllKinds == {"file", "pdf", "dev", "short", "odd", "other"}

ASSUME ConstantsAssumption ==
    /\ FrameBrowser \in [Frames -> Browsers]
    /\ FrameProc \in [Frames -> Procs]
    /\ MainFrames \subseteq Frames
    /\ Kinds \subseteq AllKinds
    /\ MaxContext \in Nat
    /\ MaxRequest \in Nat
    /\ Lossy \in BOOLEAN

VARIABLES
    \* Browser process, UI thread.
    browser,        \* browser -> "none", "open" (in browser_list_), "closed"
    router,         \* message_router_: "none", "up"
    queries,        \* browser_query_info_map_: the pending queries
    callbacks,      \* the CallbackImpl objects whose router_ is set
    jobs,           \* dialogs and prints that hold a callback to execute
    uiTasks,        \* OnCallbackSuccess / OnCallbackFailure tasks
    owed,           \* browsers whose OnRenderProcessTerminated is to come
    \* Renderer processes, one main thread each.
    dead,           \* processes that crashed
    frame,          \* frame -> "none", "live", "gone"
    contextId,      \* frame -> V8HandlerImpl::context_id_, 0 until needed
    contexts,       \* context_map_: the <<process, context id>> registered
    nextContext,    \* process -> context_id_generator_
    nextRequest,    \* process -> request_id_generator_
    pending,        \* browser_request_info_map_: what pages wait for
    rendererTasks,  \* process -> ExecuteSuccess/FailureCallback tasks
    \* Messages in flight.
    toBrowser,      \* frame -> query and cancel messages
    toRenderer,     \* frame -> replies
    \* History, not in the code.
    asked,          \* query id -> who asked; its length is query_id_generator_
    said,           \* what the handler passed to Success and Failure
    canceled,       \* queries the browser router canceled, and why
    heard,          \* request key -> the answers its page was called with
    quiet           \* request keys the page canceled or took away with it

browserVars  == <<browser, router, owed>>
routerVars   == <<queries, callbacks, jobs, uiTasks>>
idVars       == <<contextId, contexts, nextContext>>
rendererVars == <<dead, frame, idVars, nextRequest, pending, rendererTasks>>
channels     == <<toBrowser, toRenderer>>
history      == <<asked, said, canceled, heard, quiet>>
vars == <<browserVars, routerVars, rendererVars, channels, history>>

------------------------------------------------------------------------------
\* Data.

ContextIds == 1..MaxContext
RequestIds == 1..MaxRequest

\* What names a request: (context id, request id) in one process's router.
Keys == [proc : Procs, ctx : ContextIds, req : RequestIds]

Succeeded == [ok |-> TRUE, code |-> 0]
Failed(c) == [ok |-> FALSE, code |-> c]
Canceled  == Failed(-1)     \* kCanceledErrorCode
NoAnswer  == Failed(0)      \* no Callback method executed
Answers   == {Succeeded, Canceled, Failed(1), Failed(2), Failed(999)}

QueryMsgs  == [type : {"query"}, ctx : ContextIds, req : RequestIds,
               kind : AllKinds, persistent : BOOLEAN]
CancelMsgs == [type : {"cancel"}, ctx : ContextIds, req : RequestIds \cup {0}]

\* "query" is history: the browser-side id of the query the reply answers.
Replies       == [ctx : ContextIds, req : RequestIds, answer : Answers, query : Nat]
RequestInfo   == [browser : Browsers, key : Keys, persistent : BOOLEAN]
QueryInfo     == [query : Nat, frame : Frames, ctx : ContextIds,
                  req : RequestIds, persistent : BOOLEAN]
CallbackImpl  == [query : Nat, persistent : BOOLEAN]
Jobs          == [query : Nat, kind : {"file", "pdf"}]
UiTasks       == [query : Nat, answer : Answers]
RendererTasks == [browser : Browsers, reply : Replies]
Askers        == [frame : Frames, ctx : ContextIds, req : RequestIds]
Reasons       == {"page", "browse", "crash", "close"}
Cancellations == [query : Nat, why : Reasons]

\* The request a query, or an entry of "asked", was made for.
KeyOf(q) == [proc |-> FrameProc[q.frame], ctx |-> q.ctx, req |-> q.req]

FramesOf(b)     == {f \in Frames : FrameBrowser[f] = b}
FramesIn(p)     == {f \in Frames : FrameProc[f] = p}
QueriesOf(b)    == {q \in queries : FrameBrowser[q.frame] = b}
CanceledIds     == {c.query : c \in canceled}
RequestsIn(S)   == {r.key : r \in S}

Init ==
    /\ browser = [b \in Browsers |-> "none"]
    /\ router = "none"
    /\ queries = {} /\ callbacks = {} /\ jobs = {} /\ uiTasks = <<>>
    /\ owed = {} /\ dead = {}
    /\ frame = [f \in Frames |-> "none"]
    /\ contextId = [f \in Frames |-> 0]
    /\ contexts = {}
    /\ nextContext = [p \in Procs |-> 0]
    /\ nextRequest = [p \in Procs |-> 0]
    /\ pending = {}
    /\ rendererTasks = [p \in Procs |-> <<>>]
    /\ toBrowser = [f \in Frames |-> <<>>]
    /\ toRenderer = [f \in Frames |-> <<>>]
    /\ asked = <<>> /\ said = {} /\ canceled = {} /\ quiet = {}
    /\ heard = [k \in Keys |-> <<>>]

------------------------------------------------------------------------------
\* Renderer process: the page and the renderer-side router.

\* OnContextCreated: a frame gets its first document, with cefQuery bound.
FrameCreated(f) ==
    /\ frame[f] = "none"
    /\ browser[FrameBrowser[f]] = "open"
    /\ FrameProc[f] \notin dead
    /\ frame' = [frame EXCEPT ![f] = "live"]
    /\ UNCHANGED <<browserVars, routerVars, dead, idVars, nextRequest, pending,
                   rendererTasks, channels, history>>

\* GetIDForContext of the bound functions: the id is created on first use.
GetIDForContext(f) ==
    LET p == FrameProc[f] IN
    \/ contextId[f] # 0 /\ UNCHANGED idVars
    \/ /\ contextId[f] = 0
       /\ nextContext[p] < MaxContext
       /\ nextContext' = [nextContext EXCEPT ![p] = @ + 1]
       /\ contextId' = [contextId EXCEPT ![f] = nextContext[p] + 1]
       /\ contexts' = contexts \cup {<<p, nextContext[p] + 1>>}

\* cefQuery(): remember the request, then send it.
SendQuery(f, kind, persistent) ==
    LET p == FrameProc[f]
        req == nextRequest[p] + 1
        ctx == contextId'[f]
    IN
    /\ frame[f] = "live"
    /\ req <= MaxRequest
    /\ GetIDForContext(f)
    /\ nextRequest' = [nextRequest EXCEPT ![p] = req]
    /\ pending' = pending \cup
         {[browser |-> FrameBrowser[f], persistent |-> persistent,
           key |-> [proc |-> p, ctx |-> ctx, req |-> req]]}
    /\ toBrowser' = [toBrowser EXCEPT ![f] = Append(@,
         [type |-> "query", ctx |-> ctx, req |-> req, kind |-> kind,
          persistent |-> persistent])]
    /\ UNCHANGED <<browserVars, routerVars, dead, frame, rendererTasks,
                   toRenderer, history>>

\* Mutant: the browser process is not told that a context was released.
SendCancelOfOneOnly(f, ctx, req, Gone) ==
    /\ pending' = pending \ Gone
    /\ quiet' = quiet \cup RequestsIn(Gone)
    /\ toBrowser' = IF Gone = {} \/ req = 0 THEN toBrowser
                    ELSE [toBrowser EXCEPT ![f] = Append(@,
                            [type |-> "cancel", ctx |-> ctx, req |-> req])]

\* The common part of the two cancellations: forget the requests in Gone and,
\* if there were any, tell the browser process.
SendCancel(f, ctx, req, Gone) ==
    /\ pending' = pending \ Gone
    /\ quiet' = quiet \cup RequestsIn(Gone)
    /\ toBrowser' = IF Gone = {} THEN toBrowser
                    ELSE [toBrowser EXCEPT ![f] = Append(@,
                            [type |-> "cancel", ctx |-> ctx, req |-> req])]

\* The requests of the page of f under context id ctx.
Waiting(f, ctx) == {r \in pending : /\ r.browser = FrameBrowser[f]
                                    /\ r.key.proc = FrameProc[f]
                                    /\ r.key.ctx = ctx}

\* cefQueryCancel(req), of a request of this page or of another one.
CancelRequest(f, req) ==
    /\ frame[f] = "live"
    /\ GetIDForContext(f)
    /\ LET ctx == contextId'[f] IN
         SendCancel(f, ctx, req, {r \in Waiting(f, ctx) : r.key.req = req})
    /\ UNCHANGED <<browserVars, routerVars, dead, frame, nextRequest,
                   rendererTasks, toRenderer, asked, said, canceled, heard>>

\* OnContextReleased: the document goes away.  Either the frame gets a new
\* document, whose context has no id yet, or it is removed.
ContextReleased(f) ==
    /\ frame[f] = "live"
    /\ contexts' = contexts \ {<<FrameProc[f], contextId[f]>>}
    /\ SendCancel(f, contextId[f], 0, Waiting(f, contextId[f]))
    /\ contextId' = [contextId EXCEPT ![f] = 0]
    /\ \/ UNCHANGED <<frame, toRenderer>>
       \/ /\ frame' = [frame EXCEPT ![f] = "gone"]
          /\ toRenderer' = [toRenderer EXCEPT ![f] = <<>>]
    /\ UNCHANGED <<browserVars, routerVars, dead, nextContext, nextRequest,
                   rendererTasks, asked, said, canceled, heard>>

\* OnProcessMessageReceived of the renderer-side router: post the callback.
ReceiveReply(f) ==
    /\ frame[f] = "live"
    /\ toRenderer[f] # <<>>
    /\ rendererTasks' = [rendererTasks EXCEPT ![FrameProc[f]] = Append(@,
         [browser |-> FrameBrowser[f], reply |-> Head(toRenderer[f])])]
    /\ toRenderer' = [toRenderer EXCEPT ![f] = Tail(@)]
    /\ UNCHANGED <<browserVars, routerVars, dead, frame, idVars, nextRequest,
                   pending, toBrowser, history>>

\* Mutant: the two ids of the reply are swapped.
RequestsForSwapped(p, t) ==
    {r \in pending : /\ r.browser = t.browser
                     /\ r.key = [proc |-> p, ctx |-> t.reply.req, req |-> t.reply.ctx]}

\* GetRequestInfo: a reply nobody waits for is dropped; a failure, and any
\* reply to a request that is not persistent, ends the request.
RequestsFor(p, t) ==
    {r \in pending : /\ r.browser = t.browser
                     /\ r.key = [proc |-> p, ctx |-> t.reply.ctx, req |-> t.reply.req]}

\* Mutant: a success keeps every request.
RequestStaysOnSuccess(r, answer) == answer.ok

RequestStays(r, answer) == answer.ok /\ r.persistent

\* ExecuteSuccessCallback, ExecuteFailureCallback.
ExecuteCallback(p) ==
    LET t == Head(rendererTasks[p]) IN
    /\ rendererTasks[p] # <<>>
    /\ rendererTasks' = [rendererTasks EXCEPT ![p] = Tail(@)]
    /\ pending' = {r \in pending : r \in RequestsFor(p, t)
                                     => RequestStays(r, t.reply.answer)}
    /\ heard' = [k \in Keys |->
                   IF k \in RequestsIn(RequestsFor(p, t)) /\ <<p, k.ctx>> \in contexts
                     THEN Append(heard[k], t.reply) ELSE heard[k]]
    /\ UNCHANGED <<browserVars, routerVars, dead, frame, idVars, nextRequest,
                   channels, asked, said, canceled, quiet>>

\* A renderer process dies with its pages, its router and its tasks.
Crash(p) ==
    LET lost == {f \in FramesIn(p) : frame[f] = "live"} IN
    /\ p \notin dead
    /\ lost # {}
    /\ dead' = dead \cup {p}
    /\ owed' = owed \cup {FrameBrowser[f] : f \in lost \cap MainFrames}
    /\ frame' = [f \in Frames |-> IF f \in lost THEN "gone" ELSE frame[f]]
    /\ contextId' = [f \in Frames |-> IF f \in lost THEN 0 ELSE contextId[f]]
    /\ contexts' = {c \in contexts : c[1] # p}
    /\ pending' = {r \in pending : r.key.proc # p}
    /\ quiet' = quiet \cup RequestsIn(pending \ pending')
    /\ rendererTasks' = [rendererTasks EXCEPT ![p] = <<>>]
    /\ toRenderer' = [f \in Frames |-> IF f \in lost THEN <<>> ELSE toRenderer[f]]
    /\ UNCHANGED <<browser, router, routerVars, nextContext, nextRequest,
                   toBrowser, asked, said, canceled, heard>>

------------------------------------------------------------------------------
\* Browser process: QueryHandler.

\* Whether OnQuery returns true.
Handles(kind) == kind \in {"file", "pdf", "dev", "odd"}

\* Whether OnQuery leaves the callback with a dialog or a print.
StartsJob(kind) == kind \in {"file", "pdf"}

\* The Callback method OnQuery executes before it returns.
AnsweredAtOnce(kind) ==
    CASE kind = "dev"   -> {Succeeded, Failed(2)}
      [] kind = "short" -> {Failed(1)}
      [] OTHER          -> {NoAnswer}

\* The Callback method executed when a dialog is dismissed or a print ends.
JobAnswers(kind) == IF kind = "pdf" THEN {Succeeded, Failed(999)} ELSE {Succeeded}

\* CallbackImpl::Success and Failure on the UI thread: post the answer; the
\* callback stays good only after the success of a persistent query.
Post(query, answer) ==
    IF answer = NoAnswer THEN uiTasks
    ELSE Append(uiTasks, [query |-> query, answer |-> answer])

StaysAttached(persistent, answer) == answer = NoAnswer \/ (answer.ok /\ persistent)

\* OnFileDialogDismissed, OnPdfPrintFinished.
JobDone(j) ==
    LET cb == {c \in callbacks : c.query = j.query} IN
    /\ jobs' = jobs \ {j}
    /\ \E answer \in JobAnswers(j.kind) :
         \/ cb = {} /\ UNCHANGED <<callbacks, uiTasks, said>>
         \/ /\ cb # {}
            /\ uiTasks' = Post(j.query, answer)
            /\ said' = said \cup {[query |-> j.query, answer |-> answer]}
            /\ callbacks' = {c \in callbacks : c \in cb => StaysAttached(c.persistent, answer)}
    /\ UNCHANGED <<browserVars, queries, rendererVars, channels, asked, canceled,
                   heard, quiet>>

------------------------------------------------------------------------------
\* Browser process: SimpleHandler and the browser-side router.

\* SimpleHandler::OnAfterCreated: a browser creates the router if there is none,
\* be it the first or one that comes when all others have closed.  A new router
\* counts its queries from the start; here the ids go on, since what is left of
\* the old one (posted tasks) goes to it and not to the new one.
AfterCreated(b) ==
    /\ browser[b] = "none"
    /\ browser' = [browser EXCEPT ![b] = "open"]
    /\ router' = "up"
    /\ UNCHANGED <<owed, routerVars, rendererVars, channels, history>>

\* Mutant: the reply is sent to the main frame of the browser.
SendReplyToMainFrame(f, ctx, req, answer, query) ==
    [g \in Frames |->
       IF g \in MainFrames \cap FramesOf(FrameBrowser[f]) /\ frame[g] = "live"
         THEN Append(toRenderer[g],
                [ctx |-> ctx, req |-> req, answer |-> answer, query |-> query])
         ELSE toRenderer[g]]

\* SendProcessMessage(PID_RENDERER): a frame that is gone receives nothing.
SendReply(f, ctx, req, answer, query) ==
    IF frame[f] = "live"
      THEN [toRenderer EXCEPT ![f] = Append(@,
              [ctx |-> ctx, req |-> req, answer |-> answer, query |-> query])]
      ELSE toRenderer

\* OnProcessMessageReceived, a query: OnQuery is called, then the query is kept
\* if it was handled and canceled if it was not.
ReceiveQuery(f) ==
    LET m == Head(toBrowser[f])
        id == Len(asked) + 1
    IN
    /\ browser[FrameBrowser[f]] = "open"
    /\ toBrowser[f] # <<>>
    /\ m.type = "query"
    /\ toBrowser' = [toBrowser EXCEPT ![f] = Tail(@)]
    /\ asked' = Append(asked, [frame |-> f, ctx |-> m.ctx, req |-> m.req])
    /\ \E answer \in AnsweredAtOnce(m.kind) :
         /\ uiTasks' = Post(id, answer)
         /\ said' = IF answer = NoAnswer THEN said
                    ELSE said \cup {[query |-> id, answer |-> answer]}
         /\ callbacks' = IF Handles(m.kind) /\ StaysAttached(m.persistent, answer)
                           THEN callbacks \cup {[query |-> id, persistent |-> m.persistent]}
                           ELSE callbacks
    /\ jobs' = IF StartsJob(m.kind) THEN jobs \cup {[query |-> id, kind |-> m.kind]}
               ELSE jobs
    /\ \/ /\ Handles(m.kind)
          /\ queries' = queries \cup {[query |-> id, frame |-> f, ctx |-> m.ctx,
                                       req |-> m.req, persistent |-> m.persistent]}
          /\ UNCHANGED toRenderer
       \/ /\ ~Handles(m.kind)
          /\ toRenderer' = SendReply(f, m.ctx, m.req, Canceled, id)
          /\ UNCHANGED queries
    /\ UNCHANGED <<browserVars, rendererVars, canceled, heard, quiet>>

\* Mutant: the callbacks are not detached.
CancelWithoutDetach(S, why) ==
    /\ queries' = queries \ S
    /\ canceled' = canceled \cup {[query |-> q.query, why |-> why] : q \in S}
    /\ UNCHANGED callbacks

\* Mutant: the queries stay in the map.
CancelWithoutRemove(S, why) ==
    /\ callbacks' = {c \in callbacks : c.query \notin {q.query : q \in S}}
    /\ canceled' = canceled \cup {[query |-> q.query, why |-> why] : q \in S}
    /\ UNCHANGED queries

\* Mutant: persistent queries are not canceled.
CancelOneTimeOnly(S, why) ==
    LET ids == {q.query : q \in {r \in S : ~r.persistent}} IN
    /\ queries' = {q \in queries : q.query \notin ids}
    /\ callbacks' = {c \in callbacks : c.query \notin ids}
    /\ canceled' = canceled \cup {[query |-> i, why |-> why] : i \in ids}

\* CancelQuery for every query of S: forget it, detach its callback.
CancelQueries(S, why) ==
    LET ids == {q.query : q \in S} IN
    /\ queries' = queries \ S
    /\ callbacks' = {c \in callbacks : c.query \notin ids}
    /\ canceled' = canceled \cup {[query |-> i, why |-> why] : i \in ids}

\* Mutant: canceling one request cancels all those of its context.
CancelWholeContext(b, ctx, req) == {q \in QueriesOf(b) : q.ctx = ctx}

\* CancelPendingRequest: the queries of a cancel message, which names them by
\* browser, context id and request id.  For a single request the map is
\* searched in the order of the query ids and the search stops at the first.
CancelTargets(b, ctx, req) ==
    LET found == {q \in QueriesOf(b) : q.ctx = ctx /\ (req = 0 \/ q.req = req)} IN
    IF req = 0 THEN found
    ELSE {q \in found : \A r \in found : q.query <= r.query}

\* OnProcessMessageReceived, a cancel message.
ReceiveCancel(f) ==
    LET m == Head(toBrowser[f]) IN
    /\ browser[FrameBrowser[f]] = "open"
    /\ toBrowser[f] # <<>>
    /\ m.type = "cancel"
    /\ toBrowser' = [toBrowser EXCEPT ![f] = Tail(@)]
    /\ CancelQueries(CancelTargets(FrameBrowser[f], m.ctx, m.req), "page")
    /\ UNCHANGED <<browserVars, jobs, uiTasks, rendererVars, toRenderer, asked,
                   said, heard, quiet>>

\* OnCallbackSuccess, OnCallbackFailure: answer the query if it is still
\* pending; only the success of a persistent query keeps it.
OnCallback ==
    LET t == Head(uiTasks)
        info == {q \in queries : q.query = t.query}
    IN
    /\ uiTasks # <<>>
    /\ uiTasks' = Tail(uiTasks)
    /\ queries' = {q \in queries : q \in info => t.answer.ok /\ q.persistent}
    /\ \/ info = {} /\ UNCHANGED toRenderer
       \/ \E q \in info :
            toRenderer' = SendReply(q.frame, q.ctx, q.req, t.answer, q.query)
    /\ UNCHANGED <<browserVars, callbacks, jobs, rendererVars, toBrowser, history>>

\* SimpleHandler::OnBeforeBrowse: a navigation of the main frame cancels all
\* queries of the browser; the page they belong to is still there.
BeforeBrowse(f) ==
    LET b == FrameBrowser[f] IN
    /\ browser[b] = "open"
    /\ IF f \in MainFrames THEN CancelQueries(QueriesOf(b), "browse")
       ELSE UNCHANGED <<queries, callbacks, canceled>>
    /\ UNCHANGED <<browserVars, jobs, uiTasks, rendererVars, channels, asked,
                   said, heard, quiet>>

\* SimpleHandler::OnRenderProcessTerminated.  No message of a dead frame is
\* delivered after it.
RenderProcessTerminated(b) ==
    /\ b \in owed
    /\ browser[b] = "open"
    /\ owed' = owed \ {b}
    /\ CancelQueries(QueriesOf(b), "crash")
    /\ toBrowser' = [f \in Frames |->
                       IF f \in FramesOf(b) /\ FrameProc[f] \in dead
                         THEN <<>> ELSE toBrowser[f]]
    /\ UNCHANGED <<browser, router, jobs, uiTasks, rendererVars, toRenderer,
                   asked, said, heard, quiet>>

\* SimpleHandler::OnBeforeClose.  The browser leaves browser_list_; the last
\* one removes the handlers, which cancels every query, and drops the router.
\* Its frames are gone and no message to or from them is delivered any more.
BeforeClose(b) ==
    LET mine == FramesOf(b) IN
    /\ browser[b] = "open"
    /\ browser' = [browser EXCEPT ![b] = "closed"]
    /\ IF \E o \in Browsers \ {b} : browser[o] = "open"
         THEN UNCHANGED <<router, queries, callbacks, canceled>>
         ELSE router' = "none" /\ CancelQueries(queries, "close")
    /\ owed' = owed \ {b}
    /\ frame' = [f \in Frames |-> IF f \in mine THEN "gone" ELSE frame[f]]
    /\ contexts' = contexts \ {<<FrameProc[f], contextId[f]>> : f \in mine}
    /\ contextId' = [f \in Frames |-> IF f \in mine THEN 0 ELSE contextId[f]]
    /\ pending' = {r \in pending : r.browser # b}
    /\ quiet' = quiet \cup RequestsIn(pending \ pending')
    /\ toBrowser' = [f \in Frames |-> IF f \in mine THEN <<>> ELSE toBrowser[f]]
    /\ toRenderer' = [f \in Frames |-> IF f \in mine THEN <<>> ELSE toRenderer[f]]
    /\ UNCHANGED <<jobs, uiTasks, dead, nextContext, nextRequest, rendererTasks,
                   asked, said, heard>>

\* SendProcessMessage does not guarantee delivery.
LoseMessage(f) ==
    /\ Lossy
    /\ \/ /\ toBrowser[f] # <<>>
          /\ toBrowser' = [toBrowser EXCEPT ![f] = Tail(@)]
          /\ UNCHANGED toRenderer
       \/ /\ toRenderer[f] # <<>>
          /\ toRenderer' = [toRenderer EXCEPT ![f] = Tail(@)]
          /\ UNCHANGED toBrowser
    /\ UNCHANGED <<browserVars, routerVars, rendererVars, history>>

------------------------------------------------------------------------------

Page(f) ==
    \/ FrameCreated(f)
    \/ \E kind \in Kinds, persistent \in BOOLEAN : SendQuery(f, kind, persistent)
    \/ \E req \in 1..nextRequest[FrameProc[f]] : CancelRequest(f, req)
    \/ ContextReleased(f)

Window(b) == AfterCreated(b) \/ RenderProcessTerminated(b) \/ BeforeClose(b)

Delivery(f) == ReceiveQuery(f) \/ ReceiveCancel(f) \/ ReceiveReply(f)

Next ==
    \/ \E f \in Frames : Page(f) \/ Delivery(f) \/ BeforeBrowse(f) \/ LoseMessage(f)
    \/ \E p \in Procs : ExecuteCallback(p) \/ Crash(p)
    \/ \E b \in Browsers : Window(b)
    \/ \E j \in jobs : JobDone(j)
    \/ OnCallback

Spec == Init /\ [][Next]_vars

\* Message loops run: messages are delivered and posted tasks are executed.
Fairness ==
    /\ \A f \in Frames : WF_vars(Delivery(f))
    /\ \A p \in Procs : WF_vars(ExecuteCallback(p))
    /\ WF_vars(OnCallback)

FairSpec == Spec /\ Fairness

------------------------------------------------------------------------------
\* Properties.

\* Every variable keeps its type.
BrowserTypeOK ==
    /\ browser \in [Browsers -> {"none", "open", "closed"}]
    /\ router \in {"none", "up"}
    /\ owed \subseteq Browsers
    /\ queries \subseteq QueryInfo
    /\ callbacks \subseteq CallbackImpl
    /\ jobs \subseteq Jobs
    /\ uiTasks \in Seq(UiTasks)

PageTypeOK ==
    /\ dead \subseteq Procs
    /\ frame \in [Frames -> {"none", "live", "gone"}]
    /\ contextId \in [Frames -> 0..MaxContext]
    /\ contexts \subseteq Procs \X ContextIds
    /\ nextContext \in [Procs -> 0..MaxContext]
    /\ nextRequest \in [Procs -> 0..MaxRequest]

RequestTypeOK ==
    /\ pending \subseteq RequestInfo
    /\ rendererTasks \in [Procs -> Seq(RendererTasks)]

ChannelTypeOK ==
    /\ toBrowser \in [Frames -> Seq(QueryMsgs \cup CancelMsgs)]
    /\ toRenderer \in [Frames -> Seq(Replies)]

HistoryTypeOK ==
    /\ asked \in Seq(Askers)
    /\ said \subseteq UiTasks
    /\ canceled \subseteq Cancellations
    /\ heard \in [Keys -> Seq(Replies)]
    /\ quiet \subseteq Keys

TypeOK == BrowserTypeOK /\ PageTypeOK /\ RequestTypeOK /\ ChannelTypeOK /\ HistoryTypeOK

Items(s) == {s[i] : i \in DOMAIN s}

IsFrom(k, query) == query \in DOMAIN asked /\ KeyOf(asked[query]) = k

\* Query id "query" was asked by request (ctx, req) of frame f.
AskedBy(query, f, ctx, req) ==
    query \in DOMAIN asked /\ asked[query] = [frame |-> f, ctx |-> ctx, req |-> req]

\* The handler gave this answer to the query, or nobody handled the query.
IsGiven(r) == r.answer = Canceled \/ [query |-> r.query, answer |-> r.answer] \in said

\* What a page hears is the answer of its own request: the query it comes from
\* was asked by this request, and the answer is the one the handler gave to that
\* query, or -1 when nobody handled it.  Two processes number their requests
\* alike, and replies outlive the pages and queries they were meant for.
HeardIsOwnAnswer ==
    \A k \in Keys : \A r \in Items(heard[k]) :
        (\E f \in FramesIn(k.proc) : AskedBy(r.query, f, k.ctx, k.req)) /\ IsGiven(r)

\* Why: every stage of the way back carries an answer of the query it names.
QueriesAsked == \A q \in queries : AskedBy(q.query, q.frame, q.ctx, q.req)
TasksSaid    == \A t \in Items(uiTasks) : t \in said
RepliesOwn   == \A f \in Frames : \A r \in Items(toRenderer[f]) :
                   AskedBy(r.query, f, r.ctx, r.req) /\ IsGiven(r)
CallsOwn     == \A p \in Procs : \A t \in Items(rendererTasks[p]) :
                   /\ \E f \in FramesIn(p) : AskedBy(t.reply.query, f, t.reply.ctx, t.reply.req)
                   /\ IsGiven(t.reply)

Provenance == QueriesAsked /\ TasksSaid /\ RepliesOwn /\ CallsOwn /\ HeardIsOwnAnswer

\* A page is not called back for a request it canceled, nor after its context
\* was released, whatever replies and tasks were already on the way.
NoAnswerAfterCancel ==
    [][\A k \in quiet : heard'[k] = heard[k]]_vars

\* Why: no request that the page gave up is pending, and ids are never reused.
QuietIsOver ==
    /\ \A r \in pending : r.key \notin quiet
    /\ \A r, s \in pending : r.key = s.key => r = s
    /\ \A k \in quiet \cup RequestsIn(pending) : k.req <= nextRequest[k.proc]

\* The browser process sends no reply to a query it canceled, even if the
\* handler executes the callback later or its answer was already posted.
CanceledStaysSilent ==
    [][\A f \in Frames :
         Len(toRenderer'[f]) > Len(toRenderer[f])
           => toRenderer'[f][Len(toRenderer'[f])].query \notin CanceledIds]_vars

\* A CallbackImpl whose router_ is set belongs to a pending query; otherwise its
\* destructor's DCHECK(!router_) fails when the handler lets go of it.
CallbackHasQuery ==
    \A c \in callbacks : \E q \in queries : q.query = c.query

\* A pending query can still be answered: its callback works, or its answer is
\* posted.  A callback consumed without an answer would leave the page waiting.
QueryIsAnswerable ==
    \A q \in queries :
        \/ \E c \in callbacks : c.query = q.query
        \/ \E t \in Items(uiTasks) : t.query = q.query

\* The router's map and the callbacks it gave to the handler match, both ways.
CallbacksMatchQueries == CallbackHasQuery /\ QueryIsAnswerable

\* DCHECK(browser_query_info_map_.empty()) of the router's destructor.
NoQueryWithoutRouter == router # "up" => queries = {}

CancelOnTheWay(q) ==
    \E m \in Items(toBrowser[q.frame]) :
        m.type = "cancel" /\ m.ctx = q.ctx /\ m.req \in {0, q.req}

\* The browser process keeps no query whose page stopped waiting, unless the
\* cancel message or the news of the crash is still to come, or the browser was
\* closed (see ClosedBrowserHasNoQueries).  Holds with reliable messages, one process
\* per browser and main frames only: nothing is reported of the crash of another
\* frame's process.
QueryHasAsker ==
    \A q \in queries :
        \/ KeyOf(q) \in RequestsIn(pending)
        \/ CancelOnTheWay(q)
        \/ FrameProc[q.frame] \in dead /\ FrameBrowser[q.frame] \in owed
        \/ browser[FrameBrowser[q.frame]] = "closed"

\* The reply to r, in the channel of a frame of its process or in a posted task.
ReplyOnTheWay(r) ==
    LET isReply(a) == a.ctx = r.key.ctx /\ a.req = r.key.req IN
    \/ \E f \in FramesIn(r.key.proc) :
         FrameBrowser[f] = r.browser /\ \E a \in Items(toRenderer[f]) : isReply(a)
    \/ \E t \in Items(rendererTasks[r.key.proc]) :
         t.browser = r.browser /\ isReply(t.reply)

QueryOnTheWay(r) ==
    \E f \in FramesIn(r.key.proc) : \E m \in Items(toBrowser[f]) :
        m.type = "query" /\ m.ctx = r.key.ctx /\ m.req = r.key.req

\* A page never waits in vain: its query is on the way or pending in the
\* browser process, or the reply is on the way, or a main-frame navigation
\* canceled it.  Holds with reliable messages and one process per browser.
RequestIsServed ==
    \A r \in pending :
        \/ QueryOnTheWay(r)
        \/ \E q \in queries : KeyOf(q) = r.key
        \/ ReplyOnTheWay(r)
        \/ \E c \in canceled : c.why = "browse" /\ IsFrom(r.key, c.query)

\* Once the handler answered a query the page hears it, unless the page gave up
\* or the query was canceled.
AnswerReachesPage ==
    \A k \in Keys :
        (\E s \in said : IsFrom(k, s.query) /\ s.query \notin CanceledIds)
          ~> (\/ heard[k] # <<>>
              \/ k \in quiet
              \/ \E c \in canceled : IsFrom(k, c.query))

------------------------------------------------------------------------------
\* What the routers promise a page.

\* The life of a request as its page sees it.
RequestState(k) ==
    IF k \in quiet THEN "over"
    ELSE IF \E r \in pending : r.key = k
      THEN IF \E r \in pending : r.key = k /\ r.persistent THEN "always" ELSE "once"
    ELSE IF heard[k] # <<>> THEN "over" ELSE "new"

Request == INSTANCE Query WITH
    state <- [k \in Keys |-> RequestState(k)],
    answers <- [k \in Keys |-> [i \in DOMAIN heard[k] |-> heard[k][i].answer.ok]]

\* Two routers, two processes, three queues and whatever crosses on the way keep
\* the contract of cefQuery: every page sees its requests as Query describes them.
KeepsQueryContract == Request!Spec

------------------------------------------------------------------------------
\* What the documentation of the router says and this program does not do.

\* cef_message_router.h: the queries of a closing browser are canceled, by the
\* router's OnBeforeClose, which SimpleHandler::OnBeforeClose does not call.
ClosedBrowserHasNoQueries ==
    \A q \in queries : browser[FrameBrowser[q.frame]] # "closed"
==============================================================================
