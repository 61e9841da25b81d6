# WebAssistant (CefApp): a TLA+ model

The program is a Windows desktop browser shell on the Chromium Embedded Framework (CEF).
`src/simple` is the program, `src/3rd/libcef` the framework's headers and the C++ wrapper
library that is compiled into it. This directory models the program's own logic and the
two wrapper classes with a life of their own that it relies on, the message router and
the resource manager. `tlc` checks the models on small instances (`*.cfg`), `tlapm` proves
theorems about all instances (`*_proofs.tla`), and `PROJECT.json` ties definitions to lines.

## 1. Inventory

### Parts, their state, their operations

| part | where | state it keeps | operations |
|---|---|---|---|
| renderer-side router | `cef_message_router.cc` 728-1200 | `browser_request_info_map_`, `context_map_`, id generators, one context id per page | `cefQuery`, `cefQueryCancel`, context created/released, reply received, callback task |
| browser-side router | `cef_message_router.cc` 150-725 | `browser_query_info_map_`, handler set, query ids; a `CallbackImpl` per query | query and cancel message, `Success`/`Failure` and their posted tasks, `OnBeforeBrowse`, `OnRenderProcessTerminated`, handler removal |
| query handler | `CefQuery.cc` 135-581 | the shared `DialogState` | `Dialog`, `PrintToPDF`, `DevToolsMessage`, `Binding` |
| requests of pages | `CefQuery.cc` 36-132, 400-577, `misc.cc` 122-139 | none | a page joins parameters, `OnQuery` splits them, a dialog joins paths |
| file dialogs | `CefQuery.cc` 17-83, 480-550 | `mode_`, `last_file_`, `pending_` | start a dialog, its dismissal |
| browser life cycle | `simple_handler.cc`, `simple_app.cc` | `browser_list_`, `is_closing_`, the router and its handler set, request contexts | popups, developer tools, creation, close, quit |
| resource manager | `cef_resource_manager.cc` | the sorted provider list, a `RequestState` per load, `pending_handlers_`; archives and their waiting requests | add, remove, destroy; load, continue, stop; file and archive results |
| local pages | `ResourceUtil.cc` | page list of the start, cache of contents | a request for a URL |
| response filter | `response_filter.cc` | the replacements, the script to inject | a chunk of a response |
| file functions | `V8HandlerEx.cc` | the files under the data directory | list, read, write, size, rename, remove, execute |
| startup configuration | `simple_app.cc`, `simple.cc`, `ClientSwitches.cc` | `meta`, `replace`, `redirect`, the command line | read once per process |
| processes | `misc.cc` 210-391 | none | `exec`, `IsProcessExist` (`DosExec` has no caller) |
| strings and paths | `misc.cc` 1-208 | none | `split`, `trim`, conversions |

### How they interact

A page calls `window.cefQuery`; the renderer-side router of its process numbers the request
and sends a message. `SimpleHandler::OnProcessMessageReceived` passes it on to the one
browser-side router, which calls `QueryHandler::OnQuery` with a callback object. The answer
goes back as a posted task, a message and another posted task. `SimpleHandler` owns the
router from the first `OnAfterCreated` to the last `OnBeforeClose` and decides which events
reach it. Loads go from the IO thread's `OnBeforeResourceLoad` into the resource manager,
whose providers (local pages at order 0, the data directory at order 100) answer at once or
through the FILE thread; what a server sends instead goes through the response filter.
Pages reach the data directory past all of this, on the main thread of their renderer process,
through the functions of the WebAssistant object. The browser process and every renderer
process read `startup.html` for themselves.

### What is hard here, and what is correct

* Query routing. Five queues lie between a question and its callback; pages cancel, navigate,
  crash and close at any of them, every renderer numbers its requests from 1, and messages
  may be lost. Correct: an answer reaches the request it was given for and no other, nothing
  comes after a cancel, neither side waits for or holds a query of the other, and no callback
  object survives its query unnoticed.
* Requests. Parameters are joined and split without quoting, and what does not parse fails
  on the UI thread of all browsers. Correct: parameters arrive, and no request ends the process.
* Dialogs. One record of state is shared by all dialogs. Correct: the flag and the mode agree
  with the dialog that is open.
* Life cycle. Creation, refusal and closing overlap, and a browser is listed only some time
  after it was asked for. Correct: the router is there while any browser may use it, and the
  loop ends with the last window, neither before nor never.
* Resource manager. Providers are removed while loads hold iterators into their list, and
  results come late. Correct: no iterator dangles, a load moves up only and ends.
* Local pages. Files change between the listing, the check and the read. Correct: a decision
  and a content, once made in a release, stay.
* File functions. Every call is several calls of the operating system, and other processes come
  in between. Correct: to a page whose calls meet no other the files change all at once, a
  reader that met no writer has read what is stored, and a check holds when it is used.
* Response filter. CEF cuts a response into chunks and chooses the buffers. Correct: the page
  receives what the replacements make of the whole, however it was cut.
* Startup. The browser process has two command lines and its renderers read the file again.
  Correct: they agree, and a startup process runs once.

`PROJECT.json` lists these hazards one by one with the lines where they bite.

## 2. Modules

| module | models | proofs |
|---|---|---|
| `Query` | abstract: what `cefQuery` promises a page | |
| `Windows` | abstract: what the windows promise the router | |
| `QueryRouter` | both routers, `QueryHandler`'s use of the callback, the events of `SimpleHandler` that reach the router; implements `Query` | `QueryRouter_proofs` |
| `BrowserLifeCycle` | life span callbacks of `SimpleHandler`, private contexts; implements `Windows` | `BrowserLifeCycle_proofs` |
| `ResourceManager` | provider list, loads, removal, directory and archive providers | `ResourceManager_proofs` |
| `PagesProvider` | `PagesResourceProvider`, `RequestDumpResourceProvider` | `PagesProvider_proofs` |
| `Requests` | what pages and `QueryHandler` say to each other | `Texts_proofs` |
| `FileDialog` | `DialogState`, `OnDialogQuery`, `DialogCallback` | `FileDialog_proofs` |
| `Files` | abstract: what the pages may take the data directory for | |
| `FileApi` | the functions of `V8HandlerEx`, `exec`; implements `Files` | `FileApi_proofs` |
| `ResponseFilter` | `InjectResponseFilter` | `Texts_proofs` |
| `Startup` | command lines, `startup.html`, the startup process, the first page | `Startup_proofs` |

Each `MC*` module gives its specification small constants. Comments that start with "Mutant:"
mark variants of the definition that follows them, each with a plausible mistake, for which
a property must fail. `Requests` and `ResponseFilter`, which share nothing but that they take texts apart, are
proved about in one module; `ResponseFilter` therefore has `FilterInit`, `FilterNext` and `FilterSpec` where other
modules have `Init`, `Next` and `Spec`.

### How the modules meet

`Windows` says what the router can rely on: it is made before the first browser is listed, is there
as long as one is listed, and goes with the last; a browser that comes later, as a private popup may,
finds a new one. `BrowserLifeCycle` implements it with all the ways windows come and go. `QueryRouter` has
`AfterCreated` and `BeforeClose` of a window only, which are `Open` and `Close` of `Windows`, and makes a new
router whenever there is none, as the code does. A job of kind `file` in `QueryRouter` is a dialog of
`FileDialog`, and a request of `Requests` is one of the kinds of `QueryRouter` seen letter by
letter. `PagesProvider` is a provider of kind `now` in `ResourceManager`.

`Query` is the contract of `cefQuery`: a request waits from the call until its one answer (or, if it is
persistent, until a failure), and hears nothing after that or after it was given up. Under the refinement mapping a request of `QueryRouter` waits just if its
renderer's router has it in its map; queues, messages and the browser process are not seen.
`Files` has a value for every file: its content, gone, or unknown after calls disturbed each
other or one of them broke off. The mapping takes the value before a call that is under way
and the content once it is closed.

### QueryRouter

Names follow the source: `queries` is `browser_query_info_map_`, `pending` is
`browser_request_info_map_`, `callbacks` are the `CallbackImpl` objects with `router_` set, `jobs`
the dialogs and prints that hold one. `toBrowser` and `toRenderer` are the messages under way,
in order for each frame; `uiTasks` and `rendererTasks` are the posted tasks. A frame of the
model is a frame in one process, so a cross-origin navigation is one frame gone and another
created. Requests are abstracted to the six kinds that `OnQuery` tells apart. The variables
after "History" are not in the code; they record who asked, what was said, what was canceled
and what was heard.

`ReceiveQuery` is the whole handler: `OnQuery` with the callback method it may execute, then
keeping the query or canceling it. Detaching a callback (`CallbackImpl::Detach`) is part of every
way to end a query. After a crash the queries of a browser stay until its
`OnRenderProcessTerminated`, which CEF sends for the main frame's process only.

### ResourceManager

`ioTasks` is the queue of the IO thread, and one action runs its head to the end. `stage` and `at`
say where the `RequestState` of a load is: in the `Request` object given to an entry, in a posted
continue or stop, or gone. The `pending_requests_` of an entry follow from them. An entry
that was erased keeps its place, marked, so that an iterator to it can be told from one to a
live entry. `FileJob` is the FILE thread. `SetupResourceManager`, one task in the code, is a
run of adjacent tasks, which nothing can come between.

### FileDialog, BrowserLifeCycle, PagesProvider

`FileDialog` has any number of queries that may start a dialog each; a browser refuses a second
dialog while it shows one, as CEF does, which then dismisses it without a selection.
`overlapped` is history: whether two dialogs were ever outstanding.

`BrowserLifeCycle` goes on after the loop was asked to end: what is posted by then may still run, and
nothing depends on when the loop really ends. It follows a browser through `creating`, `open`, `unloading` (asked to close),
`closing` (`DoClose` done) and `closed`. What CEF does between the callbacks (cancel a popup
that is not created when its opener goes, let a page refuse) is written from the comments
of the headers.

`PagesProvider` has a host as a sequence of labels, so that the domain arithmetic of
`GetURIDomain` is modelled by what it does. `OnRequest` ends where it opens a file;
`ReadFile` is the rest, and `ChangeFile` may come between.

### FileApi, ResponseFilter, Startup, Requests

`FileApi` has a call per process (`Execute` runs on the main thread) as a record with the step it is
at: a write is open, pieces as the stream flushes them, the check of the stream, and close, which
writes the rest after the page's answer is decided. Removing, reading and asking for the size first look
and then act. An exception of `std::filesystem` ends the process, as nothing catches it. `base`,
`met`, `shared` and `torn` are history: what a writer found, whom it met, and what is spoiled.

`ResponseFilter` has the text of a response as characters, one of which stands for white space; `Filter`
is one call with any chunk and any buffer of the given sizes. `whole` is history: whether a border of
chunks, or the end of a buffer, was ever in the way of the text.

`Startup` has a command line as a function from switches to values, once as the program keeps it
(`own`) and once as CEF does (`cef`), and `startup.html` as the list of its meta elements.
The first element for a switch decides in one of them and the last in the other, as in the code.

`Requests` has texts as sequences of words and bars. `Split` is the loop of `split`, `Request` the
page's side of it, `SplitInPage` JavaScript's `split`. One request is handled at a time.

## 3. Runs

Most type invariants are theorems only and take no part in a run. Deadlock is checked for `pages`. In the other runs the system may really stop: pages
have used up their bounded requests, loads, dialogs or responses are over, a process was ended,
the program has quit, or a bound on edits or text is reached.

| run | instance | shows |
|---|---|---|
| `router_page` | one page, 2 contexts, 2 requests, all ways of answering but files (inside `OnQuery`, later, never), fair message loops | callbacks and queries match; neither side is left with a query of the other; the contract of `cefQuery`, so that nothing is heard after a cancel; a given answer is heard |
| `router_frames` | 2 browsers, one with frames in 2 processes, messages may be lost | answers stay apart although processes number alike; canceled queries are silent; nothing is left without a router |
| `router_closed_browser` | 2 browsers, 3 frames, 2 processes, reliable | finding: a closed browser leaves queries |
| `resources` | 2 loads, archive and directory, 2 further calls of the API, fair threads | entries last as long as a load is at them, loads move up, late results are ignored, loads end |
| `dialog_any` | 2 browsers, 3 queries, 2 paths | flag and dialogs agree; slash and mode agree until dialogs overlap |
| `lifecycle` | 3 browsers of any kind, 2 seconds | quit with the last; `Windows`, so the router as long as needed |
| `lifecycle_private` | the same | finding: private popups of one second share a cache |
| `pages` | 2 sites, 7 URLs, 2 redirects, 3 file changes | decisions and contents of a release stay, empty contents too; no page of another domain |
| `files` | 2 processes, 1 file in a directory, texts of 1 and 2 pieces, failures and crashes | the contract `Files`; only races end a process; calls end but for two excuses |
| `filter` | all responses of up to 4 characters, 4 lists of replacements, 4 hosts | chunks make no difference unless a border or a buffer is in the way; whose script is run and when |
| `startup` | 2 instances, 3 command lines, 3 lists of meta elements, edits | command lines and renderers agree; the startup process runs once |
| `requests` | every kind, parameters with bars and without, prints with numbers, none and nothing | when parameters arrive, what can end the process, what is never answered, what is refused |

Why the bounds are enough to meet the interesting cases:

* Two requests and two contexts are the least with which a late reply can meet the wrong
  request, the wrong document or a reused callback. A main and a sub frame in two
  processes have the same ids, and the second browser keeps the router when the first is closed.
  Pages of two browsers in one process, which draw different ids from it, are left to
  `router_closed_browser` and to the theorems, which hold for every placement of frames.
* Two loads are needed for a removal that finds one of two requests pending. Two calls
  are an addition beside a waiting load and a removal, or a removal and
  the destruction. The safety properties of this module are all proved for any number; the run is for
  `EveryLoadEnds`, and shows each safety property to be one that a mistake would break.
* Three queries are a dialog, one that overlaps it, and one after both. Three browsers are
  an opener, its popup or tools, and a private popup.
* Three changes of a file are removed, written, and written again, between the two
  halves of a request or between two requests.
* Two processes on one file are enough for each race of `FileApi`, which are all between two calls; a text of
  two pieces can be seen half written. `FileApi` itself
  has no limit to a file; the run's specification, `BoundedSpec` of `MCFileApi`, allows an append up to `MaxBlocks`
  blocks, while a truncating write is always possible. Under this bound no read is chased for ever, so the run
  shows `CallsEnd` without that excuse (see Fairness).
* Responses long enough for a match, a border and white space on both sides of it; one replacement finds
  what another one leaves, one removes, one grows.
* Two instances are needed to look for the startup process at the same time; the lists contradict themselves
  for a switch, name it with a rest, and set it to `true`.
* Requests of at most three texts with every place of the bars, also in the text that names the kind, dialogs
  with a filter, and prints with up to seven parameters, the most that are read.

### Fairness

`router_page` assumes weak fairness of message delivery per frame, of the UI thread's callback
tasks and of each renderer's tasks: CEF's message loops run whatever was posted. Nothing is assumed of
pages, users, dialogs or prints, and messages are reliable in that run. `resources`
assumes that the IO thread runs its queue and that the FILE thread's jobs end. `files` assumes that the main thread of a renderer process goes on with its call
(`WF_vars(Running(p))`); the program a page executes is not assumed to end, and `CallsEnd` names that wait.
It also names the read of a file that others append to again and again (`IsChased`), which goes on for ever under this
fairness: nothing in the code lets a reader catch up. `lifecycle` assumes no fairness.

## 4. Proofs

All theorems are about any values of the constants that meet the named assumptions.

### QueryRouter

* `TypeCorrect`: the type invariant, one lemma per action.
* `AnswersAreOwn` (`HeardIsOwnAnswer`). The property is not inductive: an answer is wrong long before it
  is heard. `Provenance` says of every stage of the way back (query map, posted tasks,
  messages, renderer tasks) that what it carries is an answer of the query it names, asked
  by the request it is addressed to.
* `SilentAfterCancel` (`NoAnswerAfterCancel`). `QuietIsOver`: no pending request was given up, keys
  of pending requests are unique, and no key is above the generator. A callback task
  calls pages only for pending requests, so one given up is never called.
* `QueriesAreAnswerable` (`CallbacksMatchQueries`) and `CanceledQueriesAreSilent` from `QueryInvariant`:
  query ids are new, what is canceled is neither in the map nor on its way to it, and a callback that has a
  router, or a posted task of one, is of a query in the map. `RouterOutlivesQueries` from `RouterIsUp`: while a
  browser is open the router is up, and without one there are no queries.
* `QueryContractIsKept`: `QueryRouter` implements `Query`. The mapping needs `QuietIsOver`, `HeardIsOld` (nothing
  was heard of a request that is not made yet) and `Pages` (a context belongs to one live page, and each
  pending request to the page of its context); each action is one step of the contract or none.
* `RequestsAreServed` (`RequestIsServed`) and `QueriesHaveAskers` (`QueryHasAsker`) say that the two sides of the
  router agree, across messages that cancel, answer and cross each other. Both rest on `Routed`, which adds to
  the above
  - `IdsAreOld`: what is on the way has ids that were issued, and its context id is no other frame's;
  - `AskedOnce`: no two queries, whether asked or still on the way, are of the same request;
  - `PersistenceKept`: page and browser process agree on whether a request is persistent;
  - `RepliesGoOn`: a reply to a query that is still kept is not its last;
  - `CancelsAreOver`: a cancel message on the way is about nothing that a page waits for;
  - `LiveIsUp`, `OwedIsDead`: frames, processes and windows agree on who is there.

  On top of it `RequestsServed` follows each request along its way (message, query, reply, task): what leaves
  one stage enters the next, or the request ends with it. A reply on the way alone would not do: it has to
  be one that ends the request (`LastReply`). `HasAsker` says of queries, and of query messages by
  their place in the channel, that the page still waits, or that a cancel comes behind them, or that their
  frame is lost. The step in which a page stops waiting is the hard one: a page that cancels or goes sends the cancel in the same
  step, a crash is owed to the browser process, and an answer that ends a request is, by `RepliesGoOn` and
  `AskedOnce`, of a query that is gone.

  Neither holds without its hypotheses, which the theorems name. Both need reliable messages (`~Lossy`) and one
  process per browser (`OneProcess`), as a cancel may otherwise meet the query of another process (section 5).
  `QueryHasAsker` also needs that all frames are main frames (`MainFramesOnly`): when a frame's own process
  crashes, nothing tells the router. `router_page` is an instance of all three; so is any number of
  browsers that share their processes.

### ResourceManager

* `ResourceTypeCorrect`: the type invariant.
* `NoIteratorDangles` (`EntriesLastAsNeeded`) and `ProvidersAreSorted` (`ListIsSorted`) from `ListInvariant`, which adds that
  ids are those of creation and differ. The argument in each step: an entry is erased only with
  no request pending but the one that leaves it, and a doomed one keeps at least one that stays.
* `HandlersAreAwaited` from `TaskInvariant`: a load has at most one task in the queue, and it is the one its stage says.
* `LoadsMoveUp` from `ListInvariant` and `TaskInvariant`: what stands behind a place in a sorted list has the same or a higher order.
* `LateResultsAreIgnored` from `TakenIsBehind`: an entry that a load left is not one it comes to again.

### The other modules

* `FileDialog`: `DialogTypeCorrect`. `FlagTellsDialogs` and `PatientPagesMarkFolders` from `PatientInvariant`: until
  dialogs overlap there is at most one, and it has the mode of the state. That no flag is left without a dialog
  holds however dialogs overlap.
* `PagesProvider`: `PagesTypeCorrect`. `StartDecides` from `StartInvariant` (list, open request and last answer
  agree with the files of the start); `ContentIsKept` from `CacheInvariant` (the cache is a function of the page,
  covers what was served, and a page being read has no entry) and `KeptInvariant` (a page whose file was never missing was
  served nothing that is not in the cache); `AnswersWereThere` and `AnswersAreOfTheirDomain`
  from `HistoryInvariant` (what is read, cached or answered was once in the file of a page of the request's domain).
* `BrowserLifeCycle`: `RouterIsThere` and `LoopEndsWithTheLast` (`QuitsWithTheLast`) from one invariant: the list holds
  exactly the browsers between `OnAfterCreated` and `OnBeforeClose`, and a browser that is being created is
  the first and alone, or private, or has its opener in the list, which will take it along.
  `WindowsArePromised` (it implements `Windows`) and `LifeCycleTypeCorrect` from the same.
* `FileApi`: `FileTypeCorrect`. `OnlyRacesEnd` from `RaceInvariant`: calls that overlap are known to (`shared`),
  and a file that `FileSize` found and that is gone was removed by one of them. `FilesContractIsKept`: `FileApi`
  implements `Files`. `FileInvariant` adds, for each process, what its open file means (`Fine`): a writer that met
  no other has written the first pieces of its text, behind what it found if it appends; a reader
  that no writer met has read the beginning of the file; two that meet know it. The steps of the calls
  fall into the ten sorts of `FileStep`, and each sort keeps `FileInvariant` and is one step of the
  contract or none.
* `Startup`: `StartupTypeCorrect`. `InstancesAgreeOnLines`, `RenderersAgree` and `HomepagesAreShown` from `ConfigInvariant`,
  which says what an instance made of its command line and of the elements it read, and that those are
  still the page's unless it was edited. The heart of the first is `LinesMeanTheSame`, about any list: if no
  two elements for a switch contradict each other the first and the one kept in the map have the same value.
  `StartupProcessRunsOnce` from `RunsInvariant`: unless instances met, a process is started by at most one, and
  only while it does not run.
* `ResponseFilter`: `ScriptsAreOfTheirSite`, from the labels of a host alone (`ScriptDomainIsEnd`), and
  `PagesAreInjected` from `InjectInvariant`. `FilterTypeCorrect`, `ChunksMakeNoDifference` (`BordersDecide`) and
  `OnlyGrowthBreaks` (`GrowthBreaks`) from `TextInvariant`: as long as no border was in the way, what the page
  was given is what the replacements make of the part that was read. The heart is `ReplacedConcat`: a text that
  is cut where no match lies across is replaced piece by piece.
* `Requests`: `RequestTypeCorrect`, `PlainParametersArrive` (`ParamsArrive`), `PlainRequestsEndNothing`
  (`PlainRequestsAreSafe`), `SelectionsArrive` and `SilenceIsForUnknownDialogs` (`SilenceIsUnknown`) from `Exchange`,
  which says what the last request made of its parameters. `JoinedSplits` is about any texts and any separator:
  texts that a separator keeps apart (`Separates`) come out of the split as they were joined (`PlainItems`). `AllTaken`
  is the converse, that texts which do come out are plain. That no binding is taken is `BindingIsNoTest`.

The library's induction theorems take an operator as a parameter, which the provers cannot instantiate. What recursive
functions compute is proved by induction over the members of a set instead: `DownwardInduction` and
`UpwardInduction`, about intervals, follow from the least member of a well-founded set
(`WFMin`, `NatLessThanWellFounded`), and each recursive function is first shown to exist (`RestExists`, `AfterExists`,
`JoinExists`, `SplitExists`, `TextExists`) as the one function on its interval that meets its equation.

Assumptions are those named in the modules (`ConstantsAssumption` of `QueryRouter` and of `FileApi`,
`ResourceAssumption`, `DialogAssumption`, `PagesAssumption`, `HostAssumption`, `LifeCycleAssumption`, `StartupAssumption`, `FilterAssumption`, `RequestAssumption`): the types of
the constants, nothing about their size except that the loads are finitely many,
that no folder of a page and no host of a script has a name that ends in a dot, and that paths are not empty and have no bar
(Windows allows none in a name). TLC evaluates them in every run.

### Only model-checked

* Liveness: `AnswerReachesPage`, `EveryLoadEnds`, `CallsEnd` (fairness and ENABLED are out of the
  prover's reach).

Every invariant and every action property that a run checks, and every refinement, is a theorem. The runs still
matter for them: a mutant of the model shows for each that it can be broken.

## 5. Findings and observations

Two runs end in a violation and are findings of `PROJECT.json`:

* Queries of a closed browser stay while another one is open: `SimpleHandler::OnBeforeClose` does not call
  the router's (`simple_handler.cc:190`), although the router's header says that it must be called.
* Private popups created within one second share their cache path, and so what should be isolated
  (`simple_handler.cc:444`).

Observations made while modelling. The models have them as the code does, and where a property of a run
holds with an exception, the exception is one of these:

* A load that waits for an archive and is not in it is neither answered nor continued
  (`cef_resource_manager.cc:263`); `cef_resource_manager.h:194-198` asks for one of the two. `EveryLoadEnds`
  names it as an exception (`Forgotten`).
* A second removal that meets an entry whose deletion is pending does not advance its iterator
  and loops for ever on the IO thread (`cef_resource_manager.cc:730`): `Spins` and `hung`.
* Overlapping dialogs exchange their modes: the dialog's slash is decided by the state when it is
  dismissed (`CefQuery.cc:51`), which a second request has changed meanwhile; `SlashIsRight` is stated until
  dialogs overlap. The assertions on `pending_` fail in the same cases (`CefQuery.cc:47`, `492`).
* A dialog request of an unknown kind is handled and never answered (`CefQuery.cc:524`): kind
  `odd` of `QueryRouter`, query `forgotten` of `FileDialog`, `SilenceIsUnknown` of `Requests`.
* The error code 1 that `OnPrintToPDF` and `OnDevToolsMessage` give for missing parameters is lost, as they
  return false afterwards; the page gets -1 (`CefQuery.cc:439`, `459`). `SilenceIsUnknown` tells the two apart.
* Cancel messages name a query by browser, context and request, but every process numbers its own;
  a cancel from one process can remove, without notice, the query of another process of the same
  browser (`cef_message_router.cc:675`). `RequestIsServed` and `QueryHasAsker` therefore hold with one process per browser only.
* `SimpleHandler` hears of the crash of a main frame's process only; the queries of a frame in another
  process stay until the browser navigates or the last one closes. `QueriesHaveAskers` has a hypothesis for it.
* The loop is quit with the last listed browser, also when a private popup was asked for and is still to
  be created (`simple_handler.cc:202`); `QuitsWithTheLast` names this exception (`QuitIsLast`). If the popup is still
  created, it gets a router of its own (`simple_handler.cc:141`).
* When the last two browsers close together, `is_closing_` is set for neither
  (`simple_handler.cc:180`); nothing reads it in that case.
* A binding request is dispatched if the part before the first bar is `Binding` and answered if the
  message starts with `BindingTest`; no message does both, so none is answered (`CefQuery.cc:561`).
* The developer tools' observer of a call is gone when its query returns, before a result can arrive, so that none is
  reported; an empty method name ends the process by a CHECK.
* A parameter that is no number, or an empty one before the last, ends the browser process:
  `std::stoi` throws and nothing catches it (`CefQuery.cc:103`). It also cuts fractions, so that a scale of
  .5 becomes 0, which CEF takes for the default.
* `FileGetContents` reads to wherever the end of the file is by then, without a limit: processes that append as fast
  as it reads keep it, and its page, busy (`V8HandlerEx.cc:126`).
* `FileRename` renames an empty path instead of its source and always throws (`V8HandlerEx.cc:211`).
  `FileSize` and `FileRemove` end the process if another one has removed, or has open, what they
  just found. A write that fails only in `close()` is reported as done (`V8HandlerEx.cc:166`).
* `Execute` blocks all pages of its process until the program ends, and may wait on a null handle
  (`misc.cc`, `exec`). The strings it passes on are of temporaries that are gone.
* The response filter takes all of a chunk although its buffer may be too small for the outcome
  (`response_filter.cc:95`), and looks at chunks one by one, so that a text across two of them is not found
  (`response_filter.cc:109`). `BordersDecide` and `GrowthBreaks` say exactly when that shows.
* For a switch named twice in `startup.html` the first element decides in one command line and the last in the
  other, and `app-v8fn`, given on the command line, is not handed to renderers. `CommandLinesAgree` and
  `RendererAgrees` say when the processes agree all the same.
* `DosExec`, which has no caller, waits for its child before it reads the child's output (`misc.cc:324`);
  `ReplaceString` has none either.

## 6. Not modelled

* The great bulk of the sources is not the program's: nlohmann::json, the headers of CEF and the
  generated wrappers that translate calls between C and C++. They have no state of their own. What is
  modelled are the files under `src/simple` and the two wrapper classes with a life of their own.
* What keeps no state and decides nothing another part sees: titles, icons, downloads, load and
  certificate error pages, console messages, window delegates, logging.
* `CloseAllBrowsers`, which has no caller (`simple_handler.cc:242`), and when the message loop really ends after
  `CefQuitMessageLoop`.
* CEF and Chromium themselves, except as the environment of the callbacks; id generators that
  wrap after 2^31 requests; well-formedness of numbers in messages of the router.
* The URL and MIME filters a resource manager may be given, which the program leaves empty.
* Of the startup, the lists `cors`, `replace` and `redirect`, which are used as they are, and the settings that
  `wWinMain` copies from its command line (cache, log, locale, debugging port).
* Code page and case conversions, which are pure calls of Windows, and functions without a caller.
* A second continuation of the same load, which the destructor of a `RequestState` makes when every
  provider declines at once (`cef_resource_manager.cc:599`): what it does is decided by CEF.

## 7. What is left

* A contract of a load (asked, continued once, with the first provider that takes it) for `ResourceManager`
  to implement; its parts are `LoadMovesUp`, `CanceledIsIgnored` and `EveryLoadEnds`.
