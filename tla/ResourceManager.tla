--------------------------- MODULE ResourceManager ---------------------------
(***************************************************************************)
(* CefResourceManager: resource loads go through a list of providers.      *)
(*                                                                         *)
(* All of it runs on the IO thread, as tasks in the order they were        *)
(* posted; file work is done on another thread, which posts its result.    *)
(* A load is given to the providers in ascending order until one takes it; *)
(* that provider continues it with a handler or without one, at once or    *)
(* later.  Providers may be added and removed and the manager destroyed    *)
(* while loads are with a provider.                                        *)
(*                                                                         *)
(* SetupResourceManager is one task that adds the providers of the         *)
(* program; here its AddProvider calls are adjacent tasks.                 *)
(***************************************************************************)
EXTENDS Integers, Sequences, FiniteSets

CONSTANTS
    Loads,          \* resource loads
    Setup,          \* the providers SetupResourceManager adds
    Calls,          \* the calls of the API that other threads may post
    MaxCalls        \* bound: calls posted

(***************************************************************************)
(* What tells providers apart here:                                        *)
(*   now        handles or declines at once: PagesResourceProvider,        *)
(*              RequestDumpResourceProvider, ContentProvider               *)
(*   directory  opens a file on the FILE thread: DirectoryProvider         *)
(*   archive    loads an archive on first use: ArchiveProvider             *)
(***************************************************************************)
ProviderKinds == {"now", "directory", "archive"}
MaxEntries    == Len(Setup) + MaxCalls
EntryIds      == 1..MaxEntries

\* "ident" is identifier_; "id" names the ProviderEntry object.
AddCalls    == [type : {"add"}, kind : ProviderKinds, order : Int, ident : STRING]
RemoveCalls == [type : {"remove"}, ident : STRING]
ApiCalls    == AddCalls \cup RemoveCalls \cup [type : {"removeAll", "destroy"}]

ASSUME ResourceAssumption ==
    /\ IsFiniteSet(Loads)
    /\ Setup \in Seq(AddCalls)
    /\ Calls \subseteq ApiCalls
    /\ MaxCalls \in Nat

VARIABLES
    providers,      \* providers_, a sequence of entries
    made,           \* number of entries made
    manager,        \* "up", "deleted"
    hung,           \* whether a task of the IO thread never returns
    stage,          \* load -> where its RequestState is
    at,             \* load -> id of the entry of current_entry_pos_
    handlers,       \* pending_handlers_: load -> entry that made the handler, or 0
    zip,            \* entry -> "none", "loading", "loaded", "failed"
    queue,          \* entry -> ArchiveProvider::pending_requests_
    ioTasks,        \* posted to the IO thread
    fileJobs,       \* posted to the FILE thread
    calls,          \* number of API calls posted so far
    closing,        \* the last reference to the manager was dropped
    \* History, not in the code.
    taken,          \* <<load, entry>>: the load was taken from the entry by a removal
    served          \* load -> entry whose handler GetResourceHandler returned, or 0

vars == <<providers, made, manager, hung, stage, at, handlers, zip, queue,
          ioTasks, fileJobs, calls, closing, taken, served>>

providerVars == <<providers, made, manager, zip, queue>>
loadVars     == <<stage, at, handlers>>
history      == <<taken, served>>

(***************************************************************************)
(* The RequestState of a load is                                           *)
(*   held      in the Request object that was given to entry at[load]      *)
(*   moving    in a posted ContinueOnIOThread                              *)
(*   stopping  in a posted StopOnIOThread                                  *)
(*   done      deleted, after its destructor continued the load            *)
(* and GetResourceHandler comes last.  All the way from held to done the   *)
(* Request object is in pending_requests_ of the entry.                    *)
(***************************************************************************)
Stages   == {"idle", "posted", "held", "moving", "stopping", "done", "fetched"}
InFlight == {"held", "moving", "stopping"}

\* A doomed entry has deletion_pending_ set.  An erased one was deleted and is
\* in providers_ no more; it keeps its place here, so that places can be named.
Entries == [id : EntryIds, kind : ProviderKinds, order : Int, ident : STRING,
            status : {"live", "doomed", "erased"}]

LoadTasks    == [type : {"load"}, load : Loads]
ContinueTask == [type : {"continue"}, load : Loads, handled : BOOLEAN]
StopTasks    == [type : {"stop"}, load : Loads]
OpenedTasks  == [type : {"opened"}, load : Loads, entry : EntryIds, found : BOOLEAN]
ZipTasks     == [type : {"zip"}, entry : EntryIds, loaded : BOOLEAN]
IoTasks      == ApiCalls \cup LoadTasks \cup ContinueTask \cup StopTasks
                  \cup OpenedTasks \cup ZipTasks
OpenJobs     == [type : {"open"}, load : Loads, entry : EntryIds]
ZipJobs      == [type : {"unzip"}, entry : EntryIds]

PendingRequests(id) == {r \in Loads : stage[r] \in InFlight /\ at[r] = id}

Init ==
    /\ providers = <<>> /\ made = 0 /\ manager = "up" /\ hung = FALSE
    /\ stage = [r \in Loads |-> "idle"]
    /\ at = [r \in Loads |-> 0]
    /\ handlers = [r \in Loads |-> 0]
    /\ zip = [e \in EntryIds |-> "none"]
    /\ queue = [e \in EntryIds |-> {}]
    /\ ioTasks = Setup
    /\ fileJobs = {} /\ calls = 0 /\ closing = FALSE
    /\ taken = {}
    /\ served = [r \in Loads |-> 0]

------------------------------------------------------------------------------
\* Other threads.

\* A call of AddProvider, RemoveProviders or RemoveAllProviders off the IO
\* thread posts itself; dropping the last reference posts the destructor.
Call(c) ==
    /\ calls < MaxCalls
    /\ ~closing
    /\ calls' = calls + 1
    /\ ioTasks' = Append(ioTasks, c)
    /\ closing' = (c.type = "destroy")
    /\ UNCHANGED <<providerVars, hung, loadVars, fileJobs, history>>

\* A page loads a resource: OnBeforeResourceLoad is to be called.
StartLoad(r) ==
    /\ stage[r] = "idle"
    /\ ~closing
    /\ stage' = [stage EXCEPT ![r] = "posted"]
    /\ ioTasks' = Append(ioTasks, [type |-> "load", load |-> r])
    /\ UNCHANGED <<providerVars, hung, at, handlers, fileJobs, calls, closing, history>>

\* OpenOnFileThread, LoadOnFileThread: the file is there or not.
FileJob(j) ==
    /\ fileJobs' = fileJobs \ {j}
    /\ \E there \in BOOLEAN :
         ioTasks' = Append(ioTasks,
           IF j.type = "open"
             THEN [type |-> "opened", load |-> j.load, entry |-> j.entry, found |-> there]
             ELSE [type |-> "zip", entry |-> j.entry, loaded |-> there])
    /\ UNCHANGED <<providerVars, hung, loadVars, calls, closing, history>>

------------------------------------------------------------------------------
\* The provider list.

Listed(i) == i \in DOMAIN providers /\ providers[i].status # "erased"
Valid(i)  == i \in DOMAIN providers /\ providers[i].status = "live"

WithStatus(e, status) == [e EXCEPT !.status = status]

\* AddProvider inserts before the first entry of a higher order, if any.
IsPlaceFor(place, order) ==
    /\ \A j \in 1..(place - 1) : Listed(j) => providers[j].order <= order
    /\ \/ place = Len(providers) + 1
       \/ Listed(place) /\ providers[place].order > order

\* insert(), of a sequence.
InsertedAt(place, new) ==
    [j \in 1..(Len(providers) + 1) |->
       IF j < place THEN providers[j]
       ELSE IF j = place THEN new ELSE providers[j - 1]]

\* AddProvider, on the IO thread.
AddProvider(t) ==
    /\ t.type = "add"
    /\ made < MaxEntries
    /\ made' = made + 1
    /\ \E place \in 1..(Len(providers) + 1) :
         /\ IsPlaceFor(place, t.order)
         /\ providers' = InsertedAt(place,
              [id |-> made + 1, kind |-> t.kind, order |-> t.order,
               ident |-> t.ident, status |-> "live"])
    /\ ioTasks' = Tail(ioTasks)
    /\ UNCHANGED <<manager, hung, loadVars, zip, queue, fileJobs, calls, closing, history>>

\* Mutant: entries are erased with requests pending.
AfterDeletionAtOnce(Doomed) ==
    [i \in DOMAIN providers |->
       IF i \in Doomed THEN WithStatus(providers[i], "erased") ELSE providers[i]]

\* DeleteProvider: an entry with pending requests is kept until they cleared.
AfterDeletion(Doomed) ==
    [i \in DOMAIN providers |->
       IF i \notin Doomed THEN providers[i]
       ELSE IF PendingRequests(providers[i].id) = {}
              THEN WithStatus(providers[i], "erased")
              ELSE WithStatus(providers[i], "doomed")]

\* What DeleteProvider does with the loads held at the places in Doomed: they
\* are moved on, or stopped.  Which of them comes first is left open.
ReleaseHeld(Doomed, stop) ==
    LET Held == {r \in Loads : stage[r] = "held" /\ \E i \in Doomed : providers[i].id = at[r]} IN
    /\ stage' = [r \in Loads |-> IF r \notin Held THEN stage[r]
                                 ELSE IF stop THEN "stopping" ELSE "moving"]
    /\ \E s \in [1..Cardinality(Held) -> Held] :
         /\ \A r \in Held : \E i \in DOMAIN s : s[i] = r
         /\ ioTasks' = Tail(ioTasks) \o
              [i \in DOMAIN s |->
                 IF stop THEN [type |-> "stop", load |-> s[i]]
                 ELSE [type |-> "continue", load |-> s[i], handled |-> FALSE]]
    /\ taken' = taken \cup {<<r, at[r]>> : r \in Held}

\* DeleteProvider returns at a doomed entry before it advances the iterator, so
\* the loop of its caller never ends, and reaches only the entries before it.
Spins(Matching)   == \E i \in Matching : providers[i].status = "doomed"
Reached(Matching) == {i \in Matching : \A j \in Matching : j <= i => Valid(j)}

\* RemoveProviders, RemoveAllProviders, on the IO thread.
RemoveProviders(t) ==
    LET Matching == {i \in DOMAIN providers :
                       /\ Listed(i)
                       /\ t.type = "remove" => providers[i].ident = t.ident}
        Doomed   == Reached(Matching)
    IN
    /\ t.type \in {"remove", "removeAll"}
    /\ hung' = Spins(Matching)
    /\ providers' = AfterDeletion(Doomed)
    /\ ReleaseHeld(Doomed, t.type = "removeAll")
    /\ UNCHANGED <<made, manager, at, handlers, zip, queue, fileJobs, calls, closing, served>>

\* ~CefResourceManager: all entries are deleted, whatever is pending.
Destroy(t) ==
    LET All    == {i \in DOMAIN providers : Listed(i)}
        Doomed == Reached(All)
    IN
    /\ t.type = "destroy"
    /\ hung' = Spins(All)
    /\ ReleaseHeld(Doomed, TRUE)
    /\ IF Spins(All)
         THEN providers' = AfterDeletion(Doomed) /\ UNCHANGED <<manager, handlers>>
         ELSE /\ providers' = [i \in DOMAIN providers |->
                                 WithStatus(providers[i], "erased")]
              /\ manager' = "deleted"
              /\ handlers' = [r \in Loads |-> 0]
    /\ UNCHANGED <<made, at, zip, queue, fileJobs, calls, closing, served>>

------------------------------------------------------------------------------
\* The way of a load through the providers.

\* DetachRequestFromProvider: a doomed entry is erased with its last request.
Detached(r) ==
    [i \in DOMAIN providers |->
       IF /\ providers[i].status = "doomed"
          /\ PendingRequests(providers[i].id) = {r}
         THEN WithStatus(providers[i], "erased") ELSE providers[i]]

\* The provider completes the request at once, with a handler.
Handle(r) ==
    /\ stage' = [stage EXCEPT ![r] = "moving"]
    /\ ioTasks' = Append(Tail(ioTasks), [type |-> "continue", load |-> r, handled |-> TRUE])

Hold(r) ==
    /\ stage' = [stage EXCEPT ![r] = "held"]
    /\ ioTasks' = Tail(ioTasks)

\* OnRequest of a provider that returns true.
OnRequest(r, e) ==
    \/ /\ e.kind = "now"
       /\ Handle(r)
       /\ UNCHANGED <<zip, queue, fileJobs>>
    \/ /\ e.kind = "directory"
       /\ Hold(r)
       /\ fileJobs' = fileJobs \cup {[type |-> "open", load |-> r, entry |-> e.id]}
       /\ UNCHANGED <<zip, queue>>
    \/ /\ e.kind = "archive"
       /\ zip[e.id] \in {"none", "loading"}
       /\ Hold(r)
       /\ queue' = [queue EXCEPT ![e.id] = @ \cup {r}]
       /\ zip' = [zip EXCEPT ![e.id] = "loading"]
       /\ fileJobs' = IF zip[e.id] = "none"
                        THEN fileJobs \cup {[type |-> "unzip", entry |-> e.id]} ELSE fileJobs
    \/ /\ e.kind = "archive"
       /\ zip[e.id] = "loaded"
       /\ Handle(r)
       /\ UNCHANGED <<zip, queue, fileJobs>>

\* StopRequest: detach; the state's destructor continues the load.
StopRequest(r) ==
    /\ providers' = Detached(r)
    /\ at' = [at EXCEPT ![r] = 0]
    /\ stage' = [stage EXCEPT ![r] = "done"]
    /\ ioTasks' = Tail(ioTasks)
    /\ UNCHANGED <<zip, queue, fileJobs>>

\* Mutant: the search starts over from the first provider.
PlacesFromStart(i) == {j \in DOMAIN providers : Valid(j)}

\* GetNextValidProvider, repeated.
PlacesFrom(i) == {j \in DOMAIN providers : Valid(j) /\ j >= i}

\* SendRequest, from place i on: the providers before the one that takes the
\* request decline it; if all decline the request is stopped.
SendRequest(r, i) ==
    \/ \E j \in PlacesFrom(i) :
         /\ OnRequest(r, providers[j])
         /\ providers' = Detached(r)
         /\ at' = [at EXCEPT ![r] = providers[j].id]
    \/ StopRequest(r)

\* OnBeforeResourceLoad; without a provider it returns RV_CONTINUE.
OnBeforeResourceLoad(t) ==
    /\ t.type = "load"
    /\ SendRequest(t.load, 1)
    /\ UNCHANGED <<made, manager, hung, handlers, calls, closing, history>>

PlaceOf(id) == CHOOSE i \in DOMAIN providers : providers[i].id = id

\* ContinueOnIOThread and ContinueRequest: a handler ends the search, else
\* IncrementProvider goes on behind the current entry.
ContinueRequest(t) ==
    /\ t.type = "continue"
    /\ manager = "up"
    /\ IF t.handled
         THEN /\ handlers' = [handlers EXCEPT ![t.load] = at[t.load]]
              /\ StopRequest(t.load)
         ELSE /\ SendRequest(t.load, PlaceOf(at[t.load]) + 1)
              /\ UNCHANGED handlers
    /\ UNCHANGED <<made, manager, hung, calls, closing, history>>

\* StopOnIOThread.
StopOnIOThread(t) ==
    /\ t.type = "stop"
    /\ manager = "up"
    /\ StopRequest(t.load)
    /\ UNCHANGED <<made, manager, hung, handlers, calls, closing, history>>

\* Mutant: the state is dropped without its destructor.
ContinueAloneLeaks(t) ==
    /\ t.type \in {"continue", "stop"}
    /\ manager = "deleted"
    /\ ioTasks' = Tail(ioTasks)
    /\ UNCHANGED <<providerVars, hung, loadVars, fileJobs, calls, closing, history>>

\* ContinueOnIOThread and StopOnIOThread when the manager is deleted.
ContinueAlone(t) ==
    /\ t.type \in {"continue", "stop"}
    /\ manager = "deleted"
    /\ stage' = [stage EXCEPT ![t.load] = "done"]
    /\ at' = [at EXCEPT ![t.load] = 0]
    /\ ioTasks' = Tail(ioTasks)
    /\ UNCHANGED <<providerVars, hung, handlers, fileJobs, calls, closing, history>>

\* Mutant: Continue does not check that it is its own Request that has the state.
HasStateOfAny(r, id) == stage[r] = "held"

\* The Request object that was given to entry id has its RequestState.
HasState(r, id) == stage[r] = "held" /\ at[r] = id

\* ContinueOpenOnIOThread of DirectoryProvider.
ContinueOpen(t) ==
    /\ t.type = "opened"
    /\ \/ /\ HasState(t.load, t.entry)
          /\ stage' = [stage EXCEPT ![t.load] = "moving"]
          /\ ioTasks' = Append(Tail(ioTasks),
               [type |-> "continue", load |-> t.load, handled |-> t.found])
       \/ /\ ~HasState(t.load, t.entry)
          /\ ioTasks' = Tail(ioTasks)
          /\ UNCHANGED stage
    /\ UNCHANGED <<providerVars, hung, at, handlers, fileJobs, calls, closing, history>>

\* ContinueOnIOThread of ArchiveProvider: the requests found in the archive are
\* continued, the others are dropped from the queue and nothing more.
ContinueArchive(t) ==
    LET alive == \E i \in DOMAIN providers : Listed(i) /\ providers[i].id = t.entry IN
    /\ t.type = "zip"
    /\ \/ /\ alive
          /\ zip' = [zip EXCEPT ![t.entry] = IF t.loaded THEN "loaded" ELSE "failed"]
          /\ queue' = [queue EXCEPT ![t.entry] = {}]
          /\ \E Found \in SUBSET {r \in queue[t.entry] : HasState(r, t.entry)} :
               /\ ~t.loaded => Found = {}
               /\ stage' = [r \in Loads |-> IF r \in Found THEN "moving" ELSE stage[r]]
               /\ \E s \in [1..Cardinality(Found) -> Found] :
                    /\ \A r \in Found : \E i \in DOMAIN s : s[i] = r
                    /\ ioTasks' = Tail(ioTasks) \o
                         [i \in DOMAIN s |-> [type |-> "continue", load |-> s[i], handled |-> TRUE]]
       \/ /\ ~alive
          /\ ioTasks' = Tail(ioTasks)
          /\ UNCHANGED <<zip, queue, stage>>
    /\ UNCHANGED <<providers, made, manager, hung, at, handlers, fileJobs, calls, closing, history>>

\* Mutant: the handler stays in the map.
GetResourceHandlerKeeps(r) ==
    /\ stage[r] = "done"
    /\ manager = "up"
    /\ ~hung
    /\ stage' = [stage EXCEPT ![r] = "fetched"]
    /\ served' = [served EXCEPT ![r] = handlers[r]]
    /\ UNCHANGED <<providerVars, hung, at, handlers, ioTasks, fileJobs, calls, closing, taken>>

\* GetResourceHandler, called once the load was continued.
GetResourceHandler(r) ==
    /\ stage[r] = "done"
    /\ manager = "up"
    /\ ~hung
    /\ stage' = [stage EXCEPT ![r] = "fetched"]
    /\ served' = [served EXCEPT ![r] = handlers[r]]
    /\ handlers' = [handlers EXCEPT ![r] = 0]
    /\ UNCHANGED <<providerVars, hung, at, ioTasks, fileJobs, calls, closing, taken>>

------------------------------------------------------------------------------

RunTask ==
    LET t == Head(ioTasks) IN
    /\ ~hung
    /\ ioTasks # <<>>
    /\ \/ AddProvider(t) \/ RemoveProviders(t) \/ Destroy(t)
       \/ OnBeforeResourceLoad(t)
       \/ ContinueRequest(t) \/ StopOnIOThread(t) \/ ContinueAlone(t)
       \/ ContinueOpen(t) \/ ContinueArchive(t)

Next ==
    \/ \E c \in Calls : Call(c)
    \/ \E r \in Loads : StartLoad(r) \/ GetResourceHandler(r)
    \/ \E j \in fileJobs : FileJob(j)
    \/ RunTask

Spec == Init /\ [][Next]_vars

\* The IO thread and the FILE thread run the tasks posted to them.
Fairness == WF_vars(RunTask) /\ WF_vars(\E j \in fileJobs : FileJob(j))

FairSpec == Spec /\ Fairness

------------------------------------------------------------------------------
\* Properties.

\* Every variable keeps its type.
ManagerTypeOK ==
    /\ providers \in Seq(Entries)
    /\ made \in 0..MaxEntries
    /\ manager \in {"up", "deleted"}
    /\ hung \in BOOLEAN
    /\ zip \in [EntryIds -> {"none", "loading", "loaded", "failed"}]
    /\ queue \in [EntryIds -> SUBSET Loads]

LoadTypeOK ==
    /\ stage \in [Loads -> Stages]
    /\ at \in [Loads -> 0..MaxEntries]
    /\ handlers \in [Loads -> 0..MaxEntries]

TaskTypeOK ==
    /\ ioTasks \in Seq(IoTasks)
    /\ fileJobs \subseteq OpenJobs \cup ZipJobs
    /\ calls \in 0..MaxCalls
    /\ closing \in BOOLEAN

ServedTypeOK ==
    /\ taken \subseteq Loads \X (0..MaxEntries)
    /\ served \in [Loads -> 0..MaxEntries]

TypeOK == ManagerTypeOK /\ LoadTypeOK /\ TaskTypeOK /\ ServedTypeOK

\* The iterators of a RequestState point at an entry that is in the list, as
\* long as the manager lives to use them.
NoDanglingEntry ==
    manager = "up" =>
      \A r \in Loads : stage[r] \in InFlight =>
        \E i \in DOMAIN providers : Listed(i) /\ providers[i].id = at[r]

\* An entry whose deletion is pending still has a request pending, the last of
\* which erases it; otherwise it would stay in the list for ever.
DoomedIsBusy ==
    manager = "up" => \A i \in DOMAIN providers :
      providers[i].status = "doomed" => PendingRequests(providers[i].id) # {}

\* An entry that is removed lasts as long as a load is at it, and no longer.
EntriesLastAsNeeded == NoDanglingEntry /\ DoomedIsBusy

\* cef_resource_manager.h: providers are called in ascending order, those of the
\* same order in the order they were added.
Precedes(d, e) == d.order < e.order \/ (d.order = e.order /\ d.id < e.id)

ListIsSorted ==
    \A i, j \in DOMAIN providers :
      Listed(i) /\ Listed(j) /\ i < j => Precedes(providers[i], providers[j])

\* A load moves up in this order only, whatever is added and removed meanwhile,
\* so that no provider is asked twice.
LoadMovesUp ==
    [][\A r \in Loads : stage[r] \in InFlight /\ at'[r] \notin {0, at[r]} =>
         \A i, j \in DOMAIN providers :
           providers[i].id = at[r] /\ providers[j].id = at'[r]
             => Precedes(providers[i], providers[j])]_vars

IsResult(t) == t.type \in {"opened", "zip"}

\* cef_resource_manager.h: calls for a request that was canceled are ignored.
\* The result of a file or an archive that arrives after the load was taken from
\* its provider changes nothing of the load, which may be with another one now.
CanceledIsIgnored ==
    [][ioTasks # <<>> /\ IsResult(Head(ioTasks)) /\ RunTask =>
         \A r \in Loads : <<r, Head(ioTasks).entry>> \in taken =>
           /\ stage'[r] = stage[r] /\ at'[r] = at[r] /\ handlers'[r] = handlers[r]]_vars

\* A handler is kept only for a load that has yet to fetch it.
HandlerIsAwaited ==
    \A r \in Loads : handlers[r] # 0 => stage[r] = "done"

\* Left in no queue by the archive that it waits for.
Forgotten(r) ==
    /\ stage[r] = "held" /\ zip[at[r]] \in {"loaded", "failed"}
    /\ r \notin queue[at[r]]

\* A load that begins is continued in the end, unless it waits for an archive that
\* was loaded and does not hold its file, or a removal met an entry that another
\* one was waiting to erase and never returns.
EveryLoadEnds ==
    \A r \in Loads :
        stage[r] = "posted" ~> (stage[r] \in {"done", "fetched"} \/ Forgotten(r) \/ hung)
==============================================================================
