------------------------ MODULE ResourceManager_proofs ------------------------
(***************************************************************************)
(* What holds of CefResourceManager for every set of loads, every list of  *)
(* providers and every sequence of calls: types, the list of providers     *)
(* (no iterator of a load dangles, an entry whose deletion is pending is   *)
(* waited for, the list stays in the order of calls), and the way of a     *)
(* load.                                                                   *)
(***************************************************************************)
EXTENDS ResourceManager, SequenceTheorems, FiniteSetTheorems, TLAPS

------------------------------------------------------------------------------
\* Type correctness.

\* The bounds are numbers.
LEMMA Bounds ==
    MaxEntries \in Nat /\ EntryIds \subseteq 1..MaxEntries /\ EntryIds \subseteq 0..MaxEntries
  BY ResourceAssumption DEF MaxEntries, EntryIds

LEMMA InitType == Init => TypeOK
<1> SUFFICES ASSUME Init PROVE TypeOK
  OBVIOUS
<1> USE Bounds
<1>1. providers \in Seq(Entries) /\ made \in 0..MaxEntries
  BY DEF Init
<1>2. zip \in [EntryIds -> {"none", "loading", "loaded", "failed"}]
  BY DEF Init
<1>3. queue \in [EntryIds -> SUBSET Loads]
  BY DEF Init
<1>4. LoadTypeOK /\ ServedTypeOK
  BY DEF Init, LoadTypeOK, ServedTypeOK, Stages
<1>5. ioTasks \in Seq(IoTasks)
  <2>1. AddCalls \subseteq IoTasks
    BY DEF IoTasks, ApiCalls
  <2>2. Setup \in Seq(IoTasks)
    BY <2>1, ResourceAssumption
  <2> QED
    BY <2>2 DEF Init
<1>6. calls \in 0..MaxCalls
  BY ResourceAssumption DEF Init
<1>7. TaskTypeOK
  BY <1>5, <1>6 DEF Init, TaskTypeOK
<1> QED
  BY <1>1, <1>2, <1>3, <1>4, <1>7 DEF Init, TypeOK, ManagerTypeOK

\* What is left to do is a sequence of tasks, and its head is one.
LEMMA HeadIsTask ==
    ASSUME TypeOK, ioTasks # <<>>
    PROVE  Head(ioTasks) \in IoTasks /\ Tail(ioTasks) \in Seq(IoTasks)
  BY DEF TypeOK, TaskTypeOK

\* One more task.
LEMMA AppendIsTasks ==
    ASSUME NEW tasks \in Seq(IoTasks), NEW t \in IoTasks
    PROVE  Append(tasks, t) \in Seq(IoTasks)
  OBVIOUS

\* A task for each element of a finite set of loads, in any order.
LEMMA EnumerationIsSeq ==
    ASSUME TypeOK, NEW Some \in SUBSET Loads, NEW s \in [1..Cardinality(Some) -> Some]
    PROVE  s \in Seq(Loads)
<1>1. IsFiniteSet(Some)
  BY ResourceAssumption, FS_Subset
<1>2. Cardinality(Some) \in Nat
  BY <1>1, FS_CardinalityType
<1> QED
  BY <1>2

LEMMA PostedIsTasks ==
    ASSUME NEW tasks \in Seq(IoTasks), NEW s \in Seq(Loads), NEW handled \in BOOLEAN
    PROVE  /\ tasks \o [i \in DOMAIN s |-> [type |-> "stop", load |-> s[i]]] \in Seq(IoTasks)
           /\ tasks \o [i \in DOMAIN s |->
                [type |-> "continue", load |-> s[i], handled |-> handled]] \in Seq(IoTasks)
<1> DEFINE stops == [i \in DOMAIN s |-> [type |-> "stop", load |-> s[i]]]
           continues == [i \in DOMAIN s |->
                           [type |-> "continue", load |-> s[i], handled |-> handled]]
<1>1. stops \in Seq(IoTasks)
  <2>1. \A i \in DOMAIN s : [type |-> "stop", load |-> s[i]] \in IoTasks
    BY DEF IoTasks, StopTasks
  <2> QED
    BY <2>1
<1>2. continues \in Seq(IoTasks)
  <2>1. \A i \in DOMAIN s : [type |-> "continue", load |-> s[i], handled |-> handled] \in IoTasks
    BY DEF IoTasks, ContinueTask
  <2> QED
    BY <2>1
<1> HIDE DEF stops, continues
<1>3. tasks \o stops \in Seq(IoTasks) /\ tasks \o continues \in Seq(IoTasks)
  BY <1>1, <1>2, ConcatProperties
<1> QED
  BY <1>3 DEF stops, continues

LEMMA CallType ==
    ASSUME TypeOK, NEW c \in Calls, Call(c)
    PROVE  TypeOK'
<1>1. c \in IoTasks
  BY ResourceAssumption DEF IoTasks
<1>2. ioTasks' \in Seq(IoTasks)
  BY <1>1, AppendIsTasks DEF Call, TypeOK, TaskTypeOK
<1>3. calls' \in 0..MaxCalls /\ closing' \in BOOLEAN
  BY ResourceAssumption DEF Call, TypeOK, TaskTypeOK
<1> QED
  BY <1>2, <1>3
     DEF Call, TypeOK, ManagerTypeOK, LoadTypeOK, TaskTypeOK, ServedTypeOK,
         providerVars, loadVars, history

LEMMA StartLoadType ==
    ASSUME TypeOK, NEW r \in Loads, StartLoad(r)
    PROVE  TypeOK'
<1>1. [type |-> "load", load |-> r] \in IoTasks
  BY DEF IoTasks, LoadTasks
<1>2. ioTasks' \in Seq(IoTasks)
  BY <1>1, AppendIsTasks DEF StartLoad, TypeOK, TaskTypeOK
<1>3. stage' \in [Loads -> Stages]
  BY DEF StartLoad, TypeOK, LoadTypeOK, Stages
<1> QED
  BY <1>2, <1>3
     DEF StartLoad, TypeOK, ManagerTypeOK, LoadTypeOK, TaskTypeOK, ServedTypeOK,
         providerVars, history

LEMMA FileJobType ==
    ASSUME TypeOK, NEW j \in fileJobs, FileJob(j)
    PROVE  TypeOK'
<1>1. PICK there \in BOOLEAN : ioTasks' = Append(ioTasks,
           IF j.type = "open"
             THEN [type |-> "opened", load |-> j.load, entry |-> j.entry, found |-> there]
             ELSE [type |-> "zip", entry |-> j.entry, loaded |-> there])
  BY DEF FileJob
<1>2. j \in OpenJobs \/ j \in ZipJobs
  BY DEF TypeOK, TaskTypeOK
<1>3. ioTasks' \in Seq(IoTasks)
  <2>1. CASE j \in OpenJobs
    <3> DEFINE t == [type |-> "opened", load |-> j.load, entry |-> j.entry, found |-> there]
    <3>1. t \in IoTasks
      BY <2>1 DEF IoTasks, OpenedTasks, OpenJobs
    <3>2. ioTasks' = Append(ioTasks, t)
      BY <1>1, <2>1 DEF OpenJobs
    <3> QED
      BY <3>1, <3>2, AppendIsTasks DEF TypeOK, TaskTypeOK
  <2>2. CASE j \in ZipJobs
    <3> DEFINE t == [type |-> "zip", entry |-> j.entry, loaded |-> there]
    <3>1. t \in IoTasks
      BY <2>2 DEF IoTasks, ZipTasks, ZipJobs
    <3>2. ioTasks' = Append(ioTasks, t)
      BY <1>1, <2>2 DEF ZipJobs
    <3> QED
      BY <3>1, <3>2, AppendIsTasks DEF TypeOK, TaskTypeOK
  <2> QED
    BY <1>2, <2>1, <2>2
<1>4. fileJobs' \subseteq OpenJobs \cup ZipJobs
  BY DEF FileJob, TypeOK, TaskTypeOK
<1> QED
  BY <1>3, <1>4
     DEF FileJob, TypeOK, ManagerTypeOK, LoadTypeOK, TaskTypeOK, ServedTypeOK,
         providerVars, loadVars, history

------------------------------------------------------------------------------
\* Type correctness: the tasks of the IO thread.

LEMMA InsertedAtType ==
    ASSUME TypeOK, NEW place \in 1..(Len(providers) + 1), NEW new \in Entries
    PROVE  InsertedAt(place, new) \in Seq(Entries)
<1>1. providers \in Seq(Entries) /\ Len(providers) + 1 \in Nat
  BY DEF TypeOK, ManagerTypeOK
<1>2. ASSUME NEW j \in 1..(Len(providers) + 1)
      PROVE  (IF j < place THEN providers[j]
              ELSE IF j = place THEN new ELSE providers[j - 1]) \in Entries
  <2>1. CASE j < place
    BY <1>1, <2>1
  <2>2. CASE j = place
    BY <1>1, <2>2
  <2>3. CASE j > place
    <3>1. j - 1 \in 1..Len(providers)
      BY <1>1, <2>3
    <3> QED
      BY <1>1, <2>3, <3>1
  <2> QED
    BY <1>1, <2>1, <2>2, <2>3
<1> QED
  BY <1>1, <1>2 DEF InsertedAt

LEMMA AddProviderType ==
    ASSUME TypeOK, NEW t \in IoTasks, Tail(ioTasks) \in Seq(IoTasks), AddProvider(t)
    PROVE  TypeOK'
<1> DEFINE new == [id |-> made + 1, kind |-> t.kind, order |-> t.order,
                   ident |-> t.ident, status |-> "live"]
<1>1. t \in AddCalls
  BY DEF AddProvider, IoTasks, ApiCalls, RemoveCalls, LoadTasks, ContinueTask,
         StopTasks, OpenedTasks, ZipTasks
<1>2. made' \in 0..MaxEntries /\ made + 1 \in EntryIds
  BY Bounds DEF AddProvider, TypeOK, ManagerTypeOK, EntryIds
<1>3. new \in Entries
  BY <1>1, <1>2 DEF AddCalls, Entries
<1>4. providers' \in Seq(Entries)
  <2>1. PICK place \in 1..(Len(providers) + 1) : providers' = InsertedAt(place, new)
    BY DEF AddProvider
  <2> QED
    BY <1>3, <2>1, InsertedAtType
<1> QED
  BY <1>2, <1>4
     DEF AddProvider, TypeOK, ManagerTypeOK, LoadTypeOK, TaskTypeOK, ServedTypeOK,
         loadVars, history

\* Entries only change their status.
LEMMA StatusKeepsEntry ==
    ASSUME NEW e \in Entries, NEW status \in {"live", "doomed", "erased"}
    PROVE  WithStatus(e, status) \in Entries
  BY DEF Entries, WithStatus

\* A list of as many entries as there are is a list.
LEMMA SameLengthIsList ==
    ASSUME TypeOK, NEW list, list = [i \in DOMAIN providers |-> list[i]],
           \A i \in DOMAIN providers : list[i] \in Entries
    PROVE  list \in Seq(Entries)
<1>1. DOMAIN providers = 1..Len(providers) /\ Len(providers) \in Nat
  BY DEF TypeOK, ManagerTypeOK
<1>2. list \in [1..Len(providers) -> Entries]
  BY <1>1
<1> QED
  BY <1>1, <1>2

LEMMA AfterDeletionType ==
    ASSUME TypeOK, NEW Doomed
    PROVE  AfterDeletion(Doomed) \in Seq(Entries)
<1>1. \A i \in DOMAIN providers : /\ WithStatus(providers[i], "erased") \in Entries
                                 /\ WithStatus(providers[i], "doomed") \in Entries
                                 /\ providers[i] \in Entries
  BY StatusKeepsEntry DEF TypeOK, ManagerTypeOK
<1>2. \A i \in DOMAIN providers : AfterDeletion(Doomed)[i] \in Entries
  BY <1>1 DEF AfterDeletion
<1>3. AfterDeletion(Doomed) = [i \in DOMAIN providers |-> AfterDeletion(Doomed)[i]]
  BY DEF AfterDeletion
<1> QED
  BY <1>2, <1>3, SameLengthIsList

LEMMA ReleaseHeldType ==
    ASSUME TypeOK, Tail(ioTasks) \in Seq(IoTasks),
           NEW Doomed, NEW stop \in BOOLEAN, ReleaseHeld(Doomed, stop)
    PROVE  /\ stage' \in [Loads -> Stages]
           /\ ioTasks' \in Seq(IoTasks)
           /\ taken' \subseteq Loads \X (0..MaxEntries)
<1> DEFINE Held == {r \in Loads : stage[r] = "held" /\ \E i \in Doomed : providers[i].id = at[r]}
<1>1. stage' \in [Loads -> Stages]
  BY DEF ReleaseHeld, TypeOK, LoadTypeOK, Stages
<1>2. taken' \subseteq Loads \X (0..MaxEntries)
  BY DEF ReleaseHeld, TypeOK, LoadTypeOK, ServedTypeOK
<1>3. PICK s \in [1..Cardinality(Held) -> Held] :
         ioTasks' = Tail(ioTasks) \o
              [i \in DOMAIN s |->
                 IF stop THEN [type |-> "stop", load |-> s[i]]
                 ELSE [type |-> "continue", load |-> s[i], handled |-> FALSE]]
  BY DEF ReleaseHeld
<1>4. s \in Seq(Loads)
  BY EnumerationIsSeq
<1>5. ioTasks' \in Seq(IoTasks)
  <2> HIDE DEF Held
  <2>1. CASE stop
    <3>1. ioTasks' = Tail(ioTasks) \o [i \in DOMAIN s |-> [type |-> "stop", load |-> s[i]]]
      BY <1>3, <2>1
    <3> QED
      BY <1>4, <3>1, PostedIsTasks
  <2>2. CASE ~stop
    <3>1. ioTasks' = Tail(ioTasks) \o
            [i \in DOMAIN s |-> [type |-> "continue", load |-> s[i], handled |-> FALSE]]
      BY <1>3, <2>2
    <3> QED
      BY <1>4, <3>1, PostedIsTasks
  <2> QED
    BY <2>1, <2>2
<1> QED
  BY <1>1, <1>2, <1>5

LEMMA RemoveProvidersType ==
    ASSUME TypeOK, NEW t \in IoTasks, Tail(ioTasks) \in Seq(IoTasks), RemoveProviders(t)
    PROVE  TypeOK'
<1>1. PICK Doomed : /\ providers' = AfterDeletion(Doomed)
                    /\ ReleaseHeld(Doomed, t.type = "removeAll")
  BY DEF RemoveProviders
<1>2. providers' \in Seq(Entries)
  BY <1>1, AfterDeletionType
<1>3. /\ stage' \in [Loads -> Stages]
      /\ ioTasks' \in Seq(IoTasks)
      /\ taken' \subseteq Loads \X (0..MaxEntries)
  BY <1>1, ReleaseHeldType
<1>4. hung' \in BOOLEAN
  BY DEF RemoveProviders, Spins
<1> QED
  BY <1>2, <1>3, <1>4
     DEF RemoveProviders, TypeOK, ManagerTypeOK, LoadTypeOK, TaskTypeOK, ServedTypeOK

LEMMA DestroyType ==
    ASSUME TypeOK, NEW t \in IoTasks, Tail(ioTasks) \in Seq(IoTasks), Destroy(t)
    PROVE  TypeOK'
<1>1. PICK Doomed :
         /\ ReleaseHeld(Doomed, TRUE)
         /\ \/ providers' = AfterDeletion(Doomed) /\ UNCHANGED <<manager, handlers>>
            \/ /\ providers' = [i \in DOMAIN providers |-> WithStatus(providers[i], "erased")]
               /\ manager' = "deleted"
               /\ handlers' = [r \in Loads |-> 0]
  BY DEF Destroy
<1>2. /\ stage' \in [Loads -> Stages]
      /\ ioTasks' \in Seq(IoTasks)
      /\ taken' \subseteq Loads \X (0..MaxEntries)
  BY <1>1, ReleaseHeldType
<1>3. providers' \in Seq(Entries)
  <2>1. CASE providers' = AfterDeletion(Doomed)
    BY <2>1, AfterDeletionType
  <2>2. CASE providers' = [i \in DOMAIN providers |-> WithStatus(providers[i], "erased")]
    <3>1. \A i \in DOMAIN providers : WithStatus(providers[i], "erased") \in Entries
      BY StatusKeepsEntry DEF TypeOK, ManagerTypeOK
    <3>2. \A i \in DOMAIN providers : providers'[i] \in Entries
      BY <2>2, <3>1
    <3>3. providers' = [i \in DOMAIN providers |-> providers'[i]]
      BY <2>2
    <3> QED
      BY <3>2, <3>3, SameLengthIsList
  <2> QED
    BY <1>1, <2>1, <2>2
<1>4. manager' \in {"up", "deleted"} /\ handlers' \in [Loads -> 0..MaxEntries]
  BY <1>1, Bounds DEF TypeOK, ManagerTypeOK, LoadTypeOK
<1>5. hung' \in BOOLEAN
  BY DEF Destroy, Spins
<1> QED
  BY <1>2, <1>3, <1>4, <1>5
     DEF Destroy, TypeOK, ManagerTypeOK, LoadTypeOK, TaskTypeOK, ServedTypeOK

LEMMA DetachedType ==
    ASSUME TypeOK, NEW r
    PROVE  Detached(r) \in Seq(Entries)
<1>1. \A i \in DOMAIN providers : /\ WithStatus(providers[i], "erased") \in Entries
                                 /\ providers[i] \in Entries
  BY StatusKeepsEntry DEF TypeOK, ManagerTypeOK
<1>2. \A i \in DOMAIN providers : Detached(r)[i] \in Entries
  BY <1>1 DEF Detached
<1>3. Detached(r) = [i \in DOMAIN providers |-> Detached(r)[i]]
  BY DEF Detached
<1> QED
  BY <1>2, <1>3, SameLengthIsList

\* A load moves on, with one task more or none.
LEMMA StageType ==
    ASSUME TypeOK, NEW r \in Loads, NEW st \in Stages
    PROVE  [stage EXCEPT ![r] = st] \in [Loads -> Stages]
  BY DEF TypeOK, LoadTypeOK

LEMMA StopRequestType ==
    ASSUME TypeOK, Tail(ioTasks) \in Seq(IoTasks), NEW r \in Loads, StopRequest(r)
    PROVE  /\ providers' \in Seq(Entries)
           /\ stage' \in [Loads -> Stages]
           /\ at' \in [Loads -> 0..MaxEntries]
           /\ ioTasks' \in Seq(IoTasks)
<1>1. "done" \in Stages
  BY DEF Stages
<1>2. at' \in [Loads -> 0..MaxEntries]
  BY Bounds DEF StopRequest, TypeOK, LoadTypeOK
<1> QED
  BY <1>1, <1>2, DetachedType, StageType DEF StopRequest

LEMMA OnRequestType ==
    ASSUME TypeOK, Tail(ioTasks) \in Seq(IoTasks), NEW r \in Loads, NEW e \in Entries,
           OnRequest(r, e)
    PROVE  /\ stage' \in [Loads -> Stages]
           /\ ioTasks' \in Seq(IoTasks)
           /\ fileJobs' \subseteq OpenJobs \cup ZipJobs
           /\ zip' \in [EntryIds -> {"none", "loading", "loaded", "failed"}]
           /\ queue' \in [EntryIds -> SUBSET Loads]
<1>1. {"moving", "held"} \subseteq Stages
  BY DEF Stages
<1>2. e.id \in EntryIds
  BY DEF Entries
<1>3. [type |-> "continue", load |-> r, handled |-> TRUE] \in IoTasks
  BY DEF IoTasks, ContinueTask
<1>4. Handle(r) => stage' \in [Loads -> Stages] /\ ioTasks' \in Seq(IoTasks)
  <2> DEFINE t == [type |-> "continue", load |-> r, handled |-> TRUE]
  <2>1. Handle(r) => ioTasks' = Append(Tail(ioTasks), t)
    BY DEF Handle
  <2>2. t \in IoTasks
    BY <1>3
  <2> HIDE DEF t
  <2>3. Append(Tail(ioTasks), t) \in Seq(IoTasks)
    BY <2>2, AppendIsTasks
  <2> QED
    BY <1>1, <2>1, <2>3, StageType DEF Handle
<1>5. Hold(r) => stage' \in [Loads -> Stages] /\ ioTasks' \in Seq(IoTasks)
  BY <1>1, StageType DEF Hold
<1>6. [type |-> "open", load |-> r, entry |-> e.id] \in OpenJobs
  BY <1>2 DEF OpenJobs
<1>7. [type |-> "unzip", entry |-> e.id] \in ZipJobs
  BY <1>2 DEF ZipJobs
<1>8. Handle(r) \/ Hold(r)
  BY DEF OnRequest
<1>9. fileJobs' \subseteq OpenJobs \cup ZipJobs
  BY <1>6, <1>7 DEF OnRequest, TypeOK, TaskTypeOK
<1>10. zip' \in [EntryIds -> {"none", "loading", "loaded", "failed"}]
  BY DEF OnRequest, TypeOK, ManagerTypeOK
<1>11. queue' \in [EntryIds -> SUBSET Loads]
  BY <1>2 DEF OnRequest, TypeOK, ManagerTypeOK
<1> QED
  BY <1>4, <1>5, <1>8, <1>9, <1>10, <1>11

LEMMA SendRequestType ==
    ASSUME TypeOK, Tail(ioTasks) \in Seq(IoTasks), NEW r \in Loads, NEW i, SendRequest(r, i)
    PROVE  /\ providers' \in Seq(Entries)
           /\ stage' \in [Loads -> Stages]
           /\ at' \in [Loads -> 0..MaxEntries]
           /\ ioTasks' \in Seq(IoTasks)
           /\ fileJobs' \subseteq OpenJobs \cup ZipJobs
           /\ zip' \in [EntryIds -> {"none", "loading", "loaded", "failed"}]
           /\ queue' \in [EntryIds -> SUBSET Loads]
<1>1. CASE StopRequest(r)
  <2>1. UNCHANGED <<zip, queue, fileJobs>>
    BY <1>1 DEF StopRequest
  <2> QED
    BY <1>1, <2>1, StopRequestType DEF TypeOK, ManagerTypeOK, TaskTypeOK
<1>2. ASSUME NEW j \in PlacesFrom(i), OnRequest(r, providers[j]),
             providers' = Detached(r), at' = [at EXCEPT ![r] = providers[j].id]
      PROVE  /\ providers' \in Seq(Entries)
             /\ at' \in [Loads -> 0..MaxEntries]
             /\ providers[j] \in Entries
  <2>1. providers[j] \in Entries
    BY DEF PlacesFrom, TypeOK, ManagerTypeOK
  <2>2. providers[j].id \in 0..MaxEntries
    <3>1. providers[j].id \in EntryIds
      BY <2>1 DEF Entries
    <3> QED
      BY <3>1, Bounds
  <2>3. at' \in [Loads -> 0..MaxEntries]
    BY <1>2, <2>2 DEF TypeOK, LoadTypeOK
  <2> QED
    BY <1>2, <2>1, <2>3, DetachedType
<1> QED
  BY <1>1, <1>2, OnRequestType DEF SendRequest

LEMMA OnBeforeResourceLoadType ==
    ASSUME TypeOK, NEW t \in IoTasks, Tail(ioTasks) \in Seq(IoTasks), OnBeforeResourceLoad(t)
    PROVE  TypeOK'
<1>1. t.load \in Loads
  BY DEF OnBeforeResourceLoad, IoTasks, ApiCalls, AddCalls, RemoveCalls, LoadTasks,
         ContinueTask, StopTasks, OpenedTasks, ZipTasks
<1>2. SendRequest(t.load, 1)
  BY DEF OnBeforeResourceLoad
<1> QED
  BY <1>1, <1>2, SendRequestType
     DEF OnBeforeResourceLoad, TypeOK, ManagerTypeOK, LoadTypeOK, TaskTypeOK,
         ServedTypeOK, history

\* The load of a posted continuation.
LEMMA ContinueTaskLoad ==
    ASSUME NEW t \in IoTasks, t.type \in {"continue", "stop"}
    PROVE  t.load \in Loads
  BY DEF IoTasks, ApiCalls, AddCalls, RemoveCalls, LoadTasks, ContinueTask, StopTasks,
         OpenedTasks, ZipTasks

LEMMA ContinueRequestType ==
    ASSUME TypeOK, NEW t \in IoTasks, Tail(ioTasks) \in Seq(IoTasks), ContinueRequest(t)
    PROVE  TypeOK'
<1>1. t.load \in Loads
  BY ContinueTaskLoad DEF ContinueRequest
<1>2. CASE t.handled
  <2>1. StopRequest(t.load) /\ handlers' = [handlers EXCEPT ![t.load] = at[t.load]]
    BY <1>2 DEF ContinueRequest
  <2>2. handlers' \in [Loads -> 0..MaxEntries]
    BY <1>1, <2>1 DEF TypeOK, LoadTypeOK
  <2>3. UNCHANGED <<zip, queue, fileJobs>>
    BY <2>1 DEF StopRequest
  <2> QED
    BY <1>1, <2>1, <2>2, <2>3, StopRequestType
       DEF ContinueRequest, TypeOK, ManagerTypeOK, LoadTypeOK, TaskTypeOK,
           ServedTypeOK, history
<1>3. CASE ~t.handled
  <2>1. PICK i : SendRequest(t.load, i) /\ UNCHANGED handlers
    BY <1>3 DEF ContinueRequest
  <2> QED
    BY <1>1, <2>1, SendRequestType
       DEF ContinueRequest, TypeOK, ManagerTypeOK, LoadTypeOK, TaskTypeOK,
           ServedTypeOK, history
<1> QED
  BY <1>2, <1>3

LEMMA StopOnIOThreadType ==
    ASSUME TypeOK, NEW t \in IoTasks, Tail(ioTasks) \in Seq(IoTasks), StopOnIOThread(t)
    PROVE  TypeOK'
<1>1. t.load \in Loads /\ StopRequest(t.load)
  BY ContinueTaskLoad DEF StopOnIOThread
<1>2. UNCHANGED <<zip, queue, fileJobs>>
  BY <1>1 DEF StopRequest
<1> QED
  BY <1>1, <1>2, StopRequestType
     DEF StopOnIOThread, TypeOK, ManagerTypeOK, LoadTypeOK, TaskTypeOK, ServedTypeOK, history

LEMMA ContinueAloneType ==
    ASSUME TypeOK, NEW t \in IoTasks, Tail(ioTasks) \in Seq(IoTasks), ContinueAlone(t)
    PROVE  TypeOK'
<1>1. t.load \in Loads
  BY ContinueTaskLoad DEF ContinueAlone
<1>2. stage' \in [Loads -> Stages]
  BY <1>1, StageType DEF ContinueAlone, Stages
<1>3. at' \in [Loads -> 0..MaxEntries]
  BY <1>1, Bounds DEF ContinueAlone, TypeOK, LoadTypeOK
<1> QED
  BY <1>2, <1>3
     DEF ContinueAlone, TypeOK, ManagerTypeOK, LoadTypeOK, TaskTypeOK, ServedTypeOK,
         providerVars, history

LEMMA ContinueOpenType ==
    ASSUME TypeOK, NEW t \in IoTasks, Tail(ioTasks) \in Seq(IoTasks), ContinueOpen(t)
    PROVE  TypeOK'
<1>1. t \in OpenedTasks
  BY DEF ContinueOpen, IoTasks, ApiCalls, AddCalls, RemoveCalls, LoadTasks, ContinueTask,
         StopTasks, ZipTasks
<1>2. stage' \in [Loads -> Stages] /\ ioTasks' \in Seq(IoTasks)
  <2>1. CASE HasState(t.load, t.entry)
    <3> DEFINE new == [type |-> "continue", load |-> t.load, handled |-> t.found]
    <3>1. new \in IoTasks
      BY <1>1 DEF IoTasks, ContinueTask, OpenedTasks
    <3>2. ioTasks' = Append(Tail(ioTasks), new)
      BY <2>1 DEF ContinueOpen
    <3>3. stage' = [stage EXCEPT ![t.load] = "moving"]
      BY <2>1 DEF ContinueOpen
    <3>4. t.load \in Loads /\ "moving" \in Stages
      BY <1>1 DEF OpenedTasks, Stages
    <3> HIDE DEF new
    <3> QED
      BY <3>1, <3>2, <3>3, <3>4, AppendIsTasks, StageType
  <2>2. CASE ~HasState(t.load, t.entry)
    BY <2>2 DEF ContinueOpen, TypeOK, LoadTypeOK
  <2> QED
    BY <2>1, <2>2
<1> QED
  BY <1>2
     DEF ContinueOpen, TypeOK, ManagerTypeOK, LoadTypeOK, TaskTypeOK, ServedTypeOK,
         providerVars, history

LEMMA ContinueArchiveType ==
    ASSUME TypeOK, NEW t \in IoTasks, Tail(ioTasks) \in Seq(IoTasks), ContinueArchive(t)
    PROVE  TypeOK'
<1>1. t \in ZipTasks
  BY DEF ContinueArchive, IoTasks, ApiCalls, AddCalls, RemoveCalls, LoadTasks, ContinueTask,
         StopTasks, OpenedTasks
<1>2. CASE UNCHANGED <<zip, queue, stage>> /\ ioTasks' = Tail(ioTasks)
  BY <1>2
     DEF ContinueArchive, TypeOK, ManagerTypeOK, LoadTypeOK, TaskTypeOK, ServedTypeOK, history
<1>3. CASE ~(UNCHANGED <<zip, queue, stage>> /\ ioTasks' = Tail(ioTasks))
  <2>1. /\ zip' = [zip EXCEPT ![t.entry] = IF t.loaded THEN "loaded" ELSE "failed"]
        /\ queue' = [queue EXCEPT ![t.entry] = {}]
    BY <1>3 DEF ContinueArchive
  <2>2. PICK Found \in SUBSET {r \in queue[t.entry] : HasState(r, t.entry)} :
          /\ stage' = [r \in Loads |-> IF r \in Found THEN "moving" ELSE stage[r]]
          /\ \E s \in [1..Cardinality(Found) -> Found] :
               ioTasks' = Tail(ioTasks) \o
                 [i \in DOMAIN s |-> [type |-> "continue", load |-> s[i], handled |-> TRUE]]
    BY <1>3 DEF ContinueArchive
  <2>3. Found \in SUBSET Loads
    BY <1>1 DEF TypeOK, ManagerTypeOK, ZipTasks
  <2>4. PICK s \in [1..Cardinality(Found) -> Found] :
          ioTasks' = Tail(ioTasks) \o
            [i \in DOMAIN s |-> [type |-> "continue", load |-> s[i], handled |-> TRUE]]
    BY <2>2
  <2>5. s \in Seq(Loads)
    BY <2>3, EnumerationIsSeq
  <2>6. ioTasks' \in Seq(IoTasks)
    BY <2>4, <2>5, PostedIsTasks
  <2>7. stage' \in [Loads -> Stages]
    BY <2>2 DEF TypeOK, LoadTypeOK, Stages
  <2>8. /\ zip' \in [EntryIds -> {"none", "loading", "loaded", "failed"}]
        /\ queue' \in [EntryIds -> SUBSET Loads]
    BY <2>1 DEF TypeOK, ManagerTypeOK
  <2> QED
    BY <2>6, <2>7, <2>8
       DEF ContinueArchive, TypeOK, ManagerTypeOK, LoadTypeOK, TaskTypeOK, ServedTypeOK, history
<1> QED
  BY <1>2, <1>3

LEMMA GetResourceHandlerType ==
    ASSUME TypeOK, NEW r \in Loads, GetResourceHandler(r)
    PROVE  TypeOK'
<1>1. stage' \in [Loads -> Stages]
  BY StageType DEF GetResourceHandler, Stages
<1>2. handlers' \in [Loads -> 0..MaxEntries] /\ served' \in [Loads -> 0..MaxEntries]
  BY Bounds DEF GetResourceHandler, TypeOK, LoadTypeOK, ServedTypeOK
<1> QED
  BY <1>1, <1>2
     DEF GetResourceHandler, TypeOK, ManagerTypeOK, LoadTypeOK, TaskTypeOK, ServedTypeOK,
         providerVars

LEMMA NextType ==
    ASSUME TypeOK, [Next]_vars
    PROVE  TypeOK'
<1>1. CASE UNCHANGED vars
  BY <1>1 DEF vars, TypeOK, ManagerTypeOK, LoadTypeOK, TaskTypeOK, ServedTypeOK
<1>2. CASE RunTask
  <2> DEFINE t == Head(ioTasks)
  <2>1. t \in IoTasks /\ Tail(ioTasks) \in Seq(IoTasks)
    BY <1>2, HeadIsTask DEF RunTask
  <2>2. \/ AddProvider(t) \/ RemoveProviders(t) \/ Destroy(t)
        \/ OnBeforeResourceLoad(t)
        \/ ContinueRequest(t) \/ StopOnIOThread(t) \/ ContinueAlone(t)
        \/ ContinueOpen(t) \/ ContinueArchive(t)
    BY <1>2 DEF RunTask
  <2> HIDE DEF t
  <2> QED
    BY <2>1, <2>2, AddProviderType, RemoveProvidersType, DestroyType,
       OnBeforeResourceLoadType, ContinueRequestType, StopOnIOThreadType,
       ContinueAloneType, ContinueOpenType, ContinueArchiveType
<1> QED
  BY <1>1, <1>2, CallType, StartLoadType, FileJobType, GetResourceHandlerType DEF Next

\* Every variable keeps its type.
THEOREM ResourceTypeCorrect == Spec => []TypeOK
<1>1. Init => TypeOK
  BY InitType
<1>2. TypeOK /\ [Next]_vars => TypeOK'
  BY NextType
<1> QED
  BY <1>1, <1>2, PTL DEF Spec

------------------------------------------------------------------------------
\* The list of providers.

\* The id of an entry is the number it was made as, so no two are the same.
IdsAreMade ==
    /\ \A i \in DOMAIN providers : providers[i].id <= made
    /\ \A i, j \in DOMAIN providers : providers[i].id = providers[j].id => i = j

ListInvariant == NoDanglingEntry /\ DoomedIsBusy /\ IdsAreMade /\ ListIsSorted

------------------------------------------------------------------------------
\* What a step does to the list.

\* The same entries at the same places; none that was erased comes back.
SameEntries ==
    /\ made' = made
    /\ DOMAIN providers' = DOMAIN providers
    /\ \A i \in DOMAIN providers :
         /\ providers'[i].id = providers[i].id
         /\ providers'[i].order = providers[i].order
         /\ Listed(i)' => Listed(i)

\* What is erased had no request pending but those of Left, and what is doomed has.
ErasedAfter(Left) ==
    \A i \in DOMAIN providers :
      /\ Listed(i) /\ ~Listed(i)' => PendingRequests(providers[i].id) \subseteq Left
      /\ (providers[i].status = "doomed")' =>
           \E r \in PendingRequests(providers[i].id) : r \notin Left

LEMMA EntryFacts ==
    ASSUME TypeOK, NEW i \in DOMAIN providers
    PROVE  /\ providers[i] \in Entries
           /\ providers[i].id \in EntryIds
           /\ providers[i].id \in Int
           /\ providers[i].order \in Int
           /\ i \in Int
<1>1. providers[i] \in Entries /\ i \in Int
  BY DEF TypeOK, ManagerTypeOK
<1>2. providers[i].id \in EntryIds /\ providers[i].order \in Int
  BY <1>1 DEF Entries
<1>3. providers[i].id \in Int
  <2>1. MaxEntries \in Nat
    BY Bounds
  <2> QED
    BY <1>2, <2>1 DEF EntryIds
<1> QED
  BY <1>1, <1>2, <1>3

LEMMA WithStatusFields ==
    ASSUME NEW e \in Entries, NEW status
    PROVE  /\ WithStatus(e, status).id = e.id
           /\ WithStatus(e, status).order = e.order
           /\ WithStatus(e, status).status = status
  BY DEF Entries, WithStatus

LEMMA AfterDeletionEntries ==
    ASSUME TypeOK, ListInvariant, made' = made, NEW Doomed,
           \A i \in Doomed : Valid(i), providers' = AfterDeletion(Doomed)
    PROVE  SameEntries /\ (manager = "up" => ErasedAfter({}))
<1>1. DOMAIN providers' = DOMAIN providers
  BY DEF AfterDeletion
<1>2. ASSUME NEW i \in DOMAIN providers
      PROVE  /\ providers'[i].id = providers[i].id
             /\ providers'[i].order = providers[i].order
             /\ Listed(i)' => Listed(i)
             /\ Listed(i) /\ ~Listed(i)' => PendingRequests(providers[i].id) = {}
             /\ manager = "up" /\ (providers[i].status = "doomed")'
                  => PendingRequests(providers[i].id) # {}
  <2>1. providers[i] \in Entries
    BY EntryFacts
  <2>2. CASE i \notin Doomed
    <3>1. providers'[i] = providers[i]
      BY <2>2 DEF AfterDeletion
    <3> QED
      BY <1>1, <3>1 DEF Listed, ListInvariant, DoomedIsBusy
  <2>3. CASE i \in Doomed /\ PendingRequests(providers[i].id) = {}
    <3>1. providers'[i] = WithStatus(providers[i], "erased")
      BY <2>3 DEF AfterDeletion
    <3> QED
      BY <1>1, <2>1, <2>3, <3>1, WithStatusFields DEF Listed
  <2>4. CASE i \in Doomed /\ PendingRequests(providers[i].id) # {}
    <3>1. providers'[i] = WithStatus(providers[i], "doomed")
      BY <2>4 DEF AfterDeletion
    <3>2. Listed(i)
      BY <2>4 DEF Valid, Listed
    <3> QED
      BY <1>1, <2>1, <2>4, <3>1, <3>2, WithStatusFields DEF Listed
  <2> QED
    BY <2>2, <2>3, <2>4
<1>3. SameEntries
  BY <1>1, <1>2 DEF SameEntries
<1>4. manager = "up" => ErasedAfter({})
  BY <1>2 DEF ErasedAfter
<1> QED
  BY <1>3, <1>4

LEMMA DetachedEntries ==
    ASSUME TypeOK, ListInvariant, made' = made, NEW r \in Loads, providers' = Detached(r)
    PROVE  SameEntries /\ (manager = "up" => ErasedAfter({r})) /\ \A i : Valid(i) => Valid(i)'
<1>1. DOMAIN providers' = DOMAIN providers
  BY DEF Detached
<1>2. ASSUME NEW i \in DOMAIN providers
      PROVE  /\ providers'[i].id = providers[i].id
             /\ providers'[i].order = providers[i].order
             /\ Listed(i)' => Listed(i)
             /\ Listed(i) /\ ~Listed(i)' => PendingRequests(providers[i].id) \subseteq {r}
             /\ manager = "up" /\ (providers[i].status = "doomed")' =>
                  \E s \in PendingRequests(providers[i].id) : s \notin {r}
             /\ Valid(i) => Valid(i)'
  <2>1. providers[i] \in Entries
    BY EntryFacts
  <2>2. CASE providers[i].status = "doomed" /\ PendingRequests(providers[i].id) = {r}
    <3>1. providers'[i] = WithStatus(providers[i], "erased")
      BY <2>2 DEF Detached
    <3> QED
      BY <1>1, <2>1, <2>2, <3>1, WithStatusFields DEF Listed, Valid
  <2>3. CASE ~(providers[i].status = "doomed" /\ PendingRequests(providers[i].id) = {r})
    <3>1. providers'[i] = providers[i]
      BY <2>3 DEF Detached
    <3>2. manager = "up" /\ providers[i].status = "doomed"
            => PendingRequests(providers[i].id) # {}
      BY DEF ListInvariant, DoomedIsBusy
    <3> QED
      BY <1>1, <2>3, <3>1, <3>2 DEF Listed, Valid
  <2> QED
    BY <2>2, <2>3
<1>3. SameEntries
  BY <1>1, <1>2 DEF SameEntries
<1>4. manager = "up" => ErasedAfter({r})
  BY <1>2 DEF ErasedAfter
<1>5. \A i : Valid(i) => Valid(i)'
  BY <1>2 DEF Valid
<1> QED
  BY <1>3, <1>4, <1>5

\* Order and identity of the entries need no more than that.
LEMMA SameEntriesSorted ==
    ASSUME TypeOK, IdsAreMade, ListIsSorted, SameEntries
    PROVE  IdsAreMade' /\ ListIsSorted'
<1>1. IdsAreMade'
  BY DEF IdsAreMade, SameEntries
<1>2. \A i, j \in DOMAIN providers :
        Precedes(providers[i], providers[j]) => Precedes(providers'[i], providers'[j])
  BY DEF SameEntries, Precedes
<1>3. ListIsSorted'
  <2> SUFFICES ASSUME NEW i \in DOMAIN providers', NEW j \in DOMAIN providers',
                      Listed(i)', Listed(j)', i < j
               PROVE  Precedes(providers'[i], providers'[j])
    BY DEF ListIsSorted, Precedes
  <2>1. i \in DOMAIN providers /\ j \in DOMAIN providers /\ Listed(i) /\ Listed(j)
    BY DEF SameEntries
  <2>2. Precedes(providers[i], providers[j])
    BY <2>1 DEF ListIsSorted
  <2> QED
    BY <1>2, <2>1, <2>2
<1> QED
  BY <1>1, <1>3

\* Loads that are in flight stay so, each at its entry.
SameFlight ==
    /\ at' = at
    /\ \A r \in Loads : stage'[r] \in InFlight <=> stage[r] \in InFlight

LEMMA SameFlightPending ==
    ASSUME SameFlight, NEW id
    PROVE  PendingRequests(id)' = PendingRequests(id)
  BY DEF SameFlight, PendingRequests, InFlight

------------------------------------------------------------------------------
\* The invariant holds initially and every step keeps it.

LEMMA InitList == Init => ListInvariant
<1> SUFFICES ASSUME Init PROVE ListInvariant
  OBVIOUS
<1>1. DOMAIN providers = {}
  BY DEF Init
<1>2. \A r \in Loads : stage[r] \notin InFlight
  BY DEF Init, InFlight
<1> QED
  BY <1>1, <1>2 DEF ListInvariant, NoDanglingEntry, DoomedIsBusy, IdsAreMade, ListIsSorted

\* A step that leaves the list alone and takes no load into or out of flight.
LEMMA NothingInFlightMoves ==
    ASSUME TypeOK, ListInvariant, UNCHANGED <<providers, made, manager>>, SameFlight
    PROVE  ListInvariant'
<1>1. \A id : PendingRequests(id)' = PendingRequests(id)
  BY SameFlightPending
<1>2. NoDanglingEntry'
  BY DEF ListInvariant, NoDanglingEntry, SameFlight, Listed
<1>3. DoomedIsBusy'
  BY <1>1 DEF ListInvariant, DoomedIsBusy
<1>4. IdsAreMade' /\ ListIsSorted'
  BY DEF ListInvariant, IdsAreMade, ListIsSorted, Listed, Precedes
<1> QED
  BY <1>2, <1>3, <1>4 DEF ListInvariant

\* A removal: loads are released but stay in flight until their task runs.
LEMMA RemovalList ==
    ASSUME TypeOK, ListInvariant, manager = "up", manager' = "up", SameFlight,
           SameEntries, ErasedAfter({})
    PROVE  ListInvariant'
<1>1. \A id : PendingRequests(id)' = PendingRequests(id)
  BY SameFlightPending
<1>2. NoDanglingEntry'
  <2> SUFFICES ASSUME NEW r \in Loads, stage'[r] \in InFlight
               PROVE  \E i \in DOMAIN providers' : Listed(i)' /\ providers'[i].id = at'[r]
    BY DEF NoDanglingEntry
  <2>1. stage[r] \in InFlight /\ at'[r] = at[r]
    BY DEF SameFlight
  <2>2. PICK i \in DOMAIN providers : Listed(i) /\ providers[i].id = at[r]
    BY <2>1 DEF ListInvariant, NoDanglingEntry
  <2>3. r \in PendingRequests(providers[i].id)
    BY <2>1, <2>2 DEF PendingRequests
  <2>4. Listed(i)'
    BY <2>2, <2>3 DEF ErasedAfter
  <2> QED
    BY <2>1, <2>2, <2>4 DEF SameEntries
<1>3. DoomedIsBusy'
  BY <1>1 DEF DoomedIsBusy, ErasedAfter, SameEntries
<1> QED
  BY <1>2, <1>3, SameEntriesSorted DEF ListInvariant

\* The load r leaves its entry, and may go to one that is valid.
LEMMA DetachedList ==
    ASSUME TypeOK, ListInvariant, manager = "up", manager' = "up", made' = made,
           NEW r \in Loads, providers' = Detached(r),
           \A s \in Loads \ {r} : stage'[s] = stage[s] /\ at'[s] = at[s],
           \/ stage'[r] \notin InFlight
           \/ \E j \in DOMAIN providers : Valid(j) /\ at'[r] = providers[j].id
    PROVE  ListInvariant'
<1>1. SameEntries /\ ErasedAfter({r}) /\ \A i : Valid(i) => Valid(i)'
  BY DetachedEntries
<1>2. NoDanglingEntry'
  <2> SUFFICES ASSUME NEW s \in Loads, stage'[s] \in InFlight
               PROVE  \E i \in DOMAIN providers' : Listed(i)' /\ providers'[i].id = at'[s]
    BY DEF NoDanglingEntry
  <2>1. CASE s = r
    <3>1. PICK j \in DOMAIN providers : Valid(j) /\ at'[r] = providers[j].id
      BY <2>1
    <3>2. Listed(j)'
      BY <1>1, <3>1 DEF Valid, Listed
    <3> QED
      BY <1>1, <2>1, <3>1, <3>2 DEF SameEntries
  <2>2. CASE s # r
    <3>1. stage[s] \in InFlight /\ at'[s] = at[s]
      BY <2>2
    <3>2. PICK i \in DOMAIN providers : Listed(i) /\ providers[i].id = at[s]
      BY <3>1 DEF ListInvariant, NoDanglingEntry
    <3>3. s \in PendingRequests(providers[i].id) /\ s \notin {r}
      BY <2>2, <3>1, <3>2 DEF PendingRequests
    <3>4. Listed(i)'
      BY <1>1, <3>2, <3>3 DEF ErasedAfter
    <3> QED
      BY <1>1, <3>1, <3>2, <3>4 DEF SameEntries
  <2> QED
    BY <2>1, <2>2
<1>3. DoomedIsBusy'
  <2> SUFFICES ASSUME NEW i \in DOMAIN providers, (providers[i].status = "doomed")'
               PROVE  PendingRequests(providers[i].id)' # {}
    BY <1>1 DEF DoomedIsBusy, SameEntries
  <2>1. PICK s \in PendingRequests(providers[i].id) : s # r
    BY <1>1 DEF ErasedAfter
  <2>2. s \in Loads \ {r} /\ stage[s] \in InFlight /\ at[s] = providers[i].id
    BY <2>1 DEF PendingRequests
  <2>3. stage'[s] \in InFlight /\ at'[s] = providers'[i].id
    BY <1>1, <2>2 DEF SameEntries
  <2> QED
    BY <2>2, <2>3 DEF PendingRequests, InFlight
<1> QED
  BY <1>1, <1>2, <1>3, SameEntriesSorted DEF ListInvariant

------------------------------------------------------------------------------
\* The actions.

LEMMA CallList ==
    ASSUME TypeOK, ListInvariant, NEW c \in Calls, Call(c)
    PROVE  ListInvariant'
  BY NothingInFlightMoves DEF Call, providerVars, loadVars, SameFlight

LEMMA StartLoadList ==
    ASSUME TypeOK, ListInvariant, NEW r \in Loads, StartLoad(r)
    PROVE  ListInvariant'
<1>1. SameFlight
  BY DEF StartLoad, SameFlight, InFlight, TypeOK, LoadTypeOK
<1> QED
  BY <1>1, NothingInFlightMoves DEF StartLoad, providerVars

LEMMA FileJobList ==
    ASSUME TypeOK, ListInvariant, NEW j \in fileJobs, FileJob(j)
    PROVE  ListInvariant'
  BY NothingInFlightMoves DEF FileJob, providerVars, loadVars, SameFlight

LEMMA GetResourceHandlerList ==
    ASSUME TypeOK, ListInvariant, NEW r \in Loads, GetResourceHandler(r)
    PROVE  ListInvariant'
<1>1. SameFlight
  BY DEF GetResourceHandler, SameFlight, InFlight, TypeOK, LoadTypeOK
<1> QED
  BY <1>1, NothingInFlightMoves DEF GetResourceHandler, providerVars

\* The entry that was at place j moves behind the new one.
Moved(place, j) == IF j < place THEN j ELSE j + 1

LEMMA InsertedAtPlaces ==
    ASSUME TypeOK, NEW place \in 1..(Len(providers) + 1), NEW new \in Entries,
           providers' = InsertedAt(place, new)
    PROVE  /\ DOMAIN providers' = 1..(Len(providers) + 1)
           /\ place \in DOMAIN providers' /\ providers'[place] = new
           /\ \A j \in DOMAIN providers :
                /\ Moved(place, j) \in DOMAIN providers'
                /\ providers'[Moved(place, j)] = providers[j]
           /\ \A k \in DOMAIN providers' :
                k # place => \E j \in DOMAIN providers : k = Moved(place, j)
<1>1. Len(providers) \in Nat /\ DOMAIN providers = 1..Len(providers)
  BY DEF TypeOK, ManagerTypeOK
<1>2. DOMAIN providers' = 1..(Len(providers) + 1)
  BY DEF InsertedAt
<1>3. place \in DOMAIN providers' /\ providers'[place] = new
  BY <1>1, <1>2 DEF InsertedAt
<1>4. ASSUME NEW j \in DOMAIN providers
      PROVE  Moved(place, j) \in DOMAIN providers' /\ providers'[Moved(place, j)] = providers[j]
  <2>1. CASE j < place
    <3>1. j \in 1..(Len(providers) + 1)
      BY <1>1
    <3> QED
      BY <1>2, <2>1, <3>1 DEF InsertedAt, Moved
  <2>2. CASE ~(j < place)
    <3>1. /\ j + 1 \in 1..(Len(providers) + 1)
          /\ ~(j + 1 < place) /\ j + 1 # place /\ (j + 1) - 1 = j
      BY <1>1, <2>2
    <3> QED
      BY <1>2, <2>2, <3>1 DEF InsertedAt, Moved
  <2> QED
    BY <2>1, <2>2
<1>5. ASSUME NEW k \in DOMAIN providers', k # place
      PROVE  \E j \in DOMAIN providers : k = Moved(place, j)
  <2>1. CASE k < place
    <3>1. k \in DOMAIN providers
      BY <1>1, <1>2, <2>1
    <3> QED
      BY <2>1, <3>1 DEF Moved
  <2>2. CASE k > place
    <3>1. k - 1 \in DOMAIN providers /\ ~(k - 1 < place) /\ k = (k - 1) + 1
      BY <1>1, <1>2, <2>2
    <3> QED
      BY <3>1 DEF Moved
  <2> QED
    BY <1>1, <1>2, <1>5, <2>1, <2>2
<1> QED
  BY <1>2, <1>3, <1>4, <1>5

LEMMA MovedIsMonotonic ==
    ASSUME NEW place \in Int, NEW i \in Int, NEW j \in Int
    PROVE  /\ Moved(place, i) < Moved(place, j) => i < j
           /\ Moved(place, i) < place => i < place
           /\ place < Moved(place, i) => place <= i
           /\ Moved(place, i) = Moved(place, j) => i = j
           /\ Moved(place, i) # place
  BY DEF Moved

LEMMA AddProviderList ==
    ASSUME TypeOK, ListInvariant, NEW t \in IoTasks, AddProvider(t)
    PROVE  ListInvariant'
<1> DEFINE new == [id |-> made + 1, kind |-> t.kind, order |-> t.order,
                   ident |-> t.ident, status |-> "live"]
<1>1. t \in AddCalls
  BY DEF AddProvider, IoTasks, ApiCalls, RemoveCalls, LoadTasks, ContinueTask,
         StopTasks, OpenedTasks, ZipTasks
<1>2. made \in Int /\ made' = made + 1
  BY Bounds DEF AddProvider, TypeOK, ManagerTypeOK
<1>3. made + 1 \in EntryIds
  BY Bounds DEF AddProvider, TypeOK, ManagerTypeOK, EntryIds
<1>4. new \in Entries
  BY <1>1, <1>3 DEF AddCalls, Entries
<1>5. t.order \in Int
  BY <1>1 DEF AddCalls
<1>6. PICK place \in 1..(Len(providers) + 1) :
         IsPlaceFor(place, t.order) /\ providers' = InsertedAt(place, new)
  BY DEF AddProvider
<1>7. new.id = made + 1 /\ new.order = t.order /\ new.status = "live"
  OBVIOUS
<1> HIDE DEF new
<1>8. /\ DOMAIN providers' = 1..(Len(providers) + 1)
      /\ place \in DOMAIN providers' /\ providers'[place] = new
      /\ \A j \in DOMAIN providers :
           /\ Moved(place, j) \in DOMAIN providers'
           /\ providers'[Moved(place, j)] = providers[j]
      /\ \A k \in DOMAIN providers' :
           k # place => \E j \in DOMAIN providers : k = Moved(place, j)
  BY <1>4, <1>6, InsertedAtPlaces
<1>9. \A j \in DOMAIN providers : Listed(Moved(place, j))' <=> Listed(j)
  BY <1>8 DEF Listed
<1>10. place \in Int
  BY DEF TypeOK, ManagerTypeOK
<1>11. UNCHANGED <<manager, stage, at>>
  BY DEF AddProvider, loadVars
<1>12. NoDanglingEntry'
  <2> SUFFICES ASSUME manager = "up", NEW r \in Loads, stage[r] \in InFlight
               PROVE  \E i \in DOMAIN providers' : Listed(i)' /\ providers'[i].id = at[r]
    BY <1>11 DEF NoDanglingEntry
  <2>1. PICK i \in DOMAIN providers : Listed(i) /\ providers[i].id = at[r]
    BY DEF ListInvariant, NoDanglingEntry
  <2> QED
    BY <1>8, <1>9, <2>1
<1>13. DoomedIsBusy'
  <2> SUFFICES ASSUME manager = "up", NEW k \in DOMAIN providers',
                      providers'[k].status = "doomed"
               PROVE  PendingRequests(providers[k].id)' # {}
    BY <1>11 DEF DoomedIsBusy
  <2>1. k # place
    BY <1>7, <1>8
  <2>2. PICK j \in DOMAIN providers : k = Moved(place, j)
    BY <1>8, <2>1
  <2>3. providers'[k] = providers[j]
    BY <1>8, <2>2
  <2>4. PendingRequests(providers[j].id) # {}
    BY <2>3 DEF ListInvariant, DoomedIsBusy
  <2> QED
    BY <1>11, <2>3, <2>4 DEF PendingRequests
<1>14. \A k \in DOMAIN providers' : k = place \/ \E j \in DOMAIN providers :
         k = Moved(place, j) /\ providers'[k] = providers[j]
  BY <1>8
<1>15. \A j \in DOMAIN providers : providers[j].id \in Int /\ providers[j].id <= made
                                    /\ providers[j].order \in Int /\ j \in Int
  BY EntryFacts DEF ListInvariant, IdsAreMade
<1>16. IdsAreMade'
  <2>1. \A k \in DOMAIN providers' : providers'[k].id <= made'
    BY <1>2, <1>7, <1>8, <1>14, <1>15
  <2>2. ASSUME NEW k \in DOMAIN providers', NEW l \in DOMAIN providers',
               providers'[k].id = providers'[l].id
        PROVE  k = l
    <3>1. CASE k = place /\ l = place
      BY <3>1
    <3>2. CASE k = place /\ l # place
      <4>1. PICK j \in DOMAIN providers : providers'[l] = providers[j]
        BY <1>14, <3>2
      <4>2. providers[j].id = made + 1
        BY <1>7, <1>8, <2>2, <3>2, <4>1
      <4> QED
        BY <1>2, <1>15, <4>2
    <3>3. CASE k # place /\ l = place
      <4>1. PICK j \in DOMAIN providers : providers'[k] = providers[j]
        BY <1>14, <3>3
      <4>2. providers[j].id = made + 1
        BY <1>7, <1>8, <2>2, <3>3, <4>1
      <4> QED
        BY <1>2, <1>15, <4>2
    <3>4. CASE k # place /\ l # place
      <4>1. PICK i \in DOMAIN providers : k = Moved(place, i) /\ providers'[k] = providers[i]
        BY <1>14, <3>4
      <4>2. PICK j \in DOMAIN providers : l = Moved(place, j) /\ providers'[l] = providers[j]
        BY <1>14, <3>4
      <4>3. i = j
        BY <2>2, <4>1, <4>2 DEF ListInvariant, IdsAreMade
      <4> QED
        BY <4>1, <4>2, <4>3
    <3> QED
      BY <3>1, <3>2, <3>3, <3>4
  <2> QED
    BY <2>1, <2>2 DEF IdsAreMade
<1>17. ListIsSorted'
  <2> SUFFICES ASSUME NEW k \in DOMAIN providers', NEW l \in DOMAIN providers',
                      Listed(k)', Listed(l)', k < l
               PROVE  Precedes(providers'[k], providers'[l])
    BY DEF ListIsSorted, Precedes
  <2>1. CASE k = place
    <3>1. PICK j \in DOMAIN providers : l = Moved(place, j) /\ providers'[l] = providers[j]
      BY <1>10, <1>14, <2>1
    <3>2. place <= j /\ Listed(j)
      BY <1>9, <1>10, <1>15, <2>1, <3>1, MovedIsMonotonic
    <3>3. place # Len(providers) + 1
      BY <1>15, <3>2 DEF TypeOK, ManagerTypeOK
    <3>4. place \in DOMAIN providers /\ Listed(place) /\ providers[place].order > t.order
      BY <1>6, <3>3 DEF IsPlaceFor, Listed
    <3>5. providers[place].order <= providers[j].order
      <4>1. CASE place = j
        BY <1>15, <4>1
      <4>2. CASE place < j
        <5>1. Precedes(providers[place], providers[j])
          BY <3>2, <3>4, <4>2 DEF ListInvariant, ListIsSorted
        <5> QED
          BY <1>15, <3>4, <5>1 DEF Precedes
      <4> QED
        BY <1>10, <1>15, <3>2, <4>1, <4>2
    <3>6. t.order < providers[j].order
      BY <1>5, <1>15, <3>4, <3>5
    <3> QED
      BY <1>7, <1>8, <2>1, <3>1, <3>6 DEF Precedes
  <2>2. CASE l = place
    <3>1. PICK j \in DOMAIN providers : k = Moved(place, j) /\ providers'[k] = providers[j]
      BY <1>10, <1>14, <2>2
    <3>2. j < place /\ Listed(j)
      BY <1>9, <1>10, <1>15, <2>2, <3>1, MovedIsMonotonic
    <3>3. j \in 1..(place - 1)
      BY <1>10, <3>2 DEF TypeOK, ManagerTypeOK
    <3>4. providers[j].order <= t.order
      BY <1>6, <3>2, <3>3 DEF IsPlaceFor
    <3>5. providers[j].id < made + 1
      BY <1>2, <1>15
    <3> QED
      BY <1>5, <1>7, <1>8, <1>15, <2>2, <3>1, <3>4, <3>5 DEF Precedes
  <2>3. CASE k # place /\ l # place
    <3>1. PICK i \in DOMAIN providers : k = Moved(place, i) /\ providers'[k] = providers[i]
      BY <1>14, <2>3
    <3>2. PICK j \in DOMAIN providers : l = Moved(place, j) /\ providers'[l] = providers[j]
      BY <1>14, <2>3
    <3>3. i < j /\ Listed(i) /\ Listed(j)
      BY <1>9, <1>10, <1>15, <3>1, <3>2, MovedIsMonotonic
    <3> QED
      BY <3>1, <3>2, <3>3 DEF ListInvariant, ListIsSorted
  <2> QED
    BY <2>1, <2>2, <2>3
<1> QED
  BY <1>12, <1>13, <1>16, <1>17 DEF ListInvariant

LEMMA ReachedAreValid ==
    ASSUME NEW Matching
    PROVE  \A i \in Reached(Matching) : i \in Int => Valid(i)
  BY DEF Reached

LEMMA ReleaseHeldFlight ==
    ASSUME TypeOK, NEW Doomed, NEW stop \in BOOLEAN, ReleaseHeld(Doomed, stop), at' = at
    PROVE  SameFlight
<1> DEFINE Held == {r \in Loads : stage[r] = "held" /\ \E i \in Doomed : providers[i].id = at[r]}
<1>1. \A r \in Loads : stage'[r] = IF r \notin Held THEN stage[r]
                                   ELSE IF stop THEN "stopping" ELSE "moving"
  BY DEF ReleaseHeld
<1>2. \A r \in Held : stage[r] = "held"
  OBVIOUS
<1> HIDE DEF Held
<1> QED
  BY <1>1, <1>2 DEF SameFlight, InFlight

LEMMA RemoveProvidersList ==
    ASSUME TypeOK, ListInvariant, NEW t \in IoTasks, RemoveProviders(t)
    PROVE  ListInvariant'
<1>1. PICK Matching \in SUBSET DOMAIN providers :
         /\ providers' = AfterDeletion(Reached(Matching))
         /\ ReleaseHeld(Reached(Matching), t.type = "removeAll")
  BY DEF RemoveProviders
<1>2. \A i \in Reached(Matching) : Valid(i)
  <2>1. \A i \in Reached(Matching) : i \in Int
    BY DEF Reached, TypeOK, ManagerTypeOK
  <2> QED
    BY <2>1, ReachedAreValid
<1>3. UNCHANGED <<made, manager, at>>
  BY DEF RemoveProviders
<1>4. SameFlight
  BY <1>1, <1>3, ReleaseHeldFlight
<1>5. SameEntries /\ (manager = "up" => ErasedAfter({}))
  BY <1>1, <1>2, <1>3, AfterDeletionEntries
<1>6. CASE manager = "up"
  BY <1>3, <1>4, <1>5, <1>6, RemovalList
<1>7. CASE manager # "up"
  BY <1>3, <1>5, <1>7, SameEntriesSorted DEF ListInvariant, NoDanglingEntry, DoomedIsBusy
<1> QED
  BY <1>6, <1>7

LEMMA DestroyList ==
    ASSUME TypeOK, ListInvariant, NEW t \in IoTasks, Destroy(t)
    PROVE  ListInvariant'
<1>1. PICK All \in SUBSET DOMAIN providers :
         /\ ReleaseHeld(Reached(All), TRUE)
         /\ \/ providers' = AfterDeletion(Reached(All)) /\ UNCHANGED manager
            \/ /\ providers' = [i \in DOMAIN providers |-> WithStatus(providers[i], "erased")]
               /\ manager' = "deleted"
  BY DEF Destroy
<1>2. UNCHANGED <<made, at>>
  BY DEF Destroy
<1>3. SameFlight
  BY <1>1, <1>2, ReleaseHeldFlight
<1>4. CASE providers' = AfterDeletion(Reached(All)) /\ UNCHANGED manager
  <2>1. \A i \in Reached(All) : Valid(i)
    <3>1. \A i \in Reached(All) : i \in Int
      BY DEF Reached, TypeOK, ManagerTypeOK
    <3> QED
      BY <3>1, ReachedAreValid
  <2>2. SameEntries /\ (manager = "up" => ErasedAfter({}))
    BY <1>2, <1>4, <2>1, AfterDeletionEntries
  <2>3. CASE manager = "up"
    BY <1>3, <1>4, <2>2, <2>3, RemovalList
  <2>4. CASE manager # "up"
    BY <1>4, <2>2, <2>4, SameEntriesSorted DEF ListInvariant, NoDanglingEntry, DoomedIsBusy
  <2> QED
    BY <2>3, <2>4
<1>5. CASE /\ providers' = [i \in DOMAIN providers |-> WithStatus(providers[i], "erased")]
           /\ manager' = "deleted"
  <2>1. \A i \in DOMAIN providers : /\ providers'[i].id = providers[i].id
                                   /\ providers'[i].order = providers[i].order
                                   /\ providers'[i].status = "erased"
    BY <1>5, EntryFacts, WithStatusFields
  <2>2. SameEntries
    BY <1>2, <1>5, <2>1 DEF SameEntries, Listed
  <2> QED
    BY <1>5, <2>2, SameEntriesSorted DEF ListInvariant, NoDanglingEntry, DoomedIsBusy
<1> QED
  BY <1>1, <1>4, <1>5

LEMMA StopRequestList ==
    ASSUME TypeOK, ListInvariant, UNCHANGED <<made, manager>>, NEW r \in Loads, StopRequest(r)
    PROVE  ListInvariant'
<1>1. /\ providers' = Detached(r)
      /\ \A s \in Loads \ {r} : stage'[s] = stage[s] /\ at'[s] = at[s]
      /\ stage'[r] \notin InFlight
  BY DEF StopRequest, InFlight, TypeOK, LoadTypeOK
<1>2. CASE manager = "up"
  BY <1>1, <1>2, DetachedList
<1>3. CASE manager # "up"
  BY <1>1, <1>3, DetachedEntries, SameEntriesSorted
     DEF ListInvariant, NoDanglingEntry, DoomedIsBusy
<1> QED
  BY <1>2, <1>3

LEMMA SendRequestList ==
    ASSUME TypeOK, ListInvariant, UNCHANGED <<made, manager>>,
           NEW r \in Loads, NEW i, SendRequest(r, i)
    PROVE  ListInvariant'
<1>1. CASE StopRequest(r)
  BY <1>1, StopRequestList
<1>2. ASSUME NEW j \in PlacesFrom(i), OnRequest(r, providers[j]),
             providers' = Detached(r), at' = [at EXCEPT ![r] = providers[j].id]
      PROVE  ListInvariant'
  <2>1. j \in DOMAIN providers /\ Valid(j)
    BY DEF PlacesFrom
  <2>2. \A s \in Loads \ {r} : stage'[s] = stage[s]
    <3>1. Handle(r) \/ Hold(r)
      BY <1>2 DEF OnRequest
    <3> QED
      BY <3>1 DEF Handle, Hold, TypeOK, LoadTypeOK
  <2>3. \A s \in Loads \ {r} : at'[s] = at[s]
    BY <1>2 DEF TypeOK, LoadTypeOK
  <2>4. at'[r] = providers[j].id
    BY <1>2 DEF TypeOK, LoadTypeOK
  <2>5. CASE manager = "up"
    BY <1>2, <2>1, <2>2, <2>3, <2>4, <2>5, DetachedList
  <2>6. CASE manager # "up"
    BY <1>2, <2>6, DetachedEntries, SameEntriesSorted
       DEF ListInvariant, NoDanglingEntry, DoomedIsBusy
  <2> QED
    BY <2>5, <2>6
<1> QED
  BY <1>1, <1>2 DEF SendRequest

LEMMA OnBeforeResourceLoadList ==
    ASSUME TypeOK, ListInvariant, NEW t \in IoTasks, OnBeforeResourceLoad(t)
    PROVE  ListInvariant'
<1>1. t.load \in Loads
  BY DEF OnBeforeResourceLoad, IoTasks, ApiCalls, AddCalls, RemoveCalls, LoadTasks,
         ContinueTask, StopTasks, OpenedTasks, ZipTasks
<1> QED
  BY <1>1, SendRequestList DEF OnBeforeResourceLoad

LEMMA ContinueRequestList ==
    ASSUME TypeOK, ListInvariant, NEW t \in IoTasks, ContinueRequest(t)
    PROVE  ListInvariant'
<1>1. t.load \in Loads
  BY ContinueTaskLoad DEF ContinueRequest
<1>2. StopRequest(t.load) \/ \E i : SendRequest(t.load, i)
  BY DEF ContinueRequest
<1> QED
  BY <1>1, <1>2, StopRequestList, SendRequestList DEF ContinueRequest

LEMMA StopOnIOThreadList ==
    ASSUME TypeOK, ListInvariant, NEW t \in IoTasks, StopOnIOThread(t)
    PROVE  ListInvariant'
<1>1. t.load \in Loads
  BY ContinueTaskLoad DEF StopOnIOThread
<1> QED
  BY <1>1, StopRequestList DEF StopOnIOThread

LEMMA ContinueAloneList ==
    ASSUME TypeOK, ListInvariant, NEW t \in IoTasks, ContinueAlone(t)
    PROVE  ListInvariant'
<1>1. manager = "deleted" /\ UNCHANGED <<providers, made, manager>>
  BY DEF ContinueAlone, providerVars
<1> QED
  BY <1>1 DEF ListInvariant, NoDanglingEntry, DoomedIsBusy, IdsAreMade, ListIsSorted,
              Listed, Precedes

LEMMA ContinueOpenList ==
    ASSUME TypeOK, ListInvariant, NEW t \in IoTasks, ContinueOpen(t)
    PROVE  ListInvariant'
<1>1. SameFlight
  BY DEF ContinueOpen, HasState, SameFlight, InFlight, TypeOK, LoadTypeOK
<1> QED
  BY <1>1, NothingInFlightMoves DEF ContinueOpen, providerVars

LEMMA ContinueArchiveList ==
    ASSUME TypeOK, ListInvariant, NEW t \in IoTasks, ContinueArchive(t)
    PROVE  ListInvariant'
<1>1. SameFlight
  <2>1. CASE UNCHANGED stage
    BY <2>1 DEF ContinueArchive, SameFlight
  <2>2. CASE ~UNCHANGED stage
    <3>1. PICK Found \in SUBSET {r \in queue[t.entry] : HasState(r, t.entry)} :
            stage' = [r \in Loads |-> IF r \in Found THEN "moving" ELSE stage[r]]
      BY <2>2 DEF ContinueArchive
    <3>2. \A r \in Found : stage[r] = "held"
      BY DEF HasState
    <3> QED
      BY <3>1, <3>2 DEF ContinueArchive, SameFlight, InFlight
  <2> QED
    BY <2>1, <2>2
<1> QED
  BY <1>1, NothingInFlightMoves DEF ContinueArchive

LEMMA NextList ==
    ASSUME TypeOK, ListInvariant, [Next]_vars
    PROVE  ListInvariant'
<1>1. CASE UNCHANGED vars
  BY <1>1, NothingInFlightMoves DEF vars, SameFlight
<1>2. CASE RunTask
  <2> DEFINE t == Head(ioTasks)
  <2>1. t \in IoTasks
    BY <1>2, HeadIsTask DEF RunTask
  <2>2. \/ AddProvider(t) \/ RemoveProviders(t) \/ Destroy(t)
        \/ OnBeforeResourceLoad(t)
        \/ ContinueRequest(t) \/ StopOnIOThread(t) \/ ContinueAlone(t)
        \/ ContinueOpen(t) \/ ContinueArchive(t)
    BY <1>2 DEF RunTask
  <2> HIDE DEF t
  <2> QED
    BY <2>1, <2>2, AddProviderList, RemoveProvidersList, DestroyList,
       OnBeforeResourceLoadList, ContinueRequestList, StopOnIOThreadList,
       ContinueAloneList, ContinueOpenList, ContinueArchiveList
<1> QED
  BY <1>1, <1>2, CallList, StartLoadList, FileJobList, GetResourceHandlerList DEF Next

LEMMA ListInvariantHolds == Spec => []ListInvariant
<1>1. Init => ListInvariant
  BY InitList
<1>2. TypeOK /\ ListInvariant /\ [Next]_vars => ListInvariant'
  BY NextList
<1> QED
  BY <1>1, <1>2, ResourceTypeCorrect, PTL DEF Spec

\* No removal, at any moment, leaves a load at an entry that is gone: the iterators
\* of a RequestState are valid while the manager lives.  And an entry whose deletion
\* was put off has a request left that will erase it.
THEOREM NoIteratorDangles == Spec => []EntriesLastAsNeeded
<1>1. ListInvariant => EntriesLastAsNeeded
  BY DEF ListInvariant, EntriesLastAsNeeded
<1> QED
  BY <1>1, ListInvariantHolds, PTL

\* Providers are in ascending order, and in the order of their calls within one.
THEOREM ProvidersAreSorted == Spec => []ListIsSorted
<1>1. ListInvariant => ListIsSorted
  BY DEF ListInvariant
<1> QED
  BY <1>1, ListInvariantHolds, PTL

------------------------------------------------------------------------------
\* The tasks that move a load.

\* A load is moved by tasks of its own only, one at a time, and its stage tells
\* which one.
IsOf(t, r) == t.type \in {"load", "continue", "stop"} /\ t.load = r

StageOf(t) == IF t.type = "load" THEN "posted"
              ELSE IF t.type = "continue" THEN "moving" ELSE "stopping"

Waiting == {"posted", "moving", "stopping"}

Free(tasks, r) == \A i \in DOMAIN tasks : ~IsOf(tasks[i], r)

TasksAgree(tasks) ==
    /\ \A r \in Loads : \A i \in DOMAIN tasks : IsOf(tasks[i], r) => stage[r] = StageOf(tasks[i])
    /\ \A r \in Loads : \A i, j \in DOMAIN tasks : IsOf(tasks[i], r) /\ IsOf(tasks[j], r) => i = j

TaskInvariant == TasksAgree(ioTasks)

LEMMA TailAgrees ==
    ASSUME TypeOK, TaskInvariant, ioTasks # <<>>
    PROVE  /\ TasksAgree(Tail(ioTasks))
           /\ \A r \in Loads : IsOf(Head(ioTasks), r) =>
                stage[r] = StageOf(Head(ioTasks)) /\ Free(Tail(ioTasks), r)
<1>1. ioTasks \in Seq(IoTasks)
  BY DEF TypeOK, TaskTypeOK
<1>2. \A i \in DOMAIN Tail(ioTasks) : i + 1 \in DOMAIN ioTasks /\ Tail(ioTasks)[i] = ioTasks[i + 1]
                                      /\ i \in Nat /\ i + 1 # 1
  BY <1>1
<1>3. 1 \in DOMAIN ioTasks /\ Head(ioTasks) = ioTasks[1]
  BY <1>1
<1>4. \A i, j \in DOMAIN Tail(ioTasks) : i + 1 = j + 1 => i = j
  BY <1>2
<1>5. TasksAgree(Tail(ioTasks))
  BY <1>2, <1>4 DEF TaskInvariant, TasksAgree
<1>6. \A r \in Loads : IsOf(Head(ioTasks), r) =>
        stage[r] = StageOf(Head(ioTasks)) /\ Free(Tail(ioTasks), r)
  BY <1>2, <1>3 DEF TaskInvariant, TasksAgree, Free
<1> QED
  BY <1>5, <1>6

\* A load that waits for none of its tasks has none.
LEMMA NotWaitingIsFree ==
    ASSUME NEW tasks, TasksAgree(tasks), NEW r \in Loads, stage[r] \notin Waiting
    PROVE  Free(tasks, r)
  BY DEF TasksAgree, Free, StageOf, Waiting

\* Tasks are added for loads that have none, and loads change that have none.
LEMMA TasksAfter ==
    ASSUME NEW tasks \in Seq(IoTasks), TasksAgree(tasks), NEW new \in Seq(IoTasks),
           ioTasks' = tasks \o new,
           \A r \in Loads : stage'[r] = stage[r] \/ Free(tasks, r),
           \A r \in Loads : \A i \in DOMAIN new :
             IsOf(new[i], r) => stage'[r] = StageOf(new[i]) /\ Free(tasks, r),
           \A r \in Loads : \A i, j \in DOMAIN new : IsOf(new[i], r) /\ IsOf(new[j], r) => i = j
    PROVE  TaskInvariant'
<1> DEFINE all == tasks \o new
           n   == Len(tasks)
<1>1. n \in Nat /\ DOMAIN tasks = 1..n
  OBVIOUS
<1>2. \A k \in DOMAIN all :
        \/ k \in DOMAIN tasks /\ all[k] = tasks[k]
        \/ k - n \in DOMAIN new /\ all[k] = new[k - n] /\ k \in Int
  OBVIOUS
<1> HIDE DEF all, n
<1>3. ASSUME NEW r \in Loads, NEW k \in DOMAIN all, IsOf(all[k], r)
      PROVE  stage'[r] = StageOf(all[k])
  <2>1. CASE k \in DOMAIN tasks /\ all[k] = tasks[k]
    BY <1>3, <2>1 DEF TasksAgree, Free
  <2>2. CASE k - n \in DOMAIN new /\ all[k] = new[k - n]
    BY <1>3, <2>2
  <2> QED
    BY <1>2, <2>1, <2>2
<1>4. ASSUME NEW r \in Loads, NEW k \in DOMAIN all, NEW l \in DOMAIN all,
             IsOf(all[k], r), IsOf(all[l], r)
      PROVE  k = l
  <2>1. CASE Free(tasks, r)
    <3>1. /\ k - n \in DOMAIN new /\ all[k] = new[k - n] /\ k \in Int
          /\ l - n \in DOMAIN new /\ all[l] = new[l - n] /\ l \in Int
      BY <1>2, <1>4, <2>1 DEF Free
    <3>2. k - n = l - n
      BY <1>4, <3>1
    <3> QED
      BY <1>1, <3>1, <3>2
  <2>2. CASE ~Free(tasks, r)
    <3>1. /\ k \in DOMAIN tasks /\ all[k] = tasks[k]
          /\ l \in DOMAIN tasks /\ all[l] = tasks[l]
      BY <1>2, <1>4, <2>2
    <3> QED
      BY <1>4, <3>1 DEF TasksAgree
  <2> QED
    BY <2>1, <2>2
<1> QED
  BY <1>3, <1>4 DEF TaskInvariant, TasksAgree, all

\* The head is taken from the queue and nothing is added.
LEMMA HeadIsDone ==
    ASSUME TypeOK, TaskInvariant, ioTasks # <<>>, ioTasks' = Tail(ioTasks),
           \A r \in Loads : stage'[r] = stage[r] \/ IsOf(Head(ioTasks), r) \/ stage[r] \notin Waiting
    PROVE  TaskInvariant'
<1>1. Tail(ioTasks) \in Seq(IoTasks) /\ TasksAgree(Tail(ioTasks))
  BY HeadIsTask, TailAgrees
<1>2. \A r \in Loads : stage'[r] = stage[r] \/ Free(Tail(ioTasks), r)
  BY <1>1, TailAgrees, NotWaitingIsFree
<1>3. Tail(ioTasks) \o <<>> = Tail(ioTasks) /\ <<>> \in Seq(IoTasks) /\ DOMAIN <<>> = {}
  BY <1>1
<1> QED
  BY <1>1, <1>2, <1>3, TasksAfter

\* One task is added behind the tail or behind all.
LEMMA OneMoreTask ==
    ASSUME NEW tasks \in Seq(IoTasks), TasksAgree(tasks), NEW t \in IoTasks,
           ioTasks' = Append(tasks, t),
           \A r \in Loads : stage'[r] = stage[r] \/ Free(tasks, r),
           \A r \in Loads : IsOf(t, r) => stage'[r] = StageOf(t) /\ Free(tasks, r)
    PROVE  TaskInvariant'
<1>1. Append(tasks, t) = tasks \o <<t>>
  OBVIOUS
<1>2. <<t>> \in Seq(IoTasks) /\ DOMAIN <<t>> = {1} /\ <<t>>[1] = t
  OBVIOUS
<1> QED
  BY <1>1, <1>2, TasksAfter
LEMMA InitTasks == Init => TaskInvariant
<1> SUFFICES ASSUME Init PROVE TaskInvariant
  OBVIOUS
<1>1. \A i \in DOMAIN Setup : Setup[i].type = "add"
  <2>1. \A i \in DOMAIN Setup : Setup[i] \in AddCalls
    BY ResourceAssumption
  <2> QED
    BY <2>1 DEF AddCalls
<1> QED
  BY <1>1 DEF Init, TaskInvariant, TasksAgree, IsOf

LEMMA CallTasks ==
    ASSUME TypeOK, TaskInvariant, NEW c \in Calls, Call(c)
    PROVE  TaskInvariant'
<1>1. c \in IoTasks /\ c.type \notin {"load", "continue", "stop"}
  BY ResourceAssumption DEF IoTasks, ApiCalls, AddCalls, RemoveCalls
<1>2. ioTasks' = Append(ioTasks, c) /\ UNCHANGED stage
  BY DEF Call, loadVars
<1> QED
  BY <1>1, <1>2, OneMoreTask DEF IsOf, TypeOK, TaskTypeOK, TaskInvariant

LEMMA StartLoadTasks ==
    ASSUME TypeOK, TaskInvariant, NEW r \in Loads, StartLoad(r)
    PROVE  TaskInvariant'
<1> DEFINE t == [type |-> "load", load |-> r]
<1>1. ioTasks' = Append(ioTasks, t) /\ stage[r] \notin Waiting
  BY DEF StartLoad, Waiting
<1>2. \A s \in Loads : stage'[s] = IF s = r THEN "posted" ELSE stage[s]
  BY DEF StartLoad, TypeOK, LoadTypeOK
<1>3. t \in IoTasks /\ t.type = "load" /\ t.load = r
  BY DEF IoTasks, LoadTasks
<1> HIDE DEF t
<1>4. Free(ioTasks, r)
  BY <1>1, NotWaitingIsFree DEF TaskInvariant
<1>5. \A s \in Loads : IsOf(t, s) => stage'[s] = StageOf(t) /\ Free(ioTasks, s)
  BY <1>2, <1>3, <1>4 DEF IsOf, StageOf
<1> QED
  BY <1>1, <1>2, <1>3, <1>4, <1>5, OneMoreTask DEF TypeOK, TaskTypeOK, TaskInvariant

LEMMA FileJobTasks ==
    ASSUME TypeOK, TaskInvariant, NEW j \in fileJobs, FileJob(j)
    PROVE  TaskInvariant'
<1>1. ioTasks' \in Seq(IoTasks)
  BY FileJobType DEF TypeOK, TaskTypeOK
<1>2. PICK t : ioTasks' = Append(ioTasks, t) /\ t.type \in {"opened", "zip"}
  BY DEF FileJob
<1>3. t \in IoTasks
  <2>1. ioTasks \in Seq(IoTasks)
    BY DEF TypeOK, TaskTypeOK
  <2>2. Append(ioTasks, t)[Len(ioTasks) + 1] = t /\ Len(ioTasks) + 1 \in DOMAIN Append(ioTasks, t)
    BY <2>1
  <2> QED
    BY <1>1, <1>2, <2>2
<1>4. UNCHANGED stage
  BY DEF FileJob, loadVars
<1> QED
  BY <1>2, <1>3, <1>4, OneMoreTask DEF IsOf, TypeOK, TaskTypeOK, TaskInvariant

LEMMA GetResourceHandlerTasks ==
    ASSUME TypeOK, TaskInvariant, NEW r \in Loads, GetResourceHandler(r)
    PROVE  TaskInvariant'
<1>1. UNCHANGED ioTasks /\ stage[r] \notin Waiting
  BY DEF GetResourceHandler, Waiting
<1>2. \A s \in Loads : s # r => stage'[s] = stage[s]
  BY DEF GetResourceHandler, TypeOK, LoadTypeOK
<1>3. Free(ioTasks, r)
  BY <1>1, NotWaitingIsFree DEF TaskInvariant
<1> QED
  BY <1>1, <1>2, <1>3 DEF TaskInvariant, TasksAgree, Free

\* An enumeration of a finite set as long as its cardinality repeats nothing.
LEMMA EnumerationIsSingle ==
    ASSUME TypeOK, NEW Some \in SUBSET Loads, NEW s \in [1..Cardinality(Some) -> Some],
           \A r \in Some : \E i \in DOMAIN s : s[i] = r
    PROVE  \A i, j \in DOMAIN s : s[i] = s[j] => i = j
<1>1. IsFiniteSet(Some)
  BY ResourceAssumption, FS_Subset
<1>2. Cardinality(Some) \in Nat
  BY <1>1, FS_CardinalityType
<1>3. IsFiniteSet(1..Cardinality(Some)) /\ Cardinality(1..Cardinality(Some)) = Cardinality(Some)
  BY <1>2, FS_Interval
<1>4. s \in Surjection(1..Cardinality(Some), Some)
  BY DEF Surjection
<1>5. s \in Injection(1..Cardinality(Some), Some)
  BY <1>1, <1>3, <1>4, FS_SurjSameCardinalityImpliesInj
<1> QED
  BY <1>5 DEF Injection, IsInjective

\* The tasks new are posted for the loads in Some, which s enumerates and which
\* were held.
Releases(Some, s, new) ==
    /\ Some \in SUBSET Loads /\ \A r \in Some : stage[r] = "held"
    /\ s \in [1..Cardinality(Some) -> Some] /\ \A r \in Some : \E i \in DOMAIN s : s[i] = r
    /\ new \in Seq(IoTasks) /\ DOMAIN new = DOMAIN s /\ ioTasks' = Tail(ioTasks) \o new
    /\ \A i \in DOMAIN s : /\ new[i].type \in {"continue", "stop"} /\ new[i].load = s[i]
                           /\ stage'[s[i]] = StageOf(new[i])
    /\ \A r \in Loads \ Some : stage'[r] = stage[r]

LEMMA ReleasedTasks ==
    ASSUME TypeOK, TaskInvariant, ioTasks # <<>>, NEW Some, NEW s, NEW new, Releases(Some, s, new)
    PROVE  TaskInvariant'
<1> USE DEF Releases
<1>1. Tail(ioTasks) \in Seq(IoTasks) /\ TasksAgree(Tail(ioTasks))
  BY HeadIsTask, TailAgrees
<1>2. \A r \in Some : Free(Tail(ioTasks), r)
  BY <1>1, NotWaitingIsFree DEF Waiting
<1>3. \A i, j \in DOMAIN s : s[i] = s[j] => i = j
  BY EnumerationIsSingle
<1>4. \A i \in DOMAIN s : s[i] \in Some
  OBVIOUS
<1>5. \A r \in Loads : \A i \in DOMAIN new : IsOf(new[i], r) => s[i] = r
  BY DEF IsOf
<1>6. \A r \in Loads : \A i \in DOMAIN new :
        IsOf(new[i], r) => stage'[r] = StageOf(new[i]) /\ Free(Tail(ioTasks), r)
  BY <1>2, <1>4, <1>5
<1>7. \A r \in Loads : \A i, j \in DOMAIN new : IsOf(new[i], r) /\ IsOf(new[j], r) => i = j
  BY <1>3, <1>5
<1>8. \A r \in Loads : stage'[r] = stage[r] \/ Free(Tail(ioTasks), r)
  BY <1>2
<1> QED
  BY <1>1, <1>6, <1>7, <1>8, TasksAfter

LEMMA ReleaseHeldTasks ==
    ASSUME TypeOK, TaskInvariant, ioTasks # <<>>, NEW Doomed, NEW stop \in BOOLEAN,
           ReleaseHeld(Doomed, stop)
    PROVE  TaskInvariant'
<1> DEFINE Held == {r \in Loads : stage[r] = "held" /\ \E i \in Doomed : providers[i].id = at[r]}
<1>1. PICK s \in [1..Cardinality(Held) -> Held] :
         /\ \A r \in Held : \E i \in DOMAIN s : s[i] = r
         /\ ioTasks' = Tail(ioTasks) \o
              [i \in DOMAIN s |->
                 IF stop THEN [type |-> "stop", load |-> s[i]]
                 ELSE [type |-> "continue", load |-> s[i], handled |-> FALSE]]
  BY DEF ReleaseHeld
<1>2. \A r \in Loads : stage'[r] = IF r \notin Held THEN stage[r]
                                   ELSE IF stop THEN "stopping" ELSE "moving"
  BY DEF ReleaseHeld
<1>3. Held \in SUBSET Loads /\ \A r \in Held : stage[r] = "held"
  OBVIOUS
<1> HIDE DEF Held
<1> DEFINE new == [i \in DOMAIN s |->
                     IF stop THEN [type |-> "stop", load |-> s[i]]
                     ELSE [type |-> "continue", load |-> s[i], handled |-> FALSE]]
<1>4. s \in Seq(Loads)
  BY <1>3, EnumerationIsSeq
<1>5. \A i \in DOMAIN s : /\ new[i].type \in {"continue", "stop"} /\ new[i].load = s[i]
                          /\ new[i] \in IoTasks
                          /\ new[i].type = IF stop THEN "stop" ELSE "continue"
  <2>1. \A i \in DOMAIN s : s[i] \in Loads
    BY <1>3
  <2> QED
    BY <2>1 DEF IoTasks, StopTasks, ContinueTask
<1>6. DOMAIN new = DOMAIN s /\ new \in Seq(IoTasks)
  <2>1. DOMAIN s = 1..Len(s) /\ Len(s) \in Nat /\ DOMAIN new = DOMAIN s
    BY <1>4
  <2>2. new \in [1..Len(s) -> IoTasks]
    BY <1>5, <2>1
  <2> HIDE DEF new
  <2> QED
    BY <2>1, <2>2
<1>7. ioTasks' = Tail(ioTasks) \o new
  BY <1>1
<1> HIDE DEF new
<1>8. \A i \in DOMAIN s : stage'[s[i]] = StageOf(new[i])
  <2>1. \A i \in DOMAIN s : s[i] \in Held /\ s[i] \in Loads
    BY <1>3
  <2> QED
    BY <1>2, <1>5, <2>1 DEF StageOf
<1>9. \A r \in Loads \ Held : stage'[r] = stage[r]
  BY <1>2
<1>10. \A i \in DOMAIN s : new[i].type \in {"continue", "stop"} /\ new[i].load = s[i]
  BY <1>5
<1>11. \A r \in Held : \E i \in DOMAIN s : s[i] = r
  BY <1>1
<1>12. Releases(Held, s, new)
  BY <1>3, <1>6, <1>7, <1>8, <1>9, <1>10, <1>11 DEF Releases
<1> QED
  BY <1>12, ReleasedTasks
\* The load of the head is sent to a provider or stopped.
LEMMA SendRequestTasks ==
    ASSUME TypeOK, TaskInvariant, ioTasks # <<>>, NEW r \in Loads, IsOf(Head(ioTasks), r),
           StopRequest(r) \/ \E i : SendRequest(r, i)
    PROVE  TaskInvariant'
<1>1. Tail(ioTasks) \in Seq(IoTasks) /\ TasksAgree(Tail(ioTasks)) /\ Free(Tail(ioTasks), r)
  BY HeadIsTask, TailAgrees
<1>2. StopRequest(r) \/ Handle(r) \/ Hold(r)
  BY DEF SendRequest, OnRequest
<1>3. \A s \in Loads : s # r => stage'[s] = stage[s]
  BY <1>2 DEF StopRequest, Handle, Hold, TypeOK, LoadTypeOK
<1>4. CASE StopRequest(r) \/ Hold(r)
  BY <1>3, <1>4, HeadIsDone DEF StopRequest, Hold
<1>5. CASE Handle(r)
  <2> DEFINE t == [type |-> "continue", load |-> r, handled |-> TRUE]
  <2>1. ioTasks' = Append(Tail(ioTasks), t) /\ stage'[r] = "moving"
    BY <1>5 DEF Handle, TypeOK, LoadTypeOK
  <2>2. t \in IoTasks /\ t.type = "continue" /\ t.load = r
    BY DEF IoTasks, ContinueTask
  <2> HIDE DEF t
  <2>3. \A s \in Loads : IsOf(t, s) => stage'[s] = StageOf(t) /\ Free(Tail(ioTasks), s)
    BY <1>1, <2>1, <2>2 DEF IsOf, StageOf
  <2> QED
    BY <1>1, <1>3, <2>1, <2>2, <2>3, OneMoreTask
<1> QED
  BY <1>2, <1>4, <1>5

LEMMA ContinueOpenTasks ==
    ASSUME TypeOK, TaskInvariant, ioTasks # <<>>, NEW t \in IoTasks, ContinueOpen(t)
    PROVE  TaskInvariant'
<1>1. Tail(ioTasks) \in Seq(IoTasks) /\ TasksAgree(Tail(ioTasks))
  BY HeadIsTask, TailAgrees
<1>2. t \in OpenedTasks
  BY DEF ContinueOpen, IoTasks, ApiCalls, AddCalls, RemoveCalls, LoadTasks, ContinueTask,
         StopTasks, ZipTasks
<1>3. CASE HasState(t.load, t.entry)
  <2> DEFINE new == [type |-> "continue", load |-> t.load, handled |-> t.found]
  <2>1. ioTasks' = Append(Tail(ioTasks), new)
    BY <1>3 DEF ContinueOpen
  <2>2. \A r \in Loads : stage'[r] = IF r = t.load THEN "moving" ELSE stage[r]
    BY <1>3 DEF ContinueOpen, TypeOK, LoadTypeOK
  <2>3. t.load \in Loads /\ new \in IoTasks /\ new.type = "continue" /\ new.load = t.load
    BY <1>2 DEF OpenedTasks, IoTasks, ContinueTask
  <2> HIDE DEF new
  <2>4. Free(Tail(ioTasks), t.load)
    BY <1>1, <1>3, <2>3, NotWaitingIsFree DEF HasState, Waiting
  <2>5. \A r \in Loads : IsOf(new, r) => stage'[r] = StageOf(new) /\ Free(Tail(ioTasks), r)
    BY <2>2, <2>3, <2>4 DEF IsOf, StageOf
  <2> QED
    BY <1>1, <2>1, <2>2, <2>3, <2>4, <2>5, OneMoreTask
<1>4. CASE ~HasState(t.load, t.entry)
  BY <1>4, HeadIsDone DEF ContinueOpen
<1> QED
  BY <1>3, <1>4

LEMMA ContinueArchiveTasks ==
    ASSUME TypeOK, TaskInvariant, ioTasks # <<>>, NEW t \in IoTasks, ContinueArchive(t)
    PROVE  TaskInvariant'
<1>1. t \in ZipTasks
  BY DEF ContinueArchive, IoTasks, ApiCalls, AddCalls, RemoveCalls, LoadTasks, ContinueTask,
         StopTasks, OpenedTasks
<1>2. CASE UNCHANGED stage /\ ioTasks' = Tail(ioTasks)
  BY <1>2, HeadIsDone
<1>3. CASE ~(UNCHANGED stage /\ ioTasks' = Tail(ioTasks))
  <2>1. PICK Found \in SUBSET {r \in queue[t.entry] : HasState(r, t.entry)} :
          /\ stage' = [r \in Loads |-> IF r \in Found THEN "moving" ELSE stage[r]]
          /\ \E s \in [1..Cardinality(Found) -> Found] :
               /\ \A r \in Found : \E i \in DOMAIN s : s[i] = r
               /\ ioTasks' = Tail(ioTasks) \o
                    [i \in DOMAIN s |-> [type |-> "continue", load |-> s[i], handled |-> TRUE]]
    BY <1>3 DEF ContinueArchive
  <2>2. Found \in SUBSET Loads /\ \A r \in Found : stage[r] = "held"
    BY <1>1 DEF TypeOK, ManagerTypeOK, ZipTasks, HasState
  <2>3. PICK s \in [1..Cardinality(Found) -> Found] :
          /\ \A r \in Found : \E i \in DOMAIN s : s[i] = r
          /\ ioTasks' = Tail(ioTasks) \o
               [i \in DOMAIN s |-> [type |-> "continue", load |-> s[i], handled |-> TRUE]]
    BY <2>1
  <2> DEFINE new == [i \in DOMAIN s |-> [type |-> "continue", load |-> s[i], handled |-> TRUE]]
  <2>4. s \in Seq(Loads)
    BY <2>2, EnumerationIsSeq
  <2>5. \A i \in DOMAIN s : /\ new[i].type = "continue" /\ new[i].load = s[i]
                            /\ new[i] \in IoTasks /\ s[i] \in Found /\ s[i] \in Loads
    <3>1. \A i \in DOMAIN s : s[i] \in Found /\ s[i] \in Loads
      BY <2>2
    <3> QED
      BY <3>1 DEF IoTasks, ContinueTask
  <2>6. DOMAIN new = DOMAIN s /\ new \in Seq(IoTasks)
    <3>1. DOMAIN s = 1..Len(s) /\ Len(s) \in Nat /\ DOMAIN new = DOMAIN s
      BY <2>4
    <3>2. new \in [1..Len(s) -> IoTasks]
      BY <2>5, <3>1
    <3> HIDE DEF new
    <3> QED
      BY <3>1, <3>2
  <2>7. ioTasks' = Tail(ioTasks) \o new
    BY <2>3
  <2> HIDE DEF new
  <2>8. \A i \in DOMAIN s : stage'[s[i]] = StageOf(new[i])
    BY <2>1, <2>5 DEF StageOf
  <2>9. \A r \in Loads \ Found : stage'[r] = stage[r]
    BY <2>1
  <2>10. \A i \in DOMAIN s : new[i].type \in {"continue", "stop"} /\ new[i].load = s[i]
    BY <2>5
  <2>11. \A r \in Found : \E i \in DOMAIN s : s[i] = r
    BY <2>3
  <2>12. Releases(Found, s, new)
    BY <2>2, <2>6, <2>7, <2>8, <2>9, <2>10, <2>11 DEF Releases
  <2> QED
    BY <2>12, ReleasedTasks
<1> QED
  BY <1>2, <1>3

LEMMA NextTasks ==
    ASSUME TypeOK, TaskInvariant, [Next]_vars
    PROVE  TaskInvariant'
<1>1. CASE UNCHANGED vars
  BY <1>1 DEF vars, TaskInvariant, TasksAgree
<1>2. CASE RunTask
  <2> DEFINE t == Head(ioTasks)
  <2>1. t \in IoTasks /\ ioTasks # <<>>
    BY <1>2, HeadIsTask DEF RunTask
  <2>2. \/ AddProvider(t) \/ RemoveProviders(t) \/ Destroy(t)
        \/ OnBeforeResourceLoad(t)
        \/ ContinueRequest(t) \/ StopOnIOThread(t) \/ ContinueAlone(t)
        \/ ContinueOpen(t) \/ ContinueArchive(t)
    BY <1>2 DEF RunTask
  <2> HIDE DEF t
  <2>3. CASE AddProvider(t)
    BY <2>1, <2>3, HeadIsDone DEF AddProvider, loadVars
  <2>4. CASE RemoveProviders(t) \/ Destroy(t)
    <3>1. (t.type = "removeAll") \in BOOLEAN /\ TRUE \in BOOLEAN
      OBVIOUS
    <3>2. \E Doomed : ReleaseHeld(Doomed, t.type = "removeAll") \/ ReleaseHeld(Doomed, TRUE)
      BY <2>4 DEF RemoveProviders, Destroy
    <3> QED
      BY <2>1, <3>1, <3>2, ReleaseHeldTasks
  <2>5. ASSUME t.type \in {"load", "continue", "stop"}
        PROVE  t.load \in Loads /\ IsOf(Head(ioTasks), t.load)
    BY <2>1, <2>5 DEF t, IsOf, IoTasks, ApiCalls, AddCalls, RemoveCalls, LoadTasks,
         ContinueTask, StopTasks, OpenedTasks, ZipTasks
  <2>6. CASE OnBeforeResourceLoad(t)
    BY <2>1, <2>5, <2>6, SendRequestTasks DEF OnBeforeResourceLoad
  <2>7. CASE ContinueRequest(t)
    BY <2>1, <2>5, <2>7, SendRequestTasks DEF ContinueRequest
  <2>8. CASE StopOnIOThread(t)
    BY <2>1, <2>5, <2>8, SendRequestTasks DEF StopOnIOThread
  <2>9. CASE ContinueAlone(t)
    <3>1. \A r \in Loads : r # t.load => stage'[r] = stage[r]
      BY <2>9 DEF ContinueAlone, TypeOK, LoadTypeOK
    <3>2. IsOf(Head(ioTasks), t.load) /\ ioTasks' = Tail(ioTasks)
      BY <2>5, <2>9 DEF ContinueAlone
    <3>3. \A r \in Loads : stage'[r] = stage[r] \/ IsOf(Head(ioTasks), r)
      BY <3>1, <3>2
    <3> QED
      BY <2>1, <3>2, <3>3, HeadIsDone
  <2> QED
    BY <2>1, <2>2, <2>3, <2>4, <2>6, <2>7, <2>8, <2>9, ContinueOpenTasks, ContinueArchiveTasks
<1> QED
  BY <1>1, <1>2, CallTasks, StartLoadTasks, FileJobTasks, GetResourceHandlerTasks DEF Next

LEMMA TaskInvariantHolds == Spec => []TaskInvariant
<1>1. Init => TaskInvariant
  BY InitTasks
<1>2. TypeOK /\ TaskInvariant /\ [Next]_vars => TaskInvariant'
  BY NextTasks
<1> QED
  BY <1>1, <1>2, ResourceTypeCorrect, PTL DEF Spec
\* What the head of the queue says about its load.
LEMMA HeadIsOfLoad ==
    ASSUME TypeOK, TaskInvariant, ioTasks # <<>>, NEW t, t = Head(ioTasks),
           t.type \in {"load", "continue", "stop"}
    PROVE  t.load \in Loads /\ stage[t.load] = StageOf(t)
<1>1. t \in IoTasks
  BY HeadIsTask
<1>2. t.load \in Loads
  BY <1>1 DEF IoTasks, ApiCalls, AddCalls, RemoveCalls, LoadTasks, ContinueTask, StopTasks,
       OpenedTasks, ZipTasks
<1> QED
  BY <1>2, TailAgrees DEF IsOf

\* Sending or stopping the request of r is about r only.
LEMMA SendRequestMoves ==
    ASSUME TypeOK, NEW r \in Loads, StopRequest(r) \/ \E i : SendRequest(r, i)
    PROVE  /\ \A s \in Loads \ {r} : stage'[s] = stage[s] /\ at'[s] = at[s]
           /\ \/ stage'[r] = "done" /\ at'[r] = 0
              \/ stage'[r] \in {"moving", "held"}
<1>1. CASE StopRequest(r)
  BY <1>1 DEF StopRequest, TypeOK, LoadTypeOK
<1>2. CASE ~StopRequest(r)
  <2>1. (Handle(r) \/ Hold(r)) /\ \E id : at' = [at EXCEPT ![r] = id]
    BY <1>2 DEF SendRequest, OnRequest
  <2> QED
    BY <2>1 DEF Handle, Hold, TypeOK, LoadTypeOK
<1> QED
  BY <1>1, <1>2

\* A removal takes loads from where they are held and leaves the others alone.
LEMMA ReleaseHeldMoves ==
    ASSUME TypeOK, NEW Doomed, NEW stop \in BOOLEAN, ReleaseHeld(Doomed, stop)
    PROVE  /\ \A r \in Loads : \/ stage'[r] = stage[r]
                               \/ stage[r] = "held" /\ stage'[r] \in {"moving", "stopping"}
           /\ \A r, e : <<r, e>> \in taken' => \/ <<r, e>> \in taken
                                               \/ /\ r \in Loads /\ e = at[r]
                                                  /\ stage'[r] \in {"moving", "stopping"}
<1> DEFINE Held == {r \in Loads : stage[r] = "held" /\ \E i \in Doomed : providers[i].id = at[r]}
<1>1. \A r \in Loads : stage'[r] = IF r \notin Held THEN stage[r]
                                   ELSE IF stop THEN "stopping" ELSE "moving"
  BY DEF ReleaseHeld
<1>2. taken' = taken \cup {<<r, at[r]>> : r \in Held}
  BY DEF ReleaseHeld
<1>3. Held \in SUBSET Loads /\ \A r \in Held : stage[r] = "held"
  OBVIOUS
<1> HIDE DEF Held
<1>4. \A r, e : <<r, e>> \in taken' => <<r, e>> \in taken \/ (r \in Held /\ e = at[r])
  BY <1>2
<1> QED
  BY <1>1, <1>3, <1>4

\* A handler is stored, and the load ends, in one step.
LEMMA NextHandlers ==
    ASSUME TypeOK, TaskInvariant, HandlerIsAwaited, [Next]_vars
    PROVE  HandlerIsAwaited'
<1>1. ASSUME \A r \in Loads :
               \/ handlers'[r] = 0 \/ stage'[r] = "done"
               \/ handlers'[r] = handlers[r] /\ (stage'[r] = stage[r] \/ stage[r] # "done")
      PROVE  HandlerIsAwaited'
  BY <1>1 DEF HandlerIsAwaited
<1>2. CASE UNCHANGED <<stage, handlers>>
  BY <1>1, <1>2
<1>3. ASSUME NEW r \in Loads, StartLoad(r)
      PROVE  HandlerIsAwaited'
  <2>1. stage[r] = "idle" /\ UNCHANGED handlers /\ \A s \in Loads \ {r} : stage'[s] = stage[s]
    BY <1>3 DEF StartLoad, TypeOK, LoadTypeOK
  <2> QED
    BY <1>1, <2>1
<1>4. ASSUME NEW r \in Loads, GetResourceHandler(r)
      PROVE  HandlerIsAwaited'
  <2>1. /\ handlers'[r] = 0
        /\ \A s \in Loads \ {r} : stage'[s] = stage[s] /\ handlers'[s] = handlers[s]
    BY <1>4 DEF GetResourceHandler, TypeOK, LoadTypeOK
  <2> QED
    BY <1>1, <2>1
<1>5. CASE RunTask
  <2> DEFINE t == Head(ioTasks)
  <2>1. t \in IoTasks /\ t = Head(ioTasks) /\ ioTasks # <<>>
    BY <1>5, HeadIsTask DEF RunTask
  <2>2. \/ AddProvider(t) \/ RemoveProviders(t) \/ Destroy(t)
        \/ OnBeforeResourceLoad(t)
        \/ ContinueRequest(t) \/ StopOnIOThread(t) \/ ContinueAlone(t)
        \/ ContinueOpen(t) \/ ContinueArchive(t)
    BY <1>5 DEF RunTask
  <2> HIDE DEF t
  <2>3. CASE AddProvider(t)
    BY <1>2, <2>3 DEF AddProvider, loadVars
  <2>4. CASE RemoveProviders(t) \/ Destroy(t)
    <3>1. (t.type = "removeAll") \in BOOLEAN /\ TRUE \in BOOLEAN
      OBVIOUS
    <3>2. \E Doomed : ReleaseHeld(Doomed, t.type = "removeAll") \/ ReleaseHeld(Doomed, TRUE)
      BY <2>4 DEF RemoveProviders, Destroy
    <3>3. \A r \in Loads : stage'[r] = stage[r] \/ stage[r] = "held"
      BY <3>1, <3>2, ReleaseHeldMoves
    <3>4. UNCHANGED handlers \/ \A r \in Loads : handlers'[r] = 0
      BY <2>4 DEF RemoveProviders, Destroy
    <3> QED
      BY <1>1, <3>3, <3>4
  <2>5. CASE OnBeforeResourceLoad(t)
    <3>1. t.load \in Loads /\ stage[t.load] = "posted"
      BY <2>1, <2>5, HeadIsOfLoad DEF OnBeforeResourceLoad, StageOf
    <3>2. UNCHANGED handlers /\ \A s \in Loads \ {t.load} : stage'[s] = stage[s]
      BY <2>5, <3>1, SendRequestMoves DEF OnBeforeResourceLoad
    <3> QED
      BY <1>1, <3>1, <3>2
  <2>6. CASE ContinueRequest(t)
    <3>1. t.load \in Loads /\ stage[t.load] = "moving"
      BY <2>1, <2>6, HeadIsOfLoad DEF ContinueRequest, StageOf
    <3>2. \A s \in Loads \ {t.load} : stage'[s] = stage[s] /\ handlers'[s] = handlers[s]
      <4>1. \A s \in Loads \ {t.load} : stage'[s] = stage[s]
        BY <2>6, <3>1, SendRequestMoves DEF ContinueRequest
      <4>2. \A s \in Loads \ {t.load} : handlers'[s] = handlers[s]
        BY <2>6, <3>1 DEF ContinueRequest, TypeOK, LoadTypeOK
      <4> QED
        BY <4>1, <4>2
    <3>3. stage'[t.load] = "done" \/ handlers'[t.load] = handlers[t.load]
      BY <2>6, <3>1 DEF ContinueRequest, StopRequest, TypeOK, LoadTypeOK
    <3> QED
      BY <1>1, <3>1, <3>2, <3>3
  <2>7. CASE StopOnIOThread(t)
    <3>1. t.load \in Loads /\ stage[t.load] = "stopping"
      BY <2>1, <2>7, HeadIsOfLoad DEF StopOnIOThread, StageOf
    <3>2. UNCHANGED handlers /\ \A s \in Loads \ {t.load} : stage'[s] = stage[s]
      BY <2>7, <3>1, SendRequestMoves DEF StopOnIOThread
    <3> QED
      BY <1>1, <3>1, <3>2
  <2>8. CASE ContinueAlone(t)
    <3>1. /\ \A s \in Loads \ {t.load} : stage'[s] = stage[s]
          /\ \A s \in Loads : s = t.load => stage'[s] = "done"
          /\ UNCHANGED handlers
      BY <2>8 DEF ContinueAlone, TypeOK, LoadTypeOK
    <3> QED
      BY <1>1, <3>1
  <2>9. CASE ContinueOpen(t)
    <3>1. UNCHANGED handlers /\ \A r \in Loads : stage'[r] = stage[r] \/ stage[r] = "held"
      BY <2>9 DEF ContinueOpen, HasState, TypeOK, LoadTypeOK
    <3> QED
      BY <1>1, <3>1
  <2>10. CASE ContinueArchive(t)
    <3>1. UNCHANGED handlers /\ \A r \in Loads : stage'[r] = stage[r] \/ stage[r] = "held"
      BY <2>10 DEF ContinueArchive, HasState, TypeOK, LoadTypeOK
    <3> QED
      BY <1>1, <3>1
  <2> QED
    BY <2>2, <2>3, <2>4, <2>5, <2>6, <2>7, <2>8, <2>9, <2>10
<1> QED
  BY <1>2, <1>3, <1>4, <1>5 DEF Next, Call, FileJob, vars, loadVars

\* A handler in the map is one that GetResourceHandler will be asked for.
THEOREM HandlersAreAwaited == Spec => []HandlerIsAwaited
<1>1. Init => HandlerIsAwaited
  BY DEF Init, HandlerIsAwaited
<1>2. TypeOK /\ TaskInvariant /\ HandlerIsAwaited /\ [Next]_vars => HandlerIsAwaited'
  BY NextHandlers
<1> QED
  BY <1>1, <1>2, ResourceTypeCorrect, TaskInvariantHolds, PTL DEF Spec
------------------------------------------------------------------------------
\* The way up through the providers.

\* Of two entries ever made, the first one is called before the second.
Behind(d, e) ==
    \E i, j \in DOMAIN providers :
      providers[i].id = d /\ providers[j].id = e /\ Precedes(providers[i], providers[j])

LEMMA SameEntriesBehind ==
    ASSUME SameEntries, NEW d, NEW e, Behind(d, e)
    PROVE  Behind(d, e)'
<1>1. PICK i, j \in DOMAIN providers :
        providers[i].id = d /\ providers[j].id = e /\ Precedes(providers[i], providers[j])
  BY DEF Behind
<1>2. Precedes(providers'[i], providers'[j])
  BY <1>1 DEF SameEntries, Precedes
<1> QED
  BY <1>1, <1>2 DEF SameEntries, Behind, Precedes

LEMMA BehindIsTransitive ==
    ASSUME TypeOK, IdsAreMade, NEW d, NEW e, NEW f, Behind(d, e), Behind(e, f)
    PROVE  Behind(d, f)
<1>1. PICK i, j \in DOMAIN providers :
        providers[i].id = d /\ providers[j].id = e /\ Precedes(providers[i], providers[j])
  BY DEF Behind
<1>2. PICK k, l \in DOMAIN providers :
        providers[k].id = e /\ providers[l].id = f /\ Precedes(providers[k], providers[l])
  BY DEF Behind
<1>3. j = k
  BY <1>1, <1>2 DEF IdsAreMade
<1>4. Precedes(providers[i], providers[l])
  <2>1. /\ providers[i].id \in Int /\ providers[i].order \in Int
        /\ providers[j].id \in Int /\ providers[j].order \in Int
        /\ providers[l].id \in Int /\ providers[l].order \in Int
    BY EntryFacts
  <2> QED
    BY <1>1, <1>2, <1>3, <2>1 DEF Precedes
<1> QED
  BY <1>1, <1>2, <1>4 DEF Behind

LEMMA BehindIsIrreflexive ==
    ASSUME TypeOK, IdsAreMade, NEW e
    PROVE  ~Behind(e, e)
<1> SUFFICES ASSUME Behind(e, e) PROVE FALSE
  OBVIOUS
<1>1. PICK i, j \in DOMAIN providers :
        providers[i].id = e /\ providers[j].id = e /\ Precedes(providers[i], providers[j])
  BY DEF Behind
<1>2. i = j /\ providers[i].id \in Int /\ providers[i].order \in Int
  BY <1>1, EntryFacts DEF IdsAreMade
<1> QED
  BY <1>1, <1>2 DEF Precedes

\* No step changes the place of two entries to each other.
LEMMA NextBehind ==
    ASSUME TypeOK, ListInvariant, [Next]_vars, NEW d, NEW e, Behind(d, e)
    PROVE  Behind(d, e)'
<1>1. CASE UNCHANGED <<providers, made>>
  BY <1>1, SameEntriesBehind DEF SameEntries, Listed
<1>2. CASE RunTask
  <2> DEFINE t == Head(ioTasks)
  <2>1. t \in IoTasks
    BY <1>2, HeadIsTask DEF RunTask
  <2>2. \/ AddProvider(t) \/ RemoveProviders(t) \/ Destroy(t)
        \/ OnBeforeResourceLoad(t)
        \/ ContinueRequest(t) \/ StopOnIOThread(t) \/ ContinueAlone(t)
        \/ ContinueOpen(t) \/ ContinueArchive(t)
    BY <1>2 DEF RunTask
  <2> HIDE DEF t
  <2>3. CASE AddProvider(t)
    <3>1. PICK place \in 1..(Len(providers) + 1) :
            providers' = InsertedAt(place,
              [id |-> made + 1, kind |-> t.kind, order |-> t.order,
               ident |-> t.ident, status |-> "live"])
      BY <2>3 DEF AddProvider
    <3> DEFINE new == [id |-> made + 1, kind |-> t.kind, order |-> t.order,
                       ident |-> t.ident, status |-> "live"]
    <3>2. new \in Entries
      <4>1. made + 1 \in EntryIds
        BY <2>3, Bounds DEF AddProvider, EntryIds, TypeOK, ManagerTypeOK
      <4>2. t \in AddCalls
        BY <2>1, <2>3 DEF AddProvider, IoTasks, ApiCalls, RemoveCalls, LoadTasks, ContinueTask,
               StopTasks, OpenedTasks, ZipTasks
      <4> QED
        BY <4>1, <4>2 DEF AddCalls, Entries
    <3> HIDE DEF new
    <3>3. providers' = InsertedAt(place, new)
      BY <3>1 DEF new
    <3>4. \A j \in DOMAIN providers : \E k \in DOMAIN providers' : providers'[k] = providers[j]
      BY <3>2, <3>3, InsertedAtPlaces
    <3>5. PICK i, j \in DOMAIN providers :
            providers[i].id = d /\ providers[j].id = e /\ Precedes(providers[i], providers[j])
      BY DEF Behind
    <3>6. PICK k, l \in DOMAIN providers' :
            providers'[k] = providers[i] /\ providers'[l] = providers[j]
      BY <3>4
    <3> QED
      BY <3>5, <3>6 DEF Behind, Precedes
  <2>4. CASE RemoveProviders(t) \/ Destroy(t)
    <3>1. UNCHANGED made
      BY <2>4 DEF RemoveProviders, Destroy
    <3>2. \/ \E Matching : providers' = AfterDeletion(Reached(Matching))
                           /\ \A i \in Reached(Matching) : i \in Int
          \/ providers' = [i \in DOMAIN providers |-> WithStatus(providers[i], "erased")]
      <4>1. DOMAIN providers \subseteq Int
        BY DEF TypeOK, ManagerTypeOK
      <4> QED
        BY <2>4, <4>1 DEF RemoveProviders, Destroy, Reached
    <3>3. CASE providers' = [i \in DOMAIN providers |-> WithStatus(providers[i], "erased")]
      <4>1. \A i \in DOMAIN providers : /\ providers'[i].id = providers[i].id
                                       /\ providers'[i].order = providers[i].order
                                       /\ providers'[i].status = "erased"
        BY <3>3, EntryFacts, WithStatusFields
      <4>2. SameEntries
        BY <3>1, <3>3, <4>1 DEF SameEntries, Listed
      <4> QED
        BY <4>2, SameEntriesBehind
    <3>4. ASSUME NEW Matching, providers' = AfterDeletion(Reached(Matching)),
                 \A i \in Reached(Matching) : i \in Int
          PROVE  Behind(d, e)'
      <4>1. \A i \in Reached(Matching) : Valid(i)
        BY <3>4, ReachedAreValid
      <4>2. SameEntries
        BY <3>1, <3>4, <4>1, AfterDeletionEntries
      <4> QED
        BY <4>2, SameEntriesBehind
    <3> QED
      BY <3>2, <3>3, <3>4
  <2>5. CASE OnBeforeResourceLoad(t) \/ ContinueRequest(t) \/ StopOnIOThread(t)
    <3>1. t.load \in Loads
      BY <2>1, <2>5 DEF OnBeforeResourceLoad, ContinueRequest, StopOnIOThread, IoTasks,
           ApiCalls, AddCalls, RemoveCalls, LoadTasks, ContinueTask, StopTasks, OpenedTasks, ZipTasks
    <3>2. providers' = Detached(t.load) /\ UNCHANGED made
      BY <2>5 DEF OnBeforeResourceLoad, ContinueRequest, StopOnIOThread, SendRequest, StopRequest
    <3> QED
      BY <3>1, <3>2, DetachedEntries, SameEntriesBehind
  <2>6. CASE ContinueAlone(t) \/ ContinueOpen(t) \/ ContinueArchive(t)
    BY <1>1, <2>6 DEF ContinueAlone, ContinueOpen, ContinueArchive, providerVars
  <2> QED
    BY <2>2, <2>3, <2>4, <2>5, <2>6
<1> QED
  BY <1>1, <1>2 DEF Next, Call, StartLoad, FileJob, GetResourceHandler, vars, providerVars

\* A load that is continued goes to an entry behind the one it was at.
LEMMA ContinueIsUp ==
    ASSUME TypeOK, ListInvariant, NEW t, t.load \in Loads, stage[t.load] = "moving", ContinueRequest(t)
    PROVE  at'[t.load] = 0 \/ Behind(at[t.load], at'[t.load])
<1> DEFINE r == t.load
           p == PlaceOf(at[r])
<1>1. PICK i \in DOMAIN providers : Listed(i) /\ providers[i].id = at[r]
  BY DEF ContinueRequest, ListInvariant, NoDanglingEntry, InFlight
<1>2. p = i
  BY <1>1 DEF PlaceOf, ListInvariant, IdsAreMade
<1>3. CASE StopRequest(r)
  BY <1>3 DEF StopRequest, TypeOK, LoadTypeOK
<1>4. CASE ~StopRequest(r)
  <2>1. PICK j \in PlacesFrom(p + 1) : at' = [at EXCEPT ![r] = providers[j].id]
    BY <1>4 DEF ContinueRequest, SendRequest
  <2>2. j \in DOMAIN providers /\ Listed(j) /\ i < j
    <3>1. j \in DOMAIN providers /\ Valid(j) /\ j >= i + 1
      BY <1>2, <2>1 DEF PlacesFrom
    <3>2. i \in Int /\ j \in Int
      BY <3>1, EntryFacts
    <3> QED
      BY <3>1, <3>2 DEF Valid, Listed
  <2>3. Precedes(providers[i], providers[j])
    BY <1>1, <2>2 DEF ListInvariant, ListIsSorted
  <2>4. at'[r] = providers[j].id
    BY <2>1 DEF TypeOK, LoadTypeOK
  <2> QED
    BY <1>1, <2>2, <2>3, <2>4 DEF Behind
<1> QED
  BY <1>3, <1>4

\* The load a step moves goes to an entry behind the one it was at.
LEMMA NextMovesUp ==
    ASSUME TypeOK, ListInvariant, TaskInvariant, [Next]_vars,
           NEW r \in Loads, stage[r] \in InFlight, at'[r] \notin {0, at[r]}
    PROVE  Behind(at[r], at'[r])
<1>1. CASE UNCHANGED at
  BY <1>1
<1>2. CASE RunTask /\ ~UNCHANGED at
  <2> DEFINE t == Head(ioTasks)
  <2>1. t \in IoTasks /\ t = Head(ioTasks) /\ ioTasks # <<>>
    BY <1>2, HeadIsTask DEF RunTask
  <2>2. \/ OnBeforeResourceLoad(t) \/ ContinueRequest(t) \/ StopOnIOThread(t) \/ ContinueAlone(t)
    BY <1>2 DEF RunTask, AddProvider, RemoveProviders, Destroy, ContinueOpen, ContinueArchive, loadVars
  <2> HIDE DEF t
  <2>3. t.load \in Loads /\ stage[t.load] = StageOf(t)
    BY <2>1, <2>2, HeadIsOfLoad
       DEF OnBeforeResourceLoad, ContinueRequest, StopOnIOThread, ContinueAlone
  <2>4. r = t.load
    <3>1. CASE ContinueAlone(t)
      BY <2>3, <3>1 DEF ContinueAlone, TypeOK, LoadTypeOK
    <3>2. CASE ~ContinueAlone(t)
      <4>1. StopRequest(t.load) \/ \E i : SendRequest(t.load, i)
        BY <2>2, <3>2 DEF OnBeforeResourceLoad, ContinueRequest, StopOnIOThread
      <4> QED
        BY <2>3, <4>1, SendRequestMoves
    <3> QED
      BY <3>1, <3>2
  <2>5. CASE OnBeforeResourceLoad(t)
    BY <2>3, <2>4, <2>5 DEF OnBeforeResourceLoad, StageOf, InFlight
  <2>6. CASE ContinueRequest(t)
    <3>1. stage[t.load] = "moving"
      BY <2>3, <2>6 DEF ContinueRequest, StageOf
    <3> QED
      BY <2>3, <2>4, <2>6, <3>1, ContinueIsUp
  <2>7. CASE StopOnIOThread(t) \/ ContinueAlone(t)
    BY <2>3, <2>4, <2>7 DEF StopOnIOThread, StopRequest, ContinueAlone, TypeOK, LoadTypeOK
  <2> QED
    BY <2>2, <2>5, <2>6, <2>7
<1> QED
  BY <1>1, <1>2 DEF Next, Call, StartLoad, FileJob, GetResourceHandler, vars, loadVars

\* cef_resource_manager.h: providers are called in ascending order.  A load meets
\* them in that order, however many are added and removed before it is continued.
THEOREM LoadsMoveUp == Spec => LoadMovesUp
<1> DEFINE Up == \A r \in Loads : stage[r] \in InFlight /\ at'[r] \notin {0, at[r]} =>
                   \A i, j \in DOMAIN providers :
                     providers[i].id = at[r] /\ providers[j].id = at'[r]
                       => Precedes(providers[i], providers[j])
<1>1. TypeOK /\ ListInvariant /\ TaskInvariant /\ [Next]_vars => [Up]_vars
  <2> SUFFICES ASSUME TypeOK, ListInvariant, TaskInvariant, [Next]_vars,
                      NEW r \in Loads, stage[r] \in InFlight, at'[r] \notin {0, at[r]},
                      NEW i \in DOMAIN providers, NEW j \in DOMAIN providers,
                      providers[i].id = at[r], providers[j].id = at'[r]
               PROVE  Precedes(providers[i], providers[j])
    OBVIOUS
  <2>1. PICK k, l \in DOMAIN providers :
          /\ providers[k].id = at[r] /\ providers[l].id = at'[r]
          /\ Precedes(providers[k], providers[l])
    BY NextMovesUp DEF Behind
  <2>2. k = i /\ l = j
    BY <2>1 DEF ListInvariant, IdsAreMade
  <2> QED
    BY <2>1, <2>2
<1>2. LoadMovesUp <=> [][Up]_vars
  BY DEF LoadMovesUp
<1> HIDE DEF Up
<1> QED
  BY <1>1, <1>2, ResourceTypeCorrect, ListInvariantHolds, TaskInvariantHolds, PTL DEF Spec

\* A load that was taken from an entry has left it behind, or is about to.
Past(r, e) ==
    /\ stage[r] \notin {"idle", "posted"}
    /\ stage[r] = "held" => Behind(e, at[r])
    /\ stage[r] \in {"moving", "stopping"} => e = at[r] \/ Behind(e, at[r])

TakenIsBehind == \A r, e : <<r, e>> \in taken => Past(r, e)

\* A pair of taken that is kept, of a load that stays where it is.
LEMMA TakenKept ==
    ASSUME TypeOK, ListInvariant, [Next]_vars, TakenIsBehind,
           NEW r, NEW e, <<r, e>> \in taken, at'[r] = at[r],
           \/ stage'[r] = stage[r]
           \/ stage[r] = "held" /\ stage'[r] \in {"moving", "stopping"}
           \/ stage'[r] \in {"done", "fetched"}
    PROVE  Past(r, e)'
<1>1. PICK a : a = at[r]
  OBVIOUS
<1>2. Behind(e, a) => Behind(e, a)'
  BY NextBehind
<1>3. at'[r] = a /\ Past(r, e)
  BY <1>1 DEF TakenIsBehind
<1>4. Behind(e, a) => Behind(e, at[r])'
  BY <1>2, <1>3 DEF Behind
<1> QED
  BY <1>1, <1>3, <1>4 DEF Past

\* A load that is continued or stopped.
LEMMA TakenSent ==
    ASSUME TypeOK, ListInvariant, TaskInvariant, [Next]_vars, TakenIsBehind,
           NEW t, t = Head(ioTasks), ioTasks # <<>>,
           ContinueRequest(t) \/ StopOnIOThread(t) \/ ContinueAlone(t) \/ OnBeforeResourceLoad(t),
           NEW e, <<t.load, e>> \in taken
    PROVE  Past(t.load, e)'
<1> DEFINE r == t.load
<1>1. r \in Loads /\ stage[r] = StageOf(t)
  BY HeadIsOfLoad DEF OnBeforeResourceLoad, ContinueRequest, StopOnIOThread, ContinueAlone
<1>2. Past(r, e)
  BY DEF TakenIsBehind
<1> HIDE DEF r
<1>3. CASE stage'[r] = "done"
  BY <1>3 DEF Past, r
<1>4. CASE stage'[r] # "done"
  <2>1. ContinueRequest(t)
    <3>1. CASE OnBeforeResourceLoad(t)
      BY <1>1, <1>2, <3>1 DEF OnBeforeResourceLoad, StageOf, Past
    <3>2. CASE StopOnIOThread(t) \/ ContinueAlone(t)
      BY <1>1, <1>4, <3>2 DEF StopOnIOThread, StopRequest, ContinueAlone, TypeOK, LoadTypeOK, r
    <3> QED
      BY <3>1, <3>2
  <2>2. stage[r] = "moving"
    BY <1>1, <2>1 DEF ContinueRequest, StageOf
  <2>3. PICK a, b : a = at[r] /\ b = at'[r]
    OBVIOUS
  <2>4. ContinueRequest(t) => \E i : SendRequest(r, i) \/ StopRequest(r)
    BY DEF ContinueRequest, r
  <2>5. stage'[r] \in {"moving", "held"}
    BY <1>1, <1>4, <2>1, <2>4, SendRequestMoves
  <2>6. b # 0
    <3>1. ~StopRequest(r)
      BY <1>1, <1>4 DEF StopRequest, TypeOK, LoadTypeOK
    <3>2. PICK i : \E j \in PlacesFrom(i) : at' = [at EXCEPT ![r] = providers[j].id]
      BY <2>1, <3>1 DEF ContinueRequest, SendRequest, r
    <3>3. PICK j \in PlacesFrom(i) : at' = [at EXCEPT ![r] = providers[j].id]
      BY <3>2
    <3>4. at'[r] = providers[j].id /\ j \in DOMAIN providers
      BY <1>1, <3>3 DEF TypeOK, LoadTypeOK, PlacesFrom
    <3> QED
      BY <2>3, <3>4, EntryFacts DEF EntryIds
  <2>7. Behind(a, b)
    BY <1>1, <2>1, <2>2, <2>3, <2>6, ContinueIsUp DEF r
  <2>8. Behind(e, b)
    <3>1. e = a \/ Behind(e, a)
      BY <1>2, <2>2, <2>3 DEF Past
    <3> QED
      BY <2>7, <3>1, BehindIsTransitive DEF ListInvariant
  <2>9. Behind(e, b)'
    BY <2>8, NextBehind
  <2>10. Behind(e, at[r])'
    BY <2>3, <2>9 DEF Behind
  <2> QED
    BY <2>5, <2>10 DEF Past, r
<1> QED
  BY <1>3, <1>4 DEF r

LEMMA NextTaken ==
    ASSUME TypeOK, ListInvariant, TaskInvariant, [Next]_vars, TakenIsBehind
    PROVE  TakenIsBehind'
<1> SUFFICES ASSUME NEW r, NEW e, <<r, e>> \in taken' PROVE Past(r, e)'
  BY DEF TakenIsBehind
<1>1. taken \subseteq Loads \X (0..MaxEntries)
  BY DEF TypeOK, ServedTypeOK
<1>2. CASE UNCHANGED <<stage, at, taken>>
  BY <1>2, TakenKept
<1>3. ASSUME NEW s \in Loads, StartLoad(s) PROVE Past(r, e)'
  <2>1. <<r, e>> \in taken /\ at'[r] = at[r]
    BY <1>3 DEF StartLoad, loadVars, history
  <2>2. r \in Loads /\ Past(r, e)
    BY <1>1, <2>1 DEF TakenIsBehind
  <2>3. r # s
    BY <1>3, <2>2 DEF StartLoad, Past
  <2>4. stage'[r] = stage[r]
    BY <1>3, <2>2, <2>3 DEF StartLoad, TypeOK, LoadTypeOK
  <2> QED
    BY <2>1, <2>4, TakenKept
<1>4. ASSUME NEW s \in Loads, GetResourceHandler(s) PROVE Past(r, e)'
  <2>1. <<r, e>> \in taken /\ at'[r] = at[r]
    BY <1>4 DEF GetResourceHandler
  <2>2. r \in Loads
    BY <1>1, <2>1
  <2>3. stage'[r] = stage[r] \/ stage'[r] = "fetched"
    BY <1>4, <2>2 DEF GetResourceHandler, TypeOK, LoadTypeOK
  <2> QED
    BY <2>1, <2>3, TakenKept
<1>5. CASE RunTask
  <2> DEFINE t == Head(ioTasks)
  <2>1. t = Head(ioTasks) /\ ioTasks # <<>> /\ t \in IoTasks
    BY <1>5, HeadIsTask DEF RunTask
  <2>2. \/ AddProvider(t) \/ RemoveProviders(t) \/ Destroy(t)
        \/ OnBeforeResourceLoad(t)
        \/ ContinueRequest(t) \/ StopOnIOThread(t) \/ ContinueAlone(t)
        \/ ContinueOpen(t) \/ ContinueArchive(t)
    BY <1>5 DEF RunTask
  <2> HIDE DEF t
  <2>3. CASE AddProvider(t)
    <3>1. UNCHANGED <<stage, at, taken>>
      BY <2>3 DEF AddProvider, loadVars, history
    <3> QED
      BY <1>2, <3>1
  <2>4. CASE RemoveProviders(t) \/ Destroy(t)
    <3>1. UNCHANGED at
      BY <2>4 DEF RemoveProviders, Destroy
    <3>2. \E Doomed : \E stop \in BOOLEAN : ReleaseHeld(Doomed, stop)
      BY <2>4 DEF RemoveProviders, Destroy
    <3>3. PICK Doomed : \E stop \in BOOLEAN : ReleaseHeld(Doomed, stop)
      BY <3>2
    <3>4. \A s \in Loads : \/ stage'[s] = stage[s]
                           \/ stage[s] = "held" /\ stage'[s] \in {"moving", "stopping"}
      BY <3>3, ReleaseHeldMoves
    <3>5. \/ <<r, e>> \in taken
          \/ r \in Loads /\ e = at[r] /\ stage'[r] \in {"moving", "stopping"}
      BY <3>3, ReleaseHeldMoves
    <3>6. CASE <<r, e>> \in taken
      <4>1. r \in Loads
        BY <1>1, <3>6
      <4> QED
        BY <3>1, <3>4, <3>6, <4>1, TakenKept
    <3>7. CASE r \in Loads /\ e = at[r] /\ stage'[r] \in {"moving", "stopping"}
      BY <3>1, <3>7 DEF Past
    <3> QED
      BY <3>5, <3>6, <3>7
  <2>5. CASE OnBeforeResourceLoad(t) \/ ContinueRequest(t) \/ StopOnIOThread(t) \/ ContinueAlone(t)
    <3>1. <<r, e>> \in taken
      BY <2>5 DEF OnBeforeResourceLoad, ContinueRequest, StopOnIOThread, ContinueAlone, history
    <3>2. CASE r = t.load
      BY <2>1, <2>5, <3>1, <3>2, TakenSent
    <3>3. CASE r # t.load
      <4>1. r \in Loads /\ t.load \in Loads
        BY <1>1, <2>1, <2>5, <3>1, HeadIsOfLoad
           DEF OnBeforeResourceLoad, ContinueRequest, StopOnIOThread, ContinueAlone
      <4>2. stage'[r] = stage[r] /\ at'[r] = at[r]
        <5>1. CASE ContinueAlone(t)
          BY <3>3, <4>1, <5>1 DEF ContinueAlone, TypeOK, LoadTypeOK
        <5>2. CASE ~ContinueAlone(t)
          <6>1. StopRequest(t.load) \/ \E i : SendRequest(t.load, i)
            BY <2>5, <5>2 DEF OnBeforeResourceLoad, ContinueRequest, StopOnIOThread
          <6> QED
            BY <3>3, <4>1, <6>1, SendRequestMoves
        <5> QED
          BY <5>1, <5>2
      <4> QED
        BY <3>1, <4>2, TakenKept
    <3> QED
      BY <3>2, <3>3
  <2>6. CASE ContinueOpen(t) \/ ContinueArchive(t)
    <3>1. <<r, e>> \in taken /\ at'[r] = at[r]
      BY <2>6 DEF ContinueOpen, ContinueArchive, history
    <3>2. r \in Loads
      BY <1>1, <3>1
    <3>3. stage'[r] = stage[r] \/ (stage[r] = "held" /\ stage'[r] = "moving")
      <4>1. CASE ContinueOpen(t)
        BY <3>2, <4>1 DEF ContinueOpen, HasState, TypeOK, LoadTypeOK
      <4>2. CASE ContinueArchive(t)
        <5>1. CASE UNCHANGED stage
          BY <5>1
        <5>2. CASE ~UNCHANGED stage
          <6>1. PICK Found \in SUBSET {s \in queue[t.entry] : HasState(s, t.entry)} :
                  stage' = [s \in Loads |-> IF s \in Found THEN "moving" ELSE stage[s]]
            BY <4>2, <5>2 DEF ContinueArchive
          <6> QED
            BY <3>2, <6>1 DEF HasState
        <5> QED
          BY <5>1, <5>2
      <4> QED
        BY <2>6, <4>1, <4>2
    <3> QED
      BY <3>1, <3>3, TakenKept
  <2> QED
    BY <2>2, <2>3, <2>4, <2>5, <2>6
<1>6. CASE (\E c \in Calls : Call(c)) \/ (\E j \in fileJobs : FileJob(j)) \/ UNCHANGED vars
  <2>1. UNCHANGED <<stage, at, taken>>
    BY <1>6 DEF Call, FileJob, loadVars, history, vars
  <2> QED
    BY <1>2, <2>1
<1> QED
  BY <1>3, <1>4, <1>5, <1>6 DEF Next

LEMMA TakenInvariantHolds == Spec => []TakenIsBehind
<1>1. Init => TakenIsBehind
  BY DEF Init, TakenIsBehind
<1> QED
  BY <1>1, NextTaken, ResourceTypeCorrect, ListInvariantHolds, TaskInvariantHolds, PTL DEF Spec

\* A load taken from an entry is not with it any more, so that a result for this
\* entry finds no state.
LEMMA ResultFindsNothing ==
    ASSUME TypeOK, ListInvariant, TakenIsBehind,
           ioTasks # <<>>, IsResult(Head(ioTasks)), RunTask,
           NEW r \in Loads, <<r, Head(ioTasks).entry>> \in taken
    PROVE  stage'[r] = stage[r] /\ at'[r] = at[r] /\ handlers'[r] = handlers[r]
<1> DEFINE t == Head(ioTasks)
<1>1. ContinueOpen(t) \/ ContinueArchive(t)
  BY DEF RunTask, IsResult, AddProvider, RemoveProviders, Destroy, OnBeforeResourceLoad,
     ContinueRequest, StopOnIOThread, ContinueAlone
<1>2. <<r, t.entry>> \in taken
  OBVIOUS
<1> HIDE DEF t
<1>3. ~HasState(r, t.entry)
  BY <1>2, BehindIsIrreflexive DEF HasState, TakenIsBehind, Past, ListInvariant
<1>4. UNCHANGED <<at, handlers>>
  BY <1>1 DEF ContinueOpen, ContinueArchive
<1>5. stage'[r] = stage[r]
  <2>1. CASE ContinueOpen(t)
    BY <1>3, <2>1 DEF ContinueOpen, TypeOK, LoadTypeOK
  <2>2. CASE ContinueArchive(t) /\ ~UNCHANGED stage
    <3>1. PICK Found \in SUBSET {s \in queue[t.entry] : HasState(s, t.entry)} :
            stage' = [s \in Loads |-> IF s \in Found THEN "moving" ELSE stage[s]]
      BY <2>2 DEF ContinueArchive
    <3> QED
      BY <1>3, <3>1
  <2> QED
    BY <1>1, <2>1, <2>2
<1> QED
  BY <1>4, <1>5

\* cef_resource_manager.h: calls for a request that was canceled are ignored.  The
\* result of a file or an archive changes nothing of a load that was taken from the
\* provider that waited for it.
THEOREM LateResultsAreIgnored == Spec => CanceledIsIgnored
<1> DEFINE Ignored == ioTasks # <<>> /\ IsResult(Head(ioTasks)) /\ RunTask =>
                        \A r \in Loads : <<r, Head(ioTasks).entry>> \in taken =>
                          /\ stage'[r] = stage[r] /\ at'[r] = at[r] /\ handlers'[r] = handlers[r]
<1>1. TypeOK /\ ListInvariant /\ TakenIsBehind => [Ignored]_vars
  <2> SUFFICES ASSUME TypeOK, ListInvariant, TakenIsBehind,
                      ioTasks # <<>>, IsResult(Head(ioTasks)), RunTask,
                      NEW r \in Loads, <<r, Head(ioTasks).entry>> \in taken
               PROVE  stage'[r] = stage[r] /\ at'[r] = at[r] /\ handlers'[r] = handlers[r]
    OBVIOUS
  <2> QED
    BY ResultFindsNothing
<1>2. CanceledIsIgnored <=> [][Ignored]_vars
  BY DEF CanceledIsIgnored
<1> HIDE DEF Ignored
<1> QED
  BY <1>1, <1>2, ResourceTypeCorrect, ListInvariantHolds, TakenInvariantHolds, PTL
==============================================================================
