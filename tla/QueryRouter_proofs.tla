------------------------- MODULE QueryRouter_proofs -------------------------
(***************************************************************************)
(* Theorems about QueryRouter, for any number of browsers, processes,      *)
(* frames and requests: types, the promises to a page (what it hears is    *)
(* the answer of its own request, and nothing about a request it gave up), *)
(* and the contract of Query.                                              *)
(*                                                                         *)
(* Each variable group of TypeOK is proved on its own, action by action;   *)
(* the lemmas of the operators that several actions use come first.        *)
(***************************************************************************)
EXTENDS QueryRouter, TLAPS

------------------------------------------------------------------------------
\* Type correctness.

LEMMA InitType == Init => TypeOK
<1> SUFFICES ASSUME Init PROVE TypeOK OBVIOUS
<1>1. BrowserTypeOK BY DEF Init, BrowserTypeOK
<1>2. PageTypeOK BY ConstantsAssumption DEF Init, PageTypeOK
<1>3. RequestTypeOK BY DEF Init, RequestTypeOK
<1>4. ChannelTypeOK BY DEF Init, ChannelTypeOK
<1>5. HistoryTypeOK BY DEF Init, HistoryTypeOK
<1> QED BY <1>1, <1>2, <1>3, <1>4, <1>5 DEF TypeOK

LEMMA FrameCreatedType ==
    ASSUME TypeOK, NEW f \in Frames, FrameCreated(f)
    PROVE  TypeOK'
<1>1. BrowserTypeOK' BY DEF TypeOK, BrowserTypeOK, FrameCreated, browserVars, routerVars
<1>2. PageTypeOK' BY DEF TypeOK, PageTypeOK, FrameCreated, idVars
<1>3. RequestTypeOK' BY DEF TypeOK, RequestTypeOK, FrameCreated
<1>4. ChannelTypeOK' BY DEF TypeOK, ChannelTypeOK, FrameCreated, channels
<1>5. HistoryTypeOK' BY DEF TypeOK, HistoryTypeOK, FrameCreated, history
<1> QED BY <1>1, <1>2, <1>3, <1>4, <1>5 DEF TypeOK

LEMMA GetIDType ==
    ASSUME PageTypeOK, NEW f \in Frames, GetIDForContext(f)
    PROVE  /\ contextId' \in [Frames -> 0..MaxContext]
           /\ contextId'[f] \in ContextIds
           /\ contexts' \subseteq Procs \X ContextIds
           /\ nextContext' \in [Procs -> 0..MaxContext]
<1> DEFINE p == FrameProc[f]
<1>1. p \in Procs /\ MaxContext \in Nat /\ nextContext[p] \in 0..MaxContext
  BY ConstantsAssumption DEF PageTypeOK
<1>2. CASE contextId[f] # 0 /\ UNCHANGED idVars
  <2>1. contextId[f] \in ContextIds
    BY <1>1, <1>2 DEF PageTypeOK, ContextIds
  <2> QED
    BY <1>2, <2>1 DEF PageTypeOK, idVars
<1>3. CASE ~(contextId[f] # 0 /\ UNCHANGED idVars)
  <2> DEFINE c == nextContext[p] + 1
  <2>1. c \in ContextIds /\ c \in 0..MaxContext
    BY <1>1, <1>3 DEF GetIDForContext, ContextIds
  <2>2. /\ nextContext' = [nextContext EXCEPT ![p] = c]
        /\ contextId' = [contextId EXCEPT ![f] = c]
        /\ contexts' = contexts \cup {<<p, c>>}
    BY <1>3 DEF GetIDForContext
  <2> HIDE DEF c
  <2> QED
    BY <1>1, <2>1, <2>2 DEF PageTypeOK
<1> QED
  BY <1>2, <1>3

LEMMA SendQueryType ==
    ASSUME TypeOK, NEW f \in Frames, NEW kind \in Kinds, NEW persistent \in BOOLEAN,
           SendQuery(f, kind, persistent)
    PROVE  TypeOK'
<1> DEFINE p == FrameProc[f]
<1>1. BrowserTypeOK'
  BY DEF TypeOK, BrowserTypeOK, SendQuery, browserVars, routerVars
<1>a. /\ contextId' \in [Frames -> 0..MaxContext]
      /\ contextId'[f] \in ContextIds
      /\ contexts' \subseteq Procs \X ContextIds
      /\ nextContext' \in [Procs -> 0..MaxContext]
  BY GetIDType DEF TypeOK, SendQuery
<1>b. nextRequest[p] + 1 \in RequestIds /\ nextRequest' \in [Procs -> 0..MaxRequest]
  BY ConstantsAssumption DEF TypeOK, PageTypeOK, SendQuery, RequestIds
<1>2. PageTypeOK' /\ contextId'[f] \in ContextIds /\ nextRequest[p] + 1 \in RequestIds
  BY <1>a, <1>b DEF TypeOK, PageTypeOK, SendQuery
<1>3. RequestTypeOK'
  BY <1>2, ConstantsAssumption DEF TypeOK, RequestTypeOK, SendQuery, RequestInfo, Keys
<1>4. ChannelTypeOK'
  <2> DEFINE m == [type |-> "query", ctx |-> contextId'[f], req |-> nextRequest[p] + 1,
                   kind |-> kind, persistent |-> persistent]
  <2>1. m \in QueryMsgs
    BY <1>2, ConstantsAssumption DEF QueryMsgs
  <2>2. toBrowser' = [toBrowser EXCEPT ![f] = Append(@, m)] /\ UNCHANGED toRenderer
    BY DEF SendQuery
  <2> QED
    BY <2>1, <2>2 DEF TypeOK, ChannelTypeOK
<1>5. HistoryTypeOK'
  BY DEF TypeOK, HistoryTypeOK, SendQuery, history
<1> QED
  BY <1>1, <1>2, <1>3, <1>4, <1>5 DEF TypeOK

LEMMA SendCancelType ==
    ASSUME RequestTypeOK, ChannelTypeOK, NEW f \in Frames, NEW ctx \in ContextIds,
           NEW req \in RequestIds \cup {0}, NEW Gone \in SUBSET pending,
           quiet \subseteq Keys,
           SendCancel(f, ctx, req, Gone)
    PROVE  /\ pending' \subseteq RequestInfo
           /\ toBrowser' \in [Frames -> Seq(QueryMsgs \cup CancelMsgs)]
           /\ quiet' \subseteq Keys
<1>1. pending' \subseteq RequestInfo /\ quiet' \subseteq Keys
  BY DEF RequestTypeOK, SendCancel, RequestsIn, RequestInfo
<1> DEFINE m == [type |-> "cancel", ctx |-> ctx, req |-> req]
<1>2. m \in CancelMsgs
  BY DEF CancelMsgs
<1>3. toBrowser' = toBrowser \/ toBrowser' = [toBrowser EXCEPT ![f] = Append(@, m)]
  BY DEF SendCancel
<1> HIDE DEF m
<1>4. CASE toBrowser' = toBrowser
  BY <1>1, <1>4 DEF ChannelTypeOK
<1>5. CASE toBrowser' = [toBrowser EXCEPT ![f] = Append(@, m)]
  BY <1>1, <1>2, <1>5 DEF ChannelTypeOK
<1> QED
  BY <1>3, <1>4, <1>5

LEMMA CancelRequestType ==
    ASSUME TypeOK, NEW f \in Frames, NEW req \in 1..nextRequest[FrameProc[f]],
           CancelRequest(f, req)
    PROVE  TypeOK'
<1>1. BrowserTypeOK'
  BY DEF TypeOK, BrowserTypeOK, CancelRequest, browserVars, routerVars
<1>a. /\ contextId' \in [Frames -> 0..MaxContext]
      /\ contextId'[f] \in ContextIds
      /\ contexts' \subseteq Procs \X ContextIds
      /\ nextContext' \in [Procs -> 0..MaxContext]
  BY GetIDType DEF TypeOK, CancelRequest
<1>b. req \in RequestIds
  BY ConstantsAssumption DEF TypeOK, PageTypeOK, RequestIds
<1>2. PageTypeOK' /\ contextId'[f] \in ContextIds /\ req \in RequestIds
  BY <1>a, <1>b DEF TypeOK, PageTypeOK, CancelRequest
<1>3. /\ pending' \subseteq RequestInfo
      /\ toBrowser' \in [Frames -> Seq(QueryMsgs \cup CancelMsgs)]
      /\ quiet' \subseteq Keys
  BY <1>2, SendCancelType DEF TypeOK, CancelRequest, Waiting, HistoryTypeOK
<1>4. RequestTypeOK' /\ ChannelTypeOK'
  BY <1>3 DEF TypeOK, RequestTypeOK, ChannelTypeOK, CancelRequest
<1>5. HistoryTypeOK'
  BY <1>3 DEF TypeOK, HistoryTypeOK, CancelRequest
<1> QED
  BY <1>1, <1>2, <1>4, <1>5 DEF TypeOK

LEMMA ContextReleasedType ==
    ASSUME TypeOK, NEW f \in Frames, ContextReleased(f)
    PROVE  TypeOK'
<1>1. BrowserTypeOK'
  BY DEF TypeOK, BrowserTypeOK, ContextReleased, browserVars, routerVars
<1>2. PageTypeOK'
  <2>1. frame' \in [Frames -> {"none", "live", "gone"}]
    BY DEF TypeOK, PageTypeOK, ContextReleased
  <2>2. contextId' \in [Frames -> 0..MaxContext] /\ contexts' \subseteq Procs \X ContextIds
    BY ConstantsAssumption DEF TypeOK, PageTypeOK, ContextReleased
  <2> QED
    BY <2>1, <2>2 DEF TypeOK, PageTypeOK, ContextReleased
<1>3. /\ pending' \subseteq RequestInfo
      /\ toBrowser' \in [Frames -> Seq(QueryMsgs \cup CancelMsgs)]
      /\ quiet' \subseteq Keys
  <2>1. CASE contextId[f] \in ContextIds
    <3> DEFINE gone == Waiting(f, contextId[f])
    <3>1. gone \in SUBSET pending /\ SendCancel(f, contextId[f], 0, gone)
      BY DEF Waiting, ContextReleased
    <3>2. RequestTypeOK /\ ChannelTypeOK /\ quiet \subseteq Keys
      BY DEF TypeOK, HistoryTypeOK
    <3> HIDE DEF gone
    <3> QED
      BY <2>1, <3>1, <3>2, SendCancelType
  <2>2. CASE contextId[f] \notin ContextIds
    <3>1. Waiting(f, contextId[f]) = {}
      BY <2>2 DEF TypeOK, RequestTypeOK, RequestInfo, Keys, Waiting
    <3> QED
      BY <3>1 DEF TypeOK, ContextReleased, SendCancel, RequestsIn,
                  RequestTypeOK, ChannelTypeOK, HistoryTypeOK
  <2> QED
    BY <2>1, <2>2
<1>4. toRenderer' \in [Frames -> Seq(Replies)]
  <2>1. toRenderer' = toRenderer \/ toRenderer' = [toRenderer EXCEPT ![f] = <<>>]
    BY DEF ContextReleased
  <2>2. <<>> \in Seq(Replies)
    OBVIOUS
  <2> QED
    BY <2>1, <2>2 DEF TypeOK, ChannelTypeOK
<1>5. RequestTypeOK' /\ ChannelTypeOK'
  BY <1>3, <1>4 DEF TypeOK, RequestTypeOK, ChannelTypeOK, ContextReleased
<1>6. HistoryTypeOK'
  BY <1>3 DEF TypeOK, HistoryTypeOK, ContextReleased
<1> QED
  BY <1>1, <1>2, <1>5, <1>6 DEF TypeOK

LEMMA ReceiveReplyType ==
    ASSUME TypeOK, NEW f \in Frames, ReceiveReply(f)
    PROVE  TypeOK'
<1>1. BrowserTypeOK'
  BY DEF TypeOK, BrowserTypeOK, ReceiveReply, browserVars, routerVars
<1>2. PageTypeOK'
  BY DEF TypeOK, PageTypeOK, ReceiveReply, idVars
<1>3. /\ toRenderer' = [toRenderer EXCEPT ![f] = Tail(@)]
      /\ Head(toRenderer[f]) \in Replies
  BY DEF TypeOK, ChannelTypeOK, ReceiveReply
<1>4. RequestTypeOK'
  <2> DEFINE t == [browser |-> FrameBrowser[f], reply |-> Head(toRenderer[f])]
  <2>1. t \in RendererTasks
    BY <1>3, ConstantsAssumption DEF RendererTasks
  <2>2. rendererTasks' = [rendererTasks EXCEPT ![FrameProc[f]] = Append(@, t)]
    BY DEF ReceiveReply
  <2> QED
    BY <2>1, <2>2, ConstantsAssumption DEF TypeOK, RequestTypeOK, ReceiveReply
<1>5. ChannelTypeOK'
  BY <1>3 DEF TypeOK, ChannelTypeOK, ReceiveReply
<1>6. HistoryTypeOK'
  BY DEF TypeOK, HistoryTypeOK, ReceiveReply, history
<1> QED
  BY <1>1, <1>2, <1>4, <1>5, <1>6 DEF TypeOK

LEMMA ExecuteCallbackType ==
    ASSUME TypeOK, NEW p \in Procs, ExecuteCallback(p)
    PROVE  TypeOK'
<1>1. BrowserTypeOK'
  BY DEF TypeOK, BrowserTypeOK, ExecuteCallback, browserVars, routerVars
<1>2. PageTypeOK'
  BY DEF TypeOK, PageTypeOK, ExecuteCallback, idVars
<1>3. RequestTypeOK'
  BY DEF TypeOK, RequestTypeOK, ExecuteCallback
<1>4. ChannelTypeOK'
  BY DEF TypeOK, ChannelTypeOK, ExecuteCallback, channels
<1>5. HistoryTypeOK'
  <2> DEFINE a == Head(rendererTasks[p]).reply
  <2>1. a \in Replies
    <3>1. Head(rendererTasks[p]) \in RendererTasks
      BY DEF TypeOK, RequestTypeOK, ExecuteCallback
    <3> QED
      BY <3>1 DEF RendererTasks
  <2>2. \A k \in Keys : heard'[k] = heard[k] \/ heard'[k] = Append(heard[k], a)
    BY DEF ExecuteCallback
  <2>3. heard' = [k \in Keys |-> heard'[k]]
    BY DEF ExecuteCallback
  <2> HIDE DEF a
  <2>4. \A k \in Keys : heard'[k] \in Seq(Replies)
    <3> TAKE k \in Keys
    <3>1. heard[k] \in Seq(Replies)
      BY DEF TypeOK, HistoryTypeOK
    <3>2. Append(heard[k], a) \in Seq(Replies)
      BY <2>1, <3>1
    <3> QED
      BY <2>2, <3>1, <3>2
  <2> QED
    BY <2>3, <2>4 DEF TypeOK, HistoryTypeOK, ExecuteCallback
<1> QED
  BY <1>1, <1>2, <1>3, <1>4, <1>5 DEF TypeOK

LEMMA CrashType ==
    ASSUME TypeOK, NEW p \in Procs, Crash(p)
    PROVE  TypeOK'
<1>1. BrowserTypeOK'
  BY ConstantsAssumption DEF TypeOK, BrowserTypeOK, Crash, routerVars, FramesIn
<1>2. PageTypeOK'
  <2>1. frame' \in [Frames -> {"none", "live", "gone"}]
    BY DEF TypeOK, PageTypeOK, Crash
  <2>2. contextId' \in [Frames -> 0..MaxContext]
    BY ConstantsAssumption DEF TypeOK, PageTypeOK, Crash
  <2> QED
    BY <2>1, <2>2 DEF TypeOK, PageTypeOK, Crash
<1>3. RequestTypeOK'
  BY DEF TypeOK, RequestTypeOK, Crash
<1>4. ChannelTypeOK'
  BY DEF TypeOK, ChannelTypeOK, Crash
<1>5. HistoryTypeOK'
  BY DEF TypeOK, HistoryTypeOK, RequestTypeOK, RequestInfo, RequestsIn, Crash
<1> QED
  BY <1>1, <1>2, <1>3, <1>4, <1>5 DEF TypeOK

LEMMA PostType ==
    ASSUME uiTasks \in Seq(UiTasks), NEW query \in Nat, NEW answer \in Answers
    PROVE  Post(query, answer) \in Seq(UiTasks)
<1> DEFINE t == [query |-> query, answer |-> answer]
<1>1. t \in UiTasks
  BY DEF UiTasks
<1>2. Post(query, answer) = uiTasks \/ Post(query, answer) = Append(uiTasks, t)
  BY DEF Post
<1> HIDE DEF t
<1> QED
  BY <1>1, <1>2

LEMMA JobDoneType ==
    ASSUME TypeOK, NEW j \in jobs, JobDone(j)
    PROVE  TypeOK'
<1>1. PICK answer \in JobAnswers(j.kind) :
         \/ UNCHANGED <<callbacks, uiTasks, said>>
         \/ /\ uiTasks' = Post(j.query, answer)
            /\ said' = said \cup {[query |-> j.query, answer |-> answer]}
            /\ callbacks' \subseteq callbacks
  BY DEF JobDone
<1>2. answer \in Answers /\ j.query \in Nat
  BY DEF JobAnswers, Answers, Succeeded, Failed, Canceled, TypeOK, BrowserTypeOK, Jobs
<1>3. BrowserTypeOK'
  <2>1. uiTasks' \in Seq(UiTasks) /\ callbacks' \subseteq CallbackImpl
    BY <1>1, <1>2, PostType DEF TypeOK, BrowserTypeOK
  <2> QED
    BY <2>1 DEF TypeOK, BrowserTypeOK, JobDone, browserVars
<1>4. PageTypeOK'
  BY DEF TypeOK, PageTypeOK, JobDone, rendererVars, idVars
<1>5. RequestTypeOK'
  BY DEF TypeOK, RequestTypeOK, JobDone, rendererVars
<1>6. ChannelTypeOK'
  BY DEF TypeOK, ChannelTypeOK, JobDone, channels
<1>7. HistoryTypeOK'
  BY <1>1, <1>2 DEF TypeOK, HistoryTypeOK, JobDone, UiTasks
<1> QED
  BY <1>3, <1>4, <1>5, <1>6, <1>7 DEF TypeOK

LEMMA AfterCreatedType ==
    ASSUME TypeOK, NEW b \in Browsers, AfterCreated(b)
    PROVE  TypeOK'
<1>1. BrowserTypeOK'
  BY DEF TypeOK, BrowserTypeOK, AfterCreated, routerVars
<1>2. PageTypeOK'
  BY DEF TypeOK, PageTypeOK, AfterCreated, rendererVars, idVars
<1>3. RequestTypeOK' /\ ChannelTypeOK' /\ HistoryTypeOK'
  BY DEF TypeOK, RequestTypeOK, ChannelTypeOK, HistoryTypeOK, AfterCreated,
         rendererVars, channels, history
<1> QED
  BY <1>1, <1>2, <1>3 DEF TypeOK

LEMMA SendReplyType ==
    ASSUME ChannelTypeOK, NEW f \in Frames, NEW ctx \in ContextIds,
           NEW req \in RequestIds, NEW answer \in Answers, NEW query \in Nat
    PROVE  SendReply(f, ctx, req, answer, query) \in [Frames -> Seq(Replies)]
<1> DEFINE r == [ctx |-> ctx, req |-> req, answer |-> answer, query |-> query]
<1>1. r \in Replies
  BY DEF Replies
<1>2. \/ SendReply(f, ctx, req, answer, query) = toRenderer
      \/ SendReply(f, ctx, req, answer, query)
           = [toRenderer EXCEPT ![f] = Append(@, r)]
  BY DEF SendReply
<1> HIDE DEF r
<1>3. [toRenderer EXCEPT ![f] = Append(@, r)] \in [Frames -> Seq(Replies)]
  BY <1>1 DEF ChannelTypeOK
<1> QED
  BY <1>2, <1>3 DEF ChannelTypeOK

LEMMA ReceiveQueryType ==
    ASSUME TypeOK, NEW f \in Frames, ReceiveQuery(f)
    PROVE  TypeOK'
<1> DEFINE m == Head(toBrowser[f])
           id == Len(asked) + 1
<1>1. m \in QueryMsgs
  <2>1. m \in QueryMsgs \cup CancelMsgs
    BY DEF TypeOK, ChannelTypeOK, ReceiveQuery
  <2> QED
    BY <2>1 DEF ReceiveQuery, CancelMsgs
<1>2. id \in Nat
  BY DEF TypeOK, HistoryTypeOK
<1>3. m.ctx \in ContextIds /\ m.req \in RequestIds /\ m.kind \in AllKinds
      /\ m.persistent \in BOOLEAN
  BY <1>1 DEF QueryMsgs
<1>4. PICK answer \in AnsweredAtOnce(m.kind) :
         /\ uiTasks' = Post(id, answer)
         /\ said' = IF answer = NoAnswer THEN said
                    ELSE said \cup {[query |-> id, answer |-> answer]}
         /\ callbacks' \subseteq callbacks \cup {[query |-> id, persistent |-> m.persistent]}
  BY DEF ReceiveQuery
<1>5. answer = NoAnswer \/ answer \in Answers
  BY DEF AnsweredAtOnce, Answers, Succeeded, Failed, Canceled, NoAnswer
<1>6. BrowserTypeOK'
  <2>1. uiTasks' \in Seq(UiTasks)
    BY <1>2, <1>4, <1>5, PostType DEF TypeOK, BrowserTypeOK, Post
  <2>2. callbacks' \subseteq CallbackImpl
    BY <1>2, <1>3, <1>4 DEF TypeOK, BrowserTypeOK, CallbackImpl
  <2>3. jobs' \subseteq Jobs
    BY <1>2, <1>3 DEF TypeOK, BrowserTypeOK, Jobs, ReceiveQuery, StartsJob
  <2>4. queries' \subseteq QueryInfo
    BY <1>2, <1>3 DEF TypeOK, BrowserTypeOK, QueryInfo, ReceiveQuery
  <2> QED
    BY <2>1, <2>2, <2>3, <2>4 DEF TypeOK, BrowserTypeOK, ReceiveQuery, browserVars
<1>7. PageTypeOK'
  BY DEF TypeOK, PageTypeOK, ReceiveQuery, rendererVars, idVars
<1>8. RequestTypeOK'
  BY DEF TypeOK, RequestTypeOK, ReceiveQuery, rendererVars
<1>9. ChannelTypeOK'
  <2>1. toBrowser' \in [Frames -> Seq(QueryMsgs \cup CancelMsgs)]
    BY DEF TypeOK, ChannelTypeOK, ReceiveQuery
  <2>2. Canceled \in Answers
    BY DEF Answers
  <2>3. toRenderer' = toRenderer \/ toRenderer' = SendReply(f, m.ctx, m.req, Canceled, id)
    BY DEF ReceiveQuery
  <2> HIDE DEF m, id
  <2>4. toRenderer' \in [Frames -> Seq(Replies)]
    BY <1>2, <1>3, <2>2, <2>3, SendReplyType DEF TypeOK, ChannelTypeOK
  <2> QED
    BY <2>1, <2>4 DEF ChannelTypeOK
<1>10. HistoryTypeOK'
  <2>1. asked' \in Seq(Askers)
    BY <1>3 DEF TypeOK, HistoryTypeOK, ReceiveQuery, Askers
  <2>2. said' \subseteq UiTasks
    BY <1>2, <1>4, <1>5 DEF TypeOK, HistoryTypeOK, UiTasks
  <2> QED
    BY <2>1, <2>2 DEF TypeOK, HistoryTypeOK, ReceiveQuery
<1> QED
  BY <1>6, <1>7, <1>8, <1>9, <1>10 DEF TypeOK

LEMMA CancelQueriesType ==
    ASSUME BrowserTypeOK, HistoryTypeOK, NEW S \in SUBSET queries,
           NEW why \in Reasons, CancelQueries(S, why)
    PROVE  /\ queries' \subseteq QueryInfo
           /\ callbacks' \subseteq CallbackImpl
           /\ canceled' \subseteq Cancellations
  BY DEF BrowserTypeOK, HistoryTypeOK, CancelQueries, Cancellations, QueryInfo

LEMMA ReceiveCancelType ==
    ASSUME TypeOK, NEW f \in Frames, ReceiveCancel(f)
    PROVE  TypeOK'
<1> DEFINE S == CancelTargets(FrameBrowser[f], Head(toBrowser[f]).ctx,
                              Head(toBrowser[f]).req)
<1>1. S \in SUBSET queries /\ CancelQueries(S, "page")
  BY DEF ReceiveCancel, CancelTargets, QueriesOf
<1>2. /\ queries' \subseteq QueryInfo
      /\ callbacks' \subseteq CallbackImpl
      /\ canceled' \subseteq Cancellations
  BY <1>1, CancelQueriesType DEF TypeOK, Reasons
<1>3. BrowserTypeOK' /\ HistoryTypeOK'
  BY <1>2 DEF TypeOK, BrowserTypeOK, HistoryTypeOK, ReceiveCancel, browserVars
<1>4. PageTypeOK' /\ RequestTypeOK'
  BY DEF TypeOK, PageTypeOK, RequestTypeOK, ReceiveCancel, rendererVars, idVars
<1>5. ChannelTypeOK'
  BY DEF TypeOK, ChannelTypeOK, ReceiveCancel
<1> QED
  BY <1>3, <1>4, <1>5 DEF TypeOK

LEMMA OnCallbackType ==
    ASSUME TypeOK, OnCallback
    PROVE  TypeOK'
<1> DEFINE t == Head(uiTasks)
<1>1. t \in UiTasks /\ uiTasks' \in Seq(UiTasks)
  BY DEF TypeOK, BrowserTypeOK, OnCallback
<1>2. BrowserTypeOK'
  BY <1>1 DEF TypeOK, BrowserTypeOK, OnCallback, browserVars
<1>3. ChannelTypeOK'
  <2>1. \/ UNCHANGED toRenderer
        \/ \E q \in queries : toRenderer' = SendReply(q.frame, q.ctx, q.req, t.answer, q.query)
    BY DEF OnCallback
  <2>2. t.answer \in Answers
    BY <1>1 DEF UiTasks
  <2>3. \A q \in queries : /\ q.frame \in Frames /\ q.ctx \in ContextIds
                           /\ q.req \in RequestIds /\ q.query \in Nat
    BY DEF TypeOK, BrowserTypeOK, QueryInfo
  <2> HIDE DEF t
  <2>4. toRenderer' \in [Frames -> Seq(Replies)]
    BY <2>1, <2>2, <2>3, SendReplyType DEF TypeOK, ChannelTypeOK
  <2> QED
    BY <2>4 DEF TypeOK, ChannelTypeOK, OnCallback
<1>4. PageTypeOK' /\ RequestTypeOK'
  BY DEF TypeOK, PageTypeOK, RequestTypeOK, OnCallback, rendererVars, idVars
<1>5. HistoryTypeOK'
  BY DEF TypeOK, HistoryTypeOK, OnCallback, history
<1> QED
  BY <1>2, <1>3, <1>4, <1>5 DEF TypeOK

LEMMA BeforeBrowseType ==
    ASSUME TypeOK, NEW f \in Frames, BeforeBrowse(f)
    PROVE  TypeOK'
<1> DEFINE S == QueriesOf(FrameBrowser[f])
<1>1. /\ queries' \subseteq QueryInfo
      /\ callbacks' \subseteq CallbackImpl
      /\ canceled' \subseteq Cancellations
  <2>1. CASE f \in MainFrames
    <3>1. S \in SUBSET queries /\ CancelQueries(S, "browse")
      BY <2>1 DEF BeforeBrowse, QueriesOf
    <3> QED
      BY <3>1, CancelQueriesType DEF TypeOK, Reasons
  <2>2. CASE f \notin MainFrames
    BY <2>2 DEF TypeOK, BrowserTypeOK, HistoryTypeOK, BeforeBrowse
  <2> QED
    BY <2>1, <2>2
<1>2. BrowserTypeOK' /\ HistoryTypeOK'
  BY <1>1 DEF TypeOK, BrowserTypeOK, HistoryTypeOK, BeforeBrowse, browserVars
<1>3. PageTypeOK' /\ RequestTypeOK'
  BY DEF TypeOK, PageTypeOK, RequestTypeOK, BeforeBrowse, rendererVars, idVars
<1>4. ChannelTypeOK'
  BY DEF TypeOK, ChannelTypeOK, BeforeBrowse, channels
<1> QED
  BY <1>2, <1>3, <1>4 DEF TypeOK

LEMMA RenderProcessTerminatedType ==
    ASSUME TypeOK, NEW b \in Browsers, RenderProcessTerminated(b)
    PROVE  TypeOK'
<1> DEFINE S == QueriesOf(b)
<1>1. S \in SUBSET queries /\ CancelQueries(S, "crash")
  BY DEF RenderProcessTerminated, QueriesOf
<1>2. /\ queries' \subseteq QueryInfo
      /\ callbacks' \subseteq CallbackImpl
      /\ canceled' \subseteq Cancellations
  BY <1>1, CancelQueriesType DEF TypeOK, Reasons
<1>3. BrowserTypeOK' /\ HistoryTypeOK'
  BY <1>2 DEF TypeOK, BrowserTypeOK, HistoryTypeOK, RenderProcessTerminated
<1>4. PageTypeOK' /\ RequestTypeOK'
  BY DEF TypeOK, PageTypeOK, RequestTypeOK, RenderProcessTerminated, rendererVars, idVars
<1>5. ChannelTypeOK'
  BY DEF TypeOK, ChannelTypeOK, RenderProcessTerminated
<1> QED
  BY <1>3, <1>4, <1>5 DEF TypeOK

LEMMA BeforeCloseType ==
    ASSUME TypeOK, NEW b \in Browsers, BeforeClose(b)
    PROVE  TypeOK'
<1>1. /\ queries' \subseteq QueryInfo
      /\ callbacks' \subseteq CallbackImpl
      /\ canceled' \subseteq Cancellations
      /\ router' \in {"none", "up"}
  <2>1. CASE \E o \in Browsers \ {b} : browser[o] = "open"
    BY <2>1 DEF TypeOK, BrowserTypeOK, HistoryTypeOK, BeforeClose
  <2>2. CASE ~\E o \in Browsers \ {b} : browser[o] = "open"
    <3>1. queries \in SUBSET queries /\ CancelQueries(queries, "close") /\ router' = "none"
      BY <2>2 DEF BeforeClose
    <3> QED
      BY <3>1, CancelQueriesType DEF TypeOK, Reasons
  <2> QED
    BY <2>1, <2>2
<1>2. BrowserTypeOK'
  BY <1>1 DEF TypeOK, BrowserTypeOK, BeforeClose
<1>3. PageTypeOK'
  <2>1. frame' \in [Frames -> {"none", "live", "gone"}]
    BY DEF TypeOK, PageTypeOK, BeforeClose
  <2>2. contextId' \in [Frames -> 0..MaxContext]
    BY ConstantsAssumption DEF TypeOK, PageTypeOK, BeforeClose
  <2> QED
    BY <2>1, <2>2 DEF TypeOK, PageTypeOK, BeforeClose
<1>4. RequestTypeOK'
  BY DEF TypeOK, RequestTypeOK, BeforeClose
<1>5. ChannelTypeOK'
  BY DEF TypeOK, ChannelTypeOK, BeforeClose
<1>6. HistoryTypeOK'
  BY <1>1 DEF TypeOK, HistoryTypeOK, RequestTypeOK, RequestInfo, RequestsIn, BeforeClose
<1> QED
  BY <1>2, <1>3, <1>4, <1>5, <1>6 DEF TypeOK

LEMMA LoseMessageType ==
    ASSUME TypeOK, NEW f \in Frames, LoseMessage(f)
    PROVE  TypeOK'
<1>1. BrowserTypeOK' /\ PageTypeOK'
  BY DEF TypeOK, BrowserTypeOK, PageTypeOK, LoseMessage, browserVars, routerVars,
         rendererVars, idVars
<1>2. RequestTypeOK' /\ HistoryTypeOK'
  BY DEF TypeOK, RequestTypeOK, HistoryTypeOK, LoseMessage, rendererVars, history
<1>3. ChannelTypeOK'
  <2>1. CASE toBrowser[f] # <<>> /\ toBrowser' = [toBrowser EXCEPT ![f] = Tail(@)]
             /\ UNCHANGED toRenderer
    BY <2>1 DEF TypeOK, ChannelTypeOK
  <2>2. CASE toRenderer[f] # <<>> /\ toRenderer' = [toRenderer EXCEPT ![f] = Tail(@)]
             /\ UNCHANGED toBrowser
    BY <2>2 DEF TypeOK, ChannelTypeOK
  <2> QED
    BY <2>1, <2>2 DEF LoseMessage
<1> QED
  BY <1>1, <1>2, <1>3 DEF TypeOK

\* One step of the program, or a stuttering one.
LEMMA NextType ==
    ASSUME TypeOK, [Next]_vars
    PROVE  TypeOK'
<1>1. CASE UNCHANGED vars
  <2>1. BrowserTypeOK' /\ PageTypeOK'
    BY <1>1 DEF TypeOK, BrowserTypeOK, PageTypeOK, vars, browserVars, routerVars,
                rendererVars, idVars
  <2>2. RequestTypeOK' /\ ChannelTypeOK' /\ HistoryTypeOK'
    BY <1>1 DEF TypeOK, RequestTypeOK, ChannelTypeOK, HistoryTypeOK, vars,
                rendererVars, channels, history
  <2> QED
    BY <2>1, <2>2 DEF TypeOK
<1>2. ASSUME NEW f \in Frames, Page(f)
      PROVE  TypeOK'
  BY <1>2, FrameCreatedType, SendQueryType, CancelRequestType, ContextReleasedType
     DEF Page
<1>3. ASSUME NEW f \in Frames, Delivery(f) \/ BeforeBrowse(f) \/ LoseMessage(f)
      PROVE  TypeOK'
  BY <1>3, ReceiveQueryType, ReceiveCancelType, ReceiveReplyType, BeforeBrowseType,
     LoseMessageType DEF Delivery
<1>4. ASSUME NEW p \in Procs, ExecuteCallback(p) \/ Crash(p)
      PROVE  TypeOK'
  BY <1>4, ExecuteCallbackType, CrashType
<1>5. ASSUME NEW b \in Browsers, Window(b)
      PROVE  TypeOK'
  BY <1>5, AfterCreatedType, RenderProcessTerminatedType, BeforeCloseType DEF Window
<1>6. ASSUME NEW j \in jobs, JobDone(j)
      PROVE  TypeOK'
  BY <1>6, JobDoneType
<1>7. CASE OnCallback
  BY <1>7, OnCallbackType
<1> QED
  BY <1>1, <1>2, <1>3, <1>4, <1>5, <1>6, <1>7 DEF Next

\* Every variable keeps its type in every behaviour of both routers, the pages
\* and the handler (TypeOK).
THEOREM TypeCorrect == Spec => []TypeOK
<1>1. Init => TypeOK
  BY InitType
<1>2. TypeOK /\ [Next]_vars => TypeOK'
  BY NextType
<1> QED
  BY <1>1, <1>2, PTL DEF Spec

------------------------------------------------------------------------------
\* Sequences as sets of items.

LEMMA AppendItems ==
    ASSUME NEW S, NEW s \in Seq(S), NEW e
    PROVE  Items(Append(s, e)) = Items(s) \cup {e}
<1>1. DOMAIN Append(s, e) = 1..(Len(s) + 1) /\ DOMAIN s = 1..Len(s) /\ Len(s) \in Nat
  OBVIOUS
<1>2. \A i \in 1..Len(s) : Append(s, e)[i] = s[i]
  OBVIOUS
<1>3. Append(s, e)[Len(s) + 1] = e
  OBVIOUS
<1> QED
  BY <1>1, <1>2, <1>3 DEF Items

LEMMA TailItems ==
    ASSUME NEW S, NEW s \in Seq(S), s # <<>>
    PROVE  Items(Tail(s)) \subseteq Items(s) /\ Head(s) \in Items(s)
<1>1. /\ DOMAIN Tail(s) = 1..(Len(s) - 1) /\ DOMAIN s = 1..Len(s)
      /\ Len(s) \in Nat /\ Len(s) > 0 /\ Head(s) = s[1]
  OBVIOUS
<1>2. \A i \in 1..(Len(s) - 1) : Tail(s)[i] = s[i + 1] /\ i + 1 \in 1..Len(s)
  BY <1>1
<1> QED
  BY <1>1, <1>2 DEF Items

LEMMA HeadAndTail ==
    ASSUME NEW S, NEW s \in Seq(S), s # <<>>
    PROVE  Items(s) = Items(Tail(s)) \cup {Head(s)}
<1>1. /\ DOMAIN Tail(s) = 1..(Len(s) - 1) /\ DOMAIN s = 1..Len(s)
      /\ Len(s) \in Nat /\ Len(s) > 0 /\ Head(s) = s[1]
  OBVIOUS
<1>2. \A i \in 1..(Len(s) - 1) : Tail(s)[i] = s[i + 1]
  BY <1>1
<1>3. \A i \in 1..Len(s) : i = 1 \/ (i - 1 \in 1..(Len(s) - 1) /\ Tail(s)[i - 1] = s[i])
  BY <1>1, <1>2
<1>4. Items(s) \subseteq Items(Tail(s)) \cup {Head(s)}
  <2> SUFFICES ASSUME NEW i \in DOMAIN s PROVE s[i] \in Items(Tail(s)) \cup {Head(s)}
    BY DEF Items
  <2>1. CASE i = 1
    BY <1>1, <2>1
  <2>2. CASE i # 1
    BY <1>1, <1>3, <2>2 DEF Items
  <2> QED
    BY <2>1, <2>2
<1> QED
  BY <1>4, TailItems

LEMMA EmptyItems == Items(<<>>) = {}
  BY DEF Items

------------------------------------------------------------------------------
\* Answers keep their origin.

\* "asked" and "said" only grow, so what they vouch for stays true.
AskedGrows == asked' = asked \/ \E e \in Askers : asked' = Append(asked, e)

LEMMA AskedByGrows ==
    ASSUME asked \in Seq(Askers), AskedGrows
    PROVE  \A query, f, ctx, req :
             AskedBy(query, f, ctx, req) => AskedBy(query, f, ctx, req)'
<1>1. CASE asked' = asked
  BY <1>1 DEF AskedBy
<1>2. ASSUME NEW e \in Askers, asked' = Append(asked, e)
      PROVE  \A query, f, ctx, req :
               AskedBy(query, f, ctx, req) => AskedBy(query, f, ctx, req)'
  <2>1. \A i \in DOMAIN asked : i \in DOMAIN asked' /\ asked'[i] = asked[i]
    BY <1>2
  <2> QED
    BY <2>1 DEF AskedBy
<1> QED
  BY <1>1, <1>2 DEF AskedGrows

LEMMA IsGivenGrows ==
    ASSUME said \subseteq said'
    PROVE  \A r : IsGiven(r) => IsGiven(r)'
  BY DEF IsGiven

\* Each part of Provenance survives a step that adds nothing to its stage.
LEMMA ProvenanceKept ==
    ASSUME TypeOK, Provenance, AskedGrows, said \subseteq said'
    PROVE  /\ queries' \subseteq queries => QueriesAsked'
           /\ Items(uiTasks)' \subseteq Items(uiTasks) => TasksSaid'
           /\ (\A f \in Frames : Items(toRenderer'[f]) \subseteq Items(toRenderer[f]))
                => RepliesOwn'
           /\ (\A p \in Procs : Items(rendererTasks'[p]) \subseteq Items(rendererTasks[p]))
                => CallsOwn'
           /\ UNCHANGED heard => HeardIsOwnAnswer'
<1>1. \A query, f, ctx, req : AskedBy(query, f, ctx, req) => AskedBy(query, f, ctx, req)'
  BY AskedByGrows DEF TypeOK, HistoryTypeOK
<1>2. \A r : IsGiven(r) => IsGiven(r)'
  BY IsGivenGrows
<1> QED
  BY <1>1, <1>2 DEF Provenance, QueriesAsked, TasksSaid, RepliesOwn, CallsOwn, HeardIsOwnAnswer

\* The steps that only take from the stages, or do not touch them.
LEMMA ProvenanceShrinks ==
    ASSUME TypeOK, Provenance, UNCHANGED <<asked, said, heard>>,
           queries' \subseteq queries,
           Items(uiTasks)' \subseteq Items(uiTasks),
           \A f \in Frames : Items(toRenderer'[f]) \subseteq Items(toRenderer[f]),
           \A p \in Procs : Items(rendererTasks'[p]) \subseteq Items(rendererTasks[p])
    PROVE  Provenance'
<1>1. AskedGrows /\ said \subseteq said'
  BY DEF AskedGrows
<1> QED
  BY <1>1, ProvenanceKept DEF Provenance

LEMMA PageProvenance ==
    ASSUME TypeOK, Provenance, NEW f \in Frames, Page(f)
    PROVE  Provenance'
<1>1. ASSUME FrameCreated(f)
      PROVE  Provenance'
  BY <1>1, ProvenanceShrinks DEF FrameCreated, routerVars, channels, history
<1>2. ASSUME NEW kind \in Kinds, NEW persistent \in BOOLEAN, SendQuery(f, kind, persistent)
      PROVE  Provenance'
  BY <1>2, ProvenanceShrinks DEF SendQuery, routerVars, history
<1>3. ASSUME NEW req \in 1..nextRequest[FrameProc[f]], CancelRequest(f, req)
      PROVE  Provenance'
  BY <1>3, ProvenanceShrinks DEF CancelRequest, routerVars
<1>4. ASSUME ContextReleased(f)
      PROVE  Provenance'
  <2>1. \A g \in Frames : Items(toRenderer'[g]) \subseteq Items(toRenderer[g])
    BY <1>4, EmptyItems DEF ContextReleased, TypeOK, ChannelTypeOK
  <2> QED
    BY <1>4, <2>1, ProvenanceShrinks DEF ContextReleased, routerVars
<1> QED
  BY <1>1, <1>2, <1>3, <1>4 DEF Page

LEMMA ReceiveReplyProvenance ==
    ASSUME TypeOK, Provenance, NEW f \in Frames, ReceiveReply(f)
    PROVE  Provenance'
<1> DEFINE r == Head(toRenderer[f])
           t == [browser |-> FrameBrowser[f], reply |-> r]
<1>1. /\ toRenderer' = [toRenderer EXCEPT ![f] = Tail(@)]
      /\ rendererTasks' = [rendererTasks EXCEPT ![FrameProc[f]] = Append(@, t)]
      /\ toRenderer[f] # <<>>
      /\ UNCHANGED <<queries, uiTasks, asked, said, heard>>
  BY DEF ReceiveReply, routerVars, history
<1>2. Items(Tail(toRenderer[f])) \subseteq Items(toRenderer[f]) /\ r \in Items(toRenderer[f])
  BY <1>1, TailItems DEF TypeOK, ChannelTypeOK
<1>3. /\ QueriesAsked' /\ TasksSaid' /\ RepliesOwn' /\ HeardIsOwnAnswer'
  <2>1. \A g \in Frames : Items(toRenderer'[g]) \subseteq Items(toRenderer[g])
    BY <1>1, <1>2 DEF TypeOK, ChannelTypeOK
  <2> QED
    BY <1>1, <2>1, ProvenanceKept DEF AskedGrows
<1>4. CallsOwn'
  <2>1. AskedBy(r.query, f, r.ctx, r.req) /\ IsGiven(r)
    BY <1>2 DEF Provenance, RepliesOwn
  <2>2. \A p \in Procs : \A u \in Items(rendererTasks'[p]) :
           u \in Items(rendererTasks[p]) \/ (p = FrameProc[f] /\ u = t)
    <3> TAKE p \in Procs
    <3>1. rendererTasks[p] \in Seq(RendererTasks)
      BY DEF TypeOK, RequestTypeOK
    <3>2. CASE p = FrameProc[f]
      <4>1. rendererTasks'[p] = Append(rendererTasks[p], t)
        BY <1>1, <3>2 DEF TypeOK, RequestTypeOK
      <4> HIDE DEF t
      <4> QED
        BY <3>1, <3>2, <4>1, AppendItems
    <3>3. CASE p # FrameProc[f]
      BY <1>1, <3>3 DEF TypeOK, RequestTypeOK
    <3> QED
      BY <3>2, <3>3
  <2>3. t.reply = r
    OBVIOUS
  <2>4. f \in FramesIn(FrameProc[f])
    BY DEF FramesIn
  <2> HIDE DEF t, r
  <2> SUFFICES ASSUME NEW p \in Procs, NEW u \in Items(rendererTasks'[p])
               PROVE  /\ \E g \in FramesIn(p) : AskedBy(u.reply.query, g, u.reply.ctx, u.reply.req)
                      /\ IsGiven(u.reply)
    BY <1>1 DEF CallsOwn, AskedBy, IsGiven
  <2>5. CASE u \in Items(rendererTasks[p])
    BY <2>5 DEF CallsOwn, Provenance
  <2>6. CASE u = t /\ p = FrameProc[f]
    BY <2>1, <2>3, <2>4, <2>6
  <2> QED
    BY <2>2, <2>5, <2>6
<1> QED
  BY <1>3, <1>4 DEF Provenance

LEMMA ExecuteCallbackProvenance ==
    ASSUME TypeOK, Provenance, NEW p \in Procs, ExecuteCallback(p)
    PROVE  Provenance'
<1> DEFINE t == Head(rendererTasks[p])
           r == t.reply
<1>1. /\ rendererTasks' = [rendererTasks EXCEPT ![p] = Tail(@)]
      /\ rendererTasks[p] # <<>>
      /\ UNCHANGED <<queries, uiTasks, toRenderer, asked, said>>
  BY DEF ExecuteCallback, routerVars, channels
<1>2. Items(Tail(rendererTasks[p])) \subseteq Items(rendererTasks[p])
      /\ t \in Items(rendererTasks[p])
  BY <1>1, TailItems DEF TypeOK, RequestTypeOK
<1>3. QueriesAsked' /\ TasksSaid' /\ RepliesOwn' /\ CallsOwn'
  <2>1. \A q \in Procs : Items(rendererTasks'[q]) \subseteq Items(rendererTasks[q])
    BY <1>1, <1>2 DEF TypeOK, RequestTypeOK
  <2> QED
    BY <1>1, <2>1, ProvenanceKept DEF AskedGrows
<1>4. HeardIsOwnAnswer'
  <2>1. /\ \E f \in FramesIn(p) : AskedBy(r.query, f, r.ctx, r.req)
        /\ IsGiven(r)
    BY <1>2 DEF Provenance, CallsOwn
  <2>2. \A k \in Keys :
          \/ heard'[k] = heard[k]
          \/ k.proc = p /\ k.ctx = r.ctx /\ k.req = r.req /\ heard'[k] = Append(heard[k], r)
    BY DEF ExecuteCallback, RequestsIn, RequestsFor
  <2> HIDE DEF t, r
  <2>3. \A k \in Keys : \A h \in Items(heard'[k]) :
          h \in Items(heard[k]) \/ (h = r /\ k.proc = p /\ k.ctx = r.ctx /\ k.req = r.req)
    <3> TAKE k \in Keys
    <3>1. heard[k] \in Seq(Replies)
      BY DEF TypeOK, HistoryTypeOK
    <3>2. Items(Append(heard[k], r)) = Items(heard[k]) \cup {r}
      BY <3>1, AppendItems
    <3> QED
      BY <2>2, <3>2
  <2>4. \A q, g, c, n : AskedBy(q, g, c, n) => AskedBy(q, g, c, n)'
    BY <1>1 DEF AskedBy
  <2>5. \A a : IsGiven(a) => IsGiven(a)'
    BY <1>1 DEF IsGiven
  <2> SUFFICES ASSUME NEW k \in Keys, NEW h \in Items(heard'[k])
               PROVE  /\ \E f \in FramesIn(k.proc) : AskedBy(h.query, f, k.ctx, k.req)'
                      /\ IsGiven(h)'
    BY DEF HeardIsOwnAnswer
  <2>6. CASE h \in Items(heard[k])
    BY <2>4, <2>5, <2>6 DEF HeardIsOwnAnswer, Provenance
  <2>7. CASE h = r /\ k.proc = p /\ k.ctx = r.ctx /\ k.req = r.req
    BY <2>1, <2>4, <2>5, <2>7
  <2> QED
    BY <2>3, <2>6, <2>7
<1> QED
  BY <1>3, <1>4 DEF Provenance

LEMMA CrashProvenance ==
    ASSUME TypeOK, Provenance, NEW p \in Procs, Crash(p)
    PROVE  Provenance'
<1>1. \A f \in Frames : Items(toRenderer'[f]) \subseteq Items(toRenderer[f])
  BY EmptyItems DEF Crash
<1>2. \A q \in Procs : Items(rendererTasks'[q]) \subseteq Items(rendererTasks[q])
  BY EmptyItems DEF Crash, TypeOK, RequestTypeOK
<1> QED
  BY <1>1, <1>2, ProvenanceShrinks DEF Crash, routerVars

\* Posting an answer that is recorded in "said".
LEMMA PostSaid ==
    ASSUME TypeOK, TasksSaid, NEW query, NEW answer,
           uiTasks' = Post(query, answer), said \subseteq said',
           answer # NoAnswer => [query |-> query, answer |-> answer] \in said'
    PROVE  TasksSaid'
<1> DEFINE t == [query |-> query, answer |-> answer]
<1>1. uiTasks' = uiTasks \/ (answer # NoAnswer /\ uiTasks' = Append(uiTasks, t))
  BY DEF Post
<1>2. answer # NoAnswer => t \in said'
  OBVIOUS
<1> HIDE DEF t
<1>3. Items(Append(uiTasks, t)) = Items(uiTasks) \cup {t}
  BY AppendItems DEF TypeOK, BrowserTypeOK
<1>4. \A u \in Items(uiTasks') : u \in Items(uiTasks) \/ (u = t /\ t \in said')
  BY <1>1, <1>2, <1>3
<1> QED
  BY <1>4 DEF TasksSaid

LEMMA JobDoneProvenance ==
    ASSUME TypeOK, Provenance, NEW j \in jobs, JobDone(j)
    PROVE  Provenance'
<1>1. PICK answer \in JobAnswers(j.kind) :
         \/ UNCHANGED <<uiTasks, said>>
         \/ /\ uiTasks' = Post(j.query, answer)
            /\ said' = said \cup {[query |-> j.query, answer |-> answer]}
  BY DEF JobDone
<1>2. UNCHANGED <<queries, toRenderer, rendererTasks, asked, heard>> /\ said \subseteq said'
  BY <1>1 DEF JobDone, rendererVars, channels
<1>3. QueriesAsked' /\ RepliesOwn' /\ CallsOwn' /\ HeardIsOwnAnswer'
  BY <1>2, ProvenanceKept DEF AskedGrows
<1>4. TasksSaid'
  <2>1. CASE UNCHANGED <<uiTasks, said>>
    BY <2>1 DEF Provenance, TasksSaid
  <2>2. CASE /\ uiTasks' = Post(j.query, answer)
             /\ said' = said \cup {[query |-> j.query, answer |-> answer]}
    BY <2>2, PostSaid DEF Provenance
  <2> QED
    BY <1>1, <2>1, <2>2
<1> QED
  BY <1>3, <1>4 DEF Provenance

\* Sending a reply that belongs to the frame it is sent to.
LEMMA SendReplyOwn ==
    ASSUME TypeOK, RepliesOwn, AskedGrows, said \subseteq said', NEW f \in Frames,
           NEW ctx, NEW req, NEW answer, NEW query,
           toRenderer' = SendReply(f, ctx, req, answer, query),
           AskedBy(query, f, ctx, req)',
           answer = Canceled \/ [query |-> query, answer |-> answer] \in said'
    PROVE  RepliesOwn'
<1> DEFINE r == [ctx |-> ctx, req |-> req, answer |-> answer, query |-> query]
<1>1. toRenderer' = toRenderer \/ toRenderer' = [toRenderer EXCEPT ![f] = Append(@, r)]
  BY DEF SendReply
<1>2. AskedBy(r.query, f, r.ctx, r.req)' /\ IsGiven(r)'
  BY DEF IsGiven
<1> HIDE DEF r
<1>3. \A g \in Frames : \A a \in Items(toRenderer'[g]) :
        a \in Items(toRenderer[g]) \/ (a = r /\ g = f)
  <2> TAKE g \in Frames
  <2>1. toRenderer[g] \in Seq(Replies)
    BY DEF TypeOK, ChannelTypeOK
  <2>2. toRenderer'[g] = toRenderer[g] \/ (g = f /\ toRenderer'[g] = Append(toRenderer[g], r))
    BY <1>1 DEF TypeOK, ChannelTypeOK
  <2>3. Items(Append(toRenderer[g], r)) = Items(toRenderer[g]) \cup {r}
    BY <2>1, AppendItems
  <2> QED
    BY <2>2, <2>3
<1>4. \A q, g, c, n : AskedBy(q, g, c, n) => AskedBy(q, g, c, n)'
  BY AskedByGrows DEF TypeOK, HistoryTypeOK
<1>5. \A a : IsGiven(a) => IsGiven(a)'
  BY IsGivenGrows
<1> QED
  BY <1>2, <1>3, <1>4, <1>5 DEF RepliesOwn

LEMMA ReceiveQueryProvenance ==
    ASSUME TypeOK, Provenance, NEW f \in Frames, ReceiveQuery(f)
    PROVE  Provenance'
<1>a. PICK m, id : m = Head(toBrowser[f]) /\ id = Len(asked) + 1
  OBVIOUS
<1> DEFINE e == [frame |-> f, ctx |-> m.ctx, req |-> m.req]
<1>1. /\ asked' = Append(asked, e)
      /\ said \subseteq said'
      /\ UNCHANGED <<heard, rendererTasks>>
  BY <1>a DEF ReceiveQuery, rendererVars
<1>2. e \in Askers
  <2>1. m \in QueryMsgs \cup CancelMsgs
    BY <1>a DEF TypeOK, ChannelTypeOK, ReceiveQuery
  <2>2. m \in QueryMsgs
    BY <1>a, <2>1 DEF ReceiveQuery, CancelMsgs
  <2> QED
    BY <2>2 DEF QueryMsgs, Askers
<1>3. AskedGrows
  BY <1>1, <1>2 DEF AskedGrows
<1>4. AskedBy(id, f, m.ctx, m.req)'
  <2>1. asked \in Seq(Askers)
    BY DEF TypeOK, HistoryTypeOK
  <2>2. id \in DOMAIN asked' /\ asked'[id] = e
    BY <1>a, <1>1, <2>1
  <2> QED
    BY <2>2 DEF AskedBy
<1>5. CallsOwn' /\ HeardIsOwnAnswer'
  BY <1>1, <1>3, ProvenanceKept
<1>6. TasksSaid'
  <2>1. PICK answer \in AnsweredAtOnce(m.kind) :
          /\ uiTasks' = Post(id, answer)
          /\ said' = IF answer = NoAnswer THEN said
                     ELSE said \cup {[query |-> id, answer |-> answer]}
    BY <1>a DEF ReceiveQuery
  <2>2. answer # NoAnswer => [query |-> id, answer |-> answer] \in said'
    BY <2>1
  <2> QED
    BY <1>1, <2>1, <2>2, PostSaid DEF Provenance
<1>7. QueriesAsked'
  <2>1. \A q \in queries' : \/ q \in queries
                            \/ q.query = id /\ q.frame = f /\ q.ctx = m.ctx /\ q.req = m.req
    BY <1>a DEF ReceiveQuery
  <2>2. \A q, g, c, n : AskedBy(q, g, c, n) => AskedBy(q, g, c, n)'
    BY <1>3, AskedByGrows DEF TypeOK, HistoryTypeOK
  <2>3. \A q \in queries : AskedBy(q.query, q.frame, q.ctx, q.req)
    BY DEF QueriesAsked, Provenance
  <2>4. \A q \in queries' : AskedBy(q.query, q.frame, q.ctx, q.req)'
    BY <1>4, <2>1, <2>2, <2>3
  <2> QED
    BY <2>4 DEF QueriesAsked
<1>8. RepliesOwn'
  <2>1. UNCHANGED toRenderer \/ toRenderer' = SendReply(f, m.ctx, m.req, Canceled, id)
    BY <1>a DEF ReceiveQuery
  <2>2. CASE UNCHANGED toRenderer
    BY <1>1, <1>3, <2>2, ProvenanceKept
  <2>3. CASE toRenderer' = SendReply(f, m.ctx, m.req, Canceled, id)
    BY <1>1, <1>3, <1>4, <2>3, SendReplyOwn DEF Provenance
  <2> QED
    BY <2>1, <2>2, <2>3
<1> QED
  BY <1>5, <1>6, <1>7, <1>8 DEF Provenance

LEMMA OnCallbackProvenance ==
    ASSUME TypeOK, Provenance, OnCallback
    PROVE  Provenance'
<1> DEFINE t == Head(uiTasks)
<1>1. /\ uiTasks # <<>> /\ uiTasks' = Tail(uiTasks)
      /\ UNCHANGED <<asked, said, heard, rendererTasks>>
      /\ queries' \subseteq queries
  BY DEF OnCallback, rendererVars, history
<1>2. Items(uiTasks)' \subseteq Items(uiTasks) /\ t \in Items(uiTasks)
  BY <1>1, TailItems DEF TypeOK, BrowserTypeOK
<1>3. AskedGrows /\ said \subseteq said'
  BY <1>1 DEF AskedGrows
<1>4. QueriesAsked' /\ TasksSaid' /\ CallsOwn' /\ HeardIsOwnAnswer'
  BY <1>1, <1>2, <1>3, ProvenanceKept
<1>5. RepliesOwn'
  <2>1. CASE UNCHANGED toRenderer
    BY <1>3, <2>1, ProvenanceKept
  <2>2. ASSUME NEW q \in queries, q.query = t.query,
               toRenderer' = SendReply(q.frame, q.ctx, q.req, t.answer, q.query)
        PROVE  RepliesOwn'
    <3>1. q.frame \in Frames
      BY DEF TypeOK, BrowserTypeOK, QueryInfo
    <3>2. AskedBy(q.query, q.frame, q.ctx, q.req)'
      BY <1>1 DEF Provenance, QueriesAsked, AskedBy
    <3>3. t \in said /\ t \in UiTasks
      BY <1>2 DEF Provenance, TasksSaid, TypeOK, HistoryTypeOK
    <3>4. [query |-> q.query, answer |-> t.answer] = t
      BY <2>2, <3>3 DEF UiTasks
    <3>5. [query |-> q.query, answer |-> t.answer] \in said'
      BY <1>1, <3>3, <3>4
    <3> HIDE DEF t
    <3> QED
      BY <1>3, <2>2, <3>1, <3>2, <3>5, SendReplyOwn DEF Provenance
  <2> QED
    BY <2>1, <2>2 DEF OnCallback
<1> QED
  BY <1>4, <1>5 DEF Provenance

LEMMA CancelsProvenance ==
    ASSUME TypeOK, Provenance, NEW f \in Frames,
           ReceiveCancel(f) \/ BeforeBrowse(f)
    PROVE  Provenance'
<1>1. queries' \subseteq queries /\ UNCHANGED <<asked, said, heard, uiTasks, toRenderer, rendererTasks>>
  BY DEF ReceiveCancel, BeforeBrowse, CancelQueries, rendererVars, channels
<1> QED
  BY <1>1, ProvenanceShrinks

LEMMA WindowProvenance ==
    ASSUME TypeOK, Provenance, NEW b \in Browsers, Window(b)
    PROVE  Provenance'
<1>1. ASSUME AfterCreated(b)
      PROVE  Provenance'
  BY <1>1, ProvenanceShrinks DEF AfterCreated, routerVars, rendererVars, channels, history
<1>2. ASSUME RenderProcessTerminated(b)
      PROVE  Provenance'
  BY <1>2, ProvenanceShrinks DEF RenderProcessTerminated, CancelQueries, rendererVars
<1>3. ASSUME BeforeClose(b)
      PROVE  Provenance'
  <2>1. queries' \subseteq queries
    BY <1>3 DEF BeforeClose, CancelQueries
  <2>2. \A f \in Frames : Items(toRenderer'[f]) \subseteq Items(toRenderer[f])
    BY <1>3, EmptyItems DEF BeforeClose
  <2> QED
    BY <1>3, <2>1, <2>2, ProvenanceShrinks DEF BeforeClose
<1> QED
  BY <1>1, <1>2, <1>3 DEF Window

LEMMA LoseMessageProvenance ==
    ASSUME TypeOK, Provenance, NEW f \in Frames, LoseMessage(f)
    PROVE  Provenance'
<1>1. \A g \in Frames : Items(toRenderer'[g]) \subseteq Items(toRenderer[g])
  <2>1. CASE toRenderer[f] # <<>> /\ toRenderer' = [toRenderer EXCEPT ![f] = Tail(@)]
    <3>1. Items(Tail(toRenderer[f])) \subseteq Items(toRenderer[f])
      BY <2>1, TailItems DEF TypeOK, ChannelTypeOK
    <3> QED
      BY <2>1, <3>1 DEF TypeOK, ChannelTypeOK
  <2>2. CASE UNCHANGED toRenderer
    BY <2>2
  <2> QED
    BY <2>1, <2>2 DEF LoseMessage
<1> QED
  BY <1>1, ProvenanceShrinks DEF LoseMessage, routerVars, rendererVars, history

LEMMA NextProvenance ==
    ASSUME TypeOK, Provenance, [Next]_vars
    PROVE  Provenance'
<1>1. CASE UNCHANGED vars
  BY <1>1, ProvenanceShrinks DEF vars, routerVars, rendererVars, channels, history
<1>2. ASSUME NEW f \in Frames,
             Page(f) \/ Delivery(f) \/ BeforeBrowse(f) \/ LoseMessage(f)
      PROVE  Provenance'
  BY <1>2, PageProvenance, ReceiveQueryProvenance, ReceiveReplyProvenance,
     CancelsProvenance, LoseMessageProvenance DEF Delivery
<1>3. ASSUME NEW p \in Procs, ExecuteCallback(p) \/ Crash(p)
      PROVE  Provenance'
  BY <1>3, ExecuteCallbackProvenance, CrashProvenance
<1>4. ASSUME NEW b \in Browsers, Window(b)
      PROVE  Provenance'
  BY <1>4, WindowProvenance
<1>5. ASSUME NEW j \in jobs, JobDone(j)
      PROVE  Provenance'
  BY <1>5, JobDoneProvenance
<1>6. CASE OnCallback
  BY <1>6, OnCallbackProvenance
<1> QED
  BY <1>1, <1>2, <1>3, <1>4, <1>5, <1>6 DEF Next

LEMMA InitProvenance == Init => Provenance
  BY EmptyItems DEF Init, Provenance, QueriesAsked, TasksSaid, RepliesOwn, CallsOwn,
                    HeardIsOwnAnswer

\* What a page hears for a request is the answer the handler gave to the query of
\* that very request (HeardIsOwnAnswer), whatever is lost, canceled, closed or
\* crashes on the way, and although every process numbers its requests from 1.
THEOREM AnswersAreOwn == Spec => []HeardIsOwnAnswer
<1>1. Init => TypeOK /\ Provenance
  BY InitType, InitProvenance
<1>2. (TypeOK /\ Provenance) /\ [Next]_vars => (TypeOK /\ Provenance)'
  BY NextType, NextProvenance
<1>3. Provenance => HeardIsOwnAnswer
  BY DEF Provenance
<1> QED
  BY <1>1, <1>2, <1>3, PTL DEF Spec

------------------------------------------------------------------------------
\* Requests that were given up stay silent.

\* The steps that only take requests away.
LEMMA QuietShrinks ==
    ASSUME QuietIsOver, UNCHANGED nextRequest, pending' \subseteq pending,
           quiet' \subseteq quiet \cup RequestsIn(pending \ pending')
    PROVE  QuietIsOver'
<1>1. \A r \in pending' : r.key \notin quiet'
  BY DEF QuietIsOver, RequestsIn
<1>2. \A r, s \in pending' : r.key = s.key => r = s
  BY DEF QuietIsOver
<1>3. quiet' \cup RequestsIn(pending)' \subseteq quiet \cup RequestsIn(pending)
  BY DEF RequestsIn
<1> QED
  BY <1>1, <1>2, <1>3 DEF QuietIsOver

LEMMA SendCancelQuiet ==
    ASSUME QuietIsOver, UNCHANGED nextRequest, NEW f, NEW ctx, NEW req,
           NEW Gone \in SUBSET pending, SendCancel(f, ctx, req, Gone)
    PROVE  QuietIsOver'
  BY QuietShrinks DEF SendCancel, RequestsIn

\* A new request has a number of its own.
LEMMA SendQueryQuiet ==
    ASSUME TypeOK, QuietIsOver, NEW f \in Frames, NEW kind, NEW persistent,
           SendQuery(f, kind, persistent)
    PROVE  QuietIsOver'
<1> DEFINE p == FrameProc[f]
<1>1. PICK n : n = nextRequest[p] + 1
  OBVIOUS
<1>2. PICK new : /\ pending' = pending \cup {new}
                 /\ new.key.proc = p /\ new.key.req = n
  <2> DEFINE request == [browser |-> FrameBrowser[f], persistent |-> persistent,
                         key |-> [proc |-> p, ctx |-> contextId'[f], req |-> n]]
  <2>1. pending' = pending \cup {request}
    BY <1>1 DEF SendQuery
  <2>2. request.key.proc = p /\ request.key.req = n
    OBVIOUS
  <2> HIDE DEF request
  <2> QED
    BY <2>1, <2>2
<1>3. quiet' = quiet /\ nextRequest' = [nextRequest EXCEPT ![p] = n]
  BY <1>1 DEF SendQuery, history
<1>4. p \in Procs /\ nextRequest \in [Procs -> Nat]
  BY ConstantsAssumption DEF TypeOK, PageTypeOK
<1>5. \A k \in quiet \cup RequestsIn(pending) : k.proc = p => k.req < n
  BY <1>1, <1>4, ConstantsAssumption
     DEF QuietIsOver, TypeOK, HistoryTypeOK, RequestTypeOK, RequestInfo, RequestsIn, Keys, RequestIds
<1>6. new.key \notin quiet \cup RequestsIn(pending)
  BY <1>1, <1>2, <1>4, <1>5
<1>7. \A r \in pending' : r.key \notin quiet'
  BY <1>2, <1>3, <1>6 DEF QuietIsOver
<1>8. \A r, s \in pending' : r.key = s.key => r = s
  BY <1>2, <1>6 DEF QuietIsOver, RequestsIn
<1>9. \A k \in quiet' \cup RequestsIn(pending)' : k.req <= nextRequest'[k.proc]
  <2> SUFFICES ASSUME NEW k \in quiet' \cup RequestsIn(pending)'
               PROVE  k.req <= nextRequest'[k.proc]
    OBVIOUS
  <2>1. k \in quiet \cup RequestsIn(pending) \/ k = new.key
    BY <1>2, <1>3 DEF RequestsIn
  <2>2. CASE k = new.key
    BY <1>1, <1>2, <1>3, <1>4, <2>2
  <2>3. CASE k \in quiet \cup RequestsIn(pending)
    <3>1. k.proc \in Procs /\ k.req \in Nat
      BY <2>3, ConstantsAssumption
         DEF TypeOK, HistoryTypeOK, RequestTypeOK, RequestInfo, RequestsIn, Keys, RequestIds
    <3>2. k.req <= nextRequest[k.proc]
      BY <2>3 DEF QuietIsOver
    <3> QED
      BY <1>1, <1>3, <1>4, <3>1, <3>2
  <2> QED
    BY <2>1, <2>2, <2>3
<1> QED
  BY <1>7, <1>8, <1>9 DEF QuietIsOver

LEMMA NextQuiet ==
    ASSUME TypeOK, QuietIsOver, [Next]_vars
    PROVE  QuietIsOver'
<1>1. CASE UNCHANGED vars
  BY <1>1, QuietShrinks DEF vars, rendererVars, history
<1>2. ASSUME NEW f \in Frames, Page(f)
      PROVE  QuietIsOver'
  <2>1. ASSUME FrameCreated(f)
        PROVE  QuietIsOver'
    BY <2>1, QuietShrinks DEF FrameCreated, history
  <2>2. ASSUME NEW kind \in Kinds, NEW persistent \in BOOLEAN, SendQuery(f, kind, persistent)
        PROVE  QuietIsOver'
    BY <2>2, SendQueryQuiet
  <2>3. ASSUME NEW req \in 1..nextRequest[FrameProc[f]], CancelRequest(f, req)
        PROVE  QuietIsOver'
    <3>1. PICK ctx : SendCancel(f, ctx, req, {r \in Waiting(f, ctx) : r.key.req = req})
      BY <2>3 DEF CancelRequest
    <3>2. {r \in Waiting(f, ctx) : r.key.req = req} \in SUBSET pending
      BY DEF Waiting
    <3>3. UNCHANGED nextRequest
      BY <2>3 DEF CancelRequest
    <3> QED
      BY <3>1, <3>2, <3>3, SendCancelQuiet
  <2>4. ASSUME ContextReleased(f)
        PROVE  QuietIsOver'
    <3>1. PICK ctx : SendCancel(f, ctx, 0, Waiting(f, ctx))
      BY <2>4 DEF ContextReleased
    <3>2. Waiting(f, ctx) \in SUBSET pending
      BY DEF Waiting
    <3>3. UNCHANGED nextRequest
      BY <2>4 DEF ContextReleased
    <3> QED
      BY <3>1, <3>2, <3>3, SendCancelQuiet
  <2> QED
    BY <1>2, <2>1, <2>2, <2>3, <2>4 DEF Page
<1>3. ASSUME NEW f \in Frames, Delivery(f) \/ BeforeBrowse(f) \/ LoseMessage(f)
      PROVE  QuietIsOver'
  BY <1>3, QuietShrinks DEF Delivery, ReceiveQuery, ReceiveCancel, ReceiveReply,
     BeforeBrowse, LoseMessage, rendererVars, history
<1>4. ASSUME NEW p \in Procs, ExecuteCallback(p) \/ Crash(p)
      PROVE  QuietIsOver'
  BY <1>4, QuietShrinks DEF ExecuteCallback, Crash
<1>5. ASSUME NEW b \in Browsers, Window(b)
      PROVE  QuietIsOver'
  BY <1>5, QuietShrinks DEF Window, AfterCreated, RenderProcessTerminated, BeforeClose,
     rendererVars, history
<1>6. ASSUME NEW j \in jobs, JobDone(j)
      PROVE  QuietIsOver'
  BY <1>6, QuietShrinks DEF JobDone, rendererVars
<1>7. CASE OnCallback
  BY <1>7, QuietShrinks DEF OnCallback, rendererVars, history
<1> QED
  BY <1>1, <1>2, <1>3, <1>4, <1>5, <1>6, <1>7 DEF Next

\* The only step that calls a page back finds its request pending.
LEMMA OnlyPendingIsHeard ==
    ASSUME TypeOK, [Next]_vars, NEW k \in Keys, heard'[k] # heard[k]
    PROVE  k \in RequestsIn(pending)
<1>1. \/ UNCHANGED heard
      \/ \E p \in Procs : ExecuteCallback(p)
  <2>1. ASSUME NEW f \in Frames, Page(f)
        PROVE  UNCHANGED heard
    BY <2>1 DEF Page, FrameCreated, SendQuery, CancelRequest, ContextReleased, history
  <2>2. ASSUME NEW f \in Frames, Delivery(f) \/ BeforeBrowse(f) \/ LoseMessage(f)
        PROVE  UNCHANGED heard
    BY <2>2 DEF Delivery, ReceiveQuery, ReceiveCancel, ReceiveReply, BeforeBrowse,
                LoseMessage, history
  <2>3. ASSUME NEW b \in Browsers, Window(b)
        PROVE  UNCHANGED heard
    BY <2>3 DEF Window, AfterCreated, RenderProcessTerminated, BeforeClose, history
  <2>4. ASSUME NEW p \in Procs, Crash(p)
        PROVE  UNCHANGED heard
    BY <2>4 DEF Crash, history
  <2>5. ASSUME NEW x \in jobs, JobDone(x)
        PROVE  UNCHANGED heard
    BY <2>5 DEF JobDone
  <2>6. OnCallback \/ UNCHANGED vars => UNCHANGED heard
    BY DEF OnCallback, vars, history
  <2> QED
    BY <2>1, <2>2, <2>3, <2>4, <2>5, <2>6 DEF Next
<1> QED
  BY <1>1 DEF ExecuteCallback, RequestsIn, RequestsFor

\* A page is never called back for a request it canceled or whose context was
\* released (NoAnswerAfterCancel), however far the answer had come.
THEOREM SilentAfterCancel == Spec => NoAnswerAfterCancel
<1>1. Init => TypeOK /\ QuietIsOver
  BY InitType DEF Init, QuietIsOver, RequestsIn
<1>2. (TypeOK /\ QuietIsOver) /\ [Next]_vars => (TypeOK /\ QuietIsOver)'
  BY NextType, NextQuiet
<1>3. (TypeOK /\ QuietIsOver) /\ [Next]_vars
        => [\A k \in quiet : heard'[k] = heard[k]]_vars
  BY OnlyPendingIsHeard DEF QuietIsOver, RequestsIn, TypeOK, HistoryTypeOK
<1> QED
  BY <1>1, <1>2, <1>3, PTL DEF Spec, NoAnswerAfterCancel

------------------------------------------------------------------------------
\* The contract of cefQuery: pages, their contexts and what they wait for.

\* A context id is used by one live page at a time and is registered as long.
ContextsOwn ==
    /\ \A f \in Frames : contextId[f] # 0 =>
         /\ frame[f] = "live"
         /\ <<FrameProc[f], contextId[f]>> \in contexts
         /\ contextId[f] <= nextContext[FrameProc[f]]
    /\ \A f, g \in Frames :
         FrameProc[f] = FrameProc[g] /\ contextId[f] = contextId[g] /\ contextId[f] # 0 => f = g

IsPageOf(f, r) == /\ contextId[f] = r.key.ctx
                  /\ FrameProc[f] = r.key.proc
                  /\ FrameBrowser[f] = r.browser

PendingHasPage == \A r \in pending : \E f \in Frames : IsPageOf(f, r)

HeardIsOld == \A k \in Keys : heard[k] # <<>> => k.req <= nextRequest[k.proc]

Pages == ContextsOwn /\ PendingHasPage

LEMMA PagesSame ==
    ASSUME Pages, UNCHANGED <<frame, contextId, contexts, nextContext>>, pending' \subseteq pending
    PROVE  Pages'
  BY DEF Pages, ContextsOwn, PendingHasPage, IsPageOf

LEMMA FrameCreatedPages ==
    ASSUME TypeOK, Pages, NEW f \in Frames, FrameCreated(f)
    PROVE  Pages'
<1>1. UNCHANGED <<contextId, contexts, nextContext, pending>>
  BY DEF FrameCreated, idVars
<1>2. \A g \in Frames : frame[g] = "live" => frame'[g] = "live"
  BY DEF FrameCreated, TypeOK, PageTypeOK
<1> QED
  BY <1>1, <1>2 DEF Pages, ContextsOwn, PendingHasPage, IsPageOf

\* GetIDForContext keeps the ids apart, and the page that uses it has one.
LEMMA GetIDPages ==
    ASSUME TypeOK, Pages, NEW f \in Frames, frame[f] = "live", GetIDForContext(f), UNCHANGED frame
    PROVE  /\ ContextsOwn'
           /\ \A g \in Frames : contextId[g] # 0 => contextId'[g] = contextId[g]
<1> DEFINE p == FrameProc[f]
           c == nextContext[p] + 1
<1>1. CASE contextId[f] # 0 /\ UNCHANGED idVars
  BY <1>1 DEF idVars, Pages, ContextsOwn
<1>2. CASE ~(contextId[f] # 0 /\ UNCHANGED idVars)
  <2>1. /\ contextId[f] = 0
        /\ nextContext' = [nextContext EXCEPT ![p] = c]
        /\ contextId' = [contextId EXCEPT ![f] = c]
        /\ contexts' = contexts \cup {<<p, c>>}
    BY <1>2 DEF GetIDForContext
  <2>2. /\ p \in Procs /\ c \in Nat \ {0} /\ nextContext[p] \in Nat
        /\ nextContext \in [Procs -> Nat] /\ contextId \in [Frames -> Nat]
        /\ \A g \in Frames : FrameProc[g] \in Procs
    BY ConstantsAssumption DEF TypeOK, PageTypeOK
  <2>3. \A g \in Frames : contextId'[g] = IF g = f THEN c ELSE contextId[g]
    BY <2>1, <2>2
  <2>4. \A g \in Frames : FrameProc[g] = p => contextId[g] # c
    <3> SUFFICES ASSUME NEW g \in Frames, FrameProc[g] = p, contextId[g] # 0
                 PROVE  contextId[g] # c
      BY <2>2
    <3>1. contextId[g] <= nextContext[p]
      BY DEF Pages, ContextsOwn
    <3> QED
      BY <2>2, <3>1
  <2>5. \A g \in Frames : nextContext'[FrameProc[g]] = IF FrameProc[g] = p THEN c ELSE nextContext[FrameProc[g]]
    BY <2>1, <2>2
  <2>6. c = nextContext[p] + 1
    OBVIOUS
  <2> HIDE DEF p, c
  <2>7. \A g \in Frames : contextId'[g] # 0 =>
          /\ frame'[g] = "live"
          /\ <<FrameProc[g], contextId'[g]>> \in contexts'
          /\ contextId'[g] <= nextContext'[FrameProc[g]]
    <3> SUFFICES ASSUME NEW g \in Frames, contextId'[g] # 0
                 PROVE  /\ frame'[g] = "live"
                        /\ <<FrameProc[g], contextId'[g]>> \in contexts'
                        /\ contextId'[g] <= nextContext'[FrameProc[g]]
      OBVIOUS
    <3>1. CASE g = f
      BY <2>1, <2>2, <2>3, <2>5, <3>1 DEF p
    <3>2. CASE g # f
      <4>1. /\ contextId[g] # 0 /\ contextId'[g] = contextId[g]
            /\ contextId[g] <= nextContext[FrameProc[g]]
            /\ frame[g] = "live" /\ <<FrameProc[g], contextId[g]>> \in contexts
        BY <2>3, <3>2 DEF Pages, ContextsOwn
      <4> QED
        BY <2>1, <2>2, <2>5, <2>6, <4>1
    <3> QED
      BY <3>1, <3>2
  <2>8. \A g, h \in Frames :
          FrameProc[g] = FrameProc[h] /\ contextId'[g] = contextId'[h] /\ contextId'[g] # 0 => g = h
    BY <2>3, <2>4 DEF p, Pages, ContextsOwn
  <2> QED
    BY <2>1, <2>3, <2>7, <2>8 DEF ContextsOwn
<1> QED
  BY <1>1, <1>2

LEMMA SendQueryPages ==
    ASSUME TypeOK, Pages, NEW f \in Frames, NEW kind, NEW persistent, SendQuery(f, kind, persistent)
    PROVE  Pages'
<1> DEFINE new == [browser |-> FrameBrowser[f], persistent |-> persistent,
                   key |-> [proc |-> FrameProc[f], ctx |-> contextId'[f],
                            req |-> nextRequest[FrameProc[f]] + 1]]
<1>1. ContextsOwn' /\ \A g \in Frames : contextId[g] # 0 => contextId'[g] = contextId[g]
  BY GetIDPages DEF SendQuery
<1>2. pending' = pending \cup {new}
  BY DEF SendQuery
<1>3. contextId'[f] = new.key.ctx /\ FrameProc[f] = new.key.proc /\ FrameBrowser[f] = new.browser
  OBVIOUS
<1>4. \A r \in pending : r.key.ctx # 0
  BY DEF TypeOK, RequestTypeOK, RequestInfo, Keys, ContextIds
<1>5. \A r \in pending : \E g \in Frames : IsPageOf(g, r)'
  BY <1>1, <1>4 DEF Pages, PendingHasPage, IsPageOf
<1> HIDE DEF new
<1>6. PendingHasPage'
  BY <1>2, <1>3, <1>5 DEF PendingHasPage, IsPageOf
<1> QED
  BY <1>1, <1>6 DEF Pages

LEMMA CancelRequestPages ==
    ASSUME TypeOK, Pages, NEW f \in Frames, NEW req, CancelRequest(f, req)
    PROVE  Pages'
<1>1. ContextsOwn' /\ \A g \in Frames : contextId[g] # 0 => contextId'[g] = contextId[g]
  BY GetIDPages DEF CancelRequest
<1>2. pending' \subseteq pending
  BY DEF CancelRequest, SendCancel
<1>3. \A r \in pending : r.key.ctx # 0
  BY DEF TypeOK, RequestTypeOK, RequestInfo, Keys, ContextIds
<1>4. PendingHasPage'
  BY <1>1, <1>2, <1>3 DEF Pages, PendingHasPage, IsPageOf
<1> QED
  BY <1>1, <1>4 DEF Pages

\* Pages that go, with their contexts and all that waits under them.
LEMMA PagesGo ==
    ASSUME TypeOK, Pages, NEW G \in SUBSET Frames, NEW C,
           contextId' = [f \in Frames |-> IF f \in G THEN 0 ELSE contextId[f]],
           UNCHANGED nextContext,
           contexts' = contexts \ C,
           \A f \in Frames \ G : contextId[f] # 0 =>
              frame'[f] = frame[f] /\ <<FrameProc[f], contextId[f]>> \notin C,
           pending' \subseteq pending,
           \A r \in pending', f \in G : ~IsPageOf(f, r)
    PROVE  Pages'
<1>1. \A f \in Frames : contextId'[f] = IF f \in G THEN 0 ELSE contextId[f]
  OBVIOUS
<1>2. ContextsOwn'
  BY <1>1 DEF Pages, ContextsOwn
<1>3. PendingHasPage'
  BY <1>1 DEF Pages, PendingHasPage, IsPageOf
<1> QED
  BY <1>2, <1>3 DEF Pages

LEMMA ContextReleasedPages ==
    ASSUME TypeOK, Pages, NEW f \in Frames, ContextReleased(f)
    PROVE  Pages'
<1> DEFINE C == {<<FrameProc[f], contextId[f]>>}
<1>1. contextId' = [g \in Frames |-> IF g \in {f} THEN 0 ELSE contextId[g]]
  BY DEF ContextReleased, TypeOK, PageTypeOK
<1>2. /\ UNCHANGED nextContext /\ contexts' = contexts \ C
      /\ pending' = pending \ Waiting(f, contextId[f])
  BY DEF ContextReleased, SendCancel
<1>3. \A g \in Frames \ {f} : frame'[g] = frame[g]
  BY DEF ContextReleased, TypeOK, PageTypeOK
<1>4. \A g \in Frames \ {f} : contextId[g] # 0 =>
        frame'[g] = frame[g] /\ <<FrameProc[g], contextId[g]>> \notin C
  BY <1>3 DEF Pages, ContextsOwn
<1>5. \A r \in pending', g \in {f} : ~IsPageOf(g, r)
  BY <1>2 DEF Waiting, IsPageOf
<1>6. {f} \in SUBSET Frames /\ pending' \subseteq pending
  BY <1>2
<1> HIDE DEF C
<1> QED
  BY <1>1, <1>2, <1>4, <1>5, <1>6, PagesGo

LEMMA CrashPages ==
    ASSUME TypeOK, Pages, NEW p \in Procs, Crash(p)
    PROVE  Pages'
<1> DEFINE G == {g \in FramesIn(p) : frame[g] = "live"}
           C == {c \in contexts : c[1] = p}
<1>1. /\ contextId' = [g \in Frames |-> IF g \in G THEN 0 ELSE contextId[g]]
      /\ frame' = [g \in Frames |-> IF g \in G THEN "gone" ELSE frame[g]]
  BY DEF Crash
<1>2. /\ UNCHANGED nextContext /\ contexts' = contexts \ C
      /\ pending' = {r \in pending : r.key.proc # p}
  BY DEF Crash
<1>3. \A g \in Frames \ G : contextId[g] # 0 =>
        frame'[g] = frame[g] /\ <<FrameProc[g], contextId[g]>> \notin C
  BY <1>1 DEF FramesIn, Pages, ContextsOwn
<1>4. \A r \in pending', g \in G : ~IsPageOf(g, r)
  BY <1>2 DEF FramesIn, IsPageOf
<1>5. G \in SUBSET Frames
  BY DEF FramesIn
<1> HIDE DEF C, G
<1> QED
  BY <1>1, <1>2, <1>3, <1>4, <1>5, PagesGo

LEMMA BeforeClosePages ==
    ASSUME TypeOK, Pages, NEW b \in Browsers, BeforeClose(b)
    PROVE  Pages'
<1> DEFINE G == FramesOf(b)
           C == {<<FrameProc[g], contextId[g]>> : g \in G}
<1>1. /\ contextId' = [g \in Frames |-> IF g \in G THEN 0 ELSE contextId[g]]
      /\ frame' = [g \in Frames |-> IF g \in G THEN "gone" ELSE frame[g]]
  BY DEF BeforeClose
<1>2. /\ UNCHANGED nextContext /\ contexts' = contexts \ C
      /\ pending' = {r \in pending : r.browser # b}
  BY DEF BeforeClose
<1>3. \A g \in Frames \ G : contextId[g] # 0 =>
        frame'[g] = frame[g] /\ <<FrameProc[g], contextId[g]>> \notin C
  BY <1>1 DEF FramesOf, Pages, ContextsOwn
<1>4. \A r \in pending', g \in G : ~IsPageOf(g, r)
  BY <1>2 DEF FramesOf, IsPageOf
<1>5. G \in SUBSET Frames
  BY DEF FramesOf
<1> HIDE DEF C, G
<1> QED
  BY <1>1, <1>2, <1>3, <1>4, <1>5, PagesGo

LEMMA NextPages ==
    ASSUME TypeOK, Pages, [Next]_vars
    PROVE  Pages'
<1>1. CASE UNCHANGED vars
  BY <1>1, PagesSame DEF vars, rendererVars, idVars
<1>2. ASSUME NEW f \in Frames, Page(f)
      PROVE  Pages'
  BY <1>2, FrameCreatedPages, SendQueryPages, CancelRequestPages, ContextReleasedPages DEF Page
<1>3. ASSUME NEW f \in Frames, Delivery(f) \/ BeforeBrowse(f) \/ LoseMessage(f)
      PROVE  Pages'
  BY <1>3, PagesSame DEF Delivery, ReceiveQuery, ReceiveCancel, ReceiveReply,
     BeforeBrowse, LoseMessage, rendererVars, idVars
<1>4. ASSUME NEW p \in Procs, ExecuteCallback(p) \/ Crash(p)
      PROVE  Pages'
  BY <1>4, PagesSame, CrashPages DEF ExecuteCallback, idVars
<1>5. ASSUME NEW b \in Browsers, Window(b)
      PROVE  Pages'
  BY <1>5, PagesSame, BeforeClosePages DEF Window, AfterCreated, RenderProcessTerminated,
     rendererVars, idVars
<1>6. ASSUME (\E j \in jobs : JobDone(j)) \/ OnCallback
      PROVE  Pages'
  BY <1>6, PagesSame DEF JobDone, OnCallback, rendererVars, idVars
<1> QED
  BY <1>1, <1>2, <1>3, <1>4, <1>5, <1>6 DEF Next

------------------------------------------------------------------------------
\* The contract of cefQuery: every step is one of Query.

\* What pages heard belongs to requests that were made.
LEMMA HeardStaysOld ==
    ASSUME TypeOK, QuietIsOver, HeardIsOld, [Next]_vars
    PROVE  HeardIsOld'
<1>1. \A p \in Procs : nextRequest[p] \in Nat /\ nextRequest'[p] \in Nat /\ nextRequest[p] <= nextRequest'[p]
  <2>1. nextRequest \in [Procs -> 0..MaxRequest] /\ MaxRequest \in Nat
    BY ConstantsAssumption DEF TypeOK, PageTypeOK
  <2>2. \/ UNCHANGED nextRequest
        \/ \E f \in Frames, kind \in Kinds, persistent \in BOOLEAN : SendQuery(f, kind, persistent)
    BY DEF Next, vars, Page, Delivery, Window, FrameCreated, CancelRequest, ContextReleased,
           ReceiveQuery, ReceiveCancel, ReceiveReply, BeforeBrowse, LoseMessage,
           ExecuteCallback, Crash, AfterCreated, RenderProcessTerminated, BeforeClose,
           JobDone, OnCallback, rendererVars
  <2>3. CASE UNCHANGED nextRequest
    BY <2>1, <2>3
  <2>4. ASSUME NEW f \in Frames, NEW kind, NEW persistent, SendQuery(f, kind, persistent)
        PROVE  \A p \in Procs : nextRequest[p] \in Nat /\ nextRequest'[p] \in Nat /\ nextRequest[p] <= nextRequest'[p]
    <3>1. PICK q \in Procs : q = FrameProc[f]
      BY ConstantsAssumption
    <3>2. \A p \in Procs : nextRequest'[p] = IF p = q THEN nextRequest[q] + 1 ELSE nextRequest[p]
      BY <2>1, <2>4, <3>1 DEF SendQuery
    <3> QED
      BY <2>1, <3>2
  <2> QED
    BY <2>2, <2>3, <2>4
<1>2. ASSUME NEW k \in Keys, heard'[k] # <<>>
      PROVE  k.req <= nextRequest[k.proc]
  <2>1. CASE heard'[k] = heard[k]
    BY <1>2, <2>1 DEF HeardIsOld
  <2>2. CASE heard'[k] # heard[k]
    <3>1. k \in RequestsIn(pending)
      BY <2>2, OnlyPendingIsHeard
    <3> QED
      BY <3>1 DEF QuietIsOver
  <2> QED
    BY <2>1, <2>2
<1>3. ASSUME NEW k \in Keys, heard'[k] # <<>>
      PROVE  k.req <= nextRequest'[k.proc]
  <2>1. k.proc \in Procs /\ k.req \in Nat
    BY DEF Keys, RequestIds
  <2> QED
    BY <1>1, <1>2, <1>3, <2>1
<1> QED
  BY <1>3 DEF HeardIsOld

LEMMA SameRequests ==
    ASSUME UNCHANGED <<pending, quiet, heard>>
    PROVE  UNCHANGED Request!vars
  BY DEF Request!vars, RequestState

\* The steps that only take requests away.
LEMMA RequestsGivenUp ==
    ASSUME TypeOK, QuietIsOver, UNCHANGED heard, pending' \subseteq pending,
           quiet' = quiet \cup RequestsIn(pending \ pending')
    PROVE  Request!Next
<1> DEFINE Gone == RequestsIn(pending \ pending')
<1>1. \A k \in Gone : k \in Keys /\ k \notin quiet /\ \E r \in pending : r.key = k
  BY DEF RequestsIn, TypeOK, RequestTypeOK, RequestInfo, QuietIsOver
<1>2. \A k \in Gone : RequestState(k) \in {"once", "always"}
  BY <1>1 DEF RequestState
<1>3. \A k \in Keys : RequestState(k)' = IF k \in Gone THEN "over" ELSE RequestState(k)
  <2> SUFFICES ASSUME NEW k \in Keys
               PROVE  RequestState(k)' = IF k \in Gone THEN "over" ELSE RequestState(k)
    OBVIOUS
  <2>1. CASE k \in Gone
    <3>1. k \in quiet'
      BY <2>1
    <3> QED
      BY <2>1, <3>1 DEF RequestState
  <2>2. CASE k \notin Gone
    <3>1. k \in quiet' <=> k \in quiet
      BY <2>2
    <3>2. \A r \in pending : r.key = k => r \in pending'
      BY <2>2 DEF RequestsIn
    <3> QED
      BY <2>2, <3>1, <3>2 DEF RequestState
  <2> QED
    BY <2>1, <2>2
<1>4. Gone \in SUBSET Keys
  BY <1>1
<1> HIDE DEF Gone
<1>5. Request!GiveUp(Gone)
  BY <1>2, <1>3, <1>4 DEF Request!GiveUp, Request!IsWaiting
<1> QED
  BY <1>4, <1>5 DEF Request!Next

LEMMA SendQueryAsks ==
    ASSUME TypeOK, QuietIsOver, HeardIsOld, NEW f \in Frames, NEW kind,
           NEW persistent \in BOOLEAN, SendQuery(f, kind, persistent)
    PROVE  Request!Next
<1> DEFINE k == [proc |-> FrameProc[f], ctx |-> contextId'[f],
                 req |-> nextRequest[FrameProc[f]] + 1]
           how == IF persistent THEN "always" ELSE "once"
<1>1. UNCHANGED <<quiet, heard>>
  BY DEF SendQuery, history
<1>2. PICK new : /\ pending' = pending \cup {new}
                 /\ new.key = k /\ new.persistent = persistent
  <2> DEFINE request == [browser |-> FrameBrowser[f], persistent |-> persistent, key |-> k]
  <2>1. pending' = pending \cup {request}
    BY DEF SendQuery
  <2>2. request.key = k /\ request.persistent = persistent
    OBVIOUS
  <2> HIDE DEF request, k
  <2> QED
    BY <2>1, <2>2
<1>3. k \in Keys
  <2>1. contextId'[f] \in ContextIds
    BY GetIDType DEF SendQuery, TypeOK
  <2>2. FrameProc[f] \in Procs /\ nextRequest[FrameProc[f]] + 1 \in RequestIds
    BY ConstantsAssumption DEF SendQuery, TypeOK, PageTypeOK, RequestIds
  <2> QED
    BY <2>1, <2>2 DEF Keys
<1>4. k \notin quiet \cup RequestsIn(pending) /\ heard[k] = <<>>
  <2>1. k.req = nextRequest[k.proc] + 1 /\ nextRequest[k.proc] \in Nat
    BY ConstantsAssumption DEF TypeOK, PageTypeOK
  <2> HIDE DEF k
  <2>2. ~(k.req <= nextRequest[k.proc])
    BY <2>1
  <2> QED
    BY <1>3, <2>2 DEF QuietIsOver, HeardIsOld
<1>5. RequestState(k) = "new"
  BY <1>4 DEF RequestState, RequestsIn
<1> HIDE DEF k
<1>6. \A j \in Keys : RequestState(j)' = IF j = k THEN how ELSE RequestState(j)
  <2> SUFFICES ASSUME NEW j \in Keys
               PROVE  RequestState(j)' = IF j = k THEN how ELSE RequestState(j)
    OBVIOUS
  <2>1. CASE j = k
    <3>1. \A r \in pending' : r.key = k => r = new
      BY <1>2, <1>4 DEF RequestsIn
    <3>2. new \in pending' /\ k \notin quiet'
      BY <1>1, <1>2, <1>4
    <3> QED
      BY <1>2, <2>1, <3>1, <3>2 DEF RequestState
  <2>2. CASE j # k
    <3>1. (\E r \in pending' : r.key = j) <=> (\E r \in pending : r.key = j)
      BY <1>2, <2>2
    <3>2. (\E r \in pending' : r.key = j /\ r.persistent) <=> (\E r \in pending : r.key = j /\ r.persistent)
      BY <1>2, <2>2
    <3> QED
      BY <1>1, <2>2, <3>1, <3>2 DEF RequestState
  <2> QED
    BY <2>1, <2>2
<1>7. how \in {"once", "always"}
  OBVIOUS
<1> HIDE DEF how
<1>8. Request!Ask(k)
  BY <1>1, <1>3, <1>5, <1>6, <1>7 DEF Request!Ask
<1> QED
  BY <1>3, <1>8 DEF Request!Next

LEMMA AnswersAreBoolean == \A r \in Replies : r.answer \in Answers /\ r.answer.ok \in BOOLEAN
<1>1. \A a \in Answers : a.ok \in BOOLEAN
  <2>1. ASSUME NEW a \in Answers
        PROVE  a = Succeeded \/ \E c \in Int : a = Failed(c)
    BY DEF Answers, Canceled
  <2>2. Succeeded.ok = TRUE
    BY DEF Succeeded
  <2>3. \A c \in Int : Failed(c).ok = FALSE
    BY DEF Failed
  <2> QED
    BY <2>1, <2>2, <2>3
<1>2. \A r \in Replies : r.answer \in Answers
  BY DEF Replies
<1> QED
  BY <1>1, <1>2

\* The sequence of what was heard, as Query records it.
LEMMA AppendAnswer ==
    ASSUME NEW s \in Seq(Replies), NEW r \in Replies
    PROVE  [i \in DOMAIN Append(s, r) |-> Append(s, r)[i].answer.ok]
             = Append([i \in DOMAIN s |-> s[i].answer.ok], r.answer.ok)
<1> DEFINE oks == [i \in DOMAIN s |-> s[i].answer.ok]
           lhs == [i \in DOMAIN Append(s, r) |-> Append(s, r)[i].answer.ok]
<1>1. DOMAIN s = 1..Len(s) /\ Len(s) \in Nat /\ \A i \in DOMAIN s : s[i] \in Replies
  OBVIOUS
<1>2. \A q \in Replies : q.answer.ok \in BOOLEAN
  BY AnswersAreBoolean
<1>3. oks \in Seq(BOOLEAN) /\ Len(oks) = Len(s)
  <2>1. oks \in [1..Len(s) -> BOOLEAN]
    BY <1>1, <1>2
  <2> HIDE DEF oks
  <2> QED
    BY <1>1, <2>1
<1>4. DOMAIN Append(s, r) = 1..(Len(s) + 1)
      /\ \A i \in 1..(Len(s) + 1) : Append(s, r)[i] = IF i <= Len(s) THEN s[i] ELSE r
  BY <1>1
<1>5. DOMAIN lhs = 1..(Len(s) + 1)
      /\ \A i \in 1..(Len(s) + 1) : lhs[i] = IF i <= Len(s) THEN s[i].answer.ok ELSE r.answer.ok
  BY <1>4
<1>6. \A i \in 1..Len(s) : oks[i] = s[i].answer.ok
  BY <1>1
<1>7. lhs = [i \in 1..(Len(s) + 1) |-> lhs[i]]
  BY <1>5
<1> HIDE DEF lhs, oks
<1>8. DOMAIN Append(oks, r.answer.ok) = 1..(Len(s) + 1)
      /\ \A i \in 1..(Len(s) + 1) : Append(oks, r.answer.ok)[i] = IF i <= Len(s) THEN oks[i] ELSE r.answer.ok
  BY <1>1, <1>2, <1>3
<1>9. \A i \in 1..(Len(s) + 1) : lhs[i] = Append(oks, r.answer.ok)[i]
  BY <1>1, <1>5, <1>6, <1>8
<1>10. Append(oks, r.answer.ok) = [i \in 1..(Len(s) + 1) |-> Append(oks, r.answer.ok)[i]]
  BY <1>3, <1>8, <1>2
<1>11. lhs = Append(oks, r.answer.ok)
  BY <1>7, <1>9, <1>10
<1> QED
  BY <1>11 DEF lhs, oks

LEMMA ExecuteCallbackHears ==
    ASSUME TypeOK, QuietIsOver, Pages, NEW p \in Procs, ExecuteCallback(p)
    PROVE  Request!Next \/ UNCHANGED Request!vars
<1>1. PICK t : t = Head(rendererTasks[p]) /\ t \in RendererTasks
  BY DEF ExecuteCallback, TypeOK, RequestTypeOK
<1> DEFINE ok == t.reply.answer.ok
           R == RequestsFor(p, t)
<1>2. /\ pending' = {r \in pending : r \in R => RequestStays(r, t.reply.answer)}
      /\ heard' = [k \in Keys |-> IF k \in RequestsIn(R) /\ <<p, k.ctx>> \in contexts
                                    THEN Append(heard[k], t.reply) ELSE heard[k]]
      /\ UNCHANGED quiet
  BY <1>1 DEF ExecuteCallback
<1>3. heard \in [Keys -> Seq(Replies)] /\ t.reply \in Replies /\ ok \in BOOLEAN
  BY <1>1, AnswersAreBoolean DEF TypeOK, HistoryTypeOK, RendererTasks
<1>4. CASE R = {}
  <2>1. pending' = pending
    BY <1>2, <1>4
  <2>2. heard' = heard
    BY <1>2, <1>3, <1>4 DEF RequestsIn
  <2> QED
    BY <1>2, <2>1, <2>2, SameRequests
<1>5. CASE R # {}
  <2>1. PICK r \in pending : r \in R
    BY <1>5 DEF RequestsFor
  <2>2. PICK k \in Keys : k = r.key /\ k.proc = p /\ k \notin quiet
    BY <2>1 DEF RequestsFor, TypeOK, RequestTypeOK, RequestInfo, QuietIsOver
  <2>3. \A q \in pending : q.key = k => q = r
    BY <2>2 DEF QuietIsOver
  <2>4. \A q \in R : q = r
    BY <2>1, <2>2, <2>3 DEF RequestsFor
  <2>5. <<p, k.ctx>> \in contexts
    <3>1. PICK f \in Frames : IsPageOf(f, r)
      BY DEF Pages, PendingHasPage
    <3>2. k.ctx # 0
      BY DEF Keys, ContextIds
    <3> QED
      BY <2>2, <3>1, <3>2 DEF IsPageOf, Pages, ContextsOwn
  <2>6. RequestsIn(R) = {k}
    BY <2>1, <2>2, <2>4 DEF RequestsIn
  <2>7. heard' = [heard EXCEPT ![k] = Append(@, t.reply)]
    BY <1>2, <1>3, <2>5, <2>6
  <2>8. pending' = IF ok /\ r.persistent THEN pending ELSE pending \ {r}
    BY <1>2, <2>1, <2>4 DEF RequestStays
  <2>9. r.persistent \in BOOLEAN
    BY DEF TypeOK, RequestTypeOK, RequestInfo
  <2>10. RequestState(k) = IF r.persistent THEN "always" ELSE "once"
    BY <2>2, <2>3, <2>9 DEF RequestState
  <2>11. \A j \in Keys : RequestState(j)' =
           IF j = k THEN IF ok /\ RequestState(k) = "always" THEN RequestState(k) ELSE "over"
           ELSE RequestState(j)
    <3> SUFFICES ASSUME NEW j \in Keys
                 PROVE  RequestState(j)' =
                          IF j = k THEN IF ok /\ RequestState(k) = "always" THEN RequestState(k) ELSE "over"
                          ELSE RequestState(j)
      OBVIOUS
    <3>1. CASE j = k /\ ok /\ r.persistent
      <4>1. pending' = pending /\ k \notin quiet'
        BY <1>2, <2>2, <2>8, <3>1
      <4>2. RequestState(k)' = "always"
        BY <2>2, <3>1, <4>1 DEF RequestState
      <4> QED
        BY <2>10, <3>1, <4>2
    <3>2. CASE j = k /\ ~(ok /\ r.persistent)
      <4>1. ~\E q \in pending' : q.key = k
        BY <2>3, <2>8, <3>2
      <4>2. heard'[k] # <<>>
        BY <1>3, <2>7
      <4>3. RequestState(k)' = "over"
        BY <1>2, <2>2, <4>1, <4>2 DEF RequestState
      <4> QED
        BY <2>10, <3>2, <4>3
    <3>3. CASE j # k
      <4>1. \A q : q.key = j => (q \in pending' <=> q \in pending)
        BY <2>2, <2>8, <3>3
      <4>2. heard'[j] = heard[j] /\ (j \in quiet' <=> j \in quiet)
        BY <1>2, <1>3, <2>7, <3>3
      <4>3. RequestState(j)' = RequestState(j)
        BY <4>1, <4>2 DEF RequestState
      <4> QED
        BY <3>3, <4>3
    <3> QED
      BY <3>1, <3>2, <3>3
  <2> DEFINE oks(h) == [i \in DOMAIN h |-> h[i].answer.ok]
  <2>12. oks(heard'[k]) = Append(oks(heard[k]), ok)
    BY <1>3, <2>7, AppendAnswer
  <2>13. \A j \in Keys : j # k => heard'[j] = heard[j]
    BY <1>3, <2>7
  <2> HIDE DEF ok
  <2>14. [j \in Keys |-> oks(heard'[j])] = [[j \in Keys |-> oks(heard[j])] EXCEPT ![k] = Append(@, ok)]
    BY <2>12, <2>13
  <2>15. [j \in Keys |-> RequestState(j)'] =
           [[j \in Keys |-> RequestState(j)] EXCEPT ![k] = IF ok /\ @ = "always" THEN @ ELSE "over"]
    BY <2>11
  <2>16. RequestState(k) \in {"once", "always"}
    BY <2>9, <2>10
  <2>17. Request!Hear(k, ok)
    BY <2>14, <2>15, <2>16 DEF Request!Hear, Request!IsWaiting
  <2> QED
    BY <1>3, <2>17 DEF Request!Next
<1> QED
  BY <1>4, <1>5

LEMMA NextRequests ==
    ASSUME TypeOK, QuietIsOver, HeardIsOld, Pages, [Next]_vars
    PROVE  [Request!Next]_(Request!vars)
<1>1. CASE UNCHANGED vars
  BY <1>1, SameRequests DEF vars, rendererVars, history
<1>2. ASSUME NEW f \in Frames, Page(f)
      PROVE  Request!Next \/ UNCHANGED Request!vars
  <2>1. ASSUME FrameCreated(f)
        PROVE  UNCHANGED Request!vars
    BY <2>1, SameRequests DEF FrameCreated, history
  <2>2. ASSUME NEW kind \in Kinds, NEW persistent \in BOOLEAN, SendQuery(f, kind, persistent)
        PROVE  Request!Next
    BY <2>2, SendQueryAsks
  <2>3. ASSUME NEW req \in 1..nextRequest[FrameProc[f]], CancelRequest(f, req)
        PROVE  Request!Next
    <3>1. PICK Gone \in SUBSET pending :
            pending' = pending \ Gone /\ quiet' = quiet \cup RequestsIn(Gone)
      BY <2>3 DEF CancelRequest, SendCancel, Waiting
    <3>2. pending \ pending' = Gone /\ heard' = heard
      BY <2>3, <3>1 DEF CancelRequest
    <3> QED
      BY <3>1, <3>2, RequestsGivenUp
  <2>4. ASSUME ContextReleased(f)
        PROVE  Request!Next
    <3>1. PICK Gone \in SUBSET pending :
            pending' = pending \ Gone /\ quiet' = quiet \cup RequestsIn(Gone)
      BY <2>4 DEF ContextReleased, SendCancel, Waiting
    <3>2. pending \ pending' = Gone /\ heard' = heard
      BY <2>4, <3>1 DEF ContextReleased
    <3> QED
      BY <3>1, <3>2, RequestsGivenUp
  <2> QED
    BY <1>2, <2>1, <2>2, <2>3, <2>4 DEF Page
<1>3. ASSUME NEW f \in Frames, Delivery(f) \/ BeforeBrowse(f) \/ LoseMessage(f)
      PROVE  UNCHANGED Request!vars
  BY <1>3, SameRequests DEF Delivery, ReceiveQuery, ReceiveCancel, ReceiveReply,
     BeforeBrowse, LoseMessage, rendererVars, history
<1>4. ASSUME NEW p \in Procs, Crash(p)
      PROVE  Request!Next
  BY <1>4, RequestsGivenUp DEF Crash
<1>5. ASSUME NEW b \in Browsers, Window(b)
      PROVE  Request!Next \/ UNCHANGED Request!vars
  <2>1. ASSUME AfterCreated(b) \/ RenderProcessTerminated(b)
        PROVE  UNCHANGED Request!vars
    BY <2>1, SameRequests DEF AfterCreated, RenderProcessTerminated, rendererVars, history
  <2>2. ASSUME BeforeClose(b)
        PROVE  Request!Next
    BY <2>2, RequestsGivenUp DEF BeforeClose
  <2> QED
    BY <1>5, <2>1, <2>2 DEF Window
<1>6. ASSUME (\E j \in jobs : JobDone(j)) \/ OnCallback
      PROVE  UNCHANGED Request!vars
  BY <1>6, SameRequests DEF JobDone, OnCallback, rendererVars, history
<1> QED
  BY <1>1, <1>2, <1>3, <1>4, <1>5, <1>6, ExecuteCallbackHears DEF Next

LEMMA InitRequests == Init => Request!Init
<1> SUFFICES ASSUME Init PROVE Request!Init
  OBVIOUS
<1>1. \A k \in Keys : RequestState(k) = "new" /\ heard[k] = <<>>
  BY DEF Init, RequestState
<1>2. [i \in DOMAIN <<>> |-> <<>>[i].answer.ok] = <<>>
  OBVIOUS
<1> QED
  BY <1>1, <1>2 DEF Request!Init

\* The routers keep the contract of cefQuery (KeepsQueryContract) for any number
\* of browsers, processes, frames and requests, and whatever messages are lost:
\* each request waits, hears what it should and is silent afterwards.
THEOREM QueryContractIsKept == Spec => KeepsQueryContract
<1> DEFINE Inv == TypeOK /\ QuietIsOver /\ HeardIsOld /\ Pages
<1>1. Init => Inv
  <2>1. Init => QuietIsOver /\ HeardIsOld
    BY DEF Init, QuietIsOver, RequestsIn, HeardIsOld
  <2>2. Init => Pages
    BY DEF Init, Pages, ContextsOwn, PendingHasPage
  <2> QED
    BY <2>1, <2>2, InitType
<1>2. Inv /\ [Next]_vars => Inv'
  BY NextType, NextQuiet, HeardStaysOld, NextPages
<1>3. Inv /\ [Next]_vars => [Request!Next]_(Request!vars)
  BY NextRequests
<1> HIDE DEF Inv
<1>4. Init /\ [][Next]_vars => Request!Init /\ [][Request!Next]_(Request!vars)
  BY <1>1, <1>2, <1>3, InitRequests, PTL
<1> QED
  BY <1>4 DEF Spec, KeepsQueryContract, Request!Spec

------------------------------------------------------------------------------
\* The router and the windows.

\* Only a query and the windows that come and go let the router have more queries, or
\* come and go itself.
LEMMA RouterSteps ==
    ASSUME [Next]_vars
    PROVE  \/ \E f \in Frames : ReceiveQuery(f)
           \/ \E b \in Browsers : AfterCreated(b) \/ BeforeClose(b)
           \/ UNCHANGED <<browser, router>> /\ queries' \subseteq queries
<1>1. ASSUME NEW f \in Frames, Page(f) \/ ReceiveReply(f) \/ LoseMessage(f)
      PROVE  UNCHANGED <<browser, router>> /\ queries' \subseteq queries
  <2>1. CASE Page(f)
    BY <2>1 DEF Page, FrameCreated, SendQuery, CancelRequest, ContextReleased, browserVars,
                routerVars
  <2>2. CASE ReceiveReply(f) \/ LoseMessage(f)
    BY <2>2 DEF ReceiveReply, LoseMessage, browserVars, routerVars
  <2> QED
    BY <1>1, <2>1, <2>2
<1>2. ASSUME NEW f \in Frames, ReceiveCancel(f) \/ BeforeBrowse(f)
      PROVE  UNCHANGED <<browser, router>> /\ queries' \subseteq queries
  <2>1. CASE ReceiveCancel(f)
    BY <2>1 DEF ReceiveCancel, CancelQueries, browserVars
  <2>2. CASE BeforeBrowse(f)
    BY <2>2 DEF BeforeBrowse, CancelQueries, browserVars
  <2> QED
    BY <1>2, <2>1, <2>2
<1>3. ASSUME NEW p \in Procs, ExecuteCallback(p) \/ Crash(p)
      PROVE  UNCHANGED <<browser, router>> /\ queries' \subseteq queries
  BY <1>3 DEF ExecuteCallback, Crash, browserVars, routerVars
<1>4. ASSUME NEW b \in Browsers, RenderProcessTerminated(b)
      PROVE  UNCHANGED <<browser, router>> /\ queries' \subseteq queries
  BY <1>4 DEF RenderProcessTerminated, CancelQueries, browserVars
<1>5. ASSUME NEW j \in jobs, JobDone(j)
      PROVE  UNCHANGED <<browser, router>> /\ queries' \subseteq queries
  BY <1>5 DEF JobDone, browserVars
<1>6. ASSUME OnCallback
       PROVE  UNCHANGED <<browser, router>> /\ queries' \subseteq queries
  BY <1>6 DEF OnCallback, browserVars
<1>7. ASSUME UNCHANGED vars
       PROVE  UNCHANGED <<browser, router>> /\ queries' \subseteq queries
  BY <1>7 DEF vars, browserVars, routerVars
<1> QED
  BY <1>1, <1>2, <1>3, <1>4, <1>5, <1>6, <1>7 DEF Next, Delivery, Window

------------------------------------------------------------------------------
\* Queries, their callbacks and the answers posted for them.

\* Task t ends query q, or would use up callback q.
Ends(t, q) == t.query = q.query /\ ~(t.answer.ok /\ q.persistent)

QueryIds ==
    /\ \A q \in queries : q.query \in 1..Len(asked) /\ q.query \notin CanceledIds
    /\ \A q, s \in queries : q.query = s.query => q = s
    /\ \A i \in CanceledIds : i \in 1..Len(asked)
    /\ \A t \in Items(uiTasks) : t.query \in 1..Len(asked)

\* A callback is good as long as no answer that ends its query is posted, and a
\* query without callback has such an answer coming.
CallbacksOwn ==
    /\ \A c \in callbacks : \E q \in queries : q.query = c.query /\ q.persistent = c.persistent
    /\ \A c \in callbacks : \A t \in Items(uiTasks) : ~Ends(t, c)
    /\ \A q \in queries : \/ \E c \in callbacks : c.query = q.query
                          \/ \E t \in Items(uiTasks) : Ends(t, q)

RouterIsUp ==
    /\ \A b \in Browsers : browser[b] = "open" => router = "up"
    /\ router # "up" => queries = {}

QueryInvariant == QueryIds /\ CallbacksOwn

LEMMA SameQueries ==
    ASSUME QueryInvariant, UNCHANGED <<queries, callbacks, uiTasks, asked, canceled>>
    PROVE  QueryInvariant'
  BY DEF QueryInvariant, QueryIds, CallbacksOwn, CanceledIds, Items, Ends

LEMMA CancelQueriesKeeps ==
    ASSUME QueryInvariant, UNCHANGED <<uiTasks, asked>>,
           NEW S \in SUBSET queries, NEW why, CancelQueries(S, why)
    PROVE  QueryInvariant'
<1> DEFINE ids == {q.query : q \in S}
<1>1. /\ queries' = queries \ S
      /\ callbacks' = {c \in callbacks : c.query \notin ids}
      /\ CanceledIds' = CanceledIds \cup ids
  <2>1. canceled' = canceled \cup {[query |-> i, why |-> why] : i \in ids}
    BY DEF CancelQueries
  <2>2. CanceledIds' = {c.query : c \in canceled'}
    BY DEF CanceledIds
  <2>3. CanceledIds' = CanceledIds \cup ids
    <3> HIDE DEF ids
    <3>1. \A i \in ids : [query |-> i, why |-> why] \in canceled'
      BY <2>1
    <3>2. ids \subseteq CanceledIds'
      <4> SUFFICES ASSUME NEW i \in ids PROVE i \in CanceledIds'
        OBVIOUS
      <4>1. PICK c \in canceled' : c = [query |-> i, why |-> why]
        BY <3>1
      <4> QED
        BY <2>2, <4>1
    <3>3. CanceledIds \subseteq CanceledIds'
      BY <2>1, <2>2 DEF CanceledIds
    <3>4. CanceledIds' \subseteq CanceledIds \cup ids
      <4> SUFFICES ASSUME NEW c \in canceled' PROVE c.query \in CanceledIds \cup ids
        BY <2>2
      <4> QED
        BY <2>1 DEF CanceledIds
    <3> QED
      BY <3>2, <3>3, <3>4
  <2> QED
    BY <2>3 DEF CancelQueries
<1>2. \A q \in queries : q.query \in ids <=> q \in S
  BY DEF QueryInvariant, QueryIds
<1>3. \A i \in ids : i \in 1..Len(asked)
  BY DEF QueryInvariant, QueryIds
<1> HIDE DEF ids
<1>4. Items(uiTasks)' = Items(uiTasks)
  BY DEF Items
<1>5. QueryIds'
  <2>1. asked' = asked
    OBVIOUS
  <2>2. \A q \in queries' : q.query \in 1..Len(asked') /\ q.query \notin CanceledIds'
    BY <1>1, <1>2, <2>1 DEF QueryInvariant, QueryIds
  <2>3. \A q, s \in queries' : q.query = s.query => q = s
    BY <1>1 DEF QueryInvariant, QueryIds
  <2>4. \A i \in CanceledIds' : i \in 1..Len(asked')
    BY <1>1, <1>3, <2>1 DEF QueryInvariant, QueryIds
  <2>5. \A t \in Items(uiTasks)' : t.query \in 1..Len(asked')
    BY <1>4, <2>1 DEF QueryInvariant, QueryIds
  <2> QED
    BY <2>2, <2>3, <2>4, <2>5 DEF QueryIds
<1>6. CallbacksOwn'
  <2>1. \A c \in callbacks' : \E q \in queries' : q.query = c.query /\ q.persistent = c.persistent
    BY <1>1, <1>2 DEF QueryInvariant, CallbacksOwn
  <2>2. \A c \in callbacks' : \A t \in Items(uiTasks) : ~Ends(t, c)
    BY <1>1 DEF QueryInvariant, CallbacksOwn
  <2>3. \A q \in queries' : \/ \E c \in callbacks' : c.query = q.query
                            \/ \E t \in Items(uiTasks) : Ends(t, q)
    BY <1>1, <1>2 DEF QueryInvariant, CallbacksOwn
  <2> QED
    BY <1>4, <2>1, <2>2, <2>3 DEF CallbacksOwn, Ends
<1> QED
  BY <1>5, <1>6 DEF QueryInvariant

\* The tasks after an answer was posted, or not.
LEMMA PostItems ==
    ASSUME TypeOK, NEW query, NEW answer, uiTasks' = Post(query, answer)
    PROVE  Items(uiTasks)' = Items(uiTasks)
             \cup (IF answer = NoAnswer THEN {} ELSE {[query |-> query, answer |-> answer]})
<1> DEFINE t == [query |-> query, answer |-> answer]
<1>1. uiTasks' = IF answer = NoAnswer THEN uiTasks ELSE Append(uiTasks, t)
  BY DEF Post
<1> HIDE DEF t
<1>2. Items(Append(uiTasks, t)) = Items(uiTasks) \cup {t}
  BY AppendItems DEF TypeOK, BrowserTypeOK
<1>3. Items(uiTasks)' = Items(uiTasks')
  BY DEF Items
<1>4. Items(uiTasks)' = Items(uiTasks) \cup (IF answer = NoAnswer THEN {} ELSE {t})
  BY <1>1, <1>2, <1>3
<1> QED
  BY <1>4 DEF t

LEMMA JobDoneKeeps ==
    ASSUME TypeOK, QueryInvariant, NEW j \in jobs, JobDone(j)
    PROVE  QueryInvariant'
<1> DEFINE cb == {c \in callbacks : c.query = j.query}
<1>1. UNCHANGED <<queries, asked, canceled>>
  BY DEF JobDone
<1>2. CASE cb = {}
  BY <1>1, <1>2, SameQueries DEF JobDone
<1>3. CASE cb # {}
  <2>1. PICK answer \in JobAnswers(j.kind) :
          /\ uiTasks' = Post(j.query, answer)
          /\ callbacks' = {c \in callbacks : c \in cb => StaysAttached(c.persistent, answer)}
    BY <1>3 DEF JobDone
  <2> DEFINE t == [query |-> j.query, answer |-> answer]
  <2>2. answer # NoAnswer
    BY DEF JobAnswers, NoAnswer, Succeeded, Failed
  <2>3. Items(uiTasks)' = Items(uiTasks) \cup {t}
    BY <2>1, <2>2, PostItems
  <2>4. t.query = j.query /\ t.answer = answer
    OBVIOUS
  <2> HIDE DEF t
  <2>5. PICK c \in callbacks, q \in queries :
          c.query = j.query /\ q.query = c.query /\ q.persistent = c.persistent
    BY <1>3 DEF QueryInvariant, CallbacksOwn
  <2>6. \A s \in queries : s.query = j.query => s = q
    BY <2>5 DEF QueryInvariant, QueryIds
  <2>7. QueryIds'
    <3>1. t.query \in 1..Len(asked)
      BY <2>4, <2>5 DEF QueryInvariant, QueryIds
    <3> QED
      BY <1>1, <2>3, <3>1 DEF QueryInvariant, QueryIds, CanceledIds
  <2>8. \A d \in callbacks : d.query = j.query => (d \in callbacks' <=> answer.ok /\ q.persistent)
    <3> TAKE d \in callbacks
    <3> HAVE d.query = j.query
    <3>1. d.persistent = q.persistent
      BY <2>6 DEF QueryInvariant, CallbacksOwn
    <3> QED
      BY <2>1, <2>2, <3>1 DEF StaysAttached
  <2>9. \A d \in callbacks : d.query # j.query => d \in callbacks'
    BY <2>1
  <2>10. callbacks' \subseteq callbacks
    BY <2>1
  <2> HIDE DEF cb
  <2>11. \A d \in callbacks' : \E s \in queries' : s.query = d.query /\ s.persistent = d.persistent
    BY <1>1, <2>10 DEF QueryInvariant, CallbacksOwn
  <2>12. \A d \in callbacks' : \A u \in Items(uiTasks)' : ~Ends(u, d)
    <3> TAKE d \in callbacks'
    <3>1. \A u \in Items(uiTasks) : ~Ends(u, d)
      BY <2>10 DEF QueryInvariant, CallbacksOwn
    <3>2. ~Ends(t, d)
      <4>1. CASE d.query = j.query
        <5>1. d.persistent = q.persistent
          BY <2>6, <2>10, <4>1 DEF QueryInvariant, CallbacksOwn
        <5> QED
          BY <2>4, <2>8, <2>10, <4>1, <5>1 DEF Ends
      <4>2. CASE d.query # j.query
        BY <2>4, <4>2 DEF Ends
      <4> QED
        BY <4>1, <4>2
    <3> QED
      BY <2>3, <3>1, <3>2
  <2>13. \A s \in queries' : \/ \E d \in callbacks' : d.query = s.query
                             \/ \E u \in Items(uiTasks)' : Ends(u, s)
    <3> TAKE s \in queries'
    <3>1. CASE s.query = j.query
      <4>1. s = q
        BY <1>1, <2>6, <3>1
      <4>2. CASE answer.ok /\ q.persistent
        BY <2>5, <2>8, <3>1, <4>2
      <4>3. CASE ~(answer.ok /\ q.persistent)
        BY <2>3, <2>4, <3>1, <4>1, <4>3 DEF Ends
      <4> QED
        BY <4>2, <4>3
    <3>2. CASE s.query # j.query
      BY <1>1, <2>3, <2>9, <3>2 DEF QueryInvariant, CallbacksOwn
    <3> QED
      BY <3>1, <3>2
  <2>14. CallbacksOwn'
    BY <2>11, <2>12, <2>13 DEF CallbacksOwn, Ends
  <2> QED
    BY <2>7, <2>14 DEF QueryInvariant
<1> QED
  BY <1>2, <1>3

\* An answer is taken from the tasks.
LEMMA OnCallbackKeeps ==
    ASSUME TypeOK, QueryInvariant, OnCallback
    PROVE  QueryInvariant'
<1>1. PICK t : t = Head(uiTasks)
  OBVIOUS
<1>2. /\ uiTasks # <<>> /\ uiTasks' = Tail(uiTasks)
      /\ UNCHANGED <<asked, canceled, callbacks>>
      /\ queries' = {q \in queries : q.query = t.query => t.answer.ok /\ q.persistent}
  BY <1>1 DEF OnCallback, history
<1>3. Items(uiTasks) = Items(Tail(uiTasks)) \cup {t}
  BY <1>1, <1>2, HeadAndTail DEF TypeOK, BrowserTypeOK
<1>4. Items(uiTasks)' = Items(Tail(uiTasks))
  BY <1>2 DEF Items
<1>5. CanceledIds' = CanceledIds /\ asked' = asked /\ callbacks' = callbacks
  BY <1>2 DEF CanceledIds
<1>6. \A q \in queries' : q \in queries /\ ~Ends(t, q)
  BY <1>2 DEF Ends
<1>7. QueryIds'
  BY <1>3, <1>4, <1>5, <1>6 DEF QueryInvariant, QueryIds
<1>8. \A c \in callbacks' : \E q \in queries' : q.query = c.query /\ q.persistent = c.persistent
  <2> TAKE c \in callbacks'
  <2>1. PICK q \in queries : q.query = c.query /\ q.persistent = c.persistent
    BY <1>5 DEF QueryInvariant, CallbacksOwn
  <2>2. ~Ends(t, c)
    BY <1>3, <1>5 DEF QueryInvariant, CallbacksOwn
  <2> QED
    BY <1>2, <2>1, <2>2 DEF Ends
<1>9. \A c \in callbacks' : \A u \in Items(uiTasks)' : ~Ends(u, c)
  BY <1>3, <1>4, <1>5 DEF QueryInvariant, CallbacksOwn
<1>10. \A q \in queries' : \/ \E c \in callbacks' : c.query = q.query
                           \/ \E u \in Items(uiTasks)' : Ends(u, q)
  BY <1>3, <1>4, <1>5, <1>6 DEF QueryInvariant, CallbacksOwn
<1>11. CallbacksOwn'
  BY <1>8, <1>9, <1>10 DEF CallbacksOwn, Ends
<1> QED
  BY <1>7, <1>11 DEF QueryInvariant

\* A query comes in: its id is new to the queries, the tasks and the cancellations.
LEMMA ReceiveQueryKeeps ==
    ASSUME TypeOK, QueryInvariant, NEW f \in Frames, ReceiveQuery(f)
    PROVE  QueryInvariant'
<1>1. PICK m, id : m = Head(toBrowser[f]) /\ id = Len(asked) + 1
  OBVIOUS
<1>2. PICK answer \in AnsweredAtOnce(m.kind) :
        /\ uiTasks' = Post(id, answer)
        /\ callbacks' = IF Handles(m.kind) /\ StaysAttached(m.persistent, answer)
                          THEN callbacks \cup {[query |-> id, persistent |-> m.persistent]}
                          ELSE callbacks
  BY <1>1 DEF ReceiveQuery
<1> DEFINE new == [query |-> id, frame |-> f, ctx |-> m.ctx, req |-> m.req, persistent |-> m.persistent]
           cb  == [query |-> id, persistent |-> m.persistent]
           t   == [query |-> id, answer |-> answer]
<1>3. /\ queries' = IF Handles(m.kind) THEN queries \cup {new} ELSE queries
      /\ callbacks' = IF Handles(m.kind) /\ StaysAttached(m.persistent, answer)
                        THEN callbacks \cup {cb} ELSE callbacks
  BY <1>1, <1>2 DEF ReceiveQuery
<1>4. Items(uiTasks)' = Items(uiTasks) \cup (IF answer = NoAnswer THEN {} ELSE {t})
  BY <1>2, PostItems
<1>5. /\ Len(asked') = id /\ id \in Nat /\ 1..Len(asked) \subseteq 1..Len(asked')
      /\ id \in 1..Len(asked') /\ id \notin 1..Len(asked)
  <2>1. asked \in Seq(Askers)
    BY DEF TypeOK, HistoryTypeOK
  <2>2. \E e : asked' = Append(asked, e)
    BY DEF ReceiveQuery
  <2>3. Len(asked') = Len(asked) + 1 /\ Len(asked) \in Nat
    BY <2>1, <2>2
  <2> QED
    BY <1>1, <2>3
<1>6. CanceledIds' = CanceledIds
  BY DEF ReceiveQuery, CanceledIds
<1>7. /\ new.query = id /\ cb.query = id /\ t.query = id
      /\ new.persistent = m.persistent /\ cb.persistent = m.persistent /\ t.answer = answer
  OBVIOUS
<1> HIDE DEF new, cb, t
<1>8. /\ \A q \in queries : q.query # id
      /\ \A c \in callbacks : c.query # id
      /\ \A u \in Items(uiTasks) : u.query # id
      /\ id \notin CanceledIds
  BY <1>5 DEF QueryInvariant, QueryIds, CallbacksOwn
<1>9. QueryIds'
  <2>1. \A q \in queries' : q.query \in 1..Len(asked') /\ q.query \notin CanceledIds'
    BY <1>3, <1>5, <1>6, <1>7, <1>8 DEF QueryInvariant, QueryIds
  <2>2. \A q, s \in queries' : q.query = s.query => q = s
    BY <1>3, <1>7, <1>8 DEF QueryInvariant, QueryIds
  <2>3. \A i \in CanceledIds' : i \in 1..Len(asked')
    BY <1>5, <1>6 DEF QueryInvariant, QueryIds
  <2>4. \A u \in Items(uiTasks)' : u.query \in 1..Len(asked')
    BY <1>4, <1>5, <1>7 DEF QueryInvariant, QueryIds
  <2> QED
    BY <2>1, <2>2, <2>3, <2>4 DEF QueryIds
<1>10. \A c \in callbacks' : \E q \in queries' : q.query = c.query /\ q.persistent = c.persistent
  BY <1>3, <1>7 DEF QueryInvariant, CallbacksOwn
<1>11. \A c \in callbacks' : \A u \in Items(uiTasks)' : ~Ends(u, c)
  <2> TAKE c \in callbacks'
  <2> TAKE u \in Items(uiTasks)'
  <2>1. CASE c \in callbacks /\ u \in Items(uiTasks)
    BY <2>1 DEF QueryInvariant, CallbacksOwn
  <2>2. CASE c \in callbacks /\ u \notin Items(uiTasks)
    BY <1>4, <1>7, <1>8, <2>2 DEF Ends
  <2>3. CASE c \notin callbacks /\ u \in Items(uiTasks)
    BY <1>3, <1>7, <1>8, <2>3 DEF Ends
  <2>4. CASE c \notin callbacks /\ u \notin Items(uiTasks)
    <3>1. u = t /\ answer # NoAnswer /\ c = cb /\ StaysAttached(m.persistent, answer)
      BY <1>3, <1>4, <2>4
    <3> QED
      BY <1>7, <3>1 DEF Ends, StaysAttached
  <2> QED
    BY <2>1, <2>2, <2>3, <2>4
<1>12. \A q \in queries' : \/ \E c \in callbacks' : c.query = q.query
                           \/ \E u \in Items(uiTasks)' : Ends(u, q)
  <2> TAKE q \in queries'
  <2>1. CASE q \in queries
    BY <1>3, <1>4, <2>1 DEF QueryInvariant, CallbacksOwn
  <2>2. CASE q \notin queries
    <3>1. q = new /\ Handles(m.kind)
      BY <1>3, <2>2
    <3>2. CASE StaysAttached(m.persistent, answer)
      BY <1>3, <1>7, <3>1, <3>2
    <3>3. CASE ~StaysAttached(m.persistent, answer)
      <4>1. answer # NoAnswer /\ ~(answer.ok /\ m.persistent)
        BY <3>3 DEF StaysAttached
      <4> QED
        BY <1>4, <1>7, <3>1, <4>1 DEF Ends
    <3> QED
      BY <3>2, <3>3
  <2> QED
    BY <2>1, <2>2
<1>13. CallbacksOwn'
  BY <1>10, <1>11, <1>12 DEF CallbacksOwn, Ends
<1> QED
  BY <1>9, <1>13 DEF QueryInvariant

LEMMA NextQueryInvariant ==
    ASSUME TypeOK, QueryInvariant, [Next]_vars
    PROVE  QueryInvariant'
<1>1. CASE UNCHANGED vars
  BY <1>1, SameQueries DEF vars, routerVars, history
<1>2. ASSUME NEW f \in Frames, Page(f) \/ ReceiveReply(f) \/ LoseMessage(f)
      PROVE  QueryInvariant'
  BY <1>2, SameQueries DEF Page, FrameCreated, SendQuery, CancelRequest, ContextReleased,
     ReceiveReply, LoseMessage, routerVars, history
<1>3. ASSUME NEW f \in Frames, ReceiveCancel(f)
      PROVE  QueryInvariant'
  BY <1>3, CancelQueriesKeeps DEF ReceiveCancel, CancelTargets, QueriesOf
<1>4. ASSUME NEW f \in Frames, BeforeBrowse(f)
      PROVE  QueryInvariant'
  <2>1. UNCHANGED <<uiTasks, asked>>
    BY <1>4 DEF BeforeBrowse
  <2>2. CASE f \in MainFrames
    BY <1>4, <2>1, <2>2, CancelQueriesKeeps DEF BeforeBrowse, QueriesOf
  <2>3. CASE f \notin MainFrames
    BY <1>4, <2>1, <2>3, SameQueries DEF BeforeBrowse
  <2> QED
    BY <2>2, <2>3
<1>5. ASSUME NEW p \in Procs, ExecuteCallback(p) \/ Crash(p)
      PROVE  QueryInvariant'
  BY <1>5, SameQueries DEF ExecuteCallback, Crash, routerVars
<1>6. ASSUME NEW b \in Browsers, Window(b)
      PROVE  QueryInvariant'
  <2>1. CASE AfterCreated(b)
    BY <2>1, SameQueries DEF AfterCreated, routerVars, history
  <2>2. CASE RenderProcessTerminated(b)
    BY <2>2, CancelQueriesKeeps DEF RenderProcessTerminated, QueriesOf
  <2>3. CASE BeforeClose(b)
    <3>1. UNCHANGED <<uiTasks, asked>>
      BY <2>3 DEF BeforeClose
    <3>2. UNCHANGED <<queries, callbacks, canceled>> \/ CancelQueries(queries, "close")
      BY <2>3 DEF BeforeClose
    <3> QED
      BY <3>1, <3>2, SameQueries, CancelQueriesKeeps
  <2> QED
    BY <1>6, <2>1, <2>2, <2>3 DEF Window
<1> QED
  BY <1>1, <1>2, <1>3, <1>4, <1>5, <1>6, ReceiveQueryKeeps, JobDoneKeeps, OnCallbackKeeps
     DEF Next, Delivery

LEMMA QueryInvariantHolds == Spec => []QueryInvariant
<1>1. Init => QueryInvariant
  BY EmptyItems DEF Init, QueryInvariant, QueryIds, CallbacksOwn, CanceledIds
<1> QED
  BY <1>1, InitType, NextType, NextQueryInvariant, PTL DEF Spec

\* A callback that can still be executed belongs to a pending query, so that the
\* DCHECK of its destructor holds, whatever is answered, canceled and closed in
\* between; and the browser process keeps no query it could not answer any more.
THEOREM QueriesAreAnswerable == Spec => []CallbacksMatchQueries
<1>1. QueryInvariant => CallbackHasQuery
  BY DEF QueryInvariant, CallbacksOwn, CallbackHasQuery
<1>2. QueryInvariant => QueryIsAnswerable
  BY DEF QueryInvariant, CallbacksOwn, Ends, QueryIsAnswerable
<1>3. QueryInvariant => CallbacksMatchQueries
  BY <1>1, <1>2 DEF CallbacksMatchQueries
<1> QED
  BY <1>3, QueryInvariantHolds, PTL

\* Only a new query and a pending one are answered.
LEMMA RepliesAreOfLiveQueries ==
    ASSUME TypeOK, QueryInvariant, [Next]_vars, NEW f \in Frames,
           Len(toRenderer'[f]) > Len(toRenderer[f])
    PROVE  toRenderer'[f][Len(toRenderer'[f])].query \notin CanceledIds
<1>1. toRenderer[f] \in Seq(Replies) /\ Len(toRenderer[f]) \in Nat
  BY DEF TypeOK, ChannelTypeOK
<1>2. ASSUME NEW g \in Frames, NEW ctx, NEW req, NEW answer, NEW query,
             toRenderer' = SendReply(g, ctx, req, answer, query)
      PROVE  toRenderer'[f][Len(toRenderer'[f])].query = query
  <2> DEFINE r == [ctx |-> ctx, req |-> req, answer |-> answer, query |-> query]
  <2>1. toRenderer' = toRenderer \/ toRenderer' = [toRenderer EXCEPT ![g] = Append(@, r)]
    BY <1>2 DEF SendReply
  <2>2. r.query = query
    OBVIOUS
  <2> HIDE DEF r
  <2>3. toRenderer' # toRenderer
    BY <1>1
  <2>4. toRenderer'[f] = Append(toRenderer[f], r)
    <3>1. toRenderer'[f] = IF f = g THEN Append(toRenderer[f], r) ELSE toRenderer[f]
      BY <2>1, <2>3 DEF TypeOK, ChannelTypeOK
    <3> QED
      BY <1>1, <3>1
  <2>5. Len(toRenderer'[f]) = Len(toRenderer[f]) + 1
        /\ toRenderer'[f][Len(toRenderer[f]) + 1] = r
    BY <1>1, <2>4
  <2> QED
    BY <2>2, <2>5
<1>3. \A s \in Seq(Replies) : s # <<>> => ~(Len(Tail(s)) > Len(s))
  OBVIOUS
<1>4. CASE \E g \in Frames : ReceiveQuery(g)
  <2>1. PICK g \in Frames : ReceiveQuery(g)
    BY <1>4
  <2>2. toRenderer' # toRenderer
    BY <1>1
  <2>3. \E ctx, req : toRenderer' = SendReply(g, ctx, req, Canceled, Len(asked) + 1)
    BY <2>1, <2>2 DEF ReceiveQuery
  <2>4. toRenderer'[f][Len(toRenderer'[f])].query = Len(asked) + 1
    BY <1>2, <2>3
  <2>5. Len(asked) \in Nat
    BY DEF TypeOK, HistoryTypeOK
  <2> QED
    BY <2>4, <2>5 DEF QueryInvariant, QueryIds
<1>5. CASE OnCallback
  <2>1. toRenderer' # toRenderer
    BY <1>1
  <2>2. PICK q \in queries :
          \E answer : toRenderer' = SendReply(q.frame, q.ctx, q.req, answer, q.query)
    BY <1>5, <2>1 DEF OnCallback
  <2>3. q.frame \in Frames
    BY DEF TypeOK, BrowserTypeOK, QueryInfo
  <2>4. toRenderer'[f][Len(toRenderer'[f])].query = q.query
    BY <1>2, <2>2, <2>3
  <2> QED
    BY <2>4 DEF QueryInvariant, QueryIds
<1>6. CASE ~(\E g \in Frames : ReceiveQuery(g)) /\ ~OnCallback
  <2>1. \/ UNCHANGED toRenderer
        \/ toRenderer'[f] = toRenderer[f]
        \/ toRenderer'[f] = <<>>
        \/ toRenderer[f] # <<>> /\ toRenderer'[f] = Tail(toRenderer[f])
    <3>1. CASE UNCHANGED toRenderer
      BY <3>1
    <3>2. CASE ~UNCHANGED toRenderer
      <4>1. \/ \E g \in Frames : ContextReleased(g) \/ ReceiveReply(g) \/ LoseMessage(g)
            \/ \E p \in Procs : Crash(p)
            \/ \E b \in Browsers : BeforeClose(b)
        BY <1>6, <3>2 DEF Next, vars, Page, Delivery, Window, FrameCreated, SendQuery, CancelRequest,
           ReceiveCancel, BeforeBrowse, ExecuteCallback, AfterCreated, RenderProcessTerminated,
           JobDone, channels
      <4>2. toRenderer \in [Frames -> Seq(Replies)]
        BY DEF TypeOK, ChannelTypeOK
      <4> QED
        BY <4>1, <4>2 DEF ContextReleased, ReceiveReply, LoseMessage, Crash, BeforeClose
    <3> QED
      BY <3>1, <3>2
  <2>2. Len(<<>>) = 0
    OBVIOUS
  <2>3. ~(Len(toRenderer'[f]) > Len(toRenderer[f]))
    <3>1. CASE toRenderer'[f] = <<>>
      BY <1>1, <2>2, <3>1
    <3>2. CASE toRenderer'[f] = toRenderer[f]
      BY <1>1, <3>2
    <3>3. CASE toRenderer[f] # <<>> /\ toRenderer'[f] = Tail(toRenderer[f])
      BY <1>1, <1>3, <3>3
    <3> QED
      BY <2>1, <3>1, <3>2, <3>3
  <2> QED
    BY <2>3
<1> QED
  BY <1>4, <1>5, <1>6

\* cef_message_router.h: a canceled query gets no answer any more.  No step sends
\* the reply of a query that was canceled before (CanceledStaysSilent).
THEOREM CanceledQueriesAreSilent == Spec => CanceledStaysSilent
<1> DEFINE Silent == \A f \in Frames :
                       Len(toRenderer'[f]) > Len(toRenderer[f])
                         => toRenderer'[f][Len(toRenderer'[f])].query \notin CanceledIds
<1>1. TypeOK /\ QueryInvariant /\ [Next]_vars => [Silent]_vars
  <2> SUFFICES ASSUME TypeOK, QueryInvariant, [Next]_vars, NEW f \in Frames,
                      Len(toRenderer'[f]) > Len(toRenderer[f])
               PROVE  toRenderer'[f][Len(toRenderer'[f])].query \notin CanceledIds
    OBVIOUS
  <2> QED
    BY RepliesAreOfLiveQueries
<1>2. CanceledStaysSilent <=> [][Silent]_vars
  BY DEF CanceledStaysSilent
<1> HIDE DEF Silent
<1> QED
  BY <1>1, <1>2, InitType, NextType, QueryInvariantHolds, PTL DEF Spec

LEMMA NextRouterIsUp ==
    ASSUME TypeOK, RouterIsUp, [Next]_vars
    PROVE  RouterIsUp'
<1>1. CASE UNCHANGED <<browser, router>> /\ queries' \subseteq queries
  BY <1>1 DEF RouterIsUp
<1>2. ASSUME NEW f \in Frames, ReceiveQuery(f) PROVE RouterIsUp'
  <2>1. UNCHANGED <<browser, router>> /\ browser[FrameBrowser[f]] = "open"
    BY <1>2 DEF ReceiveQuery, browserVars
  <2>2. router = "up"
    BY <2>1, ConstantsAssumption DEF RouterIsUp
  <2> QED
    BY <2>1, <2>2 DEF RouterIsUp
<1>3. ASSUME NEW b \in Browsers, AfterCreated(b) PROVE RouterIsUp'
  BY <1>3 DEF AfterCreated, RouterIsUp, routerVars
<1>4. ASSUME NEW b \in Browsers, BeforeClose(b) PROVE RouterIsUp'
  <2>1. browser' = [browser EXCEPT ![b] = "closed"] /\ browser[b] = "open"
    BY <1>4 DEF BeforeClose
  <2>2. CASE \E o \in Browsers \ {b} : browser[o] = "open"
    BY <1>4, <2>1, <2>2 DEF BeforeClose, RouterIsUp, TypeOK, BrowserTypeOK
  <2>3. CASE ~\E o \in Browsers \ {b} : browser[o] = "open"
    <3>1. \A o \in Browsers : browser'[o] # "open"
      BY <2>1, <2>3 DEF TypeOK, BrowserTypeOK
    <3>2. queries' = {}
      BY <1>4, <2>3 DEF BeforeClose, CancelQueries
    <3> QED
      BY <3>1, <3>2 DEF RouterIsUp
  <2> QED
    BY <2>2, <2>3
<1> QED
  BY <1>1, <1>2, <1>3, <1>4, RouterSteps

\* The router is only deleted when no query is pending (NoQueryWithoutRouter), which
\* is what the DCHECK of its destructor demands.
THEOREM RouterOutlivesQueries == Spec => []NoQueryWithoutRouter
<1>1. Init => RouterIsUp
  BY DEF Init, RouterIsUp
<1>2. RouterIsUp => NoQueryWithoutRouter
  BY DEF RouterIsUp, NoQueryWithoutRouter
<1> QED
  BY <1>1, <1>2, InitType, NextType, NextRouterIsUp, PTL DEF Spec

------------------------------------------------------------------------------
\* What is on the way belongs to what was: ids.

\* The ids of x, which frame f sent or received, were issued, and no other frame
\* has its context id.
IsOld(f, x) ==
    /\ x.ctx <= nextContext[FrameProc[f]]
    /\ x.req <= nextRequest[FrameProc[f]]
    /\ \A g \in FramesIn(FrameProc[f]) : contextId[g] = x.ctx => g = f

IdsAreOld ==
    /\ \A i \in DOMAIN asked : IsOld(asked[i].frame, asked[i])
    /\ \A f \in Frames : \A m \in Items(toBrowser[f]) : IsOld(f, m)

\* An id that changes is taken back or issued anew.
IdsGrow ==
    /\ \A p \in Procs : nextContext[p] <= nextContext'[p] /\ nextRequest[p] <= nextRequest'[p]
    /\ \A g \in Frames : \/ contextId'[g] \in {0, contextId[g]}
                         \/ contextId'[g] > nextContext[FrameProc[g]]

LEMMA NextIds ==
    ASSUME TypeOK, [Next]_vars
    PROVE  IdsGrow
<1>1. /\ nextContext \in [Procs -> Nat] /\ nextRequest \in [Procs -> Nat]
      /\ contextId \in [Frames -> Nat] /\ FrameProc \in [Frames -> Procs]
  BY ConstantsAssumption DEF TypeOK, PageTypeOK
<1>2. ASSUME UNCHANGED <<nextContext, nextRequest>>,
             \A f \in Frames : contextId'[f] \in {0, contextId[f]}
      PROVE  IdsGrow
  BY <1>1, <1>2 DEF IdsGrow
<1>3. ASSUME NEW f \in Frames, GetIDForContext(f),
             \/ UNCHANGED nextRequest
             \/ nextRequest' = [nextRequest EXCEPT ![FrameProc[f]] = @ + 1]
      PROVE  IdsGrow
  <2>1. \A p \in Procs : nextRequest[p] <= nextRequest'[p]
    BY <1>1, <1>3
  <2>2. CASE contextId[f] # 0 /\ UNCHANGED idVars
    <3>1. UNCHANGED <<nextContext, contextId>>
      BY <2>2 DEF idVars
    <3>2. \A p \in Procs : nextContext[p] <= nextContext'[p]
      BY <1>1, <3>1
    <3> QED
      BY <2>1, <3>1, <3>2 DEF IdsGrow
  <2>3. CASE ~(contextId[f] # 0 /\ UNCHANGED idVars)
    <3>1. /\ nextContext' = [nextContext EXCEPT ![FrameProc[f]] = @ + 1]
          /\ contextId' = [contextId EXCEPT ![f] = nextContext[FrameProc[f]] + 1]
      BY <1>3, <2>3 DEF GetIDForContext
    <3>2. \A p \in Procs : nextContext[p] <= nextContext'[p]
      BY <1>1, <3>1
    <3>3. \A g \in Frames : contextId'[g] = contextId[g] \/ contextId'[g] > nextContext[FrameProc[g]]
      BY <1>1, <3>1
    <3>4. \A g \in Frames : contextId'[g] \in {0, contextId[g]} \/ contextId'[g] > nextContext[FrameProc[g]]
      BY <3>3
    <3> QED
      BY <2>1, <3>2, <3>4 DEF IdsGrow
  <2> QED
    BY <2>2, <2>3
<1>4. CASE UNCHANGED vars
  BY <1>2, <1>4 DEF vars, rendererVars, idVars
<1>5. ASSUME NEW f \in Frames, Page(f) PROVE IdsGrow
  <2>1. CASE FrameCreated(f)
    BY <1>2, <2>1 DEF FrameCreated, idVars
  <2>2. ASSUME NEW kind, NEW persistent, SendQuery(f, kind, persistent) PROVE IdsGrow
    <3>1. nextRequest' = [nextRequest EXCEPT ![FrameProc[f]] = @ + 1] /\ GetIDForContext(f)
      BY <2>2 DEF SendQuery
    <3> QED
      BY <1>3, <3>1
  <2>3. ASSUME NEW req, CancelRequest(f, req) PROVE IdsGrow
    BY <1>3, <2>3 DEF CancelRequest
  <2>4. CASE ContextReleased(f)
    <3>1. contextId' = [contextId EXCEPT ![f] = 0] /\ UNCHANGED <<nextContext, nextRequest>>
      BY <2>4 DEF ContextReleased
    <3> QED
      BY <1>1, <1>2, <3>1
  <2> QED
    BY <1>5, <2>1, <2>2, <2>3, <2>4 DEF Page
<1>6. ASSUME NEW f \in Frames, Delivery(f) \/ BeforeBrowse(f) \/ LoseMessage(f) PROVE IdsGrow
  BY <1>2, <1>6 DEF Delivery, ReceiveQuery, ReceiveCancel, ReceiveReply, BeforeBrowse, LoseMessage,
     rendererVars, idVars
<1>7. ASSUME NEW p \in Procs, ExecuteCallback(p) \/ Crash(p) PROVE IdsGrow
  <2>1. CASE ExecuteCallback(p)
    BY <1>2, <2>1 DEF ExecuteCallback, idVars
  <2>2. CASE Crash(p)
    BY <1>1, <1>2, <2>2 DEF Crash
  <2> QED
    BY <1>7, <2>1, <2>2
<1>8. ASSUME NEW b \in Browsers, Window(b) PROVE IdsGrow
  <2>1. CASE AfterCreated(b) \/ RenderProcessTerminated(b)
    BY <1>2, <2>1 DEF AfterCreated, RenderProcessTerminated, rendererVars, idVars
  <2>2. CASE BeforeClose(b)
    BY <1>1, <1>2, <2>2 DEF BeforeClose
  <2> QED
    BY <1>8, <2>1, <2>2 DEF Window
<1>9. ASSUME (\E j \in jobs : JobDone(j)) \/ OnCallback PROVE IdsGrow
  <2>1. UNCHANGED <<nextContext, nextRequest, contextId>>
    BY <1>9 DEF JobDone, OnCallback, rendererVars, idVars
  <2> QED
    BY <1>2, <2>1
<1> QED
  BY <1>4, <1>5, <1>6, <1>7, <1>8, <1>9 DEF Next

LEMMA OldStaysOld ==
    ASSUME TypeOK, [Next]_vars, NEW f \in Frames, NEW x, x.ctx \in ContextIds, x.req \in Nat,
           IsOld(f, x)
    PROVE  IsOld(f, x)'
<1>1. /\ nextContext \in [Procs -> Nat] /\ nextRequest \in [Procs -> Nat]
      /\ contextId \in [Frames -> Nat] /\ FrameProc \in [Frames -> Procs]
  BY ConstantsAssumption DEF TypeOK, PageTypeOK
<1>2. nextContext' \in [Procs -> Nat] /\ nextRequest' \in [Procs -> Nat] /\ contextId' \in [Frames -> Nat]
  BY NextType, ConstantsAssumption DEF TypeOK, PageTypeOK
<1>3. x.ctx \in Nat \ {0}
  BY ConstantsAssumption DEF ContextIds
<1>4. x.ctx <= nextContext'[FrameProc[f]] /\ x.req <= nextRequest'[FrameProc[f]]
  BY <1>1, <1>2, <1>3, NextIds DEF IsOld, IdsGrow
<1>5. ASSUME NEW g \in FramesIn(FrameProc[f]), contextId'[g] = x.ctx PROVE g = f
  <2>1. g \in Frames /\ FrameProc[g] = FrameProc[f]
    BY DEF FramesIn
  <2>2. x.ctx <= nextContext[FrameProc[g]]
    BY <2>1 DEF IsOld
  <2>3. contextId'[g] = contextId[g]
    BY <1>1, <1>2, <1>3, <1>5, <2>1, <2>2, NextIds DEF IdsGrow
  <2> QED
    BY <1>5, <2>3 DEF IsOld
<1> QED
  BY <1>4, <1>5 DEF IsOld

------------------------------------------------------------------------------
\* Messages to the browser process: a page adds one, or some are taken or dropped
\* from the front.

Shrunk(s, t) == \E d \in Nat : \A i \in DOMAIN s : i + d \in DOMAIN t /\ s[i] = t[i + d]

Sends(f, m) == toBrowser' = [toBrowser EXCEPT ![f] = Append(@, m)]

LEMMA ShrunkItems == ASSUME NEW s, NEW t, Shrunk(s, t) PROVE Items(s) \subseteq Items(t)
  BY DEF Shrunk, Items

LEMMA ShrunkCases ==
    ASSUME NEW S, NEW s \in Seq(S)
    PROVE  /\ Shrunk(s, s) /\ Shrunk(<<>>, s)
           /\ s # <<>> => Shrunk(Tail(s), s)
<1>1. Shrunk(s, s)
  <2>1. \A i \in DOMAIN s : i + 0 = i
    OBVIOUS
  <2> QED
    BY <2>1 DEF Shrunk
<1>2. Shrunk(<<>>, s)
  BY DEF Shrunk
<1>3. ASSUME s # <<>> PROVE Shrunk(Tail(s), s)
  <2>1. \A i \in DOMAIN Tail(s) : i + 1 \in DOMAIN s /\ Tail(s)[i] = s[i + 1]
    BY <1>3
  <2> QED
    BY <2>1 DEF Shrunk
<1> QED
  BY <1>1, <1>2, <1>3

LEMMA SentItems ==
    ASSUME TypeOK, NEW f \in Frames, NEW m, Sends(f, m)
    PROVE  /\ \A g \in Frames \ {f} : toBrowser'[g] = toBrowser[g]
           /\ toBrowser'[f] = Append(toBrowser[f], m)
           /\ Items(toBrowser'[f]) = Items(toBrowser[f]) \cup {m}
<1>1. toBrowser'[f] = Append(toBrowser[f], m) /\ toBrowser[f] \in Seq(QueryMsgs \cup CancelMsgs)
  BY DEF Sends, TypeOK, ChannelTypeOK
<1> QED
  BY <1>1, AppendItems DEF Sends, TypeOK, ChannelTypeOK

\* What the pages send.
QueryOf(f, kind, persistent) ==
    [type |-> "query", ctx |-> contextId'[f], req |-> nextRequest[FrameProc[f]] + 1,
     kind |-> kind, persistent |-> persistent]
CancelOf(ctx, req) == [type |-> "cancel", ctx |-> ctx, req |-> req]

\* The steps of the pages that send messages; all others only take them.
PageSends ==
    \/ \E f \in Frames : \E kind \in Kinds, persistent \in BOOLEAN : SendQuery(f, kind, persistent)
    \/ \E f \in Frames : \E req \in 1..nextRequest[FrameProc[f]] : CancelRequest(f, req)
    \/ \E f \in Frames : ContextReleased(f)

LEMMA MessagesTaken ==
    ASSUME TypeOK, [Next]_vars, ~PageSends, NEW f \in Frames
    PROVE  \/ toBrowser'[f] = toBrowser[f]
           \/ toBrowser'[f] = <<>>
           \/ toBrowser[f] # <<>> /\ toBrowser'[f] = Tail(toBrowser[f])
<1>1. toBrowser \in [Frames -> Seq(QueryMsgs \cup CancelMsgs)]
  BY DEF TypeOK, ChannelTypeOK
<1>2. ASSUME NEW g \in Frames, Delivery(g) \/ BeforeBrowse(g) \/ LoseMessage(g)
      PROVE  \/ toBrowser'[f] = toBrowser[f]
             \/ toBrowser[f] # <<>> /\ toBrowser'[f] = Tail(toBrowser[f])
  <2>1. UNCHANGED toBrowser \/ (toBrowser[g] # <<>> /\ toBrowser' = [toBrowser EXCEPT ![g] = Tail(@)])
    BY <1>2 DEF Delivery, ReceiveQuery, ReceiveCancel, ReceiveReply, BeforeBrowse, LoseMessage, channels
  <2> QED
    BY <1>1, <2>1
<1>3. ASSUME NEW b \in Browsers, Window(b)
      PROVE  toBrowser'[f] = toBrowser[f] \/ toBrowser'[f] = <<>>
  BY <1>3 DEF Window, AfterCreated, RenderProcessTerminated, BeforeClose, channels
<1>4. ASSUME NEW g \in Frames, Page(g) PROVE toBrowser'[f] = toBrowser[f]
  BY <1>4 DEF Page, PageSends, FrameCreated, channels
<1>5. ASSUME \/ \E p \in Procs : ExecuteCallback(p) \/ Crash(p)
             \/ \E j \in jobs : JobDone(j)
             \/ OnCallback
             \/ UNCHANGED vars
      PROVE  toBrowser'[f] = toBrowser[f]
  BY <1>5 DEF ExecuteCallback, Crash, JobDone, OnCallback, channels, vars
<1> QED
  BY <1>2, <1>3, <1>4, <1>5 DEF Next

LEMMA MessagesShrink ==
    ASSUME TypeOK, [Next]_vars, ~PageSends, NEW f \in Frames
    PROVE  Shrunk(toBrowser'[f], toBrowser[f])
<1>1. toBrowser[f] \in Seq(QueryMsgs \cup CancelMsgs)
  BY DEF TypeOK, ChannelTypeOK
<1> QED
  BY <1>1, MessagesTaken, ShrunkCases

\* A cancellation sends a message just if something is canceled.
LEMMA CancelSends ==
    ASSUME TypeOK, NEW f \in Frames, NEW ctx, NEW req, NEW Gone, SendCancel(f, ctx, req, Gone)
    PROVE  \/ Gone = {} /\ UNCHANGED <<toBrowser, pending>>
           \/ Gone # {} /\ Sends(f, CancelOf(ctx, req)) /\ pending' = pending \ Gone
  BY DEF SendCancel, Sends, CancelOf

LEMMA IdTypes ==
    ASSUME TypeOK
    PROVE  /\ \A f \in Frames : \A m \in Items(toBrowser[f]) :
                /\ m.ctx \in ContextIds /\ m.req \in Nat /\ m.type \in {"query", "cancel"}
                /\ m.type = "query" => m.req \in RequestIds /\ m.persistent \in BOOLEAN
           /\ \A i \in DOMAIN asked :
                asked[i].frame \in Frames /\ asked[i].ctx \in ContextIds /\ asked[i].req \in Nat
<1>1. RequestIds \subseteq Nat
  BY ConstantsAssumption DEF RequestIds
<1>2. ASSUME NEW f \in Frames, NEW m \in Items(toBrowser[f])
      PROVE  /\ m.ctx \in ContextIds /\ m.req \in Nat /\ m.type \in {"query", "cancel"}
             /\ m.type = "query" => m.req \in RequestIds /\ m.persistent \in BOOLEAN
  <2>1. m \in QueryMsgs \cup CancelMsgs
    BY <1>2 DEF Items, TypeOK, ChannelTypeOK
  <2>2. CASE m \in QueryMsgs
    <3>1. m.type = "query" /\ m.ctx \in ContextIds /\ m.req \in RequestIds /\ m.persistent \in BOOLEAN
      BY <2>2 DEF QueryMsgs
    <3> QED
      BY <1>1, <3>1
  <2>3. CASE m \in CancelMsgs
    <3>1. m.type = "cancel" /\ m.ctx \in ContextIds /\ m.req \in RequestIds \cup {0}
      BY <2>3 DEF CancelMsgs
    <3>2. m.req \in RequestIds \/ m.req = 0
      BY <3>1
    <3>3. 0 \in Nat
      OBVIOUS
    <3>4. m.req \in Nat
      BY <1>1, <3>2, <3>3, Zenon
    <3> QED
      BY <3>1, <3>4
  <2> QED
    BY <2>1, <2>2, <2>3
<1>3. \A i \in DOMAIN asked : asked[i] \in Askers
  BY DEF TypeOK, HistoryTypeOK
<1> QED
  BY <1>1, <1>2, <1>3 DEF Askers

LEMMA AskedSteps ==
    ASSUME [Next]_vars, asked' # asked
    PROVE  \E f \in Frames : ReceiveQuery(f)
<1>1. ASSUME NEW f \in Frames, Page(f) \/ BeforeBrowse(f) \/ LoseMessage(f) PROVE asked' = asked
  BY <1>1 DEF Page, FrameCreated, SendQuery, CancelRequest, ContextReleased, BeforeBrowse, LoseMessage, history
<1>2. ASSUME NEW p \in Procs, ExecuteCallback(p) \/ Crash(p) PROVE asked' = asked
  BY <1>2 DEF ExecuteCallback, Crash
<1>3. ASSUME NEW b \in Browsers, Window(b) PROVE asked' = asked
  BY <1>3 DEF Window, AfterCreated, RenderProcessTerminated, BeforeClose, history
<1>4. ASSUME NEW j \in jobs, JobDone(j) PROVE asked' = asked
  BY <1>4 DEF JobDone
<1>5. ASSUME NEW f \in Frames, ReceiveCancel(f) \/ ReceiveReply(f) PROVE asked' = asked
  BY <1>5 DEF ReceiveCancel, ReceiveReply, history
<1>6. CASE OnCallback \/ UNCHANGED vars
  BY <1>6 DEF OnCallback, vars, history
<1> QED
  BY <1>1, <1>2, <1>3, <1>4, <1>5, <1>6 DEF Next, Delivery

\* A query that is received: its message leaves the channel, its asker is recorded.
LEMMA ReceivedQuery ==
    ASSUME TypeOK, NEW f \in Frames, ReceiveQuery(f)
    PROVE  \E m \in Items(toBrowser[f]) :
             /\ m = Head(toBrowser[f]) /\ m.type = "query"
             /\ toBrowser[f] # <<>> /\ toBrowser' = [toBrowser EXCEPT ![f] = Tail(@)]
             /\ Len(asked) \in Nat /\ Len(asked') = Len(asked) + 1
             /\ \A i \in DOMAIN asked : asked'[i] = asked[i]
             /\ DOMAIN asked = 1..Len(asked) /\ DOMAIN asked' = 1..(Len(asked) + 1)
             /\ asked'[Len(asked) + 1] = [frame |-> f, ctx |-> m.ctx, req |-> m.req]
<1> DEFINE m == Head(toBrowser[f])
           a == [frame |-> f, ctx |-> m.ctx, req |-> m.req]
<1>1. toBrowser[f] \in Seq(QueryMsgs \cup CancelMsgs) /\ toBrowser[f] # <<>>
  BY DEF ReceiveQuery, TypeOK, ChannelTypeOK
<1>2. m \in Items(toBrowser[f])
  BY <1>1, TailItems
<1>3. asked' = Append(asked, a) /\ m.type = "query" /\ toBrowser' = [toBrowser EXCEPT ![f] = Tail(@)]
  BY DEF ReceiveQuery
<1>4. asked \in Seq(Askers)
  BY DEF TypeOK, HistoryTypeOK
<1> HIDE DEF a
<1>5. /\ Len(asked) \in Nat /\ Len(asked') = Len(asked) + 1
      /\ \A i \in DOMAIN asked : asked'[i] = asked[i]
      /\ DOMAIN asked = 1..Len(asked) /\ DOMAIN asked' = 1..(Len(asked) + 1)
      /\ asked'[Len(asked) + 1] = a
  BY <1>3, <1>4
<1> QED
  BY <1>1, <1>2, <1>3, <1>5 DEF a

LEMMA NextIdsAreOld ==
    ASSUME TypeOK, Pages, IdsAreOld, [Next]_vars
    PROVE  IdsAreOld'
<1>1. ASSUME NEW f \in Frames, NEW m \in Items(toBrowser[f]) PROVE IsOld(f, m)'
  BY IdTypes, OldStaysOld DEF IdsAreOld
<1>a. ASSUME NEW i \in DOMAIN asked, NEW f, NEW x, f = asked[i].frame, x = asked[i] PROVE IsOld(f, x)'
  <2>1. f \in Frames /\ x.ctx \in ContextIds /\ x.req \in Nat
    BY <1>a, IdTypes
  <2>2. IsOld(f, x)
    BY <1>a DEF IdsAreOld
  <2> QED
    BY <2>1, <2>2, OldStaysOld
<1>2. /\ nextContext \in [Procs -> Nat] /\ nextRequest \in [Procs -> Nat]
      /\ contextId \in [Frames -> Nat] /\ FrameProc \in [Frames -> Procs]
  BY ConstantsAssumption DEF TypeOK, PageTypeOK
<1>3. Pages'
  BY NextPages
<1>4. ASSUME NEW f \in Frames, NEW m \in Items(toBrowser'[f]) PROVE IsOld(f, m)'
  <2>1. CASE ~PageSends
    BY <1>1, <1>4, <2>1, MessagesShrink, ShrunkItems
  <2>2. ASSUME NEW g \in Frames, NEW n, Sends(g, n), IsOld(g, n)' PROVE IsOld(f, m)'
    BY <1>1, <1>4, <2>2, SentItems
  <2>3. ASSUME UNCHANGED toBrowser PROVE IsOld(f, m)'
    BY <1>1, <1>4, <2>3
  <2>4. ASSUME NEW g \in Frames, NEW x, x.ctx = contextId'[g], x.ctx # 0, x.req <= nextRequest'[FrameProc[g]]
        PROVE  IsOld(g, x)'
    BY <1>3, <2>4 DEF Pages, ContextsOwn, IsOld, FramesIn
  <2>5. ASSUME NEW g \in Frames, NEW kind \in Kinds, NEW persistent \in BOOLEAN, SendQuery(g, kind, persistent)
        PROVE  IsOld(f, m)'
    <3>0. PICK n : n = QueryOf(g, kind, persistent)
      OBVIOUS
    <3>1. Sends(g, n)
      BY <2>5, <3>0 DEF SendQuery, Sends, QueryOf
    <3>2. n.ctx = contextId'[g] /\ n.req = nextRequest[FrameProc[g]] + 1
      BY <3>0 DEF QueryOf
    <3>3. n.ctx # 0
      BY <2>5, <3>2, GetIDType, ConstantsAssumption DEF SendQuery, TypeOK, ContextIds
    <3>4. n.req <= nextRequest'[FrameProc[g]]
      BY <1>2, <2>5, <3>2 DEF SendQuery
    <3> QED
      BY <2>2, <2>4, <3>1, <3>2, <3>3, <3>4
  <2>6. ASSUME NEW g \in Frames, NEW req \in 1..nextRequest[FrameProc[g]], CancelRequest(g, req)
        PROVE  IsOld(f, m)'
    <3>0. PICK n : n = CancelOf(contextId'[g], req)
      OBVIOUS
    <3>1. Sends(g, n) \/ UNCHANGED toBrowser
      BY <2>6, <3>0, CancelSends DEF CancelRequest
    <3>2. n.ctx = contextId'[g] /\ n.req = req
      BY <3>0 DEF CancelOf
    <3>3. n.ctx # 0
      BY <2>6, <3>2, GetIDType, ConstantsAssumption DEF CancelRequest, TypeOK, ContextIds
    <3>4. n.req <= nextRequest'[FrameProc[g]]
      BY <1>2, <2>6, <3>2 DEF CancelRequest
    <3> QED
      BY <2>2, <2>3, <2>4, <3>1, <3>2, <3>3, <3>4
  <2>7. ASSUME NEW g \in Frames, ContextReleased(g) PROVE IsOld(f, m)'
    <3>0. PICK n : n = CancelOf(contextId[g], 0)
      OBVIOUS
    <3>1. \/ UNCHANGED toBrowser
          \/ Waiting(g, contextId[g]) # {} /\ Sends(g, n)
      BY <2>7, <3>0, CancelSends DEF ContextReleased
    <3>2. n.ctx = contextId[g] /\ n.req = 0
      BY <3>0 DEF CancelOf
    <3>3. ASSUME Waiting(g, contextId[g]) # {} PROVE IsOld(g, n)'
      <4>1. contextId[g] # 0
        BY <3>3 DEF Waiting, TypeOK, RequestTypeOK, RequestInfo, Keys, ContextIds
      <4>2. IsOld(g, n)
        <5>1. n.ctx <= nextContext[FrameProc[g]]
          BY <3>2, <4>1 DEF Pages, ContextsOwn
        <5>2. n.req <= nextRequest[FrameProc[g]]
          BY <1>2, <3>2
        <5>3. \A h \in FramesIn(FrameProc[g]) : contextId[h] = n.ctx => h = g
          BY <3>2, <4>1 DEF Pages, ContextsOwn, FramesIn
        <5> QED
          BY <5>1, <5>2, <5>3 DEF IsOld
      <4>3. n.ctx \in ContextIds
        BY <3>2, <4>1, ConstantsAssumption DEF TypeOK, PageTypeOK, ContextIds
      <4> QED
        <5>1. n.req \in Nat
          BY <3>2
        <5> QED
          BY <4>2, <4>3, <5>1, OldStaysOld
    <3> QED
      BY <2>2, <2>3, <3>1, <3>3
  <2> QED
    BY <2>1, <2>5, <2>6, <2>7 DEF PageSends
<1>5. ASSUME NEW i \in DOMAIN asked', NEW h, NEW x, h = asked'[i].frame, x = asked'[i] PROVE IsOld(h, x)'
  <2>1. CASE asked' = asked
    BY <1>5, <1>a, <2>1
  <2>2. CASE asked' # asked
    <3>1. PICK f \in Frames : ReceiveQuery(f)
      BY <2>2, AskedSteps
    <3>2. PICK m \in Items(toBrowser[f]) :
             /\ Len(asked) \in Nat
             /\ \A k \in DOMAIN asked : asked'[k] = asked[k]
             /\ DOMAIN asked = 1..Len(asked) /\ DOMAIN asked' = 1..(Len(asked) + 1)
             /\ asked'[Len(asked) + 1] = [frame |-> f, ctx |-> m.ctx, req |-> m.req]
      BY <3>1, ReceivedQuery
    <3>3. CASE i \in DOMAIN asked
      BY <1>5, <1>a, <3>2, <3>3
    <3>4. CASE i \notin DOMAIN asked
      <4>1. i = Len(asked) + 1
        BY <1>5, <3>2, <3>4
      <4>2. h = f /\ x.ctx = m.ctx /\ x.req = m.req
        BY <1>5, <3>2, <4>1
      <4>3. IsOld(f, m)'
        BY <1>1
      <4> QED
        BY <4>2, <4>3 DEF IsOld
    <3> QED
      BY <3>3, <3>4
  <2> QED
    BY <2>1, <2>2
<1>6. \A f \in Frames : \A m \in Items(toBrowser[f])' : IsOld(f, m)'
  BY <1>4 DEF Items
<1>7. \A i \in DOMAIN asked' : IsOld(asked[i].frame, asked[i])'
  <2> SUFFICES ASSUME NEW i \in DOMAIN asked' PROVE IsOld(asked[i].frame, asked[i])'
    OBVIOUS
  <2>1. PICK h, x : h = asked'[i].frame /\ x = asked'[i]
    OBVIOUS
  <2>2. IsOld(h, x)'
    BY <1>5, <2>1
  <2> QED
    BY <2>1, <2>2 DEF IsOld
<1> QED
  BY <1>6, <1>7 DEF IdsAreOld

------------------------------------------------------------------------------
\* A request is asked once: a process numbers its requests, so that no two
\* messages, no two askers, and no message and asker stand for the same one.
IsSame(f, x, g, y) == FrameProc[f] = FrameProc[g] /\ x.req = y.req

AskersDiffer ==
    \A i, j \in DOMAIN asked : IsSame(asked[i].frame, asked[i], asked[j].frame, asked[j]) => i = j

MessagesAreNew ==
    \A f \in Frames : \A m \in Items(toBrowser[f]) : \A i \in DOMAIN asked :
        m.type = "query" => ~IsSame(f, m, asked[i].frame, asked[i])

MessagesDiffer ==
    \A f, g \in Frames : \A i \in DOMAIN toBrowser[f], j \in DOMAIN toBrowser[g] :
        /\ toBrowser[f][i].type = "query" /\ toBrowser[g][j].type = "query"
        /\ IsSame(f, toBrowser[f][i], g, toBrowser[g][j])
        => f = g /\ i = j

AskedOnce == AskersDiffer /\ MessagesAreNew /\ MessagesDiffer

LEMMA ShrunkDiffer ==
    ASSUME TypeOK', MessagesDiffer, \A f \in Frames : Shrunk(toBrowser'[f], toBrowser[f])
    PROVE  MessagesDiffer'
<1> SUFFICES ASSUME NEW f \in Frames, NEW g \in Frames,
                    NEW i \in DOMAIN toBrowser'[f], NEW j \in DOMAIN toBrowser'[g],
                    toBrowser'[f][i].type = "query", toBrowser'[g][j].type = "query",
                    IsSame(f, toBrowser'[f][i], g, toBrowser'[g][j])
             PROVE  f = g /\ i = j
  BY DEF MessagesDiffer, IsSame
<1>1. PICK d \in Nat : \A k \in DOMAIN toBrowser'[f] : k + d \in DOMAIN toBrowser[f] /\ toBrowser'[f][k] = toBrowser[f][k + d]
  BY DEF Shrunk
<1>2. PICK e \in Nat : \A k \in DOMAIN toBrowser'[g] : k + e \in DOMAIN toBrowser[g] /\ toBrowser'[g][k] = toBrowser[g][k + e]
  BY DEF Shrunk
<1>3. f = g
  BY <1>1, <1>2 DEF MessagesDiffer
<1>4. i + d = j + d
  BY <1>1, <1>3 DEF MessagesDiffer
<1>5. i \in Nat /\ j \in Nat
  <2>1. toBrowser'[f] \in Seq(QueryMsgs \cup CancelMsgs) /\ toBrowser'[g] \in Seq(QueryMsgs \cup CancelMsgs)
    BY DEF TypeOK, ChannelTypeOK
  <2> QED
    BY <2>1
<1> QED
  BY <1>3, <1>4, <1>5

LEMMA SentOnce ==
    ASSUME TypeOK, AskedOnce, UNCHANGED asked, NEW f \in Frames, NEW n, Sends(f, n),
           n.type = "query" =>
             /\ \A g \in Frames : \A m \in Items(toBrowser[g]) : ~IsSame(f, n, g, m) /\ ~IsSame(g, m, f, n)
             /\ \A i \in DOMAIN asked : ~IsSame(f, n, asked[i].frame, asked[i])
    PROVE  AskedOnce'
<1>1. AskersDiffer'
  BY DEF AskedOnce, AskersDiffer, IsSame
<1>2. MessagesAreNew'
  <2> SUFFICES ASSUME NEW g \in Frames, NEW m \in Items(toBrowser'[g]), NEW i \in DOMAIN asked, m.type = "query"
               PROVE  ~IsSame(g, m, asked[i].frame, asked[i])
    BY DEF MessagesAreNew, IsSame, Items
  <2>1. CASE m \in Items(toBrowser[g])
    BY <2>1 DEF AskedOnce, MessagesAreNew
  <2>2. CASE m \notin Items(toBrowser[g])
    BY <2>2, SentItems
  <2> QED
    BY <2>1, <2>2
<1>3. MessagesDiffer'
  <2> SUFFICES ASSUME NEW g \in Frames, NEW h \in Frames,
                      NEW i \in DOMAIN toBrowser'[g], NEW j \in DOMAIN toBrowser'[h],
                      toBrowser'[g][i].type = "query", toBrowser'[h][j].type = "query",
                      IsSame(g, toBrowser'[g][i], h, toBrowser'[h][j])
               PROVE  g = h /\ i = j
    BY DEF MessagesDiffer, IsSame
  <2>1. \A k \in Frames : \A l \in DOMAIN toBrowser'[k] :
          \/ /\ l \in DOMAIN toBrowser[k] /\ toBrowser'[k][l] = toBrowser[k][l]
             /\ toBrowser[k][l] \in Items(toBrowser[k])
          \/ k = f /\ l = Len(toBrowser[f]) + 1 /\ toBrowser'[k][l] = n
    <3> TAKE k \in Frames
    <3>1. CASE k # f
      BY <3>1, SentItems DEF Items
    <3>2. CASE k = f
      <4>1. toBrowser[f] \in Seq(QueryMsgs \cup CancelMsgs) /\ toBrowser'[f] = Append(toBrowser[f], n)
        BY SentItems DEF TypeOK, ChannelTypeOK
      <4>2. \A l \in DOMAIN toBrowser'[f] : \/ l \in DOMAIN toBrowser[f] /\ toBrowser'[f][l] = toBrowser[f][l]
                                            \/ l = Len(toBrowser[f]) + 1 /\ toBrowser'[f][l] = n
        BY <4>1
      <4> QED
        BY <3>2, <4>2 DEF Items
    <3> QED
      BY <3>1, <3>2
  <2> QED
    BY <2>1 DEF AskedOnce, MessagesDiffer
<1> QED
  BY <1>1, <1>2, <1>3 DEF AskedOnce

LEMMA NextAskedOnce ==
    ASSUME TypeOK, IdsAreOld, AskedOnce, [Next]_vars
    PROVE  AskedOnce'
<1>1. ASSUME ~PageSends, asked' = asked PROVE AskedOnce'
  <2>1. \A f \in Frames : Shrunk(toBrowser'[f], toBrowser[f]) /\ Items(toBrowser'[f]) \subseteq Items(toBrowser[f])
    BY <1>1, MessagesShrink, ShrunkItems
  <2>2. MessagesDiffer'
    BY <2>1, NextType, ShrunkDiffer DEF AskedOnce
  <2>3. MessagesAreNew'
    <3>1. \A f \in Frames : Items(toBrowser[f])' \subseteq Items(toBrowser[f])
      BY <2>1 DEF Items
    <3> QED
      BY <1>1, <3>1 DEF AskedOnce, MessagesAreNew, IsSame
  <2>4. AskersDiffer'
    BY <1>1 DEF AskedOnce, AskersDiffer, IsSame
  <2> QED
    BY <2>2, <2>3, <2>4 DEF AskedOnce
<1>2. ASSUME ~PageSends, asked' # asked PROVE AskedOnce'
  <2>1. PICK f \in Frames : ReceiveQuery(f)
    BY <1>2, AskedSteps
  <2>2. PICK m \in Items(toBrowser[f]) :
             /\ m = Head(toBrowser[f]) /\ m.type = "query"
             /\ toBrowser[f] # <<>> /\ toBrowser' = [toBrowser EXCEPT ![f] = Tail(@)]
             /\ Len(asked) \in Nat
             /\ \A i \in DOMAIN asked : asked'[i] = asked[i]
             /\ DOMAIN asked = 1..Len(asked) /\ DOMAIN asked' = 1..(Len(asked) + 1)
             /\ asked'[Len(asked) + 1] = [frame |-> f, ctx |-> m.ctx, req |-> m.req]
    BY <2>1, ReceivedQuery
  <2>3. PICK n : n = Len(asked) + 1
    OBVIOUS
  <2>4. asked'[n].frame = f /\ asked'[n].req = m.req
    BY <2>2, <2>3
  <2>5. \A i \in DOMAIN asked' : i = n \/ (i \in DOMAIN asked /\ asked'[i] = asked[i])
    BY <2>2, <2>3
  <2>6. \A i \in DOMAIN asked : /\ ~IsSame(f, m, asked[i].frame, asked[i])
                                /\ ~IsSame(asked[i].frame, asked[i], f, m)
    BY <2>2 DEF AskedOnce, MessagesAreNew, IsSame
  <2>7. AskersDiffer'
    <3> SUFFICES ASSUME NEW i \in DOMAIN asked', NEW j \in DOMAIN asked',
                        IsSame(asked'[i].frame, asked'[i], asked'[j].frame, asked'[j])
                 PROVE  i = j
      BY DEF AskersDiffer, IsSame
    <3>1. CASE i = n /\ j = n
      BY <3>1
    <3>2. CASE i = n /\ j # n
      BY <2>4, <2>5, <2>6, <3>2 DEF IsSame
    <3>3. CASE i # n /\ j = n
      BY <2>4, <2>5, <2>6, <3>3 DEF IsSame
    <3>4. CASE i # n /\ j # n
      BY <2>5, <3>4 DEF AskedOnce, AskersDiffer
    <3> QED
      BY <3>1, <3>2, <3>3, <3>4
  <2>8. \A g \in Frames : Shrunk(toBrowser'[g], toBrowser[g]) /\ Items(toBrowser'[g]) \subseteq Items(toBrowser[g])
    BY <1>2, MessagesShrink, ShrunkItems
  <2>9. ASSUME NEW g \in Frames, NEW k \in DOMAIN toBrowser'[g], toBrowser'[g][k].type = "query"
        PROVE  ~IsSame(g, toBrowser'[g][k], f, m)
    <3>1. toBrowser[f] \in Seq(QueryMsgs \cup CancelMsgs)
      BY DEF TypeOK, ChannelTypeOK
    <3>2. 1 \in DOMAIN toBrowser[f] /\ toBrowser[f][1] = m
      BY <2>2, <3>1
    <3>3. CASE g = f
      <4>1. toBrowser'[f] = Tail(toBrowser[f])
        BY <2>2, <3>1 DEF TypeOK, ChannelTypeOK
      <4>2. k + 1 \in DOMAIN toBrowser[f] /\ toBrowser'[f][k] = toBrowser[f][k + 1] /\ k + 1 # 1
        <5>1. k \in DOMAIN Tail(toBrowser[f])
          BY <2>9, <3>3, <4>1
        <5>2. k \in 1..(Len(toBrowser[f]) - 1) /\ Len(toBrowser[f]) \in Nat /\ DOMAIN toBrowser[f] = 1..Len(toBrowser[f])
          BY <2>2, <3>1, <5>1
        <5>3. Tail(toBrowser[f])[k] = toBrowser[f][k + 1]
          BY <2>2, <3>1, <5>1
        <5> QED
          BY <4>1, <5>2, <5>3
      <4> QED
        BY <2>2, <2>9, <3>2, <3>3, <4>2 DEF AskedOnce, MessagesDiffer
    <3>4. CASE g # f
      <4>1. toBrowser'[g] = toBrowser[g]
        BY <2>2, <3>4 DEF TypeOK, ChannelTypeOK
      <4> QED
        BY <2>2, <2>9, <3>2, <3>4, <4>1 DEF AskedOnce, MessagesDiffer
    <3> QED
      BY <3>3, <3>4
  <2>10. MessagesAreNew'
    <3> SUFFICES ASSUME NEW g \in Frames, NEW x \in Items(toBrowser'[g]), NEW i \in DOMAIN asked', x.type = "query"
                 PROVE  ~IsSame(g, x, asked'[i].frame, asked'[i])
      BY DEF MessagesAreNew, IsSame, Items
    <3>1. CASE i = n
      <4>1. ~IsSame(g, x, f, m)
        BY <2>9 DEF Items
      <4> QED
        BY <2>4, <3>1, <4>1 DEF IsSame
    <3>2. CASE i # n
      BY <2>5, <2>8, <3>2 DEF AskedOnce, MessagesAreNew
    <3> QED
      BY <3>1, <3>2
  <2>11. MessagesDiffer'
    BY <2>8, NextType, ShrunkDiffer DEF AskedOnce
  <2> QED
    BY <2>7, <2>10, <2>11 DEF AskedOnce
<1>3. ASSUME NEW f \in Frames, NEW kind \in Kinds, NEW persistent \in BOOLEAN, SendQuery(f, kind, persistent)
      PROVE  AskedOnce'
  <2>1. PICK n : n = QueryOf(f, kind, persistent)
    OBVIOUS
  <2>2. Sends(f, n) /\ UNCHANGED asked /\ n.req = nextRequest[FrameProc[f]] + 1
    BY <1>3, <2>1 DEF SendQuery, Sends, QueryOf, history
  <2>3. \A p \in Procs : nextRequest[p] \in Nat
    BY ConstantsAssumption DEF TypeOK, PageTypeOK
  <2>4. \A g \in Frames : \A x : IsOld(g, x) /\ x.req \in Nat => ~IsSame(f, n, g, x) /\ ~IsSame(g, x, f, n)
    BY <2>2, <2>3, ConstantsAssumption DEF IsOld, IsSame
  <2>5. \A g \in Frames : \A m \in Items(toBrowser[g]) : ~IsSame(f, n, g, m) /\ ~IsSame(g, m, f, n)
    BY <2>4, IdTypes DEF IdsAreOld
  <2>6. \A i \in DOMAIN asked : ~IsSame(f, n, asked[i].frame, asked[i])
    BY <2>4, IdTypes DEF IdsAreOld
  <2> QED
    BY <2>2, <2>5, <2>6, SentOnce
<1>4. ASSUME NEW f \in Frames, NEW ctx, NEW req, NEW Gone, SendCancel(f, ctx, req, Gone), asked' = asked
      PROVE  AskedOnce'
  <2>1. PICK n : n = CancelOf(ctx, req)
    OBVIOUS
  <2>2. n.type = "cancel"
    BY <2>1 DEF CancelOf
  <2>3. UNCHANGED toBrowser \/ Sends(f, n)
    BY <1>4, <2>1, CancelSends
  <2>4. CASE Sends(f, n)
    BY <1>4, <2>2, <2>4, SentOnce
  <2>5. CASE UNCHANGED toBrowser
    BY <1>4, <2>5 DEF AskedOnce, AskersDiffer, MessagesAreNew, MessagesDiffer, IsSame, Items
  <2> QED
    BY <2>3, <2>4, <2>5
<1>5. ASSUME NEW f \in Frames, NEW req, CancelRequest(f, req) PROVE AskedOnce'
  BY <1>4, <1>5 DEF CancelRequest
<1>6. ASSUME NEW f \in Frames, ContextReleased(f) PROVE AskedOnce'
  BY <1>4, <1>6 DEF ContextReleased
<1> QED
  BY <1>1, <1>2, <1>3, <1>5, <1>6 DEF PageSends

------------------------------------------------------------------------------
\* Live frames have a process and a window, and a browser of which a crash is to be
\* reported had a process that crashed.
LiveIsUp ==
    \A f \in Frames : frame[f] = "live" => FrameProc[f] \notin dead /\ browser[FrameBrowser[f]] = "open"

OwedIsDead == \A b \in owed : \E f \in FramesOf(b) : FrameProc[f] \in dead

LEMMA NextLiveIsUp ==
    ASSUME TypeOK, LiveIsUp, [Next]_vars
    PROVE  LiveIsUp'
<1>1. /\ frame \in [Frames -> {"none", "live", "gone"}] /\ FrameBrowser \in [Frames -> Browsers]
      /\ browser \in [Browsers -> {"none", "open", "closed"}]
  BY ConstantsAssumption DEF TypeOK, PageTypeOK, BrowserTypeOK
<1>2. ASSUME dead' = dead, frame' = frame, browser' = browser PROVE LiveIsUp'
  BY <1>2 DEF LiveIsUp
<1>3. CASE UNCHANGED vars
  BY <1>2, <1>3 DEF vars, rendererVars, browserVars
<1>4. ASSUME NEW f \in Frames, Page(f) PROVE LiveIsUp'
  <2>1. CASE FrameCreated(f)
    BY <1>1, <2>1 DEF FrameCreated, browserVars, LiveIsUp
  <2>2. ASSUME NEW kind, NEW persistent, SendQuery(f, kind, persistent) PROVE LiveIsUp'
    BY <1>2, <2>2 DEF SendQuery, browserVars
  <2>3. ASSUME NEW req, CancelRequest(f, req) PROVE LiveIsUp'
    BY <1>2, <2>3 DEF CancelRequest, browserVars
  <2>4. CASE ContextReleased(f)
    BY <1>1, <2>4 DEF ContextReleased, browserVars, LiveIsUp
  <2> QED
    BY <1>4, <2>1, <2>2, <2>3, <2>4 DEF Page
<1>5. ASSUME NEW f \in Frames, Delivery(f) \/ BeforeBrowse(f) \/ LoseMessage(f) PROVE LiveIsUp'
  BY <1>2, <1>5 DEF Delivery, ReceiveQuery, ReceiveCancel, ReceiveReply, BeforeBrowse, LoseMessage,
     rendererVars, browserVars
<1>6. ASSUME NEW p \in Procs, ExecuteCallback(p) \/ Crash(p) PROVE LiveIsUp'
  <2>1. CASE ExecuteCallback(p)
    BY <1>2, <2>1 DEF ExecuteCallback, browserVars
  <2>2. CASE Crash(p)
    BY <1>1, <2>2 DEF Crash, FramesIn, LiveIsUp
  <2> QED
    BY <1>6, <2>1, <2>2
<1>7. ASSUME NEW b \in Browsers, Window(b) PROVE LiveIsUp'
  <2>1. CASE AfterCreated(b)
    BY <1>1, <2>1 DEF AfterCreated, rendererVars, LiveIsUp
  <2>2. CASE RenderProcessTerminated(b)
    BY <1>2, <2>2 DEF RenderProcessTerminated, rendererVars
  <2>3. CASE BeforeClose(b)
    BY <1>1, <2>3 DEF BeforeClose, FramesOf, LiveIsUp
  <2> QED
    BY <1>7, <2>1, <2>2, <2>3 DEF Window
<1>8. ASSUME (\E j \in jobs : JobDone(j)) \/ OnCallback PROVE LiveIsUp'
  BY <1>2, <1>8 DEF JobDone, OnCallback, rendererVars, browserVars
<1> QED
  BY <1>3, <1>4, <1>5, <1>6, <1>7, <1>8 DEF Next

LEMMA NextOwedIsDead ==
    ASSUME TypeOK, OwedIsDead, [Next]_vars
    PROVE  OwedIsDead'
<1>1. ASSUME owed' \subseteq owed, dead' = dead PROVE OwedIsDead'
  BY <1>1 DEF OwedIsDead
<1>2. CASE UNCHANGED vars
  BY <1>1, <1>2 DEF vars, rendererVars, browserVars
<1>3. ASSUME NEW f \in Frames, Page(f) \/ Delivery(f) \/ BeforeBrowse(f) \/ LoseMessage(f) PROVE OwedIsDead'
  BY <1>1, <1>3 DEF Page, FrameCreated, SendQuery, CancelRequest, ContextReleased, Delivery, ReceiveQuery,
     ReceiveCancel, ReceiveReply, BeforeBrowse, LoseMessage, rendererVars, browserVars
<1>4. ASSUME NEW p \in Procs, ExecuteCallback(p) \/ Crash(p) PROVE OwedIsDead'
  <2>1. CASE ExecuteCallback(p)
    BY <1>1, <2>1 DEF ExecuteCallback, browserVars
  <2>2. CASE Crash(p)
    BY <2>2, ConstantsAssumption DEF Crash, FramesIn, FramesOf, OwedIsDead
  <2> QED
    BY <1>4, <2>1, <2>2
<1>5. ASSUME NEW b \in Browsers, Window(b) PROVE OwedIsDead'
  BY <1>1, <1>5 DEF Window, AfterCreated, RenderProcessTerminated, BeforeClose, rendererVars
<1>6. ASSUME (\E j \in jobs : JobDone(j)) \/ OnCallback PROVE OwedIsDead'
  BY <1>1, <1>6 DEF JobDone, OnCallback, rendererVars, browserVars
<1> QED
  BY <1>2, <1>3, <1>4, <1>5, <1>6 DEF Next

------------------------------------------------------------------------------
\* What the browser process knows of a request is what its page asked for.

\* The ids of a query were issued.
LEMMA QueriesAreOld ==
    ASSUME TypeOK, Provenance, IdsAreOld
    PROVE  \A q \in queries : q.frame \in Frames /\ IsOld(q.frame, q)
<1> TAKE q \in queries
<1>1. q.query \in DOMAIN asked /\ asked[q.query] = [frame |-> q.frame, ctx |-> q.ctx, req |-> q.req]
  BY DEF Provenance, QueriesAsked, AskedBy
<1>2. IsOld(asked[q.query].frame, asked[q.query])
  BY <1>1 DEF IdsAreOld
<1>3. asked[q.query].frame = q.frame /\ asked[q.query].ctx = q.ctx /\ asked[q.query].req = q.req
  BY <1>1
<1> QED
  BY <1>2, <1>3, <1>1, IdTypes DEF IsOld

\* x, which frame f sent or received, is about request r.
IsFor(f, x, r) == r.key.proc = FrameProc[f] /\ r.key.ctx = x.ctx /\ r.key.req = x.req

LEMMA KeysTell ==
    ASSUME TypeOK
    PROVE  /\ \A r \in pending : /\ r.key \in Keys /\ r.key = [proc |-> r.key.proc, ctx |-> r.key.ctx, req |-> r.key.req]
                                 /\ r.key.proc \in Procs /\ r.key.ctx \in ContextIds /\ r.key.req \in RequestIds
           /\ \A r \in pending, q \in queries : KeyOf(q) = r.key <=> IsFor(q.frame, q, r)
<1>1. ASSUME NEW r \in pending
      PROVE  /\ r.key \in Keys /\ r.key = [proc |-> r.key.proc, ctx |-> r.key.ctx, req |-> r.key.req]
             /\ r.key.proc \in Procs /\ r.key.ctx \in ContextIds /\ r.key.req \in RequestIds
  <2>1. r.key \in Keys
    BY DEF TypeOK, RequestTypeOK, RequestInfo
  <2> QED
    BY <2>1 DEF Keys
<1>2. ASSUME NEW r \in pending, NEW q \in queries PROVE KeyOf(q) = r.key <=> IsFor(q.frame, q, r)
  BY <1>1 DEF KeyOf, IsFor
<1> QED
  BY <1>1, <1>2

PersistenceKept ==
    \A r \in pending :
        /\ \A q \in queries : IsFor(q.frame, q, r) => q.persistent = r.persistent
        /\ \A f \in Frames : \A m \in Items(toBrowser[f]) :
             m.type = "query" /\ IsFor(f, m, r) => m.persistent = r.persistent

LEMMA PersistenceShrinks ==
    ASSUME PersistenceKept, pending' \subseteq pending, queries' \subseteq queries,
           \A f \in Frames : \A m \in Items(toBrowser'[f]) :
              m.type = "query" => m \in Items(toBrowser[f])
    PROVE  PersistenceKept'
<1> SUFFICES ASSUME NEW r \in pending'
             PROVE  /\ \A q \in queries' : IsFor(q.frame, q, r) => q.persistent = r.persistent
                    /\ \A f \in Frames : \A m \in Items(toBrowser'[f]) :
                         m.type = "query" /\ IsFor(f, m, r) => m.persistent = r.persistent
  BY DEF PersistenceKept, IsFor, Items
<1> QED
  BY DEF PersistenceKept

\* The steps that make a request or a query.
LEMMA RequestSteps ==
    ASSUME [Next]_vars
    PROVE  \/ \E f \in Frames, kind \in Kinds, persistent \in BOOLEAN : SendQuery(f, kind, persistent)
           \/ \E f \in Frames : ReceiveQuery(f)
           \/ pending' \subseteq pending /\ queries' \subseteq queries
<1>1. CASE UNCHANGED vars
  BY <1>1 DEF vars, rendererVars, routerVars
<1>2. ASSUME NEW f \in Frames, Page(f)
      PROVE  \/ \E kind \in Kinds, persistent \in BOOLEAN : SendQuery(f, kind, persistent)
             \/ pending' \subseteq pending /\ queries' \subseteq queries
  BY <1>2 DEF Page, FrameCreated, CancelRequest, ContextReleased, SendCancel, routerVars
<1>3. ASSUME NEW f \in Frames, ReceiveCancel(f) \/ ReceiveReply(f) \/ BeforeBrowse(f) \/ LoseMessage(f)
      PROVE  pending' \subseteq pending /\ queries' \subseteq queries
  BY <1>3 DEF ReceiveCancel, ReceiveReply, BeforeBrowse, LoseMessage, CancelQueries, rendererVars, routerVars
<1>4. ASSUME NEW p \in Procs, ExecuteCallback(p) \/ Crash(p)
      PROVE  pending' \subseteq pending /\ queries' \subseteq queries
  BY <1>4 DEF ExecuteCallback, Crash, routerVars
<1>5. ASSUME NEW b \in Browsers, Window(b)
      PROVE  pending' \subseteq pending /\ queries' \subseteq queries
  BY <1>5 DEF Window, AfterCreated, RenderProcessTerminated, BeforeClose, CancelQueries, rendererVars, routerVars
<1>6. ASSUME (\E j \in jobs : JobDone(j)) \/ OnCallback
      PROVE  pending' \subseteq pending /\ queries' \subseteq queries
  BY <1>6 DEF JobDone, OnCallback, rendererVars
<1> QED
  BY <1>1, <1>2, <1>3, <1>4, <1>5, <1>6 DEF Next, Delivery

\* The queries that pages send are their own; nothing else brings one.
LEMMA QueryMessages ==
    ASSUME TypeOK, [Next]_vars,
           ~\E f \in Frames, kind \in Kinds, persistent \in BOOLEAN : SendQuery(f, kind, persistent)
    PROVE  \A f \in Frames : \A m \in Items(toBrowser'[f]) : m.type = "query" => m \in Items(toBrowser[f])
<1> SUFFICES ASSUME NEW f \in Frames, NEW m \in Items(toBrowser'[f]), m.type = "query"
             PROVE  m \in Items(toBrowser[f])
  OBVIOUS
<1>1. CASE ~PageSends
  BY <1>1, MessagesShrink, ShrunkItems
<1>2. ASSUME NEW g \in Frames, NEW ctx, NEW req, NEW Gone, SendCancel(g, ctx, req, Gone)
      PROVE  m \in Items(toBrowser[f])
  <2>1. PICK n : n = CancelOf(ctx, req)
    OBVIOUS
  <2>2. n.type = "cancel"
    BY <2>1 DEF CancelOf
  <2>3. UNCHANGED toBrowser \/ Sends(g, n)
    BY <1>2, <2>1, CancelSends
  <2> QED
    BY <2>2, <2>3, SentItems
<1>3. CASE PageSends
  BY <1>2, <1>3 DEF PageSends, CancelRequest, ContextReleased
<1> QED
  BY <1>1, <1>3

LEMMA NextPersistenceKept ==
    ASSUME TypeOK, QuietIsOver, Provenance, IdsAreOld, PersistenceKept, [Next]_vars
    PROVE  PersistenceKept'
<1>1. ASSUME NEW f \in Frames, NEW kind \in Kinds, NEW persistent \in BOOLEAN, SendQuery(f, kind, persistent)
      PROVE  PersistenceKept'
  <2>1. PICK n : n = QueryOf(f, kind, persistent)
    OBVIOUS
  <2>2. PICK new : new = [browser |-> FrameBrowser[f], persistent |-> persistent,
                          key |-> [proc |-> FrameProc[f], ctx |-> n.ctx, req |-> n.req]]
    OBVIOUS
  <2>3. n.req = nextRequest[FrameProc[f]] + 1 /\ n.persistent = persistent /\ n.ctx = contextId'[f]
    BY <2>1 DEF QueryOf
  <2>4. Sends(f, n) /\ queries' = queries /\ pending' = pending \cup {new}
    BY <1>1, <2>1, <2>2, <2>3 DEF SendQuery, Sends, QueryOf, routerVars
  <2>5. new.persistent = persistent /\ new.key.proc = FrameProc[f] /\ new.key.req = n.req
    BY <2>2
  <2>6. \A p \in Procs : nextRequest[p] \in Nat
    BY ConstantsAssumption DEF TypeOK, PageTypeOK
  <2>7. \A g \in Frames : \A x : IsOld(g, x) /\ x.req \in Nat => ~IsFor(g, x, new)
    BY <2>3, <2>5, <2>6, ConstantsAssumption DEF IsOld, IsFor
  <2>8. \A r \in pending : ~IsFor(f, n, r)
    <3> TAKE r \in pending
    <3>1. r.key.req <= nextRequest[r.key.proc] /\ r.key.req \in Nat
      <4>1. r.key \in RequestsIn(pending)
        BY DEF RequestsIn
      <4>2. r.key.req \in Nat
        <5>1. r.key.req \in RequestIds
          BY KeysTell
        <5> QED
          BY <5>1, ConstantsAssumption DEF RequestIds
      <4> QED
        BY <4>1, <4>2 DEF QuietIsOver
    <3> QED
      BY <2>3, <2>6, <3>1, ConstantsAssumption DEF IsFor
  <2>9. \A q \in queries : q.req \in Nat
    BY ConstantsAssumption DEF TypeOK, BrowserTypeOK, QueryInfo, RequestIds
  <2>10. \A g \in Frames : \A m \in Items(toBrowser'[g]) : m \in Items(toBrowser[g]) \/ (g = f /\ m = n)
    BY <2>4, SentItems
  <2> SUFFICES ASSUME NEW r \in pending'
               PROVE  /\ \A q \in queries : IsFor(q.frame, q, r) => q.persistent = r.persistent
                      /\ \A g \in Frames : \A m \in Items(toBrowser'[g]) :
                           m.type = "query" /\ IsFor(g, m, r) => m.persistent = r.persistent
    BY <2>4 DEF PersistenceKept, IsFor, Items
  <2>11. CASE r \in pending
    BY <2>8, <2>10, <2>11 DEF PersistenceKept
  <2>12. CASE r = new
    <3>1. \A q \in queries : ~IsFor(q.frame, q, new)
      BY <2>7, <2>9, QueriesAreOld
    <3>2. \A g \in Frames : \A m \in Items(toBrowser[g]) : ~IsFor(g, m, new)
      BY <2>7, IdTypes DEF IdsAreOld
    <3> QED
      BY <2>3, <2>5, <2>10, <2>12, <3>1, <3>2
  <2> QED
    BY <2>4, <2>11, <2>12
<1> SUFFICES ASSUME ~\E f \in Frames, kind \in Kinds, persistent \in BOOLEAN : SendQuery(f, kind, persistent)
             PROVE  PersistenceKept'
  BY <1>1
<1>2. \A f \in Frames : \A m \in Items(toBrowser'[f]) : m.type = "query" => m \in Items(toBrowser[f])
  BY QueryMessages
<1>3. ASSUME NEW f \in Frames, ReceiveQuery(f)
      PROVE  PersistenceKept'
  <2>1. PICK m : m = Head(toBrowser[f])
    OBVIOUS
  <2>2. m \in Items(toBrowser[f]) /\ m.type = "query"
    BY <1>3, <2>1, ReceivedQuery
  <2>3. PICK id : id = Len(asked) + 1
    OBVIOUS
  <2>4. PICK new : new = [query |-> id, frame |-> f, ctx |-> m.ctx, req |-> m.req, persistent |-> m.persistent]
    OBVIOUS
  <2>5. queries' \subseteq queries \cup {new} /\ pending' = pending
    BY <1>3, <2>1, <2>3, <2>4 DEF ReceiveQuery, rendererVars
  <2>6. \A r \in pending : IsFor(new.frame, new, r) => new.persistent = r.persistent
    <3>1. new.frame = f /\ new.ctx = m.ctx /\ new.req = m.req /\ new.persistent = m.persistent
      BY <2>4
    <3> QED
      BY <2>2, <3>1 DEF PersistenceKept, IsFor
  <2>7. \A r \in pending : \A q \in queries' : IsFor(q.frame, q, r) => q.persistent = r.persistent
    BY <2>5, <2>6 DEF PersistenceKept
  <2>8. \A r \in pending : \A g \in Frames : \A x \in Items(toBrowser'[g]) :
          x.type = "query" /\ IsFor(g, x, r) => x.persistent = r.persistent
    BY <1>2 DEF PersistenceKept
  <2> QED
    BY <2>5, <2>7, <2>8 DEF PersistenceKept, IsFor, Items
<1>4. CASE pending' \subseteq pending /\ queries' \subseteq queries
  BY <1>2, <1>4, PersistenceShrinks
<1> QED
  BY <1>3, <1>4, RequestSteps

------------------------------------------------------------------------------
\* The reply to a query that is still in the map is not its last.
GoesOn(a) == \A q \in queries : q.query = a.query => a.answer.ok /\ q.persistent

RepliesGoOn ==
    /\ \A f \in Frames : \A a \in Items(toRenderer[f]) : GoesOn(a)
    /\ \A p \in Procs : \A t \in Items(rendererTasks[p]) : GoesOn(t.reply)

\* No new query and no reply but those that were.
LEMMA RepliesShrink ==
    ASSUME RepliesGoOn, queries' \subseteq queries,
           \A f \in Frames : Items(toRenderer'[f]) \subseteq Items(toRenderer[f]),
           \A p \in Procs : Items(rendererTasks'[p]) \subseteq Items(rendererTasks[p])
    PROVE  RepliesGoOn'
<1>1. \A f \in Frames : \A a \in Items(toRenderer'[f]) : GoesOn(a)'
  BY DEF RepliesGoOn, GoesOn
<1>2. \A p \in Procs : \A t \in Items(rendererTasks'[p]) : GoesOn(t.reply)'
  BY DEF RepliesGoOn, GoesOn
<1> QED
  BY <1>1, <1>2 DEF RepliesGoOn, Items

\* A reply is sent to a frame that is live.
LEMMA ReplyItems ==
    ASSUME TypeOK, NEW f \in Frames, NEW ctx, NEW req, NEW answer, NEW query, NEW r,
           r = [ctx |-> ctx, req |-> req, answer |-> answer, query |-> query],
           toRenderer' = SendReply(f, ctx, req, answer, query)
    PROVE  /\ \A g \in Frames : Items(toRenderer'[g]) \subseteq Items(toRenderer[g]) \cup {r}
           /\ \A g \in Frames : Items(toRenderer[g]) \subseteq Items(toRenderer'[g])
           /\ frame[f] = "live" => r \in Items(toRenderer'[f])
<1>1. toRenderer \in [Frames -> Seq(Replies)]
  BY DEF TypeOK, ChannelTypeOK
<1>2. CASE frame[f] = "live"
  <2>1. toRenderer' = [toRenderer EXCEPT ![f] = Append(@, r)]
    BY <1>2 DEF SendReply
  <2>2. Items(Append(toRenderer[f], r)) = Items(toRenderer[f]) \cup {r}
    BY <1>1, AppendItems
  <2>3. \A g \in Frames : toRenderer'[g] = IF g = f THEN Append(toRenderer[f], r) ELSE toRenderer[g]
    BY <1>1, <2>1
  <2> QED
    BY <2>2, <2>3
<1>3. CASE frame[f] # "live"
  BY <1>3 DEF SendReply
<1> QED
  BY <1>2, <1>3

LEMMA ReplySent ==
    ASSUME TypeOK, RepliesGoOn, NEW f \in Frames, NEW ctx, NEW req, NEW answer, NEW query,
           toRenderer' = SendReply(f, ctx, req, answer, query),
           queries' \subseteq queries, UNCHANGED rendererTasks,
           \A q \in queries' : q.query = query => answer.ok /\ q.persistent
    PROVE  RepliesGoOn'
<1>1. PICK r : r = [ctx |-> ctx, req |-> req, answer |-> answer, query |-> query]
  OBVIOUS
<1>2. GoesOn(r)'
  BY <1>1 DEF GoesOn
<1>3. \A g \in Frames : Items(toRenderer'[g]) \subseteq Items(toRenderer[g]) \cup {r}
  BY <1>1, ReplyItems
<1>4. \A a : GoesOn(a) => GoesOn(a)'
  BY DEF GoesOn
<1>5. \A g \in Frames : \A a \in Items(toRenderer'[g]) : GoesOn(a)'
  BY <1>2, <1>3, <1>4 DEF RepliesGoOn
<1>6. \A p \in Procs : \A t \in Items(rendererTasks'[p]) : GoesOn(t.reply)'
  BY <1>4 DEF RepliesGoOn
<1> QED
  BY <1>5, <1>6 DEF RepliesGoOn, Items

LEMMA ReceiveReplyGoesOn ==
    ASSUME TypeOK, RepliesGoOn, NEW f \in Frames, ReceiveReply(f)
    PROVE  RepliesGoOn'
<1>1. PICK t : t = [browser |-> FrameBrowser[f], reply |-> Head(toRenderer[f])]
  OBVIOUS
<1>2. /\ toRenderer[f] # <<>> /\ toRenderer' = [toRenderer EXCEPT ![f] = Tail(@)]
      /\ rendererTasks' = [rendererTasks EXCEPT ![FrameProc[f]] = Append(@, t)]
      /\ queries' = queries
  BY <1>1 DEF ReceiveReply, routerVars
<1>3. /\ toRenderer \in [Frames -> Seq(Replies)] /\ rendererTasks \in [Procs -> Seq(RendererTasks)]
      /\ FrameProc[f] \in Procs
  BY ConstantsAssumption DEF TypeOK, ChannelTypeOK, RequestTypeOK
<1>4. t.reply \in Items(toRenderer[f]) /\ Items(Tail(toRenderer[f])) \subseteq Items(toRenderer[f])
  BY <1>1, <1>2, <1>3, TailItems
<1>5. \A a : GoesOn(a) => GoesOn(a)'
  BY <1>2 DEF GoesOn
<1>6. \A g \in Frames : \A a \in Items(toRenderer'[g]) : GoesOn(a)'
  BY <1>2, <1>3, <1>4, <1>5 DEF RepliesGoOn
<1>7. \A p \in Procs : Items(rendererTasks'[p]) \subseteq Items(rendererTasks[p]) \cup {t}
  <2>1. Items(Append(rendererTasks[FrameProc[f]], t)) = Items(rendererTasks[FrameProc[f]]) \cup {t}
    BY <1>3, AppendItems
  <2> QED
    BY <1>2, <1>3, <2>1
<1>8. \A p \in Procs : \A u \in Items(rendererTasks'[p]) : GoesOn(u.reply)'
  BY <1>4, <1>5, <1>7 DEF RepliesGoOn
<1> QED
  BY <1>6, <1>8 DEF RepliesGoOn, Items

LEMMA ReceiveQueryGoesOn ==
    ASSUME TypeOK, Provenance, RepliesGoOn, NEW f \in Frames, ReceiveQuery(f)
    PROVE  RepliesGoOn'
<1>1. PICK id : id = Len(asked) + 1
  OBVIOUS
<1>2. id \notin DOMAIN asked /\ UNCHANGED rendererTasks
  <2>1. asked \in Seq(Askers)
    BY DEF TypeOK, HistoryTypeOK
  <2> QED
    BY <1>1, <2>1 DEF ReceiveQuery, rendererVars
<1>3. \A q \in queries : q.query # id
  BY <1>2 DEF Provenance, QueriesAsked, AskedBy
<1>4. CASE queries' = queries
  <2>1. \/ \E ctx, req : toRenderer' = SendReply(f, ctx, req, Canceled, id)
        \/ UNCHANGED toRenderer
    BY <1>1 DEF ReceiveQuery
  <2>2. CASE UNCHANGED toRenderer
    BY <1>2, <1>4, <2>2, RepliesShrink
  <2>3. CASE \E ctx, req : toRenderer' = SendReply(f, ctx, req, Canceled, id)
    BY <1>2, <1>3, <1>4, <2>3, ReplySent
  <2> QED
    BY <2>1, <2>2, <2>3
<1>5. CASE queries' # queries
  <2>1. PICK new : UNCHANGED toRenderer /\ queries' = queries \cup {new} /\ new.query = id
    <3>1. PICK m : m = Head(toBrowser[f])
      OBVIOUS
    <3>2. PICK new : new = [query |-> id, frame |-> f, ctx |-> m.ctx, req |-> m.req, persistent |-> m.persistent]
      OBVIOUS
    <3>3. UNCHANGED toRenderer /\ queries' = queries \cup {new}
      BY <1>1, <1>5, <3>1, <3>2 DEF ReceiveQuery
    <3>4. new.query = id
      BY <3>2
    <3> QED
      BY <3>3, <3>4
  <2>2. \A a : a.query \in DOMAIN asked /\ GoesOn(a) => GoesOn(a)'
    BY <1>2, <2>1 DEF GoesOn
  <2>3. \A g \in Frames : \A a \in Items(toRenderer'[g]) : GoesOn(a)'
    BY <2>1, <2>2 DEF RepliesGoOn, Provenance, RepliesOwn, AskedBy
  <2>4. \A p \in Procs : \A t \in Items(rendererTasks'[p]) : GoesOn(t.reply)'
    BY <1>2, <2>2 DEF RepliesGoOn, Provenance, CallsOwn, AskedBy
  <2> QED
    BY <2>3, <2>4 DEF RepliesGoOn, Items
<1> QED
  BY <1>4, <1>5

LEMMA OnCallbackGoesOn ==
    ASSUME TypeOK, RepliesGoOn, OnCallback
    PROVE  RepliesGoOn'
<1>1. PICK t : t = Head(uiTasks)
  OBVIOUS
<1>2. /\ queries' = {q \in queries : q.query = t.query => t.answer.ok /\ q.persistent}
      /\ UNCHANGED rendererTasks
  BY <1>1 DEF OnCallback, rendererVars
<1>3. CASE UNCHANGED toRenderer
  BY <1>2, <1>3, RepliesShrink
<1>4. CASE ~UNCHANGED toRenderer
  <2>1. PICK q \in queries : q.query = t.query /\ toRenderer' = SendReply(q.frame, q.ctx, q.req, t.answer, q.query)
    BY <1>1, <1>4 DEF OnCallback
  <2>2. q.frame \in Frames
    BY DEF TypeOK, BrowserTypeOK, QueryInfo
  <2>3. \A s \in queries' : s.query = q.query => t.answer.ok /\ s.persistent
    BY <1>2, <2>1
  <2>4. queries' \subseteq queries
    BY <1>2
  <2> QED
    BY <1>2, <2>1, <2>2, <2>3, <2>4, ReplySent
<1> QED
  BY <1>3, <1>4

LEMMA NextRepliesGoOn ==
    ASSUME TypeOK, Provenance, RepliesGoOn, [Next]_vars
    PROVE  RepliesGoOn'
<1>1. /\ toRenderer \in [Frames -> Seq(Replies)] /\ rendererTasks \in [Procs -> Seq(RendererTasks)]
  BY DEF TypeOK, ChannelTypeOK, RequestTypeOK
<1>2. CASE queries' \subseteq queries /\ UNCHANGED <<toRenderer, rendererTasks>>
  BY <1>2, RepliesShrink
<1>3. CASE UNCHANGED vars
  BY <1>2, <1>3 DEF vars, routerVars, rendererVars, channels
<1>4. ASSUME NEW f \in Frames, Page(f) PROVE RepliesGoOn'
  <2>1. CASE ContextReleased(f)
    <3>1. \A g \in Frames : toRenderer'[g] = toRenderer[g] \/ toRenderer'[g] = <<>>
      BY <1>1, <2>1 DEF ContextReleased
    <3>2. \A g \in Frames : Items(toRenderer'[g]) \subseteq Items(toRenderer[g])
      BY <3>1, EmptyItems
    <3> QED
      BY <2>1, <3>2, RepliesShrink DEF ContextReleased, routerVars
  <2>2. CASE ~ContextReleased(f)
    BY <1>2, <1>4, <2>2 DEF Page, FrameCreated, SendQuery, CancelRequest, routerVars, channels
  <2> QED
    BY <2>1, <2>2
<1>5. ASSUME NEW f \in Frames, ReceiveCancel(f) \/ BeforeBrowse(f) PROVE RepliesGoOn'
  BY <1>2, <1>5 DEF ReceiveCancel, BeforeBrowse, CancelQueries, rendererVars, channels
<1>6. ASSUME NEW f \in Frames, LoseMessage(f) PROVE RepliesGoOn'
  <2>1. \A g \in Frames : Items(toRenderer'[g]) \subseteq Items(toRenderer[g])
    <3>1. CASE UNCHANGED toRenderer
      BY <3>1
    <3>2. CASE toRenderer[f] # <<>> /\ toRenderer' = [toRenderer EXCEPT ![f] = Tail(@)]
      <4>1. Items(Tail(toRenderer[f])) \subseteq Items(toRenderer[f])
        BY <1>1, <3>2, TailItems
      <4> QED
        BY <1>1, <3>2, <4>1
    <3> QED
      BY <1>6, <3>1, <3>2 DEF LoseMessage
  <2> QED
    BY <1>6, <2>1, RepliesShrink DEF LoseMessage, routerVars, rendererVars
<1>7. ASSUME NEW p \in Procs, ExecuteCallback(p) PROVE RepliesGoOn'
  <2>1. rendererTasks[p] # <<>> /\ rendererTasks' = [rendererTasks EXCEPT ![p] = Tail(@)]
    BY <1>7 DEF ExecuteCallback
  <2>2. Items(Tail(rendererTasks[p])) \subseteq Items(rendererTasks[p])
    BY <1>1, <2>1, TailItems
  <2>3. \A o \in Procs : Items(rendererTasks'[o]) \subseteq Items(rendererTasks[o])
    BY <1>1, <2>1, <2>2
  <2> QED
    BY <1>7, <2>3, RepliesShrink DEF ExecuteCallback, routerVars, channels
<1>8. ASSUME NEW p \in Procs, Crash(p) PROVE RepliesGoOn'
  <2>1. \A g \in Frames : toRenderer'[g] = toRenderer[g] \/ toRenderer'[g] = <<>>
    BY <1>1, <1>8 DEF Crash
  <2>2. \A o \in Procs : rendererTasks'[o] = rendererTasks[o] \/ rendererTasks'[o] = <<>>
    BY <1>1, <1>8 DEF Crash
  <2>3. /\ \A g \in Frames : Items(toRenderer'[g]) \subseteq Items(toRenderer[g])
        /\ \A o \in Procs : Items(rendererTasks'[o]) \subseteq Items(rendererTasks[o])
    BY <2>1, <2>2, EmptyItems
  <2> QED
    BY <1>8, <2>3, RepliesShrink DEF Crash, routerVars
<1>9. ASSUME NEW b \in Browsers, AfterCreated(b) \/ RenderProcessTerminated(b) PROVE RepliesGoOn'
  BY <1>2, <1>9 DEF AfterCreated, RenderProcessTerminated, CancelQueries, routerVars, rendererVars, channels
<1>10. ASSUME NEW b \in Browsers, BeforeClose(b) PROVE RepliesGoOn'
  <2>1. \A g \in Frames : toRenderer'[g] = toRenderer[g] \/ toRenderer'[g] = <<>>
    BY <1>1, <1>10 DEF BeforeClose
  <2>2. \A g \in Frames : Items(toRenderer'[g]) \subseteq Items(toRenderer[g])
    BY <2>1, EmptyItems
  <2>3. queries' \subseteq queries /\ UNCHANGED rendererTasks
    BY <1>10 DEF BeforeClose, CancelQueries
  <2> QED
    BY <2>2, <2>3, RepliesShrink
<1>11. ASSUME NEW j \in jobs, JobDone(j) PROVE RepliesGoOn'
  BY <1>2, <1>11 DEF JobDone, rendererVars, channels
<1> QED
  BY <1>3, <1>4, <1>5, <1>6, <1>7, <1>8, <1>9, <1>10, <1>11,
     ReceiveReplyGoesOn, ReceiveQueryGoesOn, OnCallbackGoesOn DEF Next, Delivery, Window

------------------------------------------------------------------------------
\* A cancel message on its way is about no request that is waited for.
CancelIsOver(f, m) ==
    /\ m.req = 0 => \A g \in FramesIn(FrameProc[f]) : contextId[g] # m.ctx
    /\ \A r \in pending : r.key.proc = FrameProc[f] /\ r.key.ctx = m.ctx => m.req \notin {0, r.key.req}

CancelsAreOver ==
    \A f \in Frames : \A m \in Items(toBrowser[f]) : m.type = "cancel" => CancelIsOver(f, m)

\* A context id that was issued and is not in use is not used again.
LEMMA ContextsEnd ==
    ASSUME TypeOK, [Next]_vars, NEW g \in Frames, NEW c \in ContextIds,
           c <= nextContext[FrameProc[g]], contextId'[g] = c
    PROVE  contextId[g] = c
<1>1. nextContext \in [Procs -> Nat] /\ c \in Nat \ {0} /\ FrameProc[g] \in Procs
  BY ConstantsAssumption DEF TypeOK, PageTypeOK, ContextIds
<1>2. contextId'[g] \in {0, contextId[g]} \/ contextId'[g] > nextContext[FrameProc[g]]
  BY NextIds DEF IdsGrow
<1> QED
  BY <1>1, <1>2

LEMMA NextCancelsAreOver ==
    ASSUME TypeOK, Pages, IdsAreOld, CancelsAreOver, [Next]_vars
    PROVE  CancelsAreOver'
<1>1. Pages' /\ TypeOK'
  BY NextPages, NextType
<1>2. \A p \in Procs : nextRequest[p] \in Nat
  BY ConstantsAssumption DEF TypeOK, PageTypeOK
\* Those that were on their way.
<1>3. ASSUME NEW f \in Frames, NEW m \in Items(toBrowser[f]), m.type = "cancel"
      PROVE  CancelIsOver(f, m)'
  <2>1. CancelIsOver(f, m) /\ IsOld(f, m) /\ m.ctx \in ContextIds /\ m.req \in Nat
    BY <1>3, IdTypes DEF CancelsAreOver, IdsAreOld
  <2>2. m.req = 0 => \A g \in FramesIn(FrameProc[f]) : contextId'[g] # m.ctx
    BY <2>1, ContextsEnd DEF CancelIsOver, IsOld, FramesIn
  <2>3. ASSUME NEW r \in pending', r.key.proc = FrameProc[f], r.key.ctx = m.ctx
        PROVE  m.req \notin {0, r.key.req}
    <3>1. CASE r \in pending
      BY <2>1, <2>3, <3>1 DEF CancelIsOver
    <3>2. CASE r \notin pending
      <4>1. PICK g \in Frames, kind \in Kinds, persistent \in BOOLEAN : SendQuery(g, kind, persistent)
        <5>1. ~(pending' \subseteq pending)
          BY <2>3, <3>2
        <5>2. \A g \in Frames : ReceiveQuery(g) => pending' = pending
          BY DEF ReceiveQuery, rendererVars
        <5> QED
          BY <5>1, <5>2, RequestSteps
      <4>2. /\ r.key.proc = FrameProc[g] /\ r.key.ctx = contextId'[g]
            /\ r.key.req = nextRequest[FrameProc[g]] + 1
        <5>1. PICK k : k = [proc |-> FrameProc[g], ctx |-> contextId'[g], req |-> nextRequest[FrameProc[g]] + 1]
          OBVIOUS
        <5>2. r = [browser |-> FrameBrowser[g], persistent |-> persistent, key |-> k]
          BY <2>3, <3>2, <4>1, <5>1 DEF SendQuery
        <5>3. r.key = k
          BY <5>2
        <5> QED
          BY <5>1, <5>3
      <4>3. m.req # 0
        BY <2>2, <2>3, <4>2 DEF FramesIn
      <4>4. m.req <= nextRequest[FrameProc[f]]
        BY <2>1 DEF IsOld
      <4> QED
        BY <1>2, <2>1, <2>3, <4>2, <4>3, <4>4, ConstantsAssumption
    <3> QED
      BY <3>1, <3>2
  <2> QED
    BY <2>2, <2>3 DEF CancelIsOver
<1>4. ASSUME NEW f \in Frames, NEW n, n.type = "cancel" => CancelIsOver(f, n)', Sends(f, n)
      PROVE  CancelsAreOver'
  <2>1. \A g \in Frames : \A m \in Items(toBrowser'[g]) : m.type = "cancel" => CancelIsOver(g, m)'
    BY <1>3, <1>4, SentItems
  <2> QED
    BY <2>1 DEF CancelsAreOver, Items
<1>5. CASE ~PageSends \/ UNCHANGED toBrowser
  <2>1. \A g \in Frames : Items(toBrowser'[g]) \subseteq Items(toBrowser[g])
    BY <1>5, MessagesShrink, ShrunkItems
  <2>2. \A g \in Frames : \A m \in Items(toBrowser'[g]) : m.type = "cancel" => CancelIsOver(g, m)'
    BY <1>3, <2>1
  <2> QED
    BY <2>2 DEF CancelsAreOver, Items
<1>6. ASSUME NEW f \in Frames, NEW kind \in Kinds, NEW persistent \in BOOLEAN, SendQuery(f, kind, persistent)
      PROVE  CancelsAreOver'
  <2>1. PICK n : n = QueryOf(f, kind, persistent)
    OBVIOUS
  <2>2. Sends(f, n) /\ n.type = "query"
    BY <1>6, <2>1 DEF SendQuery, Sends, QueryOf
  <2> QED
    BY <1>4, <2>2
<1>7. ASSUME NEW f \in Frames, NEW req \in 1..nextRequest[FrameProc[f]], CancelRequest(f, req)
      PROVE  CancelsAreOver'
  <2>1. PICK c : c = contextId'[f]
    OBVIOUS
  <2>2. PICK n : n = CancelOf(c, req)
    OBVIOUS
  <2>3. n.ctx = c /\ n.req = req /\ req # 0
    BY <1>2, <2>2, ConstantsAssumption DEF CancelOf
  <2>4. UNCHANGED toBrowser \/ (Sends(f, n) /\ pending' = pending \ {r \in Waiting(f, c) : r.key.req = req})
    BY <1>7, <2>1, <2>2, CancelSends DEF CancelRequest
  <2>5. ASSUME pending' = pending \ {r \in Waiting(f, c) : r.key.req = req}
        PROVE  CancelIsOver(f, n)'
    <3>1. ASSUME NEW r \in pending', r.key.proc = FrameProc[f], r.key.ctx = c, r.key.req = req PROVE FALSE
      <4>1. PICK g \in Frames : contextId'[g] = c /\ FrameProc[g] = FrameProc[f] /\ FrameBrowser[g] = r.browser
        BY <1>1, <3>1 DEF Pages, PendingHasPage, IsPageOf
      <4>2. c # 0
        BY <1>1, <3>1, KeysTell, ConstantsAssumption DEF TypeOK, RequestTypeOK, RequestInfo, Keys, ContextIds
      <4>3. g = f
        BY <1>1, <2>1, <4>1, <4>2 DEF Pages, ContextsOwn
      <4> QED
        BY <2>5, <3>1, <4>1, <4>3 DEF Waiting
    <3> QED
      BY <2>3, <3>1 DEF CancelIsOver
  <2> QED
    BY <1>4, <1>5, <2>4, <2>5
<1>8. ASSUME NEW f \in Frames, ContextReleased(f)
      PROVE  CancelsAreOver'
  <2>1. PICK c : c = contextId[f]
    OBVIOUS
  <2>2. PICK n : n = CancelOf(c, 0)
    OBVIOUS
  <2>3. n.ctx = c /\ n.req = 0
    BY <2>2 DEF CancelOf
  <2>4. UNCHANGED toBrowser \/ (Sends(f, n) /\ Waiting(f, c) # {})
    BY <1>8, <2>1, <2>2, CancelSends DEF ContextReleased
  <2>5. ASSUME Waiting(f, c) # {}
        PROVE  CancelIsOver(f, n)'
    <3>1. c # 0
      BY <2>5 DEF Waiting, TypeOK, RequestTypeOK, RequestInfo, Keys, ContextIds
    <3>2. \A g \in FramesIn(FrameProc[f]) : contextId'[g] # c
      <4> SUFFICES ASSUME NEW g \in FramesIn(FrameProc[f]), contextId'[g] = c PROVE FALSE
        OBVIOUS
      <4>1. contextId' = [contextId EXCEPT ![f] = 0] /\ contextId \in [Frames -> 0..MaxContext]
        BY <1>8 DEF ContextReleased, TypeOK, PageTypeOK
      <4>2. g # f /\ contextId[g] = c
        BY <3>1, <4>1 DEF FramesIn
      <4> QED
        BY <2>1, <3>1, <4>2 DEF Pages, ContextsOwn, FramesIn
    <3>3. \A r \in pending' : ~(r.key.proc = FrameProc[f] /\ r.key.ctx = c)
      BY <1>1, <3>2 DEF Pages, PendingHasPage, IsPageOf, FramesIn
    <3> QED
      BY <2>3, <3>2, <3>3 DEF CancelIsOver
  <2> QED
    BY <1>4, <1>5, <2>4, <2>5
<1> QED
  BY <1>5, <1>6, <1>7, <1>8 DEF PageSends

------------------------------------------------------------------------------
\* All that is known of requests and what is on the way for them.
Routed ==
    /\ TypeOK /\ Provenance /\ QuietIsOver /\ Pages /\ QueryInvariant
    /\ IdsAreOld /\ AskedOnce /\ LiveIsUp /\ OwedIsDead
    /\ PersistenceKept /\ RepliesGoOn /\ CancelsAreOver

LEMMA InitRouted == Init => Routed
<1> SUFFICES ASSUME Init PROVE Routed
  OBVIOUS
<1>1. TypeOK /\ Provenance
  BY InitType, InitProvenance
<1>2. QuietIsOver
  BY DEF Init, QuietIsOver, RequestsIn
<1>3. Pages
  BY DEF Init, Pages, ContextsOwn, PendingHasPage
<1>4. QueryInvariant
  BY EmptyItems DEF Init, QueryInvariant, QueryIds, CallbacksOwn, CanceledIds
<1>5. IdsAreOld
  BY EmptyItems DEF Init, IdsAreOld
<1>6. AskedOnce
  BY EmptyItems DEF Init, AskedOnce, AskersDiffer, MessagesAreNew, MessagesDiffer
<1>7. LiveIsUp /\ OwedIsDead
  BY DEF Init, LiveIsUp, OwedIsDead
<1>8. PersistenceKept /\ RepliesGoOn /\ CancelsAreOver
  BY EmptyItems DEF Init, PersistenceKept, RepliesGoOn, CancelsAreOver
<1> QED
  BY <1>1, <1>2, <1>3, <1>4, <1>5, <1>6, <1>7, <1>8 DEF Routed

LEMMA NextRouted ==
    ASSUME Routed, [Next]_vars
    PROVE  Routed'
<1>1. /\ TypeOK /\ Provenance /\ QuietIsOver /\ Pages /\ QueryInvariant
      /\ IdsAreOld /\ AskedOnce /\ LiveIsUp /\ OwedIsDead
      /\ PersistenceKept /\ RepliesGoOn /\ CancelsAreOver
  BY DEF Routed
<1>2. TypeOK' /\ Provenance' /\ QuietIsOver' /\ Pages' /\ QueryInvariant'
  BY <1>1, NextType, NextProvenance, NextQuiet, NextPages, NextQueryInvariant
<1>3. IdsAreOld' /\ AskedOnce' /\ LiveIsUp' /\ OwedIsDead'
  BY <1>1, NextIdsAreOld, NextAskedOnce, NextLiveIsUp, NextOwedIsDead
<1>4. PersistenceKept' /\ RepliesGoOn' /\ CancelsAreOver'
  BY <1>1, NextPersistenceKept, NextRepliesGoOn, NextCancelsAreOver
<1> QED
  BY <1>2, <1>3, <1>4 DEF Routed

\* A request that something of frame f is about is one of the page in f.
LEMMA PageOfRequest ==
    ASSUME Routed, NEW r \in pending, NEW f \in Frames, NEW x, IsOld(f, x), IsFor(f, x, r)
    PROVE  /\ IsPageOf(f, r) /\ frame[f] = "live"
           /\ FrameProc[f] \notin dead /\ browser[FrameBrowser[f]] = "open"
<1>1. PICK g \in Frames : IsPageOf(g, r)
  BY DEF Routed, Pages, PendingHasPage
<1>2. g = f
  BY <1>1 DEF IsPageOf, IsFor, IsOld, FramesIn
<1>3. contextId[f] # 0
  <2>1. r.key.ctx \in ContextIds
    BY KeysTell DEF Routed
  <2>2. contextId[f] = r.key.ctx
    BY <1>1, <1>2 DEF IsPageOf
  <2>3. 0 \notin ContextIds
    BY ConstantsAssumption DEF ContextIds
  <2> QED
    BY <2>1, <2>2, <2>3
<1>4. frame[f] = "live"
  BY <1>3 DEF Routed, Pages, ContextsOwn
<1> QED
  BY <1>1, <1>2, <1>4 DEF Routed, LiveIsUp

\* With reliable messages, only its receiver and the end of its frame take a message.
LEMMA MessageLeaves ==
    ASSUME TypeOK, ~Lossy, [Next]_vars, NEW f \in Frames,
           NEW m \in Items(toBrowser[f]), m \notin Items(toBrowser'[f])
    PROVE  \/ m = Head(toBrowser[f]) /\ (ReceiveQuery(f) \/ ReceiveCancel(f))
           \/ RenderProcessTerminated(FrameBrowser[f]) /\ FrameProc[f] \in dead
           \/ BeforeClose(FrameBrowser[f])
<1>1. toBrowser \in [Frames -> Seq(QueryMsgs \cup CancelMsgs)]
  BY DEF TypeOK, ChannelTypeOK
<1>2. toBrowser'[f] # toBrowser[f]
  OBVIOUS
<1>3. ~PageSends
  <2>1. ASSUME NEW g \in Frames, NEW n, Sends(g, n) PROVE FALSE
    BY <2>1, SentItems
  <2>2. ASSUME NEW g \in Frames, NEW ctx, NEW req, NEW Gone, SendCancel(g, ctx, req, Gone) PROVE FALSE
    <3>1. PICK n : n = CancelOf(ctx, req)
      OBVIOUS
    <3> QED
      BY <1>2, <2>1, <2>2, <3>1, CancelSends
  <2>3. ASSUME NEW g \in Frames, NEW kind, NEW persistent, SendQuery(g, kind, persistent) PROVE FALSE
    <3>1. PICK n : n = QueryOf(g, kind, persistent)
      OBVIOUS
    <3>2. Sends(g, n)
      BY <2>3, <3>1 DEF SendQuery, Sends, QueryOf
    <3> QED
      BY <2>1, <3>2
  <2> QED
    BY <2>2, <2>3 DEF PageSends, CancelRequest, ContextReleased
<1>4. ASSUME NEW g \in Frames, ReceiveQuery(g) \/ ReceiveCancel(g)
      PROVE  m = Head(toBrowser[f]) /\ (ReceiveQuery(f) \/ ReceiveCancel(f))
  <2>1. toBrowser[g] # <<>> /\ toBrowser' = [toBrowser EXCEPT ![g] = Tail(@)]
    BY <1>4 DEF ReceiveQuery, ReceiveCancel
  <2>2. g = f /\ toBrowser'[f] = Tail(toBrowser[f])
    BY <1>1, <1>2, <2>1
  <2>3. Items(toBrowser[f]) = Items(Tail(toBrowser[f])) \cup {Head(toBrowser[f])}
    BY <1>1, <2>1, <2>2, HeadAndTail
  <2> QED
    BY <1>4, <2>2, <2>3
<1>5. ASSUME NEW g \in Frames, Page(g) \/ ReceiveReply(g) \/ BeforeBrowse(g) \/ LoseMessage(g)
      PROVE  FALSE
  BY <1>2, <1>3, <1>5 DEF Page, PageSends, FrameCreated, ReceiveReply, BeforeBrowse, LoseMessage, channels
<1>6. ASSUME NEW b \in Browsers, Window(b)
      PROVE  \/ RenderProcessTerminated(FrameBrowser[f]) /\ FrameProc[f] \in dead
             \/ BeforeClose(FrameBrowser[f])
  <2>1. CASE AfterCreated(b)
    BY <1>2, <2>1 DEF AfterCreated, channels
  <2>2. CASE RenderProcessTerminated(b)
    <3>1. f \in FramesOf(b) /\ FrameProc[f] \in dead
      BY <1>2, <2>2 DEF RenderProcessTerminated
    <3> QED
      BY <2>2, <3>1 DEF FramesOf
  <2>3. CASE BeforeClose(b)
    <3>1. f \in FramesOf(b)
      BY <1>2, <2>3 DEF BeforeClose
    <3> QED
      BY <2>3, <3>1 DEF FramesOf
  <2> QED
    BY <1>6, <2>1, <2>2, <2>3 DEF Window
<1>7. ASSUME \/ \E p \in Procs : ExecuteCallback(p) \/ Crash(p)
             \/ \E j \in jobs : JobDone(j)
             \/ OnCallback
             \/ UNCHANGED vars
      PROVE  FALSE
  BY <1>2, <1>7 DEF ExecuteCallback, Crash, JobDone, OnCallback, channels, vars
<1> QED
  BY <1>4, <1>5, <1>6, <1>7 DEF Next, Delivery

\* What ends a query.
LEMMA QueryLeaves ==
    ASSUME TypeOK, [Next]_vars, NEW q \in queries, q \notin queries'
    PROVE  \/ OnCallback
           \/ \E f \in Frames : /\ ReceiveCancel(f)
                                /\ q \in CancelTargets(FrameBrowser[f], Head(toBrowser[f]).ctx, Head(toBrowser[f]).req)
           \/ [query |-> q.query, why |-> "browse"] \in canceled'
           \/ RenderProcessTerminated(FrameBrowser[q.frame])
           \/ \E b \in Browsers : BeforeClose(b) /\ \A o \in Browsers \ {b} : browser[o] # "open"
<1>1. ASSUME NEW f \in Frames, Page(f) \/ ReceiveReply(f) \/ ReceiveQuery(f) \/ LoseMessage(f) PROVE FALSE
  BY <1>1 DEF Page, FrameCreated, SendQuery, CancelRequest, ContextReleased, ReceiveReply, ReceiveQuery,
     LoseMessage, routerVars
<1>2. ASSUME NEW f \in Frames, ReceiveCancel(f)
      PROVE  q \in CancelTargets(FrameBrowser[f], Head(toBrowser[f]).ctx, Head(toBrowser[f]).req)
  BY <1>2 DEF ReceiveCancel, CancelQueries
<1>3. ASSUME NEW f \in Frames, BeforeBrowse(f)
      PROVE  [query |-> q.query, why |-> "browse"] \in canceled'
  <2>1. CancelQueries(QueriesOf(FrameBrowser[f]), "browse")
    BY <1>3 DEF BeforeBrowse
  <2>2. q \in QueriesOf(FrameBrowser[f])
    BY <2>1 DEF CancelQueries
  <2>3. canceled' = canceled \cup {[query |-> i, why |-> "browse"] : i \in {s.query : s \in QueriesOf(FrameBrowser[f])}}
    BY <2>1 DEF CancelQueries
  <2>4. q.query \in {s.query : s \in QueriesOf(FrameBrowser[f])}
    BY <2>2
  <2> QED
    BY <2>3, <2>4
<1>4. ASSUME NEW p \in Procs, ExecuteCallback(p) \/ Crash(p) PROVE FALSE
  BY <1>4 DEF ExecuteCallback, Crash, routerVars
<1>5. ASSUME NEW b \in Browsers, Window(b)
      PROVE  \/ RenderProcessTerminated(FrameBrowser[q.frame])
             \/ BeforeClose(b) /\ \A o \in Browsers \ {b} : browser[o] # "open"
  <2>1. CASE AfterCreated(b)
    BY <2>1 DEF AfterCreated, routerVars
  <2>2. CASE RenderProcessTerminated(b)
    <3>1. q \in QueriesOf(b)
      BY <2>2 DEF RenderProcessTerminated, CancelQueries
    <3> QED
      BY <2>2, <3>1 DEF QueriesOf
  <2>3. CASE BeforeClose(b)
    <3>1. \A o \in Browsers \ {b} : browser[o] # "open"
      BY <2>3 DEF BeforeClose
    <3> QED
      BY <2>3, <3>1
  <2> QED
    BY <1>5, <2>1, <2>2, <2>3 DEF Window
<1>6. ASSUME (\E j \in jobs : JobDone(j)) \/ UNCHANGED vars PROVE FALSE
  BY <1>6 DEF JobDone, vars, routerVars
<1> QED
  BY <1>1, <1>2, <1>3, <1>4, <1>5, <1>6 DEF Next, Delivery

\* What ends a request.
LEMMA RequestLeaves ==
    ASSUME [Next]_vars, NEW r \in pending, r \notin pending'
    PROVE  \/ \E f \in Frames : /\ \E req : CancelRequest(f, req) /\ Sends(f, CancelOf(contextId'[f], req)) /\ r.key.req = req
                                /\ r.key.ctx = contextId'[f]
                                /\ r.key.proc = FrameProc[f] /\ r.browser = FrameBrowser[f]
           \/ \E f \in Frames : /\ ContextReleased(f) /\ Sends(f, CancelOf(contextId[f], 0))
                                /\ r.key.ctx = contextId[f]
                                /\ r.key.proc = FrameProc[f] /\ r.browser = FrameBrowser[f]
           \/ \E p \in Procs : ExecuteCallback(p)
           \/ r.key.proc \in Procs /\ Crash(r.key.proc)
           \/ r.browser \in Browsers /\ BeforeClose(r.browser)
<1>1. ASSUME NEW f \in Frames, FrameCreated(f) \/ (\E kind, persistent : SendQuery(f, kind, persistent))
      PROVE  FALSE
  BY <1>1 DEF FrameCreated, SendQuery
<1>2. ASSUME NEW f \in Frames, NEW req, CancelRequest(f, req)
      PROVE  /\ Sends(f, CancelOf(contextId'[f], req)) /\ r.key.req = req /\ r.key.ctx = contextId'[f]
             /\ r.key.proc = FrameProc[f] /\ r.browser = FrameBrowser[f]
  <2>1. PICK Gone : Gone = {s \in Waiting(f, contextId'[f]) : s.key.req = req}
    OBVIOUS
  <2>2. SendCancel(f, contextId'[f], req, Gone) /\ r \in Gone
    BY <1>2, <2>1 DEF CancelRequest, SendCancel
  <2>3. Sends(f, CancelOf(contextId'[f], req))
    BY <2>2 DEF SendCancel, Sends, CancelOf
  <2> QED
    BY <2>1, <2>2, <2>3 DEF Waiting
<1>3. ASSUME NEW f \in Frames, ContextReleased(f)
      PROVE  /\ Sends(f, CancelOf(contextId[f], 0)) /\ r.key.ctx = contextId[f]
             /\ r.key.proc = FrameProc[f] /\ r.browser = FrameBrowser[f]
  <2>1. SendCancel(f, contextId[f], 0, Waiting(f, contextId[f])) /\ r \in Waiting(f, contextId[f])
    BY <1>3 DEF ContextReleased, SendCancel
  <2>2. Sends(f, CancelOf(contextId[f], 0))
    BY <2>1 DEF SendCancel, Sends, CancelOf
  <2> QED
    BY <2>1, <2>2 DEF Waiting
<1>4. ASSUME NEW f \in Frames, Delivery(f) \/ BeforeBrowse(f) \/ LoseMessage(f) PROVE FALSE
  BY <1>4 DEF Delivery, ReceiveQuery, ReceiveCancel, ReceiveReply, BeforeBrowse, LoseMessage, rendererVars
<1>5. ASSUME NEW p \in Procs, Crash(p) PROVE r.key.proc = p
  BY <1>5 DEF Crash
<1>6. ASSUME NEW b \in Browsers, Window(b) PROVE BeforeClose(b) /\ r.browser = b
  BY <1>6 DEF Window, AfterCreated, RenderProcessTerminated, BeforeClose, rendererVars
<1>7. ASSUME (\E j \in jobs : JobDone(j)) \/ OnCallback \/ UNCHANGED vars PROVE FALSE
  BY <1>7 DEF JobDone, OnCallback, vars, rendererVars
<1> QED
  BY <1>1, <1>2, <1>3, <1>4, <1>5, <1>6, <1>7 DEF Next, Page

------------------------------------------------------------------------------
\* Nobody waits in vain.

\* All frames of a browser are in one process: no cross-origin navigation.
OneProcess == \A f, g \in Frames : FrameBrowser[f] = FrameBrowser[g] => FrameProc[f] = FrameProc[g]

\* Reply a ends request r.
LastReply(r, a) == r.key.ctx = a.ctx /\ r.key.req = a.req /\ ~RequestStays(r, a.answer)

\* Where request r can be on its way.
IsSent(r)   == \E f \in Frames : \E m \in Items(toBrowser[f]) : m.type = "query" /\ IsFor(f, m, r)
IsHeld(r)   == \E q \in queries : IsFor(q.frame, q, r)
IsAnswered(r) ==
    \E f \in FramesIn(r.key.proc) :
        FrameBrowser[f] = r.browser /\ \E a \in Items(toRenderer[f]) : LastReply(r, a)
IsCalled(r) ==
    \E t \in Items(rendererTasks[r.key.proc]) : t.browser = r.browser /\ LastReply(r, t.reply)
IsBrowsed(r) == \E c \in canceled : c.why = "browse" /\ IsFrom(r.key, c.query)

\* As RequestIsServed says it, but that the reply on the way is the last one: that
\* it is on its way does not hold for a persistent request that goes on.
IsServed(r) == IsSent(r) \/ IsHeld(r) \/ IsAnswered(r) \/ IsCalled(r) \/ IsBrowsed(r)

LEMMA HistoryGrows ==
    ASSUME TypeOK, [Next]_vars
    PROVE  canceled \subseteq canceled' /\ AskedGrows
<1>1. canceled \subseteq canceled'
  <2>1. ASSUME NEW f \in Frames, Page(f) \/ Delivery(f) \/ BeforeBrowse(f) \/ LoseMessage(f)
        PROVE  canceled \subseteq canceled'
    BY <2>1 DEF Page, FrameCreated, SendQuery, CancelRequest, ContextReleased, Delivery, ReceiveQuery,
       ReceiveCancel, ReceiveReply, BeforeBrowse, LoseMessage, CancelQueries, history
  <2>2. ASSUME NEW p \in Procs, ExecuteCallback(p) \/ Crash(p) PROVE canceled \subseteq canceled'
    BY <2>2 DEF ExecuteCallback, Crash
  <2>3. ASSUME NEW b \in Browsers, Window(b) PROVE canceled \subseteq canceled'
    BY <2>3 DEF Window, AfterCreated, RenderProcessTerminated, BeforeClose, CancelQueries, history
  <2>4. ASSUME (\E j \in jobs : JobDone(j)) \/ OnCallback \/ UNCHANGED vars PROVE canceled \subseteq canceled'
    BY <2>4 DEF JobDone, OnCallback, history, vars
  <2> QED
    BY <2>1, <2>2, <2>3, <2>4 DEF Next
<1>2. AskedGrows
  <2>1. CASE asked' # asked
    <3>1. PICK f \in Frames : ReceiveQuery(f)
      BY <2>1, AskedSteps
    <3>2. PICK m \in Items(toBrowser[f]) : m = Head(toBrowser[f])
      BY <3>1, ReceivedQuery
    <3>3. asked' = Append(asked, [frame |-> f, ctx |-> m.ctx, req |-> m.req])
      BY <3>1, <3>2 DEF ReceiveQuery
    <3>4. [frame |-> f, ctx |-> m.ctx, req |-> m.req] \in Askers
      <4>1. m.ctx \in ContextIds /\ m.req \in RequestIds
        BY <3>1, <3>2, ReceivedQuery, IdTypes
      <4> QED
        BY <4>1 DEF Askers
    <3> QED
      BY <3>3, <3>4 DEF AskedGrows
  <2> QED
    BY <2>1 DEF AskedGrows
<1> QED
  BY <1>1, <1>2

\* The query message is received: the query is kept or canceled.
LEMMA ReceivedIsServed ==
    ASSUME Routed, NEW r \in pending, NEW f \in Frames, ReceiveQuery(f), IsPageOf(f, r), frame[f] = "live",
           NEW m, m = Head(toBrowser[f]), IsFor(f, m, r)
    PROVE  IsHeld(r)' \/ IsAnswered(r)'
<1>1. PICK id : id = Len(asked) + 1
  OBVIOUS
<1>2. CASE Handles(m.kind)
  <2>1. PICK q : q = [query |-> id, frame |-> f, ctx |-> m.ctx, req |-> m.req, persistent |-> m.persistent]
    OBVIOUS
  <2>2. q \in queries' \/ toRenderer' = SendReply(f, m.ctx, m.req, Canceled, id)
    BY <1>1, <2>1 DEF ReceiveQuery
  <2>3. q.frame = f /\ q.ctx = m.ctx /\ q.req = m.req
    BY <2>1
  <2>4. IsFor(q.frame, q, r)
    BY <2>3 DEF IsFor
  <2>5. q \in queries'
    BY <1>1, <1>2, <2>1 DEF ReceiveQuery
  <2> QED
    BY <2>4, <2>5 DEF IsHeld, IsFor
<1>3. CASE ~Handles(m.kind)
  <2>1. PICK a : a = [ctx |-> m.ctx, req |-> m.req, answer |-> Canceled, query |-> id]
    OBVIOUS
  <2>2. toRenderer' = SendReply(f, m.ctx, m.req, Canceled, id)
    BY <1>1, <1>3 DEF ReceiveQuery
  <2>3. a \in Items(toRenderer'[f])
    BY <2>1, <2>2, ReplyItems DEF Routed
  <2>4. a.ctx = m.ctx /\ a.req = m.req /\ ~a.answer.ok
    BY <2>1 DEF Canceled, Failed
  <2>5. LastReply(r, a)
    BY <2>4 DEF LastReply, RequestStays, IsFor
  <2>6. f \in FramesIn(r.key.proc) /\ FrameBrowser[f] = r.browser
    BY DEF IsPageOf, FramesIn
  <2> QED
    BY <2>3, <2>5, <2>6 DEF IsAnswered, Items, LastReply
<1> QED
  BY <1>2, <1>3

\* The last answer to a query is sent to its page.
LEMMA AnsweredIsServed ==
    ASSUME Routed, OnCallback, NEW r \in pending, NEW q \in queries, q \notin queries',
           IsFor(q.frame, q, r), IsPageOf(q.frame, r), frame[q.frame] = "live"
    PROVE  IsAnswered(r)'
<1>1. PICK t : t = Head(uiTasks)
  OBVIOUS
<1>2. q.query = t.query /\ ~(t.answer.ok /\ q.persistent)
  BY <1>1 DEF OnCallback
<1>3. PICK s \in queries : s.query = t.query /\ toRenderer' = SendReply(s.frame, s.ctx, s.req, t.answer, s.query)
  <2>1. q \in {x \in queries : x.query = t.query}
    BY <1>2
  <2> QED
    BY <1>1, <2>1 DEF OnCallback
<1>4. s = q
  BY <1>2, <1>3 DEF Routed, QueryInvariant, QueryIds
<1>5. PICK f \in Frames : f = q.frame
  BY QueriesAreOld DEF Routed
<1>6. PICK a : a = [ctx |-> q.ctx, req |-> q.req, answer |-> t.answer, query |-> q.query]
  OBVIOUS
<1>7. toRenderer' = SendReply(f, q.ctx, q.req, t.answer, q.query)
  BY <1>3, <1>4, <1>5
<1>8. a \in Items(toRenderer'[f])
  BY <1>5, <1>6, <1>7, ReplyItems DEF Routed
<1>9. a.ctx = q.ctx /\ a.req = q.req /\ a.answer = t.answer
  BY <1>6
<1>10. q.persistent = r.persistent
  BY DEF Routed, PersistenceKept
<1>11. LastReply(r, a)
  BY <1>2, <1>9, <1>10 DEF LastReply, RequestStays, IsFor
<1>12. f \in FramesIn(r.key.proc) /\ FrameBrowser[f] = r.browser
  BY <1>5 DEF IsPageOf, FramesIn
<1> QED
  BY <1>8, <1>11, <1>12 DEF IsAnswered, Items, LastReply

\* A query stays served when it ends, if its request does not.
LEMMA HeldIsServed ==
    ASSUME OneProcess, Routed, [Next]_vars,
           NEW r \in pending, r \in pending', NEW q \in queries, IsFor(q.frame, q, r)
    PROVE  IsServed(r)'
<1>1. CASE q \in queries'
  BY <1>1 DEF IsServed, IsHeld, IsFor
<1> SUFFICES ASSUME q \notin queries' PROVE IsServed(r)'
  BY <1>1
<1>2. q.frame \in Frames /\ IsOld(q.frame, q)
  BY QueriesAreOld DEF Routed
<1>3. /\ IsPageOf(q.frame, r) /\ frame[q.frame] = "live"
      /\ FrameProc[q.frame] \notin dead /\ browser[FrameBrowser[q.frame]] = "open"
  BY <1>2, PageOfRequest
<1>4. CASE OnCallback
  BY <1>3, <1>4, AnsweredIsServed DEF IsServed
<1>5. ASSUME NEW f \in Frames, ReceiveCancel(f),
             q \in CancelTargets(FrameBrowser[f], Head(toBrowser[f]).ctx, Head(toBrowser[f]).req)
      PROVE  FALSE
  <2>1. PICK m : m = Head(toBrowser[f])
    OBVIOUS
  <2>2. m \in Items(toBrowser[f]) /\ m.type = "cancel"
    <3>1. toBrowser[f] \in Seq(QueryMsgs \cup CancelMsgs)
      BY DEF Routed, TypeOK, ChannelTypeOK
    <3> QED
      BY <1>5, <2>1, <3>1, TailItems DEF ReceiveCancel
  <2>3. FrameBrowser[q.frame] = FrameBrowser[f] /\ q.ctx = m.ctx /\ m.req \in {0, q.req}
    BY <1>5, <2>1 DEF CancelTargets, QueriesOf
  <2>4. FrameProc[q.frame] = FrameProc[f]
    BY <1>2, <2>3 DEF OneProcess
  <2>5. CancelIsOver(f, m)
    BY <2>2 DEF Routed, CancelsAreOver
  <2> QED
    BY <2>3, <2>4, <2>5 DEF CancelIsOver, IsFor
<1>6. CASE [query |-> q.query, why |-> "browse"] \in canceled'
  <2>1. AskedBy(q.query, q.frame, q.ctx, q.req)
    BY DEF Routed, Provenance, QueriesAsked
  <2>2. PICK f, ctx, req : f = q.frame /\ ctx = q.ctx /\ req = q.req
    OBVIOUS
  <2>3. PICK i : i = q.query
    OBVIOUS
  <2>4. AskedBy(i, f, ctx, req)'
    BY <2>1, <2>2, <2>3, HistoryGrows, AskedByGrows DEF Routed, TypeOK, HistoryTypeOK
  <2>5. i \in DOMAIN asked' /\ asked'[i] = [frame |-> f, ctx |-> ctx, req |-> req]
    BY <2>4 DEF AskedBy
  <2>6. r.key = [proc |-> FrameProc[f], ctx |-> ctx, req |-> req]
    BY <2>2, KeysTell DEF Routed, IsFor
  <2>7. IsFrom(r.key, i)'
    BY <2>5, <2>6 DEF IsFrom, KeyOf
  <2>8. PICK c \in canceled' : c.query = i /\ c.why = "browse"
    BY <1>6, <2>3
  <2> QED
    BY <2>7, <2>8 DEF IsServed, IsBrowsed
<1>7. CASE RenderProcessTerminated(FrameBrowser[q.frame])
  <2>1. FrameBrowser[q.frame] \in owed
    BY <1>7 DEF RenderProcessTerminated
  <2>2. PICK g \in FramesOf(FrameBrowser[q.frame]) : FrameProc[g] \in dead
    BY <2>1 DEF Routed, OwedIsDead
  <2> QED
    BY <1>2, <1>3, <2>2 DEF FramesOf, OneProcess
<1>8. ASSUME NEW b \in Browsers, BeforeClose(b), \A o \in Browsers \ {b} : browser[o] # "open"
      PROVE  FALSE
  <2>1. FrameBrowser[q.frame] = b
    BY <1>2, <1>3, <1>8, ConstantsAssumption
  <2>2. r.browser = b
    BY <1>3, <2>1 DEF IsPageOf
  <2> QED
    BY <1>8, <2>2 DEF BeforeClose
<1> QED
  BY <1>4, <1>5, <1>6, <1>7, <1>8, QueryLeaves DEF Routed

LEMMA SentIsServed ==
    ASSUME ~Lossy, Routed, [Next]_vars, NEW r \in pending, r \in pending',
           NEW f \in Frames, NEW m \in Items(toBrowser[f]), m.type = "query", IsFor(f, m, r)
    PROVE  IsServed(r)'
<1>1. CASE m \in Items(toBrowser'[f])
  BY <1>1 DEF IsServed, IsSent, IsFor, Items
<1> SUFFICES ASSUME m \notin Items(toBrowser'[f]) PROVE IsServed(r)'
  BY <1>1
<1>2. /\ IsPageOf(f, r) /\ frame[f] = "live"
      /\ FrameProc[f] \notin dead /\ browser[FrameBrowser[f]] = "open"
  BY PageOfRequest DEF Routed, IdsAreOld
<1>3. CASE m = Head(toBrowser[f]) /\ ReceiveQuery(f)
  BY <1>2, <1>3, ReceivedIsServed DEF IsServed
<1>4. CASE m = Head(toBrowser[f]) /\ ReceiveCancel(f)
  BY <1>4 DEF ReceiveCancel
<1>5. CASE BeforeClose(FrameBrowser[f])
  <2>1. pending' = {s \in pending : s.browser # FrameBrowser[f]}
    BY <1>5 DEF BeforeClose
  <2> QED
    BY <1>2, <2>1 DEF IsPageOf
<1> QED
  BY <1>2, <1>3, <1>4, <1>5, MessageLeaves DEF Routed

\* With reliable messages, only its frame and the end of the page take a reply.
LEMMA ReplyLeaves ==
    ASSUME TypeOK, ~Lossy, [Next]_vars, NEW f \in Frames,
           NEW a \in Items(toRenderer[f]), a \notin Items(toRenderer'[f])
    PROVE  \/ a = Head(toRenderer[f]) /\ ReceiveReply(f)
           \/ ContextReleased(f) \/ Crash(FrameProc[f]) \/ BeforeClose(FrameBrowser[f])
<1>1. toRenderer \in [Frames -> Seq(Replies)]
  BY DEF TypeOK, ChannelTypeOK
<1>2. toRenderer'[f] # toRenderer[f]
  OBVIOUS
<1>3. ASSUME NEW g \in Frames, NEW ctx, NEW req, NEW answer, NEW query,
             toRenderer' = SendReply(g, ctx, req, answer, query)
      PROVE  FALSE
  <2>1. PICK r : r = [ctx |-> ctx, req |-> req, answer |-> answer, query |-> query]
    OBVIOUS
  <2> QED
    BY <1>3, <2>1, ReplyItems
<1>4. ASSUME NEW g \in Frames, Page(g) PROVE ContextReleased(f)
  <2>1. CASE ContextReleased(g)
    <3>1. toRenderer' = toRenderer \/ toRenderer' = [toRenderer EXCEPT ![g] = <<>>]
      BY <2>1 DEF ContextReleased
    <3>2. g = f
      BY <1>1, <1>2, <3>1
    <3> QED
      BY <2>1, <3>2
  <2> QED
    BY <1>2, <1>4, <2>1 DEF Page, FrameCreated, SendQuery, CancelRequest, channels
<1>5. ASSUME NEW g \in Frames, ReceiveReply(g)
      PROVE  a = Head(toRenderer[f]) /\ ReceiveReply(f)
  <2>1. toRenderer[g] # <<>> /\ toRenderer' = [toRenderer EXCEPT ![g] = Tail(@)]
    BY <1>5 DEF ReceiveReply
  <2>2. g = f /\ toRenderer'[f] = Tail(toRenderer[f])
    BY <1>1, <1>2, <2>1
  <2>3. Items(toRenderer[f]) = Items(Tail(toRenderer[f])) \cup {Head(toRenderer[f])}
    BY <1>1, <2>1, <2>2, HeadAndTail
  <2> QED
    BY <1>5, <2>2, <2>3
<1>6. ASSUME NEW g \in Frames, ReceiveQuery(g) PROVE FALSE
  BY <1>2, <1>3, <1>6 DEF ReceiveQuery
<1>7. ASSUME NEW g \in Frames, ReceiveCancel(g) \/ BeforeBrowse(g) \/ LoseMessage(g) PROVE FALSE
  BY <1>2, <1>7 DEF ReceiveCancel, BeforeBrowse, LoseMessage, channels
<1>8. ASSUME NEW p \in Procs, Crash(p) PROVE Crash(FrameProc[f])
  <2>1. f \in FramesIn(p)
    BY <1>2, <1>8 DEF Crash
  <2>2. p = FrameProc[f]
    BY <2>1 DEF FramesIn
  <2> QED
    BY <1>8, <2>2
<1>9. ASSUME NEW b \in Browsers, BeforeClose(b) PROVE BeforeClose(FrameBrowser[f])
  <2>1. f \in FramesOf(b)
    BY <1>2, <1>9 DEF BeforeClose
  <2>2. b = FrameBrowser[f]
    BY <2>1 DEF FramesOf
  <2> QED
    BY <1>9, <2>2
<1>10. CASE OnCallback
  <2>1. PICK q \in queries :
           \E t : toRenderer' = SendReply(q.frame, q.ctx, q.req, t.answer, q.query)
    BY <1>2, <1>10 DEF OnCallback
  <2>2. q.frame \in Frames
    BY DEF TypeOK, BrowserTypeOK, QueryInfo
  <2> QED
    BY <1>3, <2>1, <2>2
<1>11. ASSUME \/ \E p \in Procs : ExecuteCallback(p)
              \/ \E b \in Browsers : AfterCreated(b) \/ RenderProcessTerminated(b)
              \/ \E j \in jobs : JobDone(j)
              \/ UNCHANGED vars
       PROVE  FALSE
  BY <1>2, <1>11 DEF ExecuteCallback, AfterCreated, RenderProcessTerminated, JobDone, channels, vars
<1> QED
  BY <1>4, <1>5, <1>6, <1>7, <1>8, <1>9, <1>10, <1>11 DEF Next, Delivery, Window

\* Only its execution and a crash take a posted callback.
LEMMA CallLeaves ==
    ASSUME TypeOK, [Next]_vars, NEW p \in Procs,
           NEW t \in Items(rendererTasks[p]), t \notin Items(rendererTasks'[p])
    PROVE  (t = Head(rendererTasks[p]) /\ ExecuteCallback(p)) \/ Crash(p)
<1>1. rendererTasks \in [Procs -> Seq(RendererTasks)]
  BY DEF TypeOK, RequestTypeOK
<1>2. rendererTasks'[p] # rendererTasks[p]
  OBVIOUS
<1>3. ASSUME NEW g \in Frames, ReceiveReply(g) PROVE FALSE
  <2>1. PICK u : u = [browser |-> FrameBrowser[g], reply |-> Head(toRenderer[g])]
    OBVIOUS
  <2>2. rendererTasks' = [rendererTasks EXCEPT ![FrameProc[g]] = Append(@, u)]
    BY <1>3, <2>1 DEF ReceiveReply
  <2>3. rendererTasks'[p] = Append(rendererTasks[p], u)
    BY <1>1, <1>2, <2>2
  <2> QED
    BY <1>1, <2>3, AppendItems
<1>4. ASSUME NEW o \in Procs, ExecuteCallback(o) PROVE t = Head(rendererTasks[p]) /\ ExecuteCallback(p)
  <2>1. rendererTasks[o] # <<>> /\ rendererTasks' = [rendererTasks EXCEPT ![o] = Tail(@)]
    BY <1>4 DEF ExecuteCallback
  <2>2. o = p /\ rendererTasks'[p] = Tail(rendererTasks[p])
    BY <1>1, <1>2, <2>1
  <2>3. Items(rendererTasks[p]) = Items(Tail(rendererTasks[p])) \cup {Head(rendererTasks[p])}
    BY <1>1, <2>1, <2>2, HeadAndTail
  <2> QED
    BY <1>4, <2>2, <2>3
<1>5. ASSUME NEW o \in Procs, Crash(o) PROVE Crash(p)
  <2>1. o = p
    BY <1>1, <1>2, <1>5 DEF Crash
  <2> QED
    BY <1>5, <2>1
<1>6. ASSUME NEW f \in Frames, Page(f) \/ ReceiveQuery(f) \/ ReceiveCancel(f) \/ BeforeBrowse(f) \/ LoseMessage(f)
      PROVE  FALSE
  BY <1>2, <1>6 DEF Page, FrameCreated, SendQuery, CancelRequest, ContextReleased, ReceiveQuery, ReceiveCancel,
     BeforeBrowse, LoseMessage, rendererVars
<1>7. ASSUME \/ \E b \in Browsers : Window(b)
             \/ \E j \in jobs : JobDone(j)
             \/ OnCallback \/ UNCHANGED vars
      PROVE  FALSE
  BY <1>2, <1>7 DEF Window, AfterCreated, RenderProcessTerminated, BeforeClose, JobDone, OnCallback, rendererVars, vars
<1> QED
  BY <1>3, <1>4, <1>5, <1>6, <1>7 DEF Next, Delivery

LEMMA AnswerIsServed ==
    ASSUME ~Lossy, Routed, [Next]_vars, NEW r \in pending, r \in pending',
           NEW f \in FramesIn(r.key.proc), FrameBrowser[f] = r.browser,
           NEW a \in Items(toRenderer[f]), LastReply(r, a)
    PROVE  IsServed(r)'
<1>1. CASE a \in Items(toRenderer'[f])
  BY <1>1 DEF IsServed, IsAnswered, LastReply, Items
<1> SUFFICES ASSUME a \notin Items(toRenderer'[f]) PROVE IsServed(r)'
  BY <1>1
<1>2. f \in Frames /\ FrameProc[f] = r.key.proc /\ r.key.proc \in Procs
  BY ConstantsAssumption DEF FramesIn
<1>3. CASE a = Head(toRenderer[f]) /\ ReceiveReply(f)
  <2>1. PICK t : t = [browser |-> FrameBrowser[f], reply |-> a]
    OBVIOUS
  <2>2. rendererTasks' = [rendererTasks EXCEPT ![FrameProc[f]] = Append(@, t)]
    BY <1>3, <2>1 DEF ReceiveReply
  <2>3. rendererTasks \in [Procs -> Seq(RendererTasks)]
    BY DEF Routed, TypeOK, RequestTypeOK
  <2>4. rendererTasks'[r.key.proc] = Append(rendererTasks[r.key.proc], t)
    BY <1>2, <2>2, <2>3
  <2>5. t \in Items(rendererTasks'[r.key.proc])
    BY <1>2, <2>3, <2>4, AppendItems
  <2>6. t.browser = r.browser /\ LastReply(r, t.reply)
    BY <2>1
  <2> QED
    BY <2>5, <2>6 DEF IsServed, IsCalled, LastReply, Items
<1>4. CASE ContextReleased(f)
  <2>1. AskedBy(a.query, f, a.ctx, a.req)
    BY <1>2 DEF Routed, Provenance, RepliesOwn
  <2>2. PICK x : x = asked[a.query]
    OBVIOUS
  <2>3. x = [frame |-> f, ctx |-> a.ctx, req |-> a.req] /\ IsOld(x.frame, x)
    BY <2>1, <2>2 DEF AskedBy, Routed, IdsAreOld
  <2>4. x.frame = f /\ x.ctx = a.ctx /\ x.req = a.req
    BY <2>3
  <2>5. IsOld(f, x) /\ IsFor(f, x, r)
    BY <1>2, <2>3, <2>4 DEF IsFor, LastReply
  <2>6. IsPageOf(f, r)
    BY <1>2, <2>5, PageOfRequest
  <2>7. r \in Waiting(f, contextId[f])
    BY <2>6 DEF IsPageOf, Waiting
  <2> QED
    BY <1>4, <2>7 DEF ContextReleased, SendCancel
<1>5. CASE Crash(FrameProc[f])
  BY <1>2, <1>5 DEF Crash
<1>6. CASE BeforeClose(FrameBrowser[f])
  BY <1>6 DEF BeforeClose
<1> QED
  BY <1>2, <1>3, <1>4, <1>5, <1>6, ReplyLeaves DEF Routed

LEMMA CallIsServed ==
    ASSUME Routed, [Next]_vars, NEW r \in pending, r \in pending',
           NEW t \in Items(rendererTasks[r.key.proc]), t.browser = r.browser, LastReply(r, t.reply)
    PROVE  IsServed(r)'
<1>1. CASE t \in Items(rendererTasks'[r.key.proc])
  BY <1>1 DEF IsServed, IsCalled, LastReply, Items
<1> SUFFICES ASSUME t \notin Items(rendererTasks'[r.key.proc]) PROVE IsServed(r)'
  BY <1>1
<1>2. PICK p \in Procs : p = r.key.proc
  BY KeysTell DEF Routed
<1>3. CASE t = Head(rendererTasks[p]) /\ ExecuteCallback(p)
  <2>1. r.key = [proc |-> p, ctx |-> t.reply.ctx, req |-> t.reply.req]
    BY <1>2, KeysTell DEF Routed, LastReply
  <2>2. r \in RequestsFor(p, t)
    BY <2>1 DEF RequestsFor
  <2>3. pending' = {s \in pending : s \in RequestsFor(p, t) => RequestStays(s, t.reply.answer)}
    BY <1>3 DEF ExecuteCallback
  <2> QED
    BY <2>2, <2>3 DEF LastReply
<1>4. CASE Crash(p)
  BY <1>2, <1>4 DEF Crash
<1> QED
  BY <1>2, <1>3, <1>4, CallLeaves DEF Routed

LEMMA BrowsedIsServed ==
    ASSUME Routed, [Next]_vars, NEW r, IsBrowsed(r)
    PROVE  IsServed(r)'
<1>1. PICK c \in canceled : c.why = "browse" /\ IsFrom(r.key, c.query)
  BY DEF IsBrowsed
<1>2. c \in canceled'
  BY HistoryGrows DEF Routed
<1>3. PICK i : i = c.query
  OBVIOUS
<1>4. i \in DOMAIN asked /\ KeyOf(asked[i]) = r.key
  BY <1>1, <1>3 DEF IsFrom
<1>5. PICK a : a = asked[i]
  OBVIOUS
<1>6. i \in DOMAIN asked' /\ asked'[i] = a
  <2>1. asked \in Seq(Askers)
    BY DEF Routed, TypeOK, HistoryTypeOK
  <2>2. AskedGrows
    BY HistoryGrows DEF Routed
  <2> QED
    BY <1>4, <1>5, <2>1, <2>2 DEF AskedGrows
<1>7. KeyOf(a) = r.key
  BY <1>4, <1>5
<1>8. IsFrom(r.key, i)'
  BY <1>6, <1>7 DEF IsFrom
<1> QED
  BY <1>1, <1>2, <1>3, <1>8 DEF IsServed, IsBrowsed

\* A request is sent as it is made.
LEMMA NewIsServed ==
    ASSUME Routed, [Next]_vars, NEW r \in pending', r \notin pending
    PROVE  IsServed(r)'
<1>1. PICK f \in Frames, kind \in Kinds, persistent \in BOOLEAN : SendQuery(f, kind, persistent)
  BY RequestSteps DEF ReceiveQuery, rendererVars
<1>2. PICK n : n = QueryOf(f, kind, persistent)
  OBVIOUS
<1>3. n.req = nextRequest[FrameProc[f]] + 1 /\ n.ctx = contextId'[f] /\ n.type = "query"
  BY <1>2 DEF QueryOf
<1>4. PICK key : key = [proc |-> FrameProc[f], ctx |-> n.ctx, req |-> n.req]
  OBVIOUS
<1>5. r = [browser |-> FrameBrowser[f], persistent |-> persistent, key |-> key]
  BY <1>1, <1>3, <1>4 DEF SendQuery
<1>6. Sends(f, n)
  BY <1>1, <1>2 DEF SendQuery, Sends, QueryOf
<1>7. n \in Items(toBrowser'[f])
  BY <1>6, SentItems DEF Routed
<1>8. IsFor(f, n, r)
  BY <1>4, <1>5 DEF IsFor
<1> QED
  BY <1>3, <1>7, <1>8 DEF IsServed, IsSent, IsFor, Items

RequestsServed == \A r \in pending : IsServed(r)

LEMMA NextRequestsServed ==
    ASSUME ~Lossy, OneProcess, Routed, RequestsServed, [Next]_vars
    PROVE  RequestsServed'
<1>1. ASSUME NEW r \in pending, r \in pending' PROVE IsServed(r)'
  <2>1. IsServed(r)
    BY DEF RequestsServed
  <2>2. CASE IsSent(r)
    BY <1>1, <2>2, SentIsServed DEF IsSent
  <2>3. CASE IsHeld(r)
    BY <1>1, <2>3, HeldIsServed DEF IsHeld
  <2>4. CASE IsAnswered(r)
    BY <1>1, <2>4, AnswerIsServed DEF IsAnswered
  <2>5. CASE IsCalled(r)
    BY <1>1, <2>5, CallIsServed DEF IsCalled
  <2>6. CASE IsBrowsed(r)
    BY <2>6, BrowsedIsServed
  <2> QED
    BY <2>1, <2>2, <2>3, <2>4, <2>5, <2>6 DEF IsServed
<1>2. ASSUME NEW r \in pending', r \notin pending PROVE IsServed(r)'
  BY <1>2, NewIsServed
<1> QED
  BY <1>1, <1>2 DEF RequestsServed, IsServed, IsSent, IsHeld, IsAnswered, IsCalled, IsBrowsed

LEMMA ServedSays == Routed /\ RequestsServed => RequestIsServed
<1> SUFFICES ASSUME Routed, RequestsServed, NEW r \in pending
             PROVE  \/ QueryOnTheWay(r)
                    \/ \E q \in queries : KeyOf(q) = r.key
                    \/ ReplyOnTheWay(r)
                    \/ \E c \in canceled : c.why = "browse" /\ IsFrom(r.key, c.query)
  BY DEF RequestIsServed
<1>1. CASE IsSent(r)
  BY <1>1 DEF IsSent, QueryOnTheWay, IsFor, FramesIn
<1>2. CASE IsHeld(r)
  BY <1>2, KeysTell DEF IsHeld, Routed
<1>3. CASE IsAnswered(r) \/ IsCalled(r)
  BY <1>3 DEF IsAnswered, IsCalled, ReplyOnTheWay, LastReply
<1>4. CASE IsBrowsed(r)
  BY <1>4 DEF IsBrowsed
<1> QED
  BY <1>1, <1>2, <1>3, <1>4 DEF RequestsServed, IsServed

\* A page never waits in vain (RequestIsServed): as long as a request is pending, its
\* query is on the way or kept, or its reply is on the way, or a navigation of the
\* main frame canceled it, which the code does while the page is still there.  If no
\* message is lost and all frames of a browser share a process.
THEOREM RequestsAreServed ==
    ASSUME ~Lossy, OneProcess
    PROVE  Spec => []RequestIsServed
<1>1. Init => Routed /\ RequestsServed
  BY InitRouted DEF Init, RequestsServed
<1>2. (Routed /\ RequestsServed) /\ [Next]_vars => (Routed /\ RequestsServed)'
  BY NextRouted, NextRequestsServed
<1> QED
  BY <1>1, <1>2, ServedSays, PTL DEF Spec

------------------------------------------------------------------------------
\* Every query has somebody who waits for it, or its end is on the way.

\* Pages without frames of their own: the crash of any frame's process is reported.
MainFramesOnly == MainFrames = Frames

IsAsked(f, x) == \E r \in pending : IsFor(f, x, r)

Cancels(m, x) == m.type = "cancel" /\ m.ctx = x.ctx /\ m.req \in {0, x.req}

\* The browser process is still to hear of the end of f, or has closed its browser.
IsLost(f) ==
    \/ FrameProc[f] \in dead /\ FrameBrowser[f] \in owed
    \/ browser[FrameBrowser[f]] = "closed"

\* A message cancels x, which is at position i of the messages s.
IsCanceledLater(s, i, x) == \E j \in DOMAIN s : j > i /\ Cancels(s[j], x)

QueriesHaveAsker ==
    \A q \in queries :
        IsAsked(q.frame, q) \/ (\E m \in Items(toBrowser[q.frame]) : Cancels(m, q)) \/ IsLost(q.frame)

MessagesHaveAsker ==
    \A f \in Frames : \A i \in DOMAIN toBrowser[f] : toBrowser[f][i].type = "query" =>
        \/ IsAsked(f, toBrowser[f][i])
        \/ IsCanceledLater(toBrowser[f], i, toBrowser[f][i])
        \/ IsLost(f)

HasAsker == QueriesHaveAsker /\ MessagesHaveAsker

\* The news of a lost frame ends what the browser process keeps of it.
LEMMA LostStays ==
    ASSUME TypeOK, [Next]_vars, NEW f \in Frames, IsLost(f)
    PROVE  \/ IsLost(f)'
           \/ /\ RenderProcessTerminated(FrameBrowser[f])
              /\ toBrowser'[f] = <<>>
              /\ \A q \in queries' : q.frame # f
<1>1. browser \in [Browsers -> {"none", "open", "closed"}]
  BY DEF TypeOK, BrowserTypeOK
<1>2. ASSUME dead \subseteq dead', owed \subseteq owed', browser' = browser PROVE IsLost(f)'
  BY <1>2 DEF IsLost
<1>3. ASSUME NEW g \in Frames, Page(g) \/ Delivery(g) \/ BeforeBrowse(g) \/ LoseMessage(g) PROVE IsLost(f)'
  BY <1>2, <1>3 DEF Page, FrameCreated, SendQuery, CancelRequest, ContextReleased, Delivery, ReceiveQuery,
     ReceiveCancel, ReceiveReply, BeforeBrowse, LoseMessage, browserVars, rendererVars
<1>4. ASSUME NEW p \in Procs, ExecuteCallback(p) \/ Crash(p) PROVE IsLost(f)'
  BY <1>2, <1>4 DEF ExecuteCallback, Crash, browserVars
<1>5. ASSUME NEW b \in Browsers, AfterCreated(b) PROVE IsLost(f)'
  BY <1>1, <1>5, ConstantsAssumption DEF AfterCreated, rendererVars, IsLost
<1>6. ASSUME NEW b \in Browsers, BeforeClose(b) PROVE IsLost(f)'
  BY <1>1, <1>6, ConstantsAssumption DEF BeforeClose, IsLost
<1>7. ASSUME NEW b \in Browsers, RenderProcessTerminated(b), ~IsLost(f)'
      PROVE  /\ RenderProcessTerminated(FrameBrowser[f])
             /\ toBrowser'[f] = <<>>
             /\ \A q \in queries' : q.frame # f
  <2>1. browser' = browser /\ dead' = dead /\ owed' = owed \ {b}
    BY <1>7 DEF RenderProcessTerminated, rendererVars
  <2>2. FrameBrowser[f] = b /\ FrameProc[f] \in dead
    BY <1>7, <2>1 DEF IsLost
  <2>3. toBrowser'[f] = <<>>
    BY <1>7, <2>2 DEF RenderProcessTerminated, FramesOf
  <2>4. \A q \in queries' : q.frame # f
    BY <1>7, <2>2 DEF RenderProcessTerminated, CancelQueries, QueriesOf
  <2> QED
    BY <1>7, <2>2, <2>3, <2>4
<1>8. ASSUME (\E j \in jobs : JobDone(j)) \/ OnCallback \/ UNCHANGED vars PROVE IsLost(f)'
  BY <1>2, <1>8 DEF JobDone, OnCallback, vars, browserVars, rendererVars
<1> QED
  BY <1>3, <1>4, <1>5, <1>6, <1>7, <1>8 DEF Next, Window

\* A query, or a query message of frame f.
IsQuery(f, x) ==
    \/ x \in queries /\ x.frame = f
    \/ x \in Items(toBrowser[f]) /\ x.type = "query"

\* The callback that ends a request finds no query or query message of it.
LEMMA NobodyAsksAfterTheEnd ==
    ASSUME Routed, NEW r \in pending, NEW f \in Frames, NEW x, IsQuery(f, x), IsFor(f, x, r),
           NEW p \in Procs, ExecuteCallback(p)
    PROVE  r \in pending'
<1>1. PICK t : t = Head(rendererTasks[p])
  OBVIOUS
<1>2. t \in Items(rendererTasks[p])
  <2>1. rendererTasks[p] \in Seq(RendererTasks)
    BY DEF Routed, TypeOK, RequestTypeOK
  <2> QED
    BY <1>1, <2>1, TailItems DEF ExecuteCallback
<1> SUFFICES ASSUME r \in RequestsFor(p, t), ~RequestStays(r, t.reply.answer) PROVE FALSE
  BY <1>1 DEF ExecuteCallback
<1>3. r.key = [proc |-> p, ctx |-> t.reply.ctx, req |-> t.reply.req]
  BY DEF RequestsFor
<1>4. PICK g \in FramesIn(p) : AskedBy(t.reply.query, g, t.reply.ctx, t.reply.req)
  BY <1>2 DEF Routed, Provenance, CallsOwn
<1>5. PICK i : i = t.reply.query
  OBVIOUS
<1>6. i \in DOMAIN asked /\ asked[i].frame = g /\ asked[i].req = t.reply.req
  BY <1>4, <1>5 DEF AskedBy
<1>7. FrameProc[g] = p /\ FrameProc[f] = p /\ x.req = t.reply.req
  BY <1>3, <1>4 DEF FramesIn, IsFor
<1>8. CASE x \in queries /\ x.frame = f
  <2>1. x.query \in DOMAIN asked /\ asked[x.query] = [frame |-> x.frame, ctx |-> x.ctx, req |-> x.req]
    BY <1>8 DEF Routed, Provenance, QueriesAsked, AskedBy
  <2>2. asked[x.query].frame = f /\ asked[x.query].req = x.req
    BY <1>8, <2>1
  <2>3. x.query = i
    BY <1>6, <1>7, <2>1, <2>2 DEF Routed, AskedOnce, AskersDiffer, IsSame
  <2>4. t.reply.answer.ok /\ x.persistent
    BY <1>2, <1>5, <1>8, <2>3 DEF Routed, RepliesGoOn, GoesOn
  <2>5. x.persistent = r.persistent
    BY <1>8 DEF Routed, PersistenceKept
  <2> QED
    BY <2>4, <2>5 DEF RequestStays
<1>9. CASE x \in Items(toBrowser[f]) /\ x.type = "query"
  <2>1. ~IsSame(f, x, asked[i].frame, asked[i])
    BY <1>6, <1>9 DEF Routed, AskedOnce, MessagesAreNew
  <2> QED
    BY <1>6, <1>7, <2>1 DEF IsSame
<1> QED
  BY <1>8, <1>9 DEF IsQuery

\* When the asker of a query goes, it tells the browser process, or its frame is lost.
LEMMA AskerLeaves ==
    ASSUME MainFramesOnly, Routed, [Next]_vars, NEW f \in Frames, NEW x, IsQuery(f, x), IsOld(f, x),
           NEW r \in pending, IsFor(f, x, r), r \notin pending'
    PROVE  IsLost(f)' \/ \E n : Sends(f, n) /\ Cancels(n, x)
<1>1. IsPageOf(f, r) /\ frame[f] = "live" /\ browser[FrameBrowser[f]] = "open"
  BY PageOfRequest
<1>2. r.key.ctx = contextId[f] /\ r.key.proc = FrameProc[f] /\ r.browser = FrameBrowser[f]
  BY <1>1 DEF IsPageOf
<1>3. r.key.ctx = x.ctx /\ r.key.req = x.req /\ x.ctx <= nextContext[FrameProc[f]]
  BY DEF IsFor, IsOld
<1>4. r.key.ctx \in ContextIds /\ contextId[f] # 0
  <2>1. r.key.ctx \in ContextIds
    BY KeysTell DEF Routed
  <2>2. 0 \notin ContextIds
    BY ConstantsAssumption DEF ContextIds
  <2> QED
    BY <1>2, <2>1, <2>2
<1>5. ASSUME NEW g \in Frames, FrameProc[g] = FrameProc[f], contextId[g] = contextId[f] PROVE g = f
  BY <1>4, <1>5 DEF Routed, Pages, ContextsOwn
<1>6. ASSUME NEW g \in Frames, NEW req, Sends(g, CancelOf(contextId'[g], req)), r.key.req = req,
             r.key.ctx = contextId'[g], r.key.proc = FrameProc[g]
      PROVE  \E n : Sends(f, n) /\ Cancels(n, x)
  <2>1. contextId[g] = r.key.ctx
    BY <1>2, <1>3, <1>4, <1>6, ContextsEnd DEF Routed
  <2>2. g = f
    BY <1>2, <1>5, <1>6, <2>1
  <2>3. PICK n : n = CancelOf(x.ctx, x.req)
    OBVIOUS
  <2>4. Sends(f, n)
    BY <1>3, <1>6, <2>2, <2>3
  <2> QED
    BY <2>3, <2>4 DEF Cancels, CancelOf
<1>7. ASSUME NEW g \in Frames, Sends(g, CancelOf(contextId[g], 0)),
             r.key.ctx = contextId[g], r.key.proc = FrameProc[g]
      PROVE  \E n : Sends(f, n) /\ Cancels(n, x)
  <2>1. g = f
    BY <1>2, <1>5, <1>7
  <2>2. PICK n : n = CancelOf(x.ctx, 0)
    OBVIOUS
  <2>3. Sends(f, n)
    BY <1>3, <1>7, <2>1, <2>2
  <2> QED
    BY <2>2, <2>3 DEF Cancels, CancelOf
<1>8. ASSUME NEW p \in Procs, ExecuteCallback(p) PROVE FALSE
  BY <1>8, NobodyAsksAfterTheEnd
<1>9. CASE Crash(r.key.proc)
  <2>1. f \in {g \in FramesIn(FrameProc[f]) : frame[g] = "live"} \cap MainFrames
    BY <1>1 DEF FramesIn, MainFramesOnly
  <2>2. FrameBrowser[f] \in owed' /\ FrameProc[f] \in dead'
    BY <1>2, <1>9, <2>1 DEF Crash
  <2> QED
    BY <2>2 DEF IsLost
<1>10. CASE BeforeClose(r.browser)
  <2>1. browser'[FrameBrowser[f]] = "closed"
    BY <1>2, <1>10, ConstantsAssumption DEF BeforeClose, Routed, TypeOK, BrowserTypeOK
  <2> QED
    BY <2>1 DEF IsLost
<1> QED
  BY <1>6, <1>7, <1>8, <1>9, <1>10, RequestLeaves

\* The message that cancels a query removes it, or its browser is closed.
LEMMA CancelArrives ==
    ASSUME ~Lossy, OneProcess, Routed, [Next]_vars,
           NEW q \in queries, q \in queries', NEW f \in Frames, f = q.frame,
           NEW m \in Items(toBrowser[f]), Cancels(m, q), m \notin Items(toBrowser'[f])
    PROVE  IsLost(f)'
<1>1. CASE m = Head(toBrowser[f]) /\ ReceiveCancel(f)
  <2>1. PICK found : found = {s \in QueriesOf(FrameBrowser[f]) : s.ctx = m.ctx /\ (m.req = 0 \/ s.req = m.req)}
    OBVIOUS
  <2>2. q \in found
    BY <2>1 DEF QueriesOf, Cancels
  <2>3. ASSUME m.req # 0, NEW s \in found PROVE s.query = q.query
    <3>1. s \in queries /\ FrameBrowser[s.frame] = FrameBrowser[f] /\ s.req = q.req
      BY <2>1, <2>3 DEF QueriesOf, Cancels
    <3>2. s.frame \in Frames /\ FrameProc[s.frame] = FrameProc[q.frame]
      BY <3>1, QueriesAreOld DEF Routed, OneProcess
    <3>3. /\ s.query \in DOMAIN asked /\ asked[s.query] = [frame |-> s.frame, ctx |-> s.ctx, req |-> s.req]
          /\ q.query \in DOMAIN asked /\ asked[q.query] = [frame |-> q.frame, ctx |-> q.ctx, req |-> q.req]
      BY <3>1 DEF Routed, Provenance, QueriesAsked, AskedBy
    <3>4. /\ asked[s.query].frame = s.frame /\ asked[s.query].req = s.req
          /\ asked[q.query].frame = q.frame /\ asked[q.query].req = q.req
      BY <3>3
    <3> QED
      BY <3>1, <3>2, <3>3, <3>4 DEF Routed, AskedOnce, AskersDiffer, IsSame
  <2>4. q.query \in Nat
    BY DEF Routed, TypeOK, BrowserTypeOK, QueryInfo
  <2>5. CancelTargets(FrameBrowser[f], m.ctx, m.req)
          = IF m.req = 0 THEN found ELSE {s \in found : \A o \in found : s.query <= o.query}
    BY <2>1 DEF CancelTargets
  <2>6. q \in CancelTargets(FrameBrowser[f], m.ctx, m.req)
    BY <2>2, <2>3, <2>4, <2>5
  <2> QED
    BY <1>1, <2>6 DEF ReceiveCancel, CancelQueries
<1>2. CASE m = Head(toBrowser[f]) /\ ReceiveQuery(f)
  BY <1>2 DEF ReceiveQuery, Cancels
<1>3. CASE RenderProcessTerminated(FrameBrowser[f])
  BY <1>3 DEF RenderProcessTerminated, CancelQueries, QueriesOf
<1>4. CASE BeforeClose(FrameBrowser[f])
  <2>1. browser'[FrameBrowser[f]] = "closed"
    BY <1>4, ConstantsAssumption DEF BeforeClose, Routed, TypeOK, BrowserTypeOK
  <2> QED
    BY <2>1 DEF IsLost
<1> QED
  BY <1>1, <1>2, <1>3, <1>4, MessageLeaves DEF Routed

LEMMA NewQueries ==
    ASSUME [Next]_vars, NEW q \in queries', q \notin queries
    PROVE  \E f \in Frames : /\ ReceiveQuery(f) /\ q.frame = f
                             /\ q.ctx = Head(toBrowser[f]).ctx /\ q.req = Head(toBrowser[f]).req
<1>1. PICK f \in Frames : ReceiveQuery(f)
  BY RequestSteps DEF SendQuery, routerVars
<1>2. PICK m : m = Head(toBrowser[f])
  OBVIOUS
<1>3. PICK id : id = Len(asked) + 1
  OBVIOUS
<1>4. q = [query |-> id, frame |-> f, ctx |-> m.ctx, req |-> m.req, persistent |-> m.persistent]
  BY <1>1, <1>2, <1>3 DEF ReceiveQuery
<1> QED
  BY <1>1, <1>2, <1>4

LEMMA NextQueriesHaveAsker ==
    ASSUME ~Lossy, OneProcess, MainFramesOnly, Routed, HasAsker, [Next]_vars
    PROVE  QueriesHaveAsker'
<1>1. ASSUME NEW q \in queries, q \in queries', NEW f, f = q.frame
      PROVE  IsAsked(f, q)' \/ (\E m \in Items(toBrowser'[f]) : Cancels(m, q)) \/ IsLost(f)'
  <2>1. f \in Frames /\ IsOld(f, q)
    BY <1>1, QueriesAreOld DEF Routed
  <2>2. ASSUME NEW r \in pending, IsFor(f, q, r)
        PROVE  IsAsked(f, q)' \/ (\E m \in Items(toBrowser'[f]) : Cancels(m, q)) \/ IsLost(f)'
    <3>1. CASE r \in pending'
      BY <2>2, <3>1 DEF IsAsked, IsFor
    <3>2. CASE r \notin pending'
      <4>1. IsQuery(f, q)
        BY <1>1 DEF IsQuery
      <4>2. IsLost(f)' \/ \E n : Sends(f, n) /\ Cancels(n, q)
        BY <2>1, <2>2, <3>2, <4>1, AskerLeaves
      <4>3. ASSUME NEW n, Sends(f, n) PROVE n \in Items(toBrowser'[f])
        BY <2>1, <4>3, SentItems DEF Routed
      <4> QED
        BY <4>2, <4>3
    <3> QED
      BY <3>1, <3>2
  <2>3. ASSUME NEW m \in Items(toBrowser[f]), Cancels(m, q)
        PROVE  (\E n \in Items(toBrowser'[f]) : Cancels(n, q)) \/ IsLost(f)'
    BY <1>1, <2>1, <2>3, CancelArrives
  <2>4. CASE IsLost(f)
    BY <1>1, <2>1, <2>4, LostStays DEF Routed
  <2> QED
    BY <1>1, <2>2, <2>3, <2>4 DEF HasAsker, QueriesHaveAsker, IsAsked
<1>2. ASSUME NEW q \in queries', q \notin queries, NEW f, f = q.frame
      PROVE  IsAsked(f, q)' \/ (\E m \in Items(toBrowser'[f]) : Cancels(m, q)) \/ IsLost(f)'
  <2>1. f \in Frames /\ ReceiveQuery(f) /\ q.ctx = Head(toBrowser[f]).ctx /\ q.req = Head(toBrowser[f]).req
    BY <1>2, NewQueries
  <2>2. PICK s \in Seq(QueryMsgs \cup CancelMsgs) : s = toBrowser[f]
    BY <2>1 DEF Routed, TypeOK, ChannelTypeOK
  <2>3. PICK m : m = Head(s)
    OBVIOUS
  <2>4. s # <<>> /\ m.type = "query" /\ toBrowser'[f] = Tail(s)
    <3>1. toBrowser \in [Frames -> Seq(QueryMsgs \cup CancelMsgs)]
      BY DEF Routed, TypeOK, ChannelTypeOK
    <3> QED
      BY <2>1, <2>2, <2>3, <3>1 DEF ReceiveQuery
  <2>5. 1 \in DOMAIN s /\ s[1] = m
    BY <2>2, <2>3, <2>4
  <2>6. IsAsked(f, m) \/ IsCanceledLater(s, 1, m) \/ IsLost(f)
    BY <2>1, <2>2, <2>4, <2>5 DEF HasAsker, MessagesHaveAsker
  <2>7. CASE IsAsked(f, m)
    <3>1. PICK r \in pending : IsFor(f, m, r)
      BY <2>7 DEF IsAsked
    <3>2. r \in pending'
      BY <2>1 DEF ReceiveQuery, rendererVars
    <3>3. IsFor(f, q, r)
      BY <2>1, <2>2, <2>3, <3>1 DEF IsFor
    <3> QED
      BY <3>2, <3>3 DEF IsAsked, IsFor
  <2>8. CASE IsCanceledLater(s, 1, m)
    <3>1. PICK j \in DOMAIN s : j > 1 /\ Cancels(s[j], m)
      BY <2>8 DEF IsCanceledLater
    <3>2. j - 1 \in DOMAIN Tail(s) /\ Tail(s)[j - 1] = s[j]
      BY <2>2, <2>4, <3>1
    <3>3. s[j] \in Items(toBrowser'[f])
      BY <2>4, <3>2 DEF Items
    <3>4. Cancels(s[j], q)
      BY <2>1, <2>2, <2>3, <3>1 DEF Cancels
    <3> QED
      BY <3>3, <3>4
  <2>9. CASE IsLost(f)
    BY <2>1, <2>9 DEF ReceiveQuery, browserVars, rendererVars, IsLost
  <2> QED
    BY <2>6, <2>7, <2>8, <2>9
<1> QED
  BY <1>1, <1>2 DEF QueriesHaveAsker, IsAsked, IsFor, IsLost, Items, Cancels

\* What becomes of the messages of a frame.
LEMMA MessagesMove ==
    ASSUME TypeOK, [Next]_vars, NEW f \in Frames
    PROVE  \/ toBrowser'[f] = toBrowser[f]
           \/ toBrowser'[f] = <<>>
           \/ toBrowser[f] # <<>> /\ toBrowser'[f] = Tail(toBrowser[f])
           \/ \E n : Sends(f, n) /\ (n.type = "query" => \E r \in pending' : IsFor(f, n, r))
<1>1. ASSUME NEW g \in Frames, NEW ctx, NEW req, NEW Gone, SendCancel(g, ctx, req, Gone)
      PROVE  toBrowser'[f] = toBrowser[f] \/ \E n : Sends(f, n) /\ n.type # "query"
  <2>1. PICK n : n = CancelOf(ctx, req)
    OBVIOUS
  <2>2. n.type # "query"
    BY <2>1 DEF CancelOf
  <2> QED
    BY <1>1, <2>1, <2>2, CancelSends, SentItems
<1>2. ASSUME NEW g \in Frames, NEW kind, NEW persistent, SendQuery(g, kind, persistent)
      PROVE  toBrowser'[f] = toBrowser[f] \/ \E n : Sends(f, n) /\ \E r \in pending' : IsFor(f, n, r)
  <2>1. PICK n : n = QueryOf(g, kind, persistent)
    OBVIOUS
  <2>2. n.req = nextRequest[FrameProc[g]] + 1 /\ n.ctx = contextId'[g]
    BY <2>1 DEF QueryOf
  <2>3. PICK key : key = [proc |-> FrameProc[g], ctx |-> n.ctx, req |-> n.req]
    OBVIOUS
  <2>4. PICK r : r = [browser |-> FrameBrowser[g], persistent |-> persistent, key |-> key]
    OBVIOUS
  <2>5. r \in pending' /\ Sends(g, n)
    BY <1>2, <2>1, <2>2, <2>3, <2>4 DEF SendQuery, Sends, QueryOf
  <2>6. IsFor(g, n, r)
    BY <2>3, <2>4 DEF IsFor
  <2> QED
    BY <2>5, <2>6, SentItems
<1>3. CASE PageSends
  BY <1>1, <1>2, <1>3 DEF PageSends, CancelRequest, ContextReleased
<1> QED
  BY <1>3, MessagesTaken

LEMMA NextMessagesHaveAsker ==
    ASSUME ~Lossy, MainFramesOnly, Routed, HasAsker, [Next]_vars
    PROVE  MessagesHaveAsker'
<1> SUFFICES ASSUME NEW f \in Frames, NEW i \in DOMAIN toBrowser'[f], NEW m,
                    m = toBrowser'[f][i], m.type = "query"
             PROVE  \/ \E r \in pending' : IsFor(f, m, r)
                    \/ IsCanceledLater(toBrowser'[f], i, m)
                    \/ IsLost(f)'
  BY DEF MessagesHaveAsker, IsAsked, IsCanceledLater, IsFor, Cancels
<1>1. PICK s \in Seq(QueryMsgs \cup CancelMsgs) : s = toBrowser[f]
  BY DEF Routed, TypeOK, ChannelTypeOK
<1>2. PICK t \in Seq(QueryMsgs \cup CancelMsgs) : t = toBrowser'[f]
  BY NextType DEF Routed, TypeOK, ChannelTypeOK
<1>3. m = t[i]
  BY <1>2
<1>4. i \in DOMAIN t /\ m.type = "query" /\ t # <<>>
  BY <1>2, <1>3
<1>5. ASSUME NEW n, Sends(f, n) PROVE t = Append(s, n)
  BY <1>1, <1>2, <1>5, SentItems DEF Routed
\* The messages that were there.
<1>6. ASSUME NEW k \in DOMAIN s, s[k] = m
      PROVE  \/ \E r \in pending' : IsFor(f, m, r)
             \/ \E n : Sends(f, n) /\ Cancels(n, m)
             \/ IsCanceledLater(s, k, m)
             \/ IsLost(f)'
  <2>1. m \in Items(toBrowser[f])
    BY <1>1, <1>6 DEF Items
  <2>2. IsAsked(f, m) \/ IsCanceledLater(s, k, m) \/ IsLost(f)
    BY <1>1, <1>4, <1>6 DEF HasAsker, MessagesHaveAsker
  <2>3. CASE IsAsked(f, m)
    <3>1. PICK r \in pending : IsFor(f, m, r)
      BY <2>3 DEF IsAsked
    <3>2. IsQuery(f, m) /\ IsOld(f, m)
      BY <1>4, <2>1 DEF IsQuery, Routed, IdsAreOld
    <3> QED
      BY <3>1, <3>2, AskerLeaves
  <2>4. CASE IsLost(f)
    BY <1>2, <1>4, <2>4, LostStays DEF Routed
  <2> QED
    BY <2>2, <2>3, <2>4
<1>7. \/ \E r \in pending' : IsFor(f, m, r)
      \/ IsCanceledLater(t, i, m)
      \/ IsLost(f)'
  <2>1. ASSUME NEW n, Sends(f, n), n.type = "query" => \E r \in pending' : IsFor(f, n, r)
        PROVE  \/ \E r \in pending' : IsFor(f, m, r)
               \/ IsCanceledLater(t, i, m)
               \/ IsLost(f)'
    <3>1. t = Append(s, n)
      BY <1>5, <2>1
    <3>2. /\ Len(s) \in Nat /\ DOMAIN s = 1..Len(s) /\ DOMAIN t = 1..(Len(s) + 1)
          /\ t[Len(s) + 1] = n /\ \A k \in DOMAIN s : t[k] = s[k]
      BY <3>1
    <3>3. CASE i = Len(s) + 1
      BY <1>3, <1>4, <2>1, <3>2, <3>3
    <3>4. CASE i # Len(s) + 1
      <4>1. i \in DOMAIN s /\ s[i] = m
        BY <1>3, <1>4, <3>2, <3>4
      <4>2. ASSUME NEW c, Sends(f, c), Cancels(c, m) PROVE IsCanceledLater(t, i, m)
        <5>1. t = Append(s, c)
          BY <1>5, <4>2
        <5>2. t[Len(s) + 1] = c
          BY <5>1
        <5>3. Len(s) + 1 \in DOMAIN t /\ Len(s) + 1 > i
          BY <3>2, <4>1
        <5> QED
          BY <4>2, <5>2, <5>3 DEF IsCanceledLater
      <4>3. IsCanceledLater(s, i, m) => IsCanceledLater(t, i, m)
        BY <3>2 DEF IsCanceledLater
      <4> QED
        BY <1>6, <4>1, <4>2, <4>3
    <3> QED
      BY <3>3, <3>4
  <2>2. CASE t = s
    <3>1. ASSUME NEW n, Sends(f, n) PROVE FALSE
      <4>1. t = Append(s, n)
        BY <1>5, <3>1
      <4>2. Len(t) = Len(s) + 1 /\ Len(s) \in Nat
        BY <4>1
      <4> QED
        BY <2>2, <4>2
    <3> QED
      BY <1>3, <1>4, <1>6, <2>2, <3>1
  <2>3. CASE s # <<>> /\ t = Tail(s)
    <3>1. /\ Len(s) \in Nat /\ DOMAIN s = 1..Len(s) /\ DOMAIN t = 1..(Len(s) - 1) /\ Len(t) = Len(s) - 1
          /\ \A k \in DOMAIN t : t[k] = s[k + 1]
      BY <2>3
    <3>2. ASSUME NEW n, Sends(f, n) PROVE FALSE
      <4>1. t = Append(s, n)
        BY <1>5, <3>2
      <4>2. Len(t) = Len(s) + 1
        BY <4>1
      <4> QED
        BY <3>1, <4>2
    <3>3. i + 1 \in DOMAIN s /\ s[i + 1] = m
      BY <1>3, <1>4, <3>1
    <3>4. ASSUME IsCanceledLater(s, i + 1, m) PROVE IsCanceledLater(t, i, m)
      <4>1. PICK j \in DOMAIN s : j > i + 1 /\ Cancels(s[j], m)
        BY <3>4 DEF IsCanceledLater
      <4>2. j - 1 \in DOMAIN t /\ j - 1 > i /\ t[j - 1] = s[j]
        BY <1>4, <3>1, <4>1
      <4> QED
        BY <4>1, <4>2 DEF IsCanceledLater
    <3> QED
      BY <1>6, <3>2, <3>3, <3>4
  <2> QED
    BY <1>1, <1>2, <1>4, <2>1, <2>2, <2>3, MessagesMove DEF Routed
<1> QED
  BY <1>2, <1>7

LEMMA NextHasAsker ==
    ASSUME ~Lossy, OneProcess, MainFramesOnly, Routed, HasAsker, [Next]_vars
    PROVE  HasAsker'
  BY NextQueriesHaveAsker, NextMessagesHaveAsker DEF HasAsker

LEMMA HasAskerSays == Routed /\ HasAsker => QueryHasAsker
<1> SUFFICES ASSUME Routed, QueriesHaveAsker, NEW q \in queries
             PROVE  \/ KeyOf(q) \in RequestsIn(pending)
                    \/ CancelOnTheWay(q)
                    \/ FrameProc[q.frame] \in dead /\ FrameBrowser[q.frame] \in owed
                    \/ browser[FrameBrowser[q.frame]] = "closed"
  BY DEF HasAsker, QueryHasAsker
<1>1. CASE IsAsked(q.frame, q)
  <2>1. PICK r \in pending : IsFor(q.frame, q, r)
    BY <1>1 DEF IsAsked
  <2> QED
    BY <2>1, KeysTell DEF Routed, RequestsIn
<1> QED
  BY <1>1 DEF QueriesHaveAsker, CancelOnTheWay, Cancels, IsLost

\* The browser process keeps no query that nobody waits for (QueryHasAsker): the page
\* waits, or its cancel message or the news of its crash is still to come, or its
\* browser was closed.  If no message is lost, all frames of a browser share a process
\* and no page has frames of its own, of whose crash alone nothing is reported.
THEOREM QueriesHaveAskers ==
    ASSUME ~Lossy, OneProcess, MainFramesOnly
    PROVE  Spec => []QueryHasAsker
<1>1. Init => Routed /\ HasAsker
  <2>1. Init => HasAsker
    BY DEF Init, HasAsker, QueriesHaveAsker, MessagesHaveAsker
  <2> QED
    BY <2>1, InitRouted
<1>2. (Routed /\ HasAsker) /\ [Next]_vars => (Routed /\ HasAsker)'
  BY NextRouted, NextHasAsker
<1> QED
  BY <1>1, <1>2, HasAskerSays, PTL DEF Spec
=============================================================================
