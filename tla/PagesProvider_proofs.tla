------------------------- MODULE PagesProvider_proofs -------------------------
(***************************************************************************)
(* What holds of the pages of a release for all sites, redirects, contents *)
(* and numbers of changes.                                                 *)
(***************************************************************************)
EXTENDS PagesProvider, FiniteSetTheorems, WellFoundedInduction, TLAPS

\* A release keeps the list of its start, and a request that waits for its file
\* was decided by it.
StartInvariant ==
    ~debug =>
      /\ pages = start
      /\ reading # Nothing => reading.page = Choice(reading.url, start)
      /\ ReleaseServesTheStart

\* A content is read once; what was served for a page, but blanks, is the content
\* kept for it.
CacheInvariant ==
    ~debug =>
      /\ \A p \in Pages : \A c, d \in Cached(p) : c.value = d.value
      /\ \A p \in Pages : \A v \in served[p] : v = Blank \/ \E c \in Cached(p) : c.value = v
      /\ reading # Nothing => Cached(reading.page) = {}

Invariant == StartInvariant /\ CacheInvariant

\* What is found is in the set of known pages.
LEMMA ChoiceIsKnown ==
    ASSUME NEW u, NEW There, Choice(u, There) # Nothing
    PROVE  Choice(u, There) \in There
<1> DEFINE Tried == Candidates(Redirected(PageOf(u)))
           Found == {i \in DOMAIN Tried : Tried[i] \in There}
<1>1. Found # {} /\ Choice(u, There) = Tried[CHOOSE i \in Found : \A j \in Found : i <= j]
  BY DEF Choice
<1>2. DOMAIN Tried \subseteq {1, 2}
  BY DEF Candidates
<1> HIDE DEF Tried
<1>3. Found \subseteq {1, 2}
  BY <1>2
<1>4. \A i \in Found : Tried[i] \in There
  OBVIOUS
<1> HIDE DEF Found
<1>5. \E i \in Found : \A j \in Found : i <= j
  <2>1. CASE 1 \in Found
    BY <1>3, <2>1
  <2>2. CASE 1 \notin Found
    <3>1. Found = {2}
      BY <1>1, <1>3, <2>2
    <3> QED
      BY <3>1
  <2> QED
    BY <2>1, <2>2
<1>6. (CHOOSE i \in Found : \A j \in Found : i <= j) \in Found
  BY <1>5
<1> QED
  BY <1>1, <1>4, <1>6

\* An answer keeps the type of what is recorded of it.
LEMMA AnswerType ==
    ASSUME TypeOK, NEW u \in Urls, NEW page \in Pages, NEW value \in Values,
           Answer(u, page, value)
    PROVE  /\ served' \in [Pages -> SUBSET Values]
           /\ last' \in [outcome : {"answered"}, url : Urls, page : Pages, value : Values]
  BY DEF TypeOK, Answer

LEMMA RequestType ==
    ASSUME TypeOK, NEW u \in Urls, OnRequest(u)
    PROVE  TypeOK'
<1> DEFINE page == Choice(u, Known)
<1>1. UNCHANGED <<debug, disk, pages, content, changes, start, had>>
  BY DEF OnRequest
<1>2. page # Nothing => page \in Pages
  BY ChoiceIsKnown DEF Known, OnDisk, TypeOK
<1> HIDE DEF page
<1>3. ASSUME page # Nothing, NEW value \in Values, Answer(u, page, value), UNCHANGED reading
      PROVE  TypeOK'
  BY <1>1, <1>2, <1>3, AnswerType DEF TypeOK
<1>4. CASE UNCHANGED <<reading, served>> /\ NextProvider(u)
  <2>1. last' \in [outcome : {"dumped", "declined"}, url : Urls]
    BY <1>4 DEF NextProvider
  <2> QED
    BY <1>1, <1>4, <2>1 DEF TypeOK
<1>5. CASE page # Nothing /\ UNCHANGED <<served, last>> /\ reading' = [url |-> u, page |-> page]
  BY <1>1, <1>2, <1>5 DEF TypeOK
<1>6. CASE page # Nothing /\ (\E c \in Cached(page) : Answer(u, page, c.value)) /\ UNCHANGED reading
  <2>1. PICK c \in Cached(page) : Answer(u, page, c.value)
    BY <1>6
  <2>2. c.value \in Values
    BY <2>1 DEF TypeOK, Cached
  <2> QED
    BY <1>3, <1>6, <2>1, <2>2
<1>7. CASE page # Nothing /\ Answer(u, page, Blank) /\ UNCHANGED reading
  BY <1>3, <1>7 DEF Values
<1> QED
  BY <1>4, <1>5, <1>6, <1>7 DEF OnRequest, page

LEMMA ReadType ==
    ASSUME TypeOK, ReadFile
    PROVE  TypeOK'
<1> DEFINE page == reading.page
           value == IF disk[page] = Nothing THEN Blank ELSE disk[page]
<1>1. UNCHANGED <<debug, disk, pages, changes, start, had>> /\ reading # Nothing /\ reading' = Nothing
  BY DEF ReadFile
<1>2. page \in Pages /\ reading.url \in Urls /\ value \in Values
  BY <1>1 DEF TypeOK, Values, Files
<1>3. Answer(reading.url, page, value)
  BY DEF ReadFile
<1>4. content' \subseteq content \cup {[page |-> page, value |-> value]}
  BY DEF ReadFile, Kept
<1> HIDE DEF page, value
<1>5. content' \subseteq [page : Pages, value : Values]
  BY <1>2, <1>4 DEF TypeOK
<1> QED
  BY <1>1, <1>2, <1>3, <1>5, AnswerType DEF TypeOK

\* Every variable of the provider keeps its type, whatever the files do.
THEOREM PagesTypeCorrect == Spec => []TypeOK
<1>1. Init => TypeOK
  BY PagesAssumption DEF Init, TypeOK, Values, Files, NotServed
<1>2. TypeOK /\ [Next]_vars => TypeOK'
  <2> SUFFICES ASSUME TypeOK, [Next]_vars PROVE TypeOK'
    OBVIOUS
  <2>1. ASSUME NEW page \in Pages, NEW value \in Files, ChangeFile(page, value)
        PROVE  TypeOK'
    BY <2>1, PagesAssumption DEF ChangeFile, TypeOK
  <2>2. CASE UNCHANGED vars
    BY <2>2 DEF vars, TypeOK
  <2> QED
    BY <2>1, <2>2, RequestType, ReadType DEF Next
<1> QED
  BY <1>1, <1>2, PTL DEF Spec

LEMMA RequestInvariant ==
    ASSUME TypeOK, Invariant, NEW u \in Urls, OnRequest(u)
    PROVE  Invariant'
<1> DEFINE page == Choice(u, Known)
<1>1. UNCHANGED <<debug, disk, pages, content, start>> /\ reading = Nothing
  BY DEF OnRequest
<1>2. ~debug => page = Choice(u, start)
  BY DEF Known, Invariant, StartInvariant
<1>3. page # Nothing => page \in Known
  BY ChoiceIsKnown
<1>4. page # Nothing => page \in Pages
  BY <1>3 DEF Known, OnDisk, TypeOK
<1> HIDE DEF page
<1>5. CASE UNCHANGED <<reading, served>> /\ NextProvider(u) /\ page = Nothing
  <2>1. last'.outcome # "answered" /\ last'.url = u
    BY <1>5 DEF NextProvider
  <2>2. ReleaseServesTheStart'
    BY <1>1, <1>2, <1>5, <2>1 DEF ReleaseServesTheStart, IsAnswered
  <2>3. StartInvariant'
    BY <1>1, <1>5, <2>2 DEF Invariant, StartInvariant
  <2>4. CacheInvariant'
    BY <1>1, <1>5 DEF Invariant, CacheInvariant, Cached
  <2> QED
    BY <2>3, <2>4 DEF Invariant
<1>6. CASE UNCHANGED <<served, last>> /\ page # Nothing /\ reading' = [url |-> u, page |-> page]
           /\ (debug \/ Cached(page) = {})
  <2>1. reading'.page = page /\ reading'.url = u
    BY <1>6
  <2>2. StartInvariant'
    BY <1>1, <1>2, <1>6, <2>1 DEF Invariant, StartInvariant, ReleaseServesTheStart, IsAnswered
  <2>3. CacheInvariant'
    BY <1>1, <1>4, <1>6, <2>1 DEF Invariant, CacheInvariant, Cached
  <2> QED
    BY <2>2, <2>3 DEF Invariant
<1>7. ASSUME page # Nothing, ~debug, UNCHANGED reading,
             NEW value, Answer(u, page, value),
             value = Blank \/ \E c \in Cached(page) : c.value = value
      PROVE  Invariant'
  <2>1. last'.outcome = "answered" /\ last'.url = u /\ last'.page = page
    BY <1>7 DEF Answer
  <2>2. ReleaseServesTheStart'
    BY <1>1, <1>2, <1>7, <2>1 DEF ReleaseServesTheStart, IsAnswered
  <2>3. StartInvariant'
    BY <1>1, <1>7, <2>2 DEF Invariant, StartInvariant
  <2>4. served' = [served EXCEPT ![page] = served[page] \cup {value}]
    BY <1>7 DEF Answer
  <2>5. \A p \in Pages : served'[p] = IF p = page THEN served[p] \cup {value} ELSE served[p]
    BY <1>4, <1>7, <2>4 DEF TypeOK
  <2>6. \A p \in Pages : \A v \in served'[p] :
          v = Blank \/ \E c \in Cached(p) : c.value = v
    <3> SUFFICES ASSUME NEW p \in Pages, NEW v \in served'[p]
                 PROVE  v = Blank \/ \E c \in Cached(p) : c.value = v
      OBVIOUS
    <3>1. v \in served[p] \/ (p = page /\ v = value)
      BY <2>5
    <3>2. CASE v \in served[p]
      BY <1>7, <3>2 DEF Invariant, CacheInvariant
    <3> QED
      BY <1>7, <3>1, <3>2
  <2>7. CacheInvariant'
    <3>1. \A p \in Pages : \A c, d \in {e \in content' : e.page = p} : c.value = d.value
      BY <1>1, <1>7 DEF Invariant, CacheInvariant, Cached
    <3>2. \A p \in Pages : \A v \in served'[p] :
            v = Blank \/ \E c \in {e \in content' : e.page = p} : c.value = v
      BY <1>1, <2>6 DEF Cached
    <3>3. reading' = Nothing
      BY <1>1, <1>7
    <3> QED
      BY <3>1, <3>2, <3>3 DEF CacheInvariant, Cached
  <2> QED
    BY <2>3, <2>7 DEF Invariant
<1>8. CASE page # Nothing /\ ~debug /\ (\E c \in Cached(page) : Answer(u, page, c.value)) /\ UNCHANGED reading
  <2>1. PICK c \in Cached(page) : Answer(u, page, c.value)
    BY <1>8
  <2> QED
    BY <1>7, <1>8, <2>1
<1>9. CASE page # Nothing /\ ~debug /\ Answer(u, page, Blank) /\ UNCHANGED reading
  BY <1>7, <1>9
<1> QED
  BY <1>5, <1>6, <1>8, <1>9 DEF OnRequest, page

LEMMA ReadInvariant ==
    ASSUME TypeOK, Invariant, ReadFile
    PROVE  Invariant'
<1> DEFINE page == reading.page
           value == IF disk[page] = Nothing THEN Blank ELSE disk[page]
<1>1. UNCHANGED <<debug, disk, pages, start>> /\ reading # Nothing /\ reading' = Nothing
  BY DEF ReadFile
<1>2. Answer(reading.url, page, value)
  BY DEF ReadFile
<1>3. page \in Pages /\ value \in Values
  BY <1>1 DEF TypeOK, Blank, Values, Files
<1> HIDE DEF value
<1>4. last'.outcome = "answered" /\ last'.url = reading.url /\ last'.page = page
  BY <1>2 DEF Answer
<1>5. StartInvariant'
  BY <1>1, <1>4 DEF Invariant, StartInvariant, ReleaseServesTheStart, IsAnswered
<1>6. \A p \in Pages : served'[p] = IF p = page THEN served[p] \cup {value} ELSE served[p]
  BY <1>2, <1>3 DEF Answer, TypeOK
<1>7. CASE debug
  BY <1>1, <1>5, <1>7 DEF Invariant, CacheInvariant
<1>8. CASE ~debug
  <2>1. \A e \in content : e.page # page
    BY <1>1, <1>8 DEF Invariant, CacheInvariant, Cached
  <2>2. CASE disk[page] = Nothing
    <3>1. content' = content /\ value = Blank
      BY <2>2 DEF ReadFile, value
    <3>2. \A p \in Pages : \A c, d \in {e \in content' : e.page = p} : c.value = d.value
      BY <1>8, <3>1 DEF Invariant, CacheInvariant, Cached
    <3>3. \A p \in Pages : \A v \in served'[p] :
            v = Blank \/ \E c \in {e \in content' : e.page = p} : c.value = v
      <4> SUFFICES ASSUME NEW p \in Pages, NEW v \in served'[p]
                   PROVE  v = Blank \/ \E c \in {e \in content' : e.page = p} : c.value = v
        OBVIOUS
      <4>1. v \in served[p] \/ v = Blank
        BY <1>6, <3>1
      <4> QED
        BY <1>8, <3>1, <4>1 DEF Invariant, CacheInvariant, Cached
    <3>4. CacheInvariant'
      BY <1>1, <3>2, <3>3 DEF CacheInvariant, Cached
    <3> QED
      BY <1>5, <3>4 DEF Invariant
  <2>3. CASE disk[page] # Nothing
    <3> DEFINE new == [page |-> page, value |-> value]
    <3>1. content' = content \cup {new} /\ new.page = page /\ new.value = value
      BY <1>8, <2>3 DEF ReadFile, Kept, value
    <3> HIDE DEF new
    <3>2. \A p \in Pages : \A c, d \in {e \in content' : e.page = p} : c.value = d.value
      <4> SUFFICES ASSUME NEW p \in Pages, NEW c \in content', NEW d \in content',
                          c.page = p, d.page = p
                   PROVE  c.value = d.value
        OBVIOUS
      <4>1. CASE p = page
        BY <2>1, <3>1, <4>1
      <4>2. CASE p # page
        <5>1. c \in content /\ d \in content
          BY <3>1, <4>2
        <5> QED
          BY <1>8, <5>1 DEF Invariant, CacheInvariant, Cached
      <4> QED
        BY <4>1, <4>2
    <3>3. \A p \in Pages : \A v \in served'[p] :
            v = Blank \/ \E c \in {e \in content' : e.page = p} : c.value = v
      <4> SUFFICES ASSUME NEW p \in Pages, NEW v \in served'[p]
                   PROVE  v = Blank \/ \E c \in {e \in content' : e.page = p} : c.value = v
        OBVIOUS
      <4>1. v \in served[p] \/ (p = page /\ v = value)
        BY <1>6
      <4>2. CASE v \in served[p]
        BY <1>8, <3>1, <4>2 DEF Invariant, CacheInvariant, Cached
      <4>3. CASE p = page /\ v = value
        BY <3>1, <4>3
      <4> QED
        BY <4>1, <4>2, <4>3
    <3>4. CacheInvariant'
      BY <1>1, <3>2, <3>3 DEF CacheInvariant, Cached
    <3> QED
      BY <1>5, <3>4 DEF Invariant
  <2> QED
    BY <2>2, <2>3
<1> QED
  BY <1>7, <1>8

LEMMA InvariantHolds == Spec => []Invariant
<1>1. Init => Invariant
  BY DEF Init, Invariant, StartInvariant, CacheInvariant, ReleaseServesTheStart, Cached
<1>2. TypeOK /\ Invariant /\ [Next]_vars => Invariant'
  <2> SUFFICES ASSUME TypeOK, Invariant, [Next]_vars PROVE Invariant'
    OBVIOUS
  <2>1. ASSUME UNCHANGED <<debug, pages, content, reading, start, served, last>>
        PROVE  Invariant'
    BY <2>1 DEF Invariant, StartInvariant, CacheInvariant, ReleaseServesTheStart,
                IsAnswered, Cached
  <2>2. CASE \E page \in Pages, value \in Files : ChangeFile(page, value)
    BY <2>1, <2>2 DEF ChangeFile
  <2>3. CASE UNCHANGED vars
    BY <2>1, <2>3 DEF vars
  <2> QED
    BY <2>2, <2>3, RequestInvariant, ReadInvariant DEF Next
<1> QED
  BY <1>1, <1>2, PagesTypeCorrect, PTL DEF Spec

\* Which page a URL gets from a release was decided when it started, for any
\* site and any redirects, however the files change.
THEOREM StartDecides == Spec => []ReleaseServesTheStart
<1>1. Invariant => ReleaseServesTheStart
  BY DEF Invariant, StartInvariant, ReleaseServesTheStart
<1> QED
  BY <1>1, InvariantHolds, PTL

\* What was served for a page whose file was always there is kept for it, be it a
\* content or a blank.
KeptInvariant ==
    /\ \A p \in Pages : disk[p] \in had[p]
    /\ ~debug => \A p \in Pages : Nothing \notin had[p] =>
         \A v \in served[p] : \E c \in content : c.page = p /\ c.value = v

LEMMA AnswerKept ==
    ASSUME TypeOK, KeptInvariant, NEW u, NEW page \in Pages, NEW value, Answer(u, page, value),
           UNCHANGED <<debug, disk, had>>, content \subseteq content',
           ~debug => \/ disk[page] = Nothing
                     \/ \E c \in content' : c.page = page /\ c.value = value
    PROVE  KeptInvariant'
<1>1. \A p \in Pages : served'[p] = IF p = page THEN served[p] \cup {value} ELSE served[p]
  BY DEF Answer, TypeOK
<1> SUFFICES ASSUME ~debug, NEW p \in Pages, Nothing \notin had[p], NEW v, v \in served'[p]
             PROVE  \E c \in content' : c.page = p /\ c.value = v
  BY DEF KeptInvariant
<1>2. CASE v \in served[p]
  BY <1>2 DEF KeptInvariant
<1>3. CASE p = page /\ v = value
  <2>1. disk[page] # Nothing
    BY <1>3 DEF KeptInvariant
  <2> QED
    BY <1>3, <2>1
<1>4. served'[p] \subseteq served[p] \cup (IF p = page THEN {value} ELSE {})
  BY <1>1
<1>5. v \in served[p] \/ (p = page /\ v = value)
  BY <1>4
<1> QED
  BY <1>2, <1>3, <1>5

LEMMA KeptHolds == Spec => []KeptInvariant
<1>1. Init => KeptInvariant
  BY DEF Init, KeptInvariant
<1>2. TypeOK /\ KeptInvariant /\ [Next]_vars => KeptInvariant'
  <2> SUFFICES ASSUME TypeOK, KeptInvariant, [Next]_vars PROVE KeptInvariant'
    OBVIOUS
  <2>1. ASSUME UNCHANGED <<debug, disk, content, had, served>> PROVE KeptInvariant'
    BY <2>1 DEF KeptInvariant
  <2>2. ASSUME NEW u \in Urls, OnRequest(u) PROVE KeptInvariant'
    <3> DEFINE page == Choice(u, Known)
    <3>1. UNCHANGED <<debug, disk, content, had>>
      BY <2>2 DEF OnRequest
    <3>2. page # Nothing => page \in Pages
      BY ChoiceIsKnown DEF Known, OnDisk, TypeOK
    <3>3. \/ UNCHANGED served
          \/ page # Nothing /\ \E c \in Cached(page) : Answer(u, page, c.value)
          \/ page # Nothing /\ disk[page] = Nothing /\ Answer(u, page, Blank)
      BY <2>2 DEF OnRequest
    <3> HIDE DEF page
    <3>4. CASE UNCHANGED served
      BY <2>1, <3>1, <3>4
    <3>5. CASE page # Nothing /\ \E c \in Cached(page) : Answer(u, page, c.value)
      <4>1. PICK c \in Cached(page) : Answer(u, page, c.value)
        BY <3>5
      <4>2. c \in content' /\ c.page = page
        BY <3>1 DEF Cached
      <4> QED
        BY <3>1, <3>2, <3>5, <4>1, <4>2, AnswerKept
    <3>6. CASE page # Nothing /\ disk[page] = Nothing /\ Answer(u, page, Blank)
      BY <3>1, <3>2, <3>6, AnswerKept
    <3> QED
      BY <3>3, <3>4, <3>5, <3>6
  <2>3. ASSUME ReadFile PROVE KeptInvariant'
    <3> DEFINE page == reading.page
    <3>1. UNCHANGED <<debug, disk, had>> /\ page \in Pages
      BY <2>3 DEF ReadFile, TypeOK
    <3>2. CASE disk[page] = Nothing
      <4>1. Answer(reading.url, page, Blank) /\ content' = content
        BY <2>3, <3>2 DEF ReadFile
      <4> QED
        BY <3>1, <3>2, <4>1, AnswerKept
    <3>3. CASE disk[page] # Nothing
      <4> DEFINE new == [page |-> page, value |-> disk[page]]
      <4>1. Answer(reading.url, page, disk[page])
            /\ content' = IF debug THEN content ELSE content \cup {new}
        BY <2>3, <3>3 DEF ReadFile, Kept
      <4>2. new.page = page /\ new.value = disk[page]
        OBVIOUS
      <4> HIDE DEF new
      <4>3. ~debug => \E c \in content' : c.page = page /\ c.value = disk[page]
        BY <4>1, <4>2
      <4> QED
        BY <3>1, <4>1, <4>3, AnswerKept
    <3> QED
      BY <3>2, <3>3
  <2>4. ASSUME NEW page \in Pages, NEW value \in Files, ChangeFile(page, value) PROVE KeptInvariant'
    <3>1. UNCHANGED <<debug, content, served>>
      BY <2>4 DEF ChangeFile
    <3>2. \A p \in Pages : /\ disk'[p] = IF p = page THEN value ELSE disk[p]
                           /\ had'[p] = IF p = page THEN had[p] \cup {value} ELSE had[p]
      BY <2>4 DEF ChangeFile, TypeOK
    <3> QED
      BY <3>1, <3>2 DEF KeptInvariant
  <2>5. CASE UNCHANGED vars
    BY <2>1, <2>5 DEF vars
  <2> QED
    BY <2>2, <2>3, <2>4, <2>5 DEF Next
<1> QED
  BY <1>1, <1>2, PagesTypeCorrect, PTL DEF Spec

LEMMA AtMostOne ==
    ASSUME NEW S, \A v, w \in S : v = w
    PROVE  Cardinality(S) <= 1
<1>1. S = {} => Cardinality(S) = 0
  BY FS_EmptySet
<1>2. ASSUME S # {}
      PROVE  Cardinality(S) = 1
  <2>1. PICK v \in S : TRUE
    BY <1>2
  <2>2. S = {v}
    BY <2>1
  <2> QED
    BY <2>2, FS_Singleton
<1> QED
  BY <1>1, <1>2

\* A release never serves two different contents for one page, and never anything
\* but the content it read if the file of the page was always there.
THEOREM ContentIsKept == Spec => []CacheIsStable
<1>1. Invariant /\ KeptInvariant => CacheIsStable
  <2> SUFFICES ASSUME Invariant, KeptInvariant, ~debug, NEW p \in Pages
               PROVE  /\ Cardinality(served[p] \ {Blank}) <= 1
                      /\ Nothing \notin had[p] => Cardinality(served[p]) <= 1
    BY DEF CacheIsStable
  <2>1. \A v, w \in served[p] \ {Blank} : v = w
    BY DEF Invariant, CacheInvariant
  <2>2. ASSUME Nothing \notin had[p]
        PROVE  \A v, w \in served[p] : v = w
    <3>1. \A v \in served[p] : \E c \in Cached(p) : c.value = v
      BY <2>2 DEF KeptInvariant, Cached
    <3> QED
      BY <3>1 DEF Invariant, CacheInvariant
  <2> QED
    BY <2>1, <2>2, AtMostOne
<1> QED
  BY <1>1, InvariantHolds, KeptHolds, PTL

------------------------------------------------------------------------------
\* Contents and domains, in a release and with the switch for debugging.

\* The page stands for the request: it is that of the URL or of its domain.
OfDomain(u, page) ==
    LET asked == PageOf(u) IN
    Redirected(asked) = asked =>
      /\ page.file = asked.file
      /\ \E i \in 1..Len(asked.host) : page.host = SubSeq(asked.host, i, Len(asked.host))

\* The history has what is on the disk and what was kept; the request that waits
\* for its file, and the one answered last, got a page of their domain.
HistoryInvariant ==
    /\ \A p \in Pages : disk[p] \in had[p]
    /\ \A c \in content : c.value \in had[c.page]
    /\ ContentWasThere
    /\ reading # Nothing => OfDomain(reading.url, reading.page)
    /\ IsAnswered => OfDomain(last.url, last.page)

\* A set of positions that is not empty has a largest one.
LEMMA LargestIsThere ==
    ASSUME NEW n \in Nat, NEW S \in SUBSET (1..n), S # {}
    PROVE  \E i \in S : \A j \in S : j <= i
<1> DEFINE Less  == {ss \in Nat \X Nat : ss[1] < ss[2]}
           Below == {n - i : i \in S}
<1>1. IsWellFoundedOn(Less, Nat)
  BY NatLessThanWellFounded DEF OpToRel
<1>2. \A i \in S : i \in Int /\ n - i \in Nat /\ n - i \in Below
  OBVIOUS
<1>3. Below \subseteq Nat /\ Below # {}
  BY <1>2
<1>4. \A a, b \in Nat : <<a, b>> \notin Less => a >= b
  OBVIOUS
<1>5. \A x \in Below : \E i \in S : x = n - i
  OBVIOUS
<1> HIDE DEF Less, Below
<1>6. PICK x \in Below : \A y \in Below : <<y, x>> \notin Less
  BY <1>1, <1>3, WFMin
<1>7. \A y \in Below : y >= x
  BY <1>3, <1>4, <1>6
<1>8. PICK i \in S : x = n - i
  BY <1>5
<1>9. ASSUME NEW j \in S PROVE j <= i
  BY <1>2, <1>7, <1>8
<1> QED
  BY <1>9

\* The last two of a sequence.
LEMMA EndOfTwo ==
    ASSUME NEW host \in Seq(STRING), Len(host) >= 2
    PROVE  SubSeq(host, Len(host) - 1, Len(host)) = <<host[Len(host) - 1], host[Len(host)]>>
<1> DEFINE n == Len(host)
           end == SubSeq(host, n - 1, n)
<1>1. n \in Nat /\ n - 1 \in 1..n /\ n \in 1..n
  OBVIOUS
<1>2. end \in Seq(STRING) /\ Len(end) = 2
  BY <1>1
<1>3. end[1] = host[n - 1] /\ end[2] = host[n]
  BY <1>1
<1> HIDE DEF end, n
<1>4. end = <<end[1], end[2]>>
  BY <1>2
<1> QED
  BY <1>3, <1>4 DEF end, n

\* The domain of a host that is not its end is one no page has.
LEMMA DomainIsEnd ==
    ASSUME NEW host \in Seq(STRING), GetURIDomain(host) # <<>>
    PROVE  \/ \E i \in 1..Len(host) : GetURIDomain(host) = SubSeq(host, i, Len(host))
           \/ Len(GetURIDomain(host)) = 2 /\ GetURIDomain(host)[2] = ""
<1> DEFINE n       == Len(host)
           Long    == {i \in 1..n : host[i] \in LongLabels}
           name    == CHOOSE i \in Long : \A j \in Long : j <= i
           service == n = 3 /\ host[1] \in ServicePrefixes
           domain  == GetURIDomain(host)
           End     == \E i \in 1..n : domain = SubSeq(host, i, n)
           NoEnd   == Len(domain) = 2 /\ domain[2] = ""
<1> SUFFICES End \/ NoEnd
  OBVIOUS
<1>1. n \in Nat /\ Long \in SUBSET (1..n) /\ (service => n = 3) /\ domain # <<>>
  OBVIOUS
<1>2. Long # {} => name \in Long
  <2>1. Long # {} => \E i \in Long : \A j \in Long : j <= i
    <3> HIDE DEF n, Long
    <3> QED
      BY <1>1, LargestIsThere
  <2> HIDE DEF n, Long
  <2> QED
    BY <2>1
<1>3. domain = IF service THEN <<host[2], host[3]>>
               ELSE IF n < 2 THEN <<>>
               ELSE IF Long = {} THEN <<host[n - 1], host[n]>>
               ELSE IF name = n THEN <<host[n], "">>
               ELSE SubSeq(host, name, n)
  BY DEF GetURIDomain
<1>4. n >= 2 => SubSeq(host, n - 1, n) = <<host[n - 1], host[n]>>
  BY EndOfTwo
<1> HIDE DEF domain, Long, name, service, n
<1>5. CASE service
  <2>1. domain = <<host[2], host[3]>> /\ n = 3
    BY <1>1, <1>3, <1>5
  <2>2. domain = SubSeq(host, 2, n) /\ 2 \in 1..n
    BY <1>4, <2>1
  <2> QED
    BY <2>2
<1>6. CASE ~service /\ n < 2
  BY <1>1, <1>3, <1>6
<1>7. CASE ~service /\ ~(n < 2) /\ Long = {}
  <2>1. domain = <<host[n - 1], host[n]>>
    BY <1>3, <1>7
  <2>2. domain = SubSeq(host, n - 1, n) /\ n - 1 \in 1..n
    BY <1>1, <1>4, <1>7, <2>1
  <2> QED
    BY <2>2
<1>8. CASE ~service /\ ~(n < 2) /\ Long # {} /\ name = n
  <2>1. domain = <<host[n], "">>
    BY <1>3, <1>8
  <2> QED
    BY <2>1
<1>9. CASE ~service /\ ~(n < 2) /\ Long # {} /\ name # n
  <2>1. domain = SubSeq(host, name, n)
    BY <1>3, <1>9
  <2>2. name \in 1..n
    BY <1>1, <1>2, <1>9
  <2> QED
    BY <2>1, <2>2
<1> QED
  BY <1>5, <1>6, <1>7, <1>8, <1>9

\* What is found for a URL is the page of its domain, if no redirect applies.
LEMMA ChoiceIsOfDomain ==
    ASSUME NEW u \in Urls, NEW There \in SUBSET Pages, Choice(u, There) # Nothing
    PROVE  OfDomain(u, Choice(u, There))
<1> DEFINE asked == PageOf(u)
           Tried == Candidates(Redirected(asked))
           Found == {i \in DOMAIN Tried : Tried[i] \in There}
           page  == Choice(u, There)
<1> SUFFICES ASSUME Redirected(asked) = asked
             PROVE  /\ page.file = asked.file
                    /\ \E i \in 1..Len(asked.host) : page.host = SubSeq(asked.host, i, Len(asked.host))
  BY DEF OfDomain
<1>1. asked.host = u.host /\ u.host \in Seq(STRING) /\ u.host # <<>>
  BY HostAssumption DEF PageOf
<1>2. page \in There
  BY ChoiceIsKnown
<1>3. page.host[Len(page.host)] # ""
  BY <1>2, HostAssumption
<1>4. \E i \in DOMAIN Tried : page = Tried[i]
  <2>1. Found # {} /\ page = Tried[CHOOSE i \in Found : \A j \in Found : i <= j]
    BY DEF Choice
  <2>2. DOMAIN Tried \subseteq {1, 2}
    BY DEF Candidates
  <2> HIDE DEF Tried, page
  <2>3. Found \subseteq DOMAIN Tried
    OBVIOUS
  <2> HIDE DEF Found
  <2>4. \E i \in Found : \A j \in Found : i <= j
    <3>1. CASE 1 \in Found
      BY <2>2, <2>3, <3>1
    <3>2. CASE 1 \notin Found
      BY <2>1, <2>2, <2>3, <3>2
    <3> QED
      BY <3>1, <3>2
  <2>5. (CHOOSE i \in Found : \A j \in Found : i <= j) \in Found
    BY <2>4
  <2> QED
    BY <2>1, <2>3, <2>5
<1>5. \/ page = asked
      \/ /\ GetURIDomain(u.host) # <<>>
         /\ page = [host |-> GetURIDomain(u.host), file |-> asked.file]
  BY <1>1, <1>4 DEF Candidates
<1> HIDE DEF page, asked
<1>6. CASE page = asked
  <2>1. 1 \in 1..Len(u.host) /\ u.host = SubSeq(u.host, 1, Len(u.host))
    BY <1>1
  <2> QED
    BY <1>1, <1>6, <2>1
<1>7. CASE /\ GetURIDomain(u.host) # <<>>
           /\ page = [host |-> GetURIDomain(u.host), file |-> asked.file]
  <2>1. page.host = GetURIDomain(u.host) /\ page.file = asked.file
    BY <1>7
  <2>2. ~(Len(page.host) = 2 /\ page.host[2] = "")
    BY <1>3
  <2> QED
    BY <1>1, <1>7, <2>1, <2>2, DomainIsEnd
<1> QED
  BY <1>5, <1>6, <1>7

\* An answer for a page of the request's domain, with a content its file had.
LEMMA AnswerHistory ==
    ASSUME TypeOK, HistoryInvariant, NEW u \in Urls, NEW page \in Pages, NEW value,
           Answer(u, page, value), OfDomain(u, page),
           value \in had[page] \/ (value = Blank /\ Nothing \in had[page]),
           UNCHANGED <<disk, had>>, \A c \in content' : c.value \in had[c.page],
           reading' = reading \/ reading' = Nothing
    PROVE  HistoryInvariant'
<1>1. last'.outcome = "answered" /\ last'.url = u /\ last'.page = page /\ last'.value = value
  BY DEF Answer
<1>2. ContentWasThere'
  BY <1>1 DEF ContentWasThere, IsAnswered
<1>3. (IsAnswered => OfDomain(last.url, last.page))'
  BY <1>1 DEF IsAnswered, OfDomain
<1>4. (reading # Nothing => OfDomain(reading.url, reading.page))'
  BY DEF HistoryInvariant, OfDomain
<1> QED
  BY <1>2, <1>3, <1>4 DEF HistoryInvariant

LEMMA RequestHistory ==
    ASSUME TypeOK, HistoryInvariant, NEW u \in Urls, OnRequest(u)
    PROVE  HistoryInvariant'
<1> DEFINE page == Choice(u, Known)
<1>1. UNCHANGED <<debug, disk, pages, content, had>> /\ reading = Nothing
  BY DEF OnRequest
<1>2. Known \in SUBSET Pages
  BY DEF Known, OnDisk, TypeOK
<1>3. page # Nothing => page \in Pages /\ OfDomain(u, page)
  BY <1>2, ChoiceIsKnown, ChoiceIsOfDomain
<1> HIDE DEF page
<1>4. CASE UNCHANGED <<reading, served>> /\ NextProvider(u)
  <2>1. last'.outcome # "answered"
    BY <1>4 DEF NextProvider
  <2> QED
    BY <1>1, <1>4, <2>1 DEF HistoryInvariant, ContentWasThere, IsAnswered
<1>5. CASE UNCHANGED <<served, last>> /\ page # Nothing /\ reading' = [url |-> u, page |-> page]
  <2>1. reading'.url = u /\ reading'.page = page
    BY <1>5
  <2>2. (reading # Nothing => OfDomain(reading.url, reading.page))'
    BY <1>3, <1>5, <2>1 DEF OfDomain
  <2> QED
    BY <1>1, <1>5, <2>2 DEF HistoryInvariant, ContentWasThere, IsAnswered, OfDomain
<1>6. CASE page # Nothing /\ (\E c \in Cached(page) : Answer(u, page, c.value)) /\ UNCHANGED reading
  <2>1. PICK c \in Cached(page) : Answer(u, page, c.value)
    BY <1>6
  <2>2. c.value \in had[page]
    BY <2>1 DEF Cached, HistoryInvariant
  <2> QED
    BY <1>1, <1>3, <1>6, <2>1, <2>2, AnswerHistory DEF HistoryInvariant
<1>7. CASE page # Nothing /\ disk[page] = Nothing /\ Answer(u, page, Blank) /\ UNCHANGED reading
  <2>1. Nothing \in had[page]
    BY <1>3, <1>7 DEF HistoryInvariant
  <2> QED
    BY <1>1, <1>3, <1>7, <2>1, AnswerHistory DEF HistoryInvariant
<1> QED
  BY <1>4, <1>5, <1>6, <1>7 DEF OnRequest, page

LEMMA ReadHistory ==
    ASSUME TypeOK, HistoryInvariant, ReadFile
    PROVE  HistoryInvariant'
<1> DEFINE page  == reading.page
           value == IF disk[page] = Nothing THEN Blank ELSE disk[page]
<1>1. UNCHANGED <<disk, had>> /\ reading # Nothing /\ reading' = Nothing
  BY DEF ReadFile
<1>2. Answer(reading.url, page, value)
  BY DEF ReadFile
<1>3. reading.url \in Urls /\ page \in Pages /\ OfDomain(reading.url, page)
  BY <1>1 DEF TypeOK, HistoryInvariant
<1>4. disk[page] \in had[page]
  BY <1>3 DEF HistoryInvariant
<1>5. value \in had[page] \/ (value = Blank /\ Nothing \in had[page])
  BY <1>4
<1>6. content' \subseteq content \cup {[page |-> page, value |-> disk[page]]}
  BY DEF ReadFile, Kept
<1> HIDE DEF page, value
<1>7. \A c \in content' : c.value \in had[c.page]
  BY <1>4, <1>6 DEF HistoryInvariant
<1> QED
  BY <1>1, <1>2, <1>3, <1>5, <1>7, AnswerHistory

LEMMA ChangeHistory ==
    ASSUME TypeOK, HistoryInvariant, NEW page \in Pages, NEW value \in Files, ChangeFile(page, value)
    PROVE  HistoryInvariant'
<1>1. UNCHANGED <<content, reading, last>>
  BY DEF ChangeFile
<1>2. \A p \in Pages : had[p] \subseteq had'[p] /\ disk'[p] \in had'[p]
  BY DEF ChangeFile, TypeOK, HistoryInvariant
<1>3. \A c \in content' : c.value \in had'[c.page]
  <2>1. \A c \in content : c.page \in Pages /\ c.value \in had[c.page]
    BY DEF TypeOK, HistoryInvariant
  <2> QED
    BY <1>1, <1>2, <2>1
<1>4. ContentWasThere'
  <2>1. IsAnswered => last.page \in Pages
    BY DEF IsAnswered, TypeOK, NotServed
  <2> QED
    BY <1>1, <1>2, <2>1 DEF ContentWasThere, IsAnswered, HistoryInvariant
<1> QED
  BY <1>1, <1>2, <1>3, <1>4 DEF HistoryInvariant, IsAnswered, OfDomain

LEMMA HistoryHolds == Spec => []HistoryInvariant
<1>1. Init => HistoryInvariant
  BY DEF Init, HistoryInvariant, ContentWasThere, IsAnswered, NotServed
<1>2. TypeOK /\ HistoryInvariant /\ [Next]_vars => HistoryInvariant'
  <2> SUFFICES ASSUME TypeOK, HistoryInvariant, [Next]_vars PROVE HistoryInvariant'
    OBVIOUS
  <2>1. CASE UNCHANGED vars
    BY <2>1 DEF vars, HistoryInvariant, ContentWasThere, IsAnswered, OfDomain
  <2> QED
    BY <2>1, RequestHistory, ReadHistory, ChangeHistory DEF Next
<1> QED
  BY <1>1, <1>2, PagesTypeCorrect, PTL DEF Spec

\* Whatever files are written and removed, and whether they are kept or not: an
\* answer is a content its own file had, or a blank for a file that was missing.
THEOREM AnswersWereThere == Spec => []ContentWasThere
<1>1. HistoryInvariant => ContentWasThere
  BY DEF HistoryInvariant
<1> QED
  BY <1>1, HistoryHolds, PTL

\* For all hosts, long labels and redirects: the page of an answer is that of the
\* host requested, or of an end of it.
THEOREM AnswersAreOfTheirDomain == Spec => []AnswerIsOfDomain
<1>1. HistoryInvariant => AnswerIsOfDomain
  BY DEF HistoryInvariant, AnswerIsOfDomain, OfDomain
<1> QED
  BY <1>1, HistoryHolds, PTL
==============================================================================
