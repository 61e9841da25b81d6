----------------------------- MODULE PagesProvider -----------------------------
(***************************************************************************)
(* PagesResourceProvider: local files that are served in the place of      *)
(* pages of web sites, and RequestDumpResourceProvider, which gets the     *)
(* requests it declines and answers some with their own headers.           *)
(*                                                                         *)
(* A release lists the files once, when it starts, and keeps every content *)
(* it has read; with the switch for debugging each request looks at the    *)
(* disk.  Requests are served one at a time on the IO thread; the files    *)
(* may be changed by others at any time, also between the moment a request *)
(* finds its file and the moment it reads it.                              *)
(***************************************************************************)
EXTENDS Naturals, Sequences, FiniteSets

CONSTANTS
    Pages,          \* the pages there may be files for: [host, file]
    Urls,           \* what is requested: [scheme, host, file]
    Redirects,      \* the redirect entries: a sequence of [from, to]
    Dumps,          \* files of a URL that end with /_/dump/header.html
    LongLabels,     \* labels of host names of more than three letters
    Contents,       \* contents of files, but the empty one
    Nothing,
    MaxChanges      \* bound: changes of files

(***************************************************************************)
(* A host is the sequence of its labels.  Ports, queries and fragments are *)
(* cut off and tell nothing apart.  The file of a page is "" if the URL    *)
(* ends with a slash.  The host of a page is the name of a directory,      *)
(* which does not end in a dot on Windows.                                 *)
(***************************************************************************)
ASSUME HostAssumption ==
    /\ \A p \in Pages : /\ p.host \in Seq(STRING) /\ p.host # <<>>
                       /\ p.host[Len(p.host)] # ""
    /\ \A u \in Urls : /\ u.scheme \in {"http", "devtools"}
                      /\ u.host \in Seq(STRING) /\ u.host # <<>>

ASSUME PagesAssumption ==
    /\ Nothing \notin Contents \cup {"empty"}
    /\ MaxChanges \in Nat

VARIABLES
    debug,          \* debug
    disk,           \* page -> content of its file, or Nothing
    pages,          \* pages: the files listed at the start
    content,        \* content: the pages read so far
    reading,        \* the request that has found its file, or Nothing
    \* History, not in the code.
    changes,        \* the number of changes of files
    start,          \* the pages that had a file at the start
    had,            \* page -> contents of its file since the start
    served,         \* page -> what was answered for it
    last            \* the last request served

vars == <<debug, disk, pages, content, reading, changes, start, had, served, last>>

\* A file that cannot be read, or is empty, is answered with a blank.
Blank  == "empty"
Values == Contents \cup {Blank}
Files  == Values \cup {Nothing}

\* "none" before the first request.
NotServed == [outcome |-> "none"]

Init ==
    /\ debug \in BOOLEAN
    /\ disk \in [Pages -> Files]
    /\ pages = IF debug THEN {} ELSE {p \in Pages : disk[p] # Nothing}
    /\ content = {}
    /\ reading = Nothing
    /\ changes = 0
    /\ start = {p \in Pages : disk[p] # Nothing}
    /\ had = [p \in Pages |-> {disk[p]}]
    /\ served = [p \in Pages |-> {}]
    /\ last = NotServed

------------------------------------------------------------------------------
\* Which page a URL stands for.

\* OnRequest, up to the redirects.
PageOf(u) == [host |-> u.host, file |-> IF u.file = "" THEN "index.html" ELSE u.file]

\* The first redirect that matches, and no further one.
Redirected(page) ==
    LET Matching == {i \in DOMAIN Redirects : page \in Redirects[i].from} IN
    IF Matching = {} THEN page
    ELSE Redirects[CHOOSE i \in Matching : \A j \in Matching : i <= j].to

ServicePrefixes == {"www", "ftp", "git", "raw"}

\* Mutant: the first label is joined to the suffix.
GetURIDomainFirst(host) ==
    IF Len(host) < 2 THEN <<>> ELSE <<host[1], host[Len(host)]>>

\* GetURIDomain: the last long label and what follows it, which is nothing but
\* an empty label if it is the last of all.
GetURIDomain(host) ==
    LET n    == Len(host)
        Long == {i \in 1..n : host[i] \in LongLabels}
        name == CHOOSE i \in Long : \A j \in Long : j <= i
    IN
    IF n = 3 /\ host[1] \in ServicePrefixes THEN <<host[2], host[3]>>
    ELSE IF n < 2 THEN <<>>
    ELSE IF Long = {} THEN <<host[n - 1], host[n]>>
    ELSE IF name = n THEN <<host[n], "">>
    ELSE SubSeq(host, name, n)

\* The page itself, or else that of its domain.
Candidates(page) ==
    IF GetURIDomain(page.host) = <<>> THEN <<page>>
    ELSE <<page, [host |-> GetURIDomain(page.host), file |-> page.file]>>

\* What OnRequest answers for if the pages in There are known, Nothing if it
\* leaves the request to the next provider.
Choice(u, There) ==
    LET Tried == Candidates(Redirected(PageOf(u)))
        Found == {i \in DOMAIN Tried : Tried[i] \in There}
    IN
    IF u.scheme = "devtools" \/ Found = {} THEN Nothing
    ELSE Tried[CHOOSE i \in Found : \A j \in Found : i <= j]

------------------------------------------------------------------------------

OnDisk == {p \in Pages : disk[p] # Nothing}

\* Mutant: a page counts as known when its file is there.
KnownNow == OnDisk

Known == IF debug THEN OnDisk ELSE pages

\* The answer for a page: a request that reaches Continue.
Answer(u, page, value) ==
    /\ last' = [outcome |-> "answered", url |-> u, page |-> page, value |-> value]
    /\ served' = [served EXCEPT ![page] = @ \cup {value}]

\* Mutant: contents are told apart by the name of the file only.
CachedOfFile(page) == {c \in content : c.page.file = page.file}

Cached(page) == {c \in content : c.page = page}

\* RequestDumpResourceProvider::OnRequest.
NextProvider(u) ==
    last' = [outcome |-> IF u.file \in Dumps THEN "dumped" ELSE "declined", url |-> u]

\* OnRequest, up to the file it reads.
OnRequest(u) ==
    LET page == Choice(u, Known) IN
    /\ reading = Nothing
    /\ \/ /\ page = Nothing
          /\ NextProvider(u)
          /\ UNCHANGED <<reading, served>>
       \/ /\ page # Nothing
          /\ ~debug
          /\ \E c \in Cached(page) : Answer(u, page, c.value)
          /\ UNCHANGED reading
       \/ /\ page # Nothing
          /\ debug \/ Cached(page) = {}
          /\ disk[page] # Nothing
          /\ reading' = [url |-> u, page |-> page]
          /\ UNCHANGED <<served, last>>
       \/ /\ page # Nothing
          /\ ~debug /\ Cached(page) = {}
          /\ disk[page] = Nothing
          /\ Answer(u, page, Blank)
          /\ UNCHANGED reading
    /\ UNCHANGED <<debug, disk, pages, content, changes, start, had>>

\* Mutant: what was read is kept only if there was something.
KeptIfAny(page, value) ==
    IF debug \/ value = Blank THEN content
    ELSE content \cup {[page |-> page, value |-> value]}

\* The contents kept after the file of page was read.
Kept(page, value) ==
    IF debug THEN content ELSE content \cup {[page |-> page, value |-> value]}

\* OnRequest, from the opening of the file: it may be gone.
ReadFile ==
    LET page == reading.page IN
    /\ reading # Nothing
    /\ reading' = Nothing
    /\ \/ /\ disk[page] = Nothing
          /\ Answer(reading.url, page, Blank)
          /\ UNCHANGED content
       \/ /\ disk[page] # Nothing
          /\ Answer(reading.url, page, disk[page])
          /\ content' = Kept(page, disk[page])
    /\ UNCHANGED <<debug, disk, pages, changes, start, had>>

\* Someone writes or removes a file.
ChangeFile(page, value) ==
    /\ disk[page] # value
    /\ changes < MaxChanges
    /\ changes' = changes + 1
    /\ disk' = [disk EXCEPT ![page] = value]
    /\ had' = [had EXCEPT ![page] = @ \cup {value}]
    /\ UNCHANGED <<debug, pages, content, reading, start, served, last>>

Next ==
    \/ \E u \in Urls : OnRequest(u)
    \/ ReadFile
    \/ \E page \in Pages, value \in Files : ChangeFile(page, value)

Spec == Init /\ [][Next]_vars

------------------------------------------------------------------------------
\* Properties.

\* Every variable keeps its type.
TypeOK ==
    /\ debug \in BOOLEAN
    /\ disk \in [Pages -> Files]
    /\ pages \in SUBSET Pages
    /\ content \subseteq [page : Pages, value : Values]
    /\ reading \in [url : Urls, page : Pages] \cup {Nothing}
    /\ changes \in 0..MaxChanges
    /\ start \in SUBSET Pages
    /\ had \in [Pages -> SUBSET Files]
    /\ served \in [Pages -> SUBSET Values]
    /\ last \in [outcome : {"answered"}, url : Urls, page : Pages, value : Values]
                  \cup [outcome : {"dumped", "declined"}, url : Urls] \cup {NotServed}

IsAnswered == last.outcome = "answered"

\* A release decides by the files that were there when it started, whatever was
\* written and removed since: which page a URL gets, and whether it gets one or is
\* left to the next provider.
ReleaseServesTheStart ==
    ~debug /\ last # NotServed =>
      Choice(last.url, start) = IF IsAnswered THEN last.page ELSE Nothing

\* What a page is answered with was the content of its own file at some time, or
\* is the blank for a file that was missing then.
ContentWasThere ==
    IsAnswered => \/ last.value \in had[last.page]
                  \/ last.value = Blank /\ Nothing \in had[last.page]

\* In a release the content of a page does not change any more once it was
\* served.  Only a page whose file was missing is served a blank first and maybe a
\* content later; an empty file is a content like any other, and is kept for good.
CacheIsStable ==
    ~debug => \A p \in Pages :
        /\ Cardinality(served[p] \ {Blank}) <= 1
        /\ Nothing \notin had[p] => Cardinality(served[p]) <= 1

\* No page is served for the host of another domain: its host ends the one
\* requested, and the file is the same.  Redirects are the exception.
AnswerIsOfDomain ==
    IsAnswered /\ Redirected(PageOf(last.url)) = PageOf(last.url) =>
      LET asked == PageOf(last.url) IN
      /\ last.page.file = asked.file
      /\ \E i \in 1..Len(asked.host) : last.page.host = SubSeq(asked.host, i, Len(asked.host))
==============================================================================
