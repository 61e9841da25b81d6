------------------------------- MODULE FileApi -------------------------------
(***************************************************************************)
(* The file functions of the WebAssistant object.                          *)
(*                                                                         *)
(* Every renderer process runs V8HandlerEx::Execute on its main thread,    *)
(* one call at a time, and all of them work on the same data directory     *)
(* without locks: a call is several calls of the operating system, and     *)
(* those of other processes come in between.  A page that names no path of *)
(* the data directory gets an exception and changes nothing; such calls,   *)
(* Sleep, GetVersion and GetAppPath are left out.                          *)
(*                                                                         *)
(* A file is a sequence of blocks.  A text is written in pieces, as its    *)
(* stream flushes them.  Nothing catches what std::filesystem throws: it   *)
(* ends the process.                                                       *)
(***************************************************************************)
EXTENDS Integers, Sequences

CONSTANTS
    Procs,          \* renderer processes
    Names,          \* the files that pages name
    Dirs,           \* the directories that pages name
    Folder,         \* where a file or directory is, in Dirs or AppPath
    AppPath,        \* the directory of the application, which exists
    Texts,          \* what pages write
    Pieces,         \* text -> the number of its pieces
    MaxTries        \* num of exec(): how often a program is started

ASSUME ConstantsAssumption ==
    /\ Names \cap Dirs = {} /\ AppPath \notin Names \cup Dirs
    /\ Folder \in [Names \cup Dirs -> Dirs \cup {AppPath}]
    /\ Pieces \in [Texts -> Nat \ {0}]
    /\ MaxTries \in Nat \ {0}

VARIABLES
    made,           \* the directories that exist
    exists,         \* the files that exist
    content,        \* file -> its blocks
    call,           \* process -> the call it is in
    ended,          \* process -> "no", or whether a file function ended it
    \* History, not in the code.
    base,           \* process -> what was stored in the file it opened
    met,            \* processes whose open file another process writes, or wrote
    shared,         \* processes whose call another process's call overlaps
    torn            \* files that hold nothing one could have expected

disk    == <<made, exists, content>>
history == <<base, met, shared, torn>>
vars    == <<disk, call, ended, history>>

------------------------------------------------------------------------------
\* Data.

Hole      == <<"hole">>         \* zeros between the end of a file and a write
Block(t, i) == <<t, i>>
Blocks    == {Hole} \cup UNION {{Block(t, i) : i \in 1..Pieces[t]} : t \in Texts}
TextOf(t) == [i \in 1..Pieces[t] |-> Block(t, i)]

Idle       == [fn |-> "none"]
GetCalls   == [fn : {"get"}, step : {"open", "read"}, path : Names, data : Seq(Blocks)]
GotCalls   == [fn : {"got"}, path : Names, data : Seq(Blocks),
               sure : BOOLEAN]      \* sure is history
PutCalls   == [fn : {"put"}, step : {"write", "close"}, path : Names, text : Texts,
               app : BOOLEAN, done : Nat]
OtherCalls == [fn : {"size", "remove"}, path : Names]
Executes   == [fn : {"execute"}, step : {"try", "wait"}, times : Nat]
Calls      == {Idle} \cup GetCalls \cup GotCalls \cup PutCalls \cup OtherCalls \cup Executes

\* The processes that have n open, and those of them that write it.
Putting(n)  == {p \in Procs : call[p].fn = "put" /\ call[p].path = n}
Reading(n)  == {p \in Procs : call[p].fn = "get" /\ call[p].path = n /\ call[p].step = "read"}
Open(n)     == Putting(n) \cup Reading(n)
IsDir(d)    == d \in made \cup {AppPath}

Gone     == [is |-> "gone"]
Unknown  == [is |-> "unknown"]
Known(s) == [is |-> "known", content |-> s]
Values   == {Gone, Unknown} \cup [is : {"known"}, content : Seq(Blocks)]

\* What is stored in n as a page may see it.
OnDisk(n) == IF torn[n] THEN Unknown
             ELSE IF n \in exists THEN Known(content[n]) ELSE Gone

Stored(n) == IF torn[n] \/ Putting(n) = {} THEN OnDisk(n)
             ELSE base[CHOOSE p \in Putting(n) : TRUE]

Init ==
    /\ made \in SUBSET Dirs
    /\ exists = {}
    /\ content = [n \in Names |-> <<>>]
    /\ call = [p \in Procs |-> Idle]
    /\ ended = [p \in Procs |-> "no"]
    /\ base = [p \in Procs |-> Gone]
    /\ met = {} /\ shared = {}
    /\ torn = [n \in Names |-> FALSE]

------------------------------------------------------------------------------
\* A call begins, goes on, and ends: with an answer, an exception for the page,
\* or the end of the process.

Free(p) == call[p] = Idle /\ ended[p] = "no"

Begins(p, c) ==
    LET others == {q \in Procs \ {p} : call[q] # Idle} IN
    /\ call' = [call EXCEPT ![p] = c]
    /\ shared' = IF others = {} THEN shared ELSE shared \cup {p} \cup others
    /\ UNCHANGED ended

\* Process p opens n, to write it or to read it.
Opens(p, n, writes) ==
    /\ base' = [base EXCEPT ![p] = OnDisk(n)]
    /\ met' = met \cup (IF writes THEN Open(n) ELSE {})
                   \cup (IF Putting(n) # {} THEN {p} ELSE {})
    /\ torn' = IF writes /\ Putting(n) # {} THEN [torn EXCEPT ![n] = TRUE] ELSE torn

GoesOn(p, c) ==
    /\ call' = [call EXCEPT ![p] = c]
    /\ UNCHANGED ended

Closes(p) ==
    /\ base' = [base EXCEPT ![p] = Gone]
    /\ met' = met \ {p}

Answers(p) ==
    /\ call' = [call EXCEPT ![p] = Idle]
    /\ shared' = shared \ {p}
    /\ Closes(p)
    /\ UNCHANGED ended

Ends(p, why) ==
    /\ call' = [call EXCEPT ![p] = Idle]
    /\ ended' = [ended EXCEPT ![p] = why]
    /\ Closes(p)
    /\ UNCHANGED shared

------------------------------------------------------------------------------
\* FilePutContents.

OpenedContent(n, app) == IF app /\ n \in exists THEN content[n] ELSE <<>>

\* The stream is opened, which creates the file or truncates it; it cannot be
\* in a directory that does not exist ("file open failed").
PutOpen(p, n, t, app) ==
    /\ Free(p)
    /\ IsDir(Folder[n])
    /\ exists' = exists \cup {n}
    /\ content' = [content EXCEPT ![n] = OpenedContent(n, app)]
    /\ Begins(p, [fn |-> "put", step |-> "write", path |-> n, text |-> t, app |-> app,
                  done |-> 0])
    /\ Opens(p, n, TRUE)
    /\ UNCHANGED made

\* Block b is written at position "at", maybe beyond the end.
Written(s, at, b) ==
    [i \in 1..(IF at < Len(s) THEN Len(s) ELSE at + 1) |->
       IF i = at + 1 THEN b ELSE IF i <= Len(s) THEN s[i] ELSE Hole]

\* Where the next piece goes.  An appending stream seeks the end and then writes;
\* a write of another process in between leaves it at an end that is not one.
Positions(p) ==
    LET c == call[p]  size == Len(content[c.path]) IN
    IF ~c.app THEN {c.done}
    ELSE IF Putting(c.path) = {p} THEN {size} ELSE 0..size

HasMore(c) == c.done < Pieces[c.text]

\* A piece goes to the file, during "<<" or, what was still buffered, in close().
PutWrite(p) ==
    LET c == call[p] IN
    /\ c.fn = "put"
    /\ HasMore(c)
    /\ \E at \in Positions(p) : content' =
         [content EXCEPT ![c.path] = Written(@, at, Block(c.text, c.done + 1))]
    /\ GoesOn(p, [c EXCEPT !.done = @ + 1])
    /\ UNCHANGED <<made, exists, history>>

\* The second output.good(): the rest, if any, is left to close().
PutCheck(p) ==
    LET c == call[p] IN
    /\ c.fn = "put" /\ c.step = "write"
    /\ GoesOn(p, [c EXCEPT !.step = "close"])
    /\ UNCHANGED <<disk, history>>

\* Mutant: close() does not write what is still buffered.
FlushedAlways(c) == TRUE

Flushed(c) == c.done = Pieces[c.text]

\* A put leaves n torn unless it was alone and, if it appended, n was not torn.
PutClose(p) ==
    LET c == call[p] IN
    /\ c.fn = "put" /\ c.step = "close"
    /\ Flushed(c)
    /\ Answers(p)
    /\ torn' = IF p \in met \/ c.app THEN torn ELSE [torn EXCEPT ![c.path] = FALSE]
    /\ UNCHANGED disk

\* A write fails.  During "<<" the page gets "file save failed"; in close()
\* the call still answers true.
PutFails(p) ==
    LET c == call[p] IN
    /\ c.fn = "put"
    /\ HasMore(c)
    /\ Answers(p)
    /\ torn' = [torn EXCEPT ![c.path] = TRUE]
    /\ UNCHANGED disk

------------------------------------------------------------------------------
\* FileGetContents.

GetStatus(p, n) ==
    /\ Free(p) /\ n \in exists
    /\ Begins(p, [fn |-> "get", step |-> "open", path |-> n, data |-> <<>>])
    /\ UNCHANGED <<disk, base, met, torn>>

\* If the file was removed meanwhile, "file open failed".
GetOpen(p) ==
    LET c == call[p] IN
    /\ c.fn = "get" /\ c.step = "open"
    /\ \/ /\ c.path \in exists
          /\ GoesOn(p, [c EXCEPT !.step = "read"])
          /\ Opens(p, c.path, FALSE)
          /\ UNCHANGED shared
       \/ /\ c.path \notin exists
          /\ Answers(p)
          /\ UNCHANGED torn
    /\ UNCHANGED disk

GetRead(p) ==
    LET c == call[p] IN
    /\ c.fn = "get" /\ c.step = "read"
    /\ Len(c.data) < Len(content[c.path])
    /\ GoesOn(p, [c EXCEPT !.data = Append(@, content[c.path][Len(@) + 1])])
    /\ UNCHANGED <<disk, history>>

\* Mutant: the end is missed if the file became shorter meanwhile.
AtExactEnd(c) == Len(c.data) = Len(content[c.path])

AtEnd(c) == Len(c.data) >= Len(content[c.path])

GetClose(p) ==
    LET c == call[p] IN
    /\ c.fn = "get" /\ c.step = "read"
    /\ AtEnd(c)
    /\ GoesOn(p, [fn |-> "got", path |-> c.path, data |-> c.data,
                    sure |-> p \notin met /\ ~torn[c.path]])
    /\ Closes(p)
    /\ UNCHANGED <<disk, shared, torn>>

\* The content is turned into a string or an array for the page.
GetAnswer(p) ==
    /\ call[p].fn = "got"
    /\ Answers(p)
    /\ UNCHANGED <<disk, torn>>

------------------------------------------------------------------------------
\* FileSize, FileRemove, FileRename: each looks first whether the file is there.

\* Mutant: the size is asked for without looking first.
NeedsFileNever(fn, n) == fn = "size" \/ n \in exists

NeedsFile(fn, n) == n \in exists

\* Without the file they answer at once.
Status(p, fn, n) ==
    /\ Free(p) /\ NeedsFile(fn, n)
    /\ Begins(p, [fn |-> fn, path |-> n])
    /\ UNCHANGED <<disk, base, met, torn>>

\* fs::file_size throws if the file is not there any more.
Size(p) ==
    LET c == call[p] IN
    /\ c.fn = "size"
    /\ IF c.path \in exists THEN Answers(p) ELSE Ends(p, "file")
    /\ UNCHANGED <<disk, torn>>

\* fs::remove throws if another process has the file open; if the file is not
\* there any more it answers false.
Remove(p) ==
    LET c == call[p] IN
    /\ c.fn = "remove"
    /\ \/ /\ c.path \in exists /\ Open(c.path) = {}
          /\ exists' = exists \ {c.path}
          /\ content' = [content EXCEPT ![c.path] = <<>>]
          /\ torn' = [torn EXCEPT ![c.path] = FALSE]
          /\ Answers(p)
       \/ /\ c.path \in exists /\ Open(c.path) # {}
          /\ Ends(p, "file")
          /\ UNCHANGED <<exists, content, torn>>
       \/ /\ c.path \notin exists
          /\ Answers(p)
          /\ UNCHANGED <<exists, content, torn>>
    /\ UNCHANGED made

\* fs::rename is given an empty path for the source, and throws.
Rename(p, n) ==
    /\ Free(p) /\ n \in exists
    /\ Ends(p, "other")
    /\ UNCHANGED <<disk, torn>>

------------------------------------------------------------------------------
\* MkDir and GetDirFiles throw if the directory they need is not there.

MkDir(p, d) ==
    /\ Free(p)
    /\ IF IsDir(Folder[d])
         THEN made' = made \cup {d} /\ UNCHANGED <<call, ended, base, met, shared>>
         ELSE Ends(p, "other") /\ UNCHANGED made
    /\ UNCHANGED <<exists, content, torn>>

GetDirFiles(p, d) ==
    /\ Free(p) /\ ~IsDir(d)
    /\ Ends(p, "other")
    /\ UNCHANGED <<disk, torn>>

------------------------------------------------------------------------------
\* Execute: exec(param, 3, false, true, false, &code).

StartExecute(p) ==
    /\ Free(p)
    /\ Begins(p, [fn |-> "execute", step |-> "try", times |-> 0])
    /\ UNCHANGED <<disk, base, met, torn>>

Tried(c) == c.times + 1

\* ShellExecuteEx: the program runs, possibly without a handle to wait for, or
\* it could not be started.
TryExecute(p) ==
    LET c == call[p] IN
    /\ c.fn = "execute" /\ c.step = "try"
    /\ \/ GoesOn(p, [c EXCEPT !.step = "wait"]) /\ UNCHANGED history
       \/ Answers(p) /\ UNCHANGED torn
       \/ /\ Tried(c) < MaxTries
          /\ GoesOn(p, [c EXCEPT !.times = Tried(c)])
          /\ UNCHANGED history
    /\ UNCHANGED disk

\* The program ends; until then the page, and all others of its process, wait.
ProgramEnds(p) ==
    LET c == call[p] IN
    /\ c.fn = "execute" /\ c.step = "wait"
    /\ Answers(p)
    /\ UNCHANGED <<disk, torn>>

------------------------------------------------------------------------------

\* A renderer process is ended in the middle of a call; what it wrote stays.
Crash(p) ==
    LET c == call[p] IN
    /\ c # Idle
    /\ Ends(p, "other")
    /\ torn' = IF c.fn = "put" THEN [torn EXCEPT ![c.path] = TRUE] ELSE torn
    /\ UNCHANGED disk

\* The page is loaded again, in a new process.
Restart(p) ==
    /\ ended[p] # "no"
    /\ ended' = [ended EXCEPT ![p] = "no"]
    /\ shared' = shared \ {p}
    /\ UNCHANGED <<disk, call, base, met, torn>>

\* A page calls a function.
Calling(p) ==
    \/ \E n \in Names :
         \/ \E t \in Texts, app \in BOOLEAN : PutOpen(p, n, t, app)
         \/ GetStatus(p, n) \/ Rename(p, n)
         \/ \E fn \in {"size", "remove"} : Status(p, fn, n)
    \/ \E d \in Dirs : MkDir(p, d) \/ GetDirFiles(p, d)
    \/ StartExecute(p)

\* The call goes on, on the main thread of the process.
Running(p) ==
    \/ PutWrite(p) \/ PutCheck(p) \/ PutClose(p)
    \/ GetOpen(p) \/ GetRead(p) \/ GetClose(p) \/ GetAnswer(p)
    \/ Size(p) \/ Remove(p)
    \/ TryExecute(p)

Next == \E p \in Procs :
    \/ Calling(p) \/ Running(p)
    \/ PutFails(p) \/ ProgramEnds(p) \/ Crash(p) \/ Restart(p)

Spec == Init /\ [][Next]_vars

\* The thread of a process goes on with its call.
Fairness == \A p \in Procs : WF_vars(Running(p))

FairSpec == Spec /\ Fairness

------------------------------------------------------------------------------
\* Properties.

\* Every variable keeps its type.
TypeOK ==
    /\ made \subseteq Dirs
    /\ exists \subseteq Names
    /\ content \in [Names -> Seq(Blocks)]
    /\ call \in [Procs -> Calls]
    /\ ended \in [Procs -> {"no", "file", "other"}]
    /\ base \in [Procs -> Values]
    /\ met \subseteq Procs /\ shared \subseteq Procs
    /\ torn \in [Names -> BOOLEAN]

Store == INSTANCE Files WITH
    Texts <- {TextOf(t) : t \in Texts},
    store <- [n \in Names |-> Stored(n)],
    seen <- [p \in Procs |-> IF call[p].fn = "got" /\ call[p].sure
                               THEN Known(call[p].data) ELSE Unknown]

\* The steps of a call count as one: a file that one process writes at a time is
\* replaced or extended by whole texts only, a failed or interrupted write is the
\* only thing that spoils it, and a read that no writer met finds what is stored.
KeepsFilesContract == Store!Spec

\* What a process checked holds when it acts on it, unless another process's call
\* came in between: only then do FileSize and FileRemove end the process.
OnlyRacesEndProcess ==
    \A p \in Procs : ended[p] = "file" => p \in shared

\* Why: processes with calls that overlap know it, and a file that FileSize found
\* and that is gone was removed by such a call.
OverlapIsShared ==
    /\ \A p, q \in Procs : p # q /\ call[p] # Idle /\ call[q] # Idle => p \in shared
    /\ \A p \in Procs : call[p].fn = "size" /\ call[p].path \notin exists => p \in shared

EndedIsIdle == \A p \in Procs : ended[p] # "no" => call[p] = Idle

IsWaiting(c) == c.fn = "execute" /\ c.step = "wait"

\* FileGetContents reads to the end of the file, wherever that is by then: another
\* process that appends as fast as this one reads keeps it away.
IsChased(p) ==
    /\ call[p].fn = "get" /\ call[p].step = "read"
    /\ \E q \in Putting(call[p].path) : call[q].app

\* A call ends, whatever the other processes do with the file, unless it is the
\* wait for a program that does not end or a read of a file that others append to
\* again and again for ever.  (A call that does not end is the last one of its
\* process: that is the one the process is chased in.)
CallsEnd ==
    \A p \in Procs :
        \/ []<>IsChased(p)
        \/ call[p] # Idle ~> (call[p] = Idle \/ IsWaiting(call[p]))
==============================================================================
