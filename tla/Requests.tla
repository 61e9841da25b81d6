------------------------------- MODULE Requests -------------------------------
(***************************************************************************)
(* The texts in which pages and the program talk: a page joins a request   *)
(* of its parameters, QueryHandler splits it again, and a dialog joins its *)
(* answer of the paths that were selected.                                 *)
(*                                                                         *)
(* A text is a sequence of words and of bars; a number is a word.  What    *)
(* becomes of a query is the subject of QueryRouter, and what several      *)
(* dialogs do to each other that of FileDialog; one request is handled     *)
(* after the other here.                                                   *)
(***************************************************************************)
EXTENDS Naturals, Sequences, FiniteSetsExt, SequencesExt

CONSTANTS
    Words,          \* words and the bar
    Lists,          \* the parameters that pages join, as sequences of texts
    Numerals,       \* the texts std::stoi takes: they begin with an int
    Selections      \* the paths selected in a dialog

Bar == <<"|">>

ASSUME RequestAssumption ==
    /\ "|" \in Words
    /\ Lists \subseteq Seq(Seq(Words)) \ {<<>>} /\ Selections \subseteq Seq(Seq(Words))
    /\ <<>> \notin Numerals
    \* A path of the file system is not empty and has no bar.
    /\ \A paths \in Selections : \A k \in DOMAIN paths :
         paths[k] # <<>> /\ "|" \notin ToSet(paths[k])

VARIABLES
    params,         \* the parameters of the last request; <<>> before the first
    process,        \* the browser process: "up", "ended"
    job,            \* what runs for it, with its parameters as they arrived
    selected,       \* the paths selected in the dialog of the request
    answer          \* what the page hears

vars == <<params, process, job, selected, answer>>

NoJob == [kind |-> "none", items |-> <<>>]
Job(kind, items) == [kind |-> kind, items |-> items]

NoAnswer == [kind |-> "none", text |-> <<>>]
Success(text) == [kind |-> "success", text |-> text]

Failure == [kind |-> "failure", text |-> <<>>]

\* The router's answer when no handler takes the query.
Canceled == [kind |-> "canceled", text |-> <<>>]

Init ==
    /\ params = <<>> /\ process = "up" /\ job = NoJob
    /\ selected = <<>> /\ answer = NoAnswer

------------------------------------------------------------------------------
\* Joining and splitting.

\* What a page sends.
Request(ps) ==
    LET rest[k \in 1..Len(ps)] ==
          IF k = Len(ps) THEN ps[k] ELSE ps[k] \o (Bar \o Bar) \o rest[k + 1]
    IN rest[1]

Found(text, pattern, from) ==
    {i \in from..(Len(text) - Len(pattern) + 1) :
        SubSeq(text, i, i + Len(pattern) - 1) = pattern}

\* split() of a page, which keeps an empty piece at the end.
SplitInPage(text, pattern) ==
    LET pieces[pos \in 1..(Len(text) + 1)] ==
          IF Found(text, pattern, pos) = {} THEN <<SubSeq(text, pos, Len(text))>>
          ELSE LET next == Min(Found(text, pattern, pos)) IN
               <<SubSeq(text, pos, next - 1)>> \o pieces[next + Len(pattern)]
    IN pieces[1]

\* Mutant: after a pattern the search goes on one character further.
SplitNext(text, pattern) ==
    LET pieces[pos \in 1..(Len(text) + 1)] ==
          IF Found(text, pattern, pos + 1) = {}
          THEN IF pos > Len(text) THEN <<>> ELSE <<SubSeq(text, pos, Len(text))>>
          ELSE LET next == Min(Found(text, pattern, pos + 1)) IN
               <<SubSeq(text, pos, next - 1)>> \o pieces[next + Len(pattern)]
    IN pieces[1]

\* The pieces of text between the patterns found from left to right, without an
\* empty one at the end.
Split(text, pattern) ==
    LET pieces[pos \in 1..(Len(text) + 1)] ==
          IF Found(text, pattern, pos) = {}
          THEN IF pos > Len(text) THEN <<>> ELSE <<SubSeq(text, pos, Len(text))>>
          ELSE LET next == Min(Found(text, pattern, pos)) IN
               <<SubSeq(text, pos, next - 1)>> \o pieces[next + Len(pattern)]
    IN pieces[1]

\* Mutant: the bar is put behind every path.
ResponseEach(paths) ==
    LET text[k \in 0..Len(paths)] == IF k = 0 THEN <<>> ELSE text[k - 1] \o paths[k] \o Bar
    IN text[Len(paths)]

\* What a dialog answers.
Response(paths) ==
    LET text[k \in 0..Len(paths)] ==
          IF k = 0 THEN <<>>
          ELSE IF text[k - 1] = <<>> THEN paths[k] ELSE text[k - 1] \o Bar \o paths[k]
    IN text[Len(paths)]

------------------------------------------------------------------------------
\* OnQuery.

\* The kind of a request: what is before its first bar, if there is one.
Prefix(text) ==
    LET Bars == {i \in DOMAIN text : text[i] = "|"} IN
    IF Bars = {} THEN <<>> ELSE SubSeq(text, 1, Min(Bars) - 1)

\* Mutant: a request with two items is enough.
EnoughTwo(kind, items) == Len(items) >= 2

Enough(kind, items) == Len(items) >= IF kind = <<"PrintToPDF">> THEN 2 ELSE 3

DialogKinds ==
    {<<"FileOpen">>, <<"FileOpenMultiple">>, <<"FileOpenFolder">>, <<"FileSave">>}

\* The items that are read as numbers: scale, paper width and paper height.
Numeric(items) == {k \in 5..7 : k \in DOMAIN items}

\* Mutant: the numbers are counted from the path.
NumbersFromPath(items) == \A k \in Numeric(items) : items[k - 1] \in Numerals

\* std::stoi throws for a text that does not begin with a number, and for a number
\* that is not in the range of int.
NumbersAreRead(items) == \A k \in Numeric(items) : items[k] \in Numerals

\* PdfPrinterCallback; an exception in OnQuery ends the process.  With too few items
\* the callback's Failure(1) comes to nothing: false is returned after it, so that
\* the query is canceled before the failure could be passed on.
OnPrintToPDF(items) ==
    IF ~Enough(<<"PrintToPDF">>, items)
    THEN answer' = Canceled /\ UNCHANGED <<job, process>>
    ELSE IF NumbersAreRead(items)
    THEN job' = Job("print", items) /\ answer' = NoAnswer /\ UNCHANGED process
    ELSE process' = "ended" /\ answer' = NoAnswer /\ UNCHANGED job

\* ExecuteMethod; CHECK(!method.empty()) ends the process.  The handler is gone
\* again when OnQuery returns, before the method has a result.  Too few items are
\* refused as in OnPrintToPDF.
OnDevToolsMessage(items) ==
    /\ UNCHANGED job
    /\ IF ~Enough(<<"DevToolsMessage">>, items)
       THEN answer' = Canceled /\ UNCHANGED process
       ELSE IF items[2] = <<>>
       THEN process' = "ended" /\ answer' = NoAnswer
       ELSE answer' \in {Success(<<"ok">>), Failure} /\ UNCHANGED process

\* Mutant: a request with too few items is taken, but nothing is done about it.
OnDialogQueryTaken(items) ==
    /\ UNCHANGED process
    /\ answer' = NoAnswer
    /\ job' = IF Enough(<<"Dialog">>, items) /\ items[2] \in DialogKinds
              THEN Job("dialog", items) ELSE NoJob

\* A dialog of an unknown kind is taken and never answered.
OnDialogQuery(items) ==
    /\ UNCHANGED process
    /\ answer' = IF Enough(<<"Dialog">>, items) THEN NoAnswer ELSE Canceled
    /\ job' = IF Enough(<<"Dialog">>, items) /\ items[2] \in DialogKinds
              THEN Job("dialog", items) ELSE NoJob

\* The prefix that leads here is "Binding", and what follows it in the request is
\* a bar: that it begins with "BindingTest" is never true.
OnBindingQuery(text) ==
    /\ UNCHANGED <<job, process>>
    /\ answer' = IF IsPrefix(<<"Binding", "Test">>, text)
                 THEN Success(Reverse(SubSeq(text, 4, Len(text)))) ELSE Canceled

OnQuery(ps) ==
    LET text == Request(ps)
        items == Split(text, Bar \o Bar)
        kind == Prefix(text)
    IN  /\ process = "up" /\ job = NoJob
        /\ params' = ps /\ selected' = <<>>
        /\ \/ kind = <<"Dialog">> /\ OnDialogQuery(items)
           \/ kind = <<"PrintToPDF">> /\ OnPrintToPDF(items)
           \/ kind = <<"DevToolsMessage">> /\ OnDevToolsMessage(items)
           \/ kind = <<"Binding">> /\ OnBindingQuery(text)
           \/ /\ kind \notin {<<"Dialog">>, <<"PrintToPDF">>, <<"DevToolsMessage">>,
                              <<"Binding">>}
              /\ answer' = Canceled /\ UNCHANGED <<job, process>>

\* OnFileDialogDismissed; no path when the user canceled it.
OnFileDialogDismissed(paths) ==
    /\ job.kind = "dialog"
    /\ selected' = paths
    /\ answer' = Success(Response(paths))
    /\ job' = NoJob
    /\ UNCHANGED <<params, process>>

\* OnPdfPrintFinished.
OnPdfPrintFinished ==
    /\ job.kind = "print"
    /\ answer' \in {Success(job.items[2]), Failure}
    /\ job' = NoJob
    /\ UNCHANGED <<params, process, selected>>

Next ==
    \/ \E ps \in Lists : OnQuery(ps)
    \/ \E paths \in Selections : OnFileDialogDismissed(paths)
    \/ OnPdfPrintFinished

Spec == Init /\ [][Next]_vars

------------------------------------------------------------------------------
\* Properties.

\* Every variable has its type.
TypeOK ==
    /\ params \in Lists \cup {<<>>}
    /\ process \in {"up", "ended"}
    /\ job.kind \in {"none", "print", "dialog"}
    /\ job.kind = "none" <=> job.items = <<>>
    /\ job.kind = "dialog" => Len(job.items) >= 3
    /\ selected \in Selections \cup {<<>>}
    /\ answer.kind \in {"none", "success", "failure", "canceled"}

\* No parameter has two bars, none but the last ends with one, and the last one is
\* not empty.
Plain(ps) ==
    /\ \A k \in DOMAIN ps : Found(ps[k], Bar \o Bar, 1) = {}
    /\ \A k \in 1..(Len(ps) - 1) : ps[k] # <<>> => Last(ps[k]) # "|"
    /\ Last(ps) # <<>>

\* What is run gets the parameters as the page joined them just if they are plain:
\* a page need not care for single bars elsewhere nor for empty parameters within.
ParamsArrive == job # NoJob => (job.items = params <=> Plain(params))

\* What OnQuery takes the last request for.  It is the first parameter up to a bar.
Kind == Prefix(Request(params))

\* A page that joins plain parameters, numbers where numbers are read, and a name of
\* a method, never ends the browser process.  An empty number is none, so that
\* omitted ones have to be the last ones.
PlainRequestsAreSafe ==
    /\ params # <<>> /\ Plain(params)
    /\ Kind = <<"PrintToPDF">> => \A k \in Numeric(params) : params[k] \in Numerals
    /\ Kind = <<"DevToolsMessage">> /\ Len(params) > 1 => params[2] # <<>>
    => process = "up"

\* The page finds the paths that were selected when it splits the answer of a dialog
\* at the bars, and an empty answer is one to a dialog that was canceled.
SelectionArrives ==
    params # <<>> /\ Kind = <<"Dialog">> /\ answer.kind = "success" =>
        /\ answer.text = <<>> <=> selected = <<>>
        /\ selected # <<>> => SplitInPage(answer.text, Bar) = selected

\* Whether a handler takes the last request, if it is plain; it takes no binding.
IsTaken ==
    \/ Kind = <<"PrintToPDF">> /\ Len(params) >= 2
    \/ Kind \in {<<"Dialog">>, <<"DevToolsMessage">>} /\ Len(params) >= 3

\* A plain request that nothing runs for is answered, unless it ended the process or
\* asks for a dialog of a kind that there is not.  It is canceled just if it is of
\* no kind that is taken or has too few parameters; a failure is one of something
\* that was tried.
SilenceIsUnknown ==
    params # <<>> /\ Plain(params) /\ process = "up" /\ job = NoJob =>
        /\ answer = NoAnswer => Kind = <<"Dialog">> /\ IsTaken /\ params[2] \notin DialogKinds
        /\ answer = Canceled <=> ~IsTaken
==============================================================================
