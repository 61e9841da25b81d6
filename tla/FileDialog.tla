------------------------------ MODULE FileDialog ------------------------------
(***************************************************************************)
(* Dialog queries of QueryHandler: a page asks for a file dialog and gets  *)
(* the selected paths.                                                     *)
(*                                                                         *)
(* All dialogs share one DialogState: the mode of the dialog, whether one  *)
(* is pending, and the last selected path, at which the next dialog        *)
(* starts.  Everything runs on the UI thread; a dialog is dismissed in a   *)
(* later task.                                                             *)
(***************************************************************************)
EXTENDS Naturals, Sequences, FiniteSets

CONSTANTS
    Browsers,
    Queries,        \* dialog queries of the pages in the browsers
    Paths,          \* what can be selected
    MaxSelected     \* bound: paths selected in one dialog

ASSUME DialogAssumption == MaxSelected \in Nat

Modes == {"open", "openMultiple", "openFolder", "save"}

\* The second part of the message, or a message of fewer than three parts.
Messages == {"FileOpen", "FileOpenMultiple", "FileOpenFolder", "FileSave", "other", "short"}

\* A selected path; slash tells whether it ends with the path separator, which
\* only a root directory does.
Selected  == [path : Paths, slash : BOOLEAN]
NoFile    == [path |-> "none", slash |-> FALSE]
LastFiles == Selected \cup {NoFile}

\* The selections the user can dismiss a dialog with, none of them if it is
\* canceled.  Folders are selected in a folder dialog only.
Selections(dialogMode) ==
    LET Choice == IF dialogMode = "openFolder" THEN Selected
                  ELSE [path : Paths, slash : {FALSE}]
        most   == IF dialogMode = "openMultiple" THEN MaxSelected ELSE 1
    IN UNION {[1..n -> Choice] : n \in 0..most}

VARIABLES
    mode,           \* mode_
    lastFile,       \* last_file_
    pending,        \* pending_
    dialogs,        \* query -> its dialog in CEF, and the mode it was started in
    query,          \* query -> "idle", "waiting", "answered", "declined", "forgotten"
    response,       \* query -> the selection in its answer
    \* History, not in the code.
    lastFrom,       \* the mode of the dialog lastFile was selected in
    overlapped      \* whether a dialog was ever started with another to dismiss

vars == <<mode, lastFile, pending, dialogs, query, response, lastFrom, overlapped>>

\* A dialog is shown by its browser, refused by it, or there is none.
NoDialog    == [shown |-> "no"]
DialogsType == [shown : {"yes", "refused"}, browser : Browsers, mode : Modes] \cup {NoDialog}

Init ==
    /\ mode = "open" /\ lastFile = NoFile /\ pending = FALSE
    /\ dialogs = [q \in Queries |-> NoDialog]
    /\ query = [q \in Queries |-> "idle"]
    /\ response = [q \in Queries |-> <<>>]
    /\ lastFrom = "open" /\ overlapped = FALSE

------------------------------------------------------------------------------

ModeOf(message) ==
    CASE message = "FileOpen"         -> "open"
      [] message = "FileOpenMultiple" -> "openMultiple"
      [] message = "FileOpenFolder"   -> "openFolder"
      [] message = "FileSave"         -> "save"

Outstanding == {q \in Queries : dialogs[q] # NoDialog}

\* RunFileDialog: a browser that shows a dialog refuses another one.
RunFileDialog(q, b, dialogMode) ==
    LET busy == \E p \in Queries : dialogs[p].shown = "yes" /\ dialogs[p].browser = b IN
    dialogs' = [dialogs EXCEPT ![q] =
      [shown |-> IF busy THEN "refused" ELSE "yes", browser |-> b, mode |-> dialogMode]]

\* Mutant: a dialog that is started is not marked as pending.
OnDialogQueryUnmarked(q, b, message) ==
    /\ query[q] = "idle"
    /\ \/ /\ message \in {"short", "other"}
          /\ query' = [query EXCEPT ![q] = "declined"]
          /\ UNCHANGED <<mode, dialogs, overlapped>>
       \/ /\ message \notin {"short", "other"}
          /\ mode' = ModeOf(message)
          /\ RunFileDialog(q, b, ModeOf(message))
          /\ overlapped' = (overlapped \/ Outstanding # {})
          /\ query' = [query EXCEPT ![q] = "waiting"]
    /\ UNCHANGED <<lastFile, pending, response, lastFrom>>

\* OnDialogQuery: the checks that no dialog is pending are off in a release.
OnDialogQuery(q, b, message) ==
    /\ query[q] = "idle"
    /\ \/ /\ message = "short"
          /\ query' = [query EXCEPT ![q] = "declined"]
          /\ UNCHANGED <<mode, pending, dialogs, overlapped>>
       \/ /\ message = "other"
          /\ query' = [query EXCEPT ![q] = "forgotten"]
          /\ UNCHANGED <<mode, pending, dialogs, overlapped>>
       \/ /\ message \notin {"short", "other"}
          /\ mode' = ModeOf(message)
          /\ pending' = TRUE
          /\ RunFileDialog(q, b, ModeOf(message))
          /\ overlapped' = (overlapped \/ Outstanding # {})
          /\ query' = [query EXCEPT ![q] = "waiting"]
    /\ UNCHANGED <<lastFile, response, lastFrom>>

\* Mutant: whatever was selected is taken for a directory when it is the first.
RemembersSlash(file) ==
    IF lastFile = NoFile THEN [file EXCEPT !.slash = TRUE] ELSE file

\* What last_file_ becomes when file is the first selected path.
Remembered(file) ==
    IF mode = "openFolder" THEN [file EXCEPT !.slash = TRUE] ELSE file

\* pending_ after a dialog was dismissed.
DismissedPending(selection) == FALSE

\* OnFileDialogDismissed, of a dialog that was shown or refused.
OnFileDialogDismissed(q, selection) ==
    /\ dialogs[q] # NoDialog
    /\ dialogs[q].shown = "refused" => selection = <<>>
    /\ \/ /\ selection # <<>>
          /\ lastFile' = Remembered(Head(selection))
          /\ lastFrom' = dialogs[q].mode
       \/ /\ selection = <<>>
          /\ UNCHANGED <<lastFile, lastFrom>>
    /\ response' = [response EXCEPT ![q] = selection]
    /\ query' = [query EXCEPT ![q] = "answered"]
    /\ pending' = DismissedPending(selection)
    /\ dialogs' = [dialogs EXCEPT ![q] = NoDialog]
    /\ UNCHANGED <<mode, overlapped>>

Next ==
    \/ \E q \in Queries, b \in Browsers, message \in Messages : OnDialogQuery(q, b, message)
    \/ \E q \in Outstanding : \E selection \in Selections(dialogs[q].mode) :
         OnFileDialogDismissed(q, selection)

Spec == Init /\ [][Next]_vars

------------------------------------------------------------------------------
\* Properties.

\* Every variable keeps its type.
TypeOK ==
    /\ mode \in Modes
    /\ lastFile \in LastFiles
    /\ pending \in BOOLEAN
    /\ dialogs \in [Queries -> DialogsType]
    /\ query \in [Queries -> {"idle", "waiting", "answered", "declined", "forgotten"}]
    /\ \A q \in Queries : response[q] \in Seq(Selected)
    /\ lastFrom \in Modes
    /\ overlapped \in BOOLEAN

\* OnFileDialogDismissed has the assertion DCHECK(dialog_state_->pending_): when
\* a dialog is dismissed, the flag is still set.  It holds as long as pages wait
\* for a dialog before the next, and then the one dialog is in the mode of the
\* state.
DismissedIsPending ==
    ~overlapped => \A q \in Outstanding : pending /\ dialogs[q].mode = mode

\* Two flags that must agree, however dialogs overlap: no dialog is taken for
\* pending that is gone.
PendingIsOutstanding == pending => Outstanding # {}

\* pending_ tells whether a dialog is there: never that there is one when there is
\* none, and until dialogs overlap never that there is none when there is one.
PendingTellsDialogs == PendingIsOutstanding /\ DismissedIsPending

\* CefQuery.cc: a trailing slash tells that the last path is a directory, which is
\* where the next dialog then starts.  So one selected in a folder dialog has it, and
\* a file has not.  It holds until dialogs overlap, because the mode is that of the
\* query that came last.
SlashIsRight ==
    ~overlapped /\ lastFile # NoFile => (lastFile.slash <=> lastFrom = "openFolder")

==============================================================================
