--------------------------- MODULE FileDialog_proofs ---------------------------
(***************************************************************************)
(* What holds of the shared dialog state for all browsers, queries and     *)
(* paths.                                                                  *)
(***************************************************************************)
EXTENDS FileDialog, TLAPS

\* Until dialogs overlap there is at most one.  It has the flag set and is in the
\* mode of the state, so that its dismissal remembers the slash right.
PatientInvariant ==
    /\ ~overlapped => \A p, q \in Outstanding : p = q
    /\ DismissedIsPending
    /\ SlashIsRight

LastFileType ==
    /\ lastFile \in LastFiles
    /\ dialogs \in [Queries -> DialogsType]

LEMMA ShownIsNotNone ==
    ASSUME NEW b, NEW s, NEW dialogMode
    PROVE  [shown |-> s, browser |-> b, mode |-> dialogMode] # NoDialog
<1> DEFINE d == [shown |-> s, browser |-> b, mode |-> dialogMode]
<1>1. "mode" \in DOMAIN d /\ "mode" \notin DOMAIN NoDialog
  BY DEF NoDialog
<1> QED
  BY <1>1

\* What was selected in a dialog is a path, without a slash unless in a folder
\* dialog.
LEMMA SelectionHead ==
    ASSUME NEW dialogMode \in Modes, NEW selection \in Selections(dialogMode), selection # <<>>
    PROVE  /\ Head(selection) \in Selected
           /\ dialogMode # "openFolder" => Head(selection).slash = FALSE
<1> DEFINE Choice == IF dialogMode = "openFolder" THEN Selected
                     ELSE [path : Paths, slash : {FALSE}]
           most == IF dialogMode = "openMultiple" THEN MaxSelected ELSE 1
<1>1. PICK n \in 0..most : selection \in [1..n -> Choice]
  BY DEF Selections
<1>2. n \in Nat
  BY <1>1, DialogAssumption
<1> HIDE DEF Choice, most
<1>3. selection \in Seq(Choice)
  BY <1>1, <1>2
<1>4. Head(selection) \in Choice
  BY <1>3
<1> USE DEF Choice
<1>5. CASE dialogMode = "openFolder"
  BY <1>4, <1>5
<1>6. CASE dialogMode # "openFolder"
  BY <1>4, <1>6 DEF Selected
<1> QED
  BY <1>5, <1>6

\* Remembering adds the slash, and nothing else, when the mode asks for it.
LEMMA RememberedSlash ==
    ASSUME NEW file \in Selected
    PROVE  /\ Remembered(file) \in Selected
           /\ mode = "openFolder" => Remembered(file).slash = TRUE
           /\ mode # "openFolder" => Remembered(file).slash = file.slash
  BY DEF Remembered, Selected

LEMMA ModeOfType ==
    ASSUME NEW message \in Messages, message \notin {"short", "other"}
    PROVE  ModeOf(message) \in Modes
  BY DEF Messages, ModeOf, Modes

LEMMA AskInvariant ==
    ASSUME LastFileType, PendingIsOutstanding, PatientInvariant,
           NEW q \in Queries, NEW b \in Browsers, NEW message \in Messages,
           OnDialogQuery(q, b, message)
    PROVE  LastFileType' /\ PendingIsOutstanding' /\ PatientInvariant'
<1>1. CASE UNCHANGED <<mode, pending, dialogs, overlapped>>
  BY <1>1 DEF OnDialogQuery, LastFileType, PendingIsOutstanding, PatientInvariant,
              Outstanding, DismissedIsPending, SlashIsRight
<1>2. CASE message \notin {"short", "other"}
  <2> DEFINE m == ModeOf(message)
  <2>1. mode' = m /\ pending' = TRUE /\ m \in Modes /\ UNCHANGED <<lastFile, lastFrom>>
    BY <1>2, ModeOfType DEF OnDialogQuery
  <2> HIDE DEF m
  <2>2. PICK s \in {"yes", "refused"} :
          dialogs' = [dialogs EXCEPT ![q] = [shown |-> s, browser |-> b, mode |-> m]]
    BY <1>2 DEF OnDialogQuery, RunFileDialog, m
  <2>3. [shown |-> s, browser |-> b, mode |-> m] \in DialogsType
    BY <2>1 DEF DialogsType
  <2>4. LastFileType'
    BY <2>1, <2>2, <2>3 DEF LastFileType
  <2>5. dialogs'[q] = [shown |-> s, browser |-> b, mode |-> m]
    BY <2>2 DEF LastFileType
  <2>6. \A p \in Queries : p # q => dialogs'[p] = dialogs[p]
    BY <2>2 DEF LastFileType
  <2>7. Outstanding' = Outstanding \cup {q}
    BY <2>5, <2>6, ShownIsNotNone DEF Outstanding
  <2>8. PendingIsOutstanding'
    BY <2>7 DEF PendingIsOutstanding
  <2>9. PatientInvariant'
    <3> SUFFICES ASSUME ~overlapped'
                 PROVE  /\ \A p, r \in Outstanding' : p = r
                        /\ \A p \in Outstanding' : pending' /\ dialogs'[p].mode = mode'
                        /\ lastFile' # NoFile => (lastFile'.slash <=> lastFrom' = "openFolder")
      BY DEF PatientInvariant, DismissedIsPending, SlashIsRight
    <3>1. Outstanding = {} /\ ~overlapped
      BY <1>2 DEF OnDialogQuery
    <3>2. Outstanding' = {q} /\ dialogs'[q].mode = m
      BY <2>5, <2>7, <3>1
    <3>3. lastFile' # NoFile => (lastFile'.slash <=> lastFrom' = "openFolder")
      BY <2>1, <3>1 DEF PatientInvariant, SlashIsRight
    <3> QED
      BY <2>1, <3>2, <3>3
  <2> QED
    BY <2>4, <2>8, <2>9
<1> QED
  BY <1>1, <1>2 DEF OnDialogQuery

LEMMA DismissInvariant ==
    ASSUME LastFileType, PendingIsOutstanding, PatientInvariant,
           NEW q \in Outstanding, NEW selection \in Selections(dialogs[q].mode),
           OnFileDialogDismissed(q, selection)
    PROVE  LastFileType' /\ PendingIsOutstanding' /\ PatientInvariant'
<1>1. q \in Queries /\ dialogs[q] # NoDialog /\ dialogs[q].mode \in Modes
  <2>1. q \in Queries /\ dialogs[q] # NoDialog
    BY DEF Outstanding
  <2>2. dialogs[q] \in DialogsType
    BY <2>1 DEF LastFileType
  <2> QED
    BY <2>1, <2>2 DEF DialogsType
<1>2. pending' = FALSE /\ UNCHANGED <<mode, overlapped>> /\ dialogs' = [dialogs EXCEPT ![q] = NoDialog]
  BY DEF OnFileDialogDismissed, DismissedPending
<1>3. PendingIsOutstanding'
  BY <1>2 DEF PendingIsOutstanding
<1>4. \A p \in Outstanding' : p \in Outstanding /\ p # q
  BY <1>1, <1>2 DEF Outstanding, LastFileType
<1>5. CASE selection = <<>>
  <2>1. UNCHANGED <<lastFile, lastFrom>>
    BY <1>5 DEF OnFileDialogDismissed
  <2>2. LastFileType'
    BY <1>2, <2>1 DEF LastFileType, DialogsType
  <2>3. PatientInvariant'
    <3>1. ~overlapped => Outstanding' = {}
      BY <1>4 DEF PatientInvariant
    <3> QED
      BY <1>2, <2>1, <3>1 DEF PatientInvariant, DismissedIsPending, SlashIsRight
  <2> QED
    BY <1>3, <2>2, <2>3
<1>6. CASE selection # <<>>
  <2> DEFINE file == Head(selection)
  <2>1. file \in Selected /\ (dialogs[q].mode # "openFolder" => file.slash = FALSE)
    BY <1>1, <1>6, SelectionHead
  <2>2. lastFile' = Remembered(file) /\ lastFrom' = dialogs[q].mode
    BY <1>6 DEF OnFileDialogDismissed
  <2> HIDE DEF file
  <2>3. LastFileType'
    BY <1>2, <2>1, <2>2, RememberedSlash DEF LastFileType, LastFiles, DialogsType
  <2>4. PatientInvariant'
    <3> SUFFICES ASSUME ~overlapped'
                 PROVE  /\ Outstanding' = {}
                        /\ lastFile'.slash <=> lastFrom' = "openFolder"
      BY DEF PatientInvariant, DismissedIsPending, SlashIsRight
    <3>1. ~overlapped /\ Outstanding' = {}
      BY <1>2, <1>4 DEF PatientInvariant
    <3>2. dialogs[q].mode = mode
      BY <3>1 DEF PatientInvariant, DismissedIsPending
    <3>3. Remembered(file).slash <=> mode = "openFolder"
      BY <2>1, <3>2, RememberedSlash
    <3> QED
      BY <2>2, <3>1, <3>2, <3>3
  <2> QED
    BY <1>3, <2>3, <2>4
<1> QED
  BY <1>5, <1>6

LEMMA DialogInvariantHolds ==
    Spec => [](LastFileType /\ PendingIsOutstanding /\ PatientInvariant)
<1>1. Init => LastFileType /\ PendingIsOutstanding /\ PatientInvariant
  BY DEF Init, LastFileType, LastFiles, DialogsType, PendingIsOutstanding,
         PatientInvariant, Outstanding, DismissedIsPending, SlashIsRight
<1>2. LastFileType /\ PendingIsOutstanding /\ PatientInvariant /\ [Next]_vars
        => LastFileType' /\ PendingIsOutstanding' /\ PatientInvariant'
  <2> SUFFICES ASSUME LastFileType, PendingIsOutstanding, PatientInvariant, [Next]_vars
               PROVE  LastFileType' /\ PendingIsOutstanding' /\ PatientInvariant'
    OBVIOUS
  <2>1. CASE UNCHANGED vars
    BY <2>1 DEF vars, LastFileType, PendingIsOutstanding, PatientInvariant, Outstanding,
                DismissedIsPending, SlashIsRight
  <2> QED
    BY <2>1, AskInvariant, DismissInvariant DEF Next
<1> QED
  BY <1>1, <1>2, PTL DEF Spec

\* pending_ is never left set when the last dialog is gone, however dialogs of
\* several pages overlap.  The assertion of OnFileDialogDismissed holds as long as
\* every page waits for its dialog, which is the condition the code relies on.
THEOREM FlagTellsDialogs == Spec => []PendingTellsDialogs
<1>1. PendingIsOutstanding /\ PatientInvariant => PendingTellsDialogs
  BY DEF PatientInvariant, PendingTellsDialogs
<1> QED
  BY <1>1, DialogInvariantHolds, PTL

\* Under the same condition the trailing slash marks exactly the directories.
THEOREM PatientPagesMarkFolders == Spec => []SlashIsRight
<1>1. PatientInvariant => SlashIsRight
  BY DEF PatientInvariant
<1> QED
  BY <1>1, DialogInvariantHolds, PTL

------------------------------------------------------------------------------
\* Types.

LEMMA SelectionType ==
    ASSUME NEW dialogMode \in Modes, NEW selection \in Selections(dialogMode)
    PROVE  selection \in Seq(Selected)
<1> DEFINE Choice == IF dialogMode = "openFolder" THEN Selected
                     ELSE [path : Paths, slash : {FALSE}]
           most == IF dialogMode = "openMultiple" THEN MaxSelected ELSE 1
<1>1. PICK n \in 0..most : selection \in [1..n -> Choice]
  BY DEF Selections
<1>2. n \in Nat
  BY <1>1, DialogAssumption
<1>3. Choice \subseteq Selected
  BY DEF Selected
<1> HIDE DEF Choice, most
<1>4. selection \in [1..n -> Selected]
  BY <1>1, <1>3
<1> QED
  BY <1>2, <1>4

LEMMA AskType ==
    ASSUME TypeOK, NEW q \in Queries, NEW b \in Browsers, NEW message \in Messages,
           OnDialogQuery(q, b, message)
    PROVE  TypeOK'
<1>1. \E state \in {"declined", "forgotten", "waiting"} : query' = [query EXCEPT ![q] = state]
  BY DEF OnDialogQuery
<1>2. query' \in [Queries -> {"idle", "waiting", "answered", "declined", "forgotten"}]
  BY <1>1 DEF TypeOK
<1>3. UNCHANGED <<lastFile, response, lastFrom>>
  BY DEF OnDialogQuery
<1>4. CASE UNCHANGED <<mode, pending, dialogs, overlapped>>
  BY <1>2, <1>3, <1>4 DEF TypeOK
<1>5. CASE message \notin {"short", "other"}
  <2> DEFINE m == ModeOf(message)
  <2>1. mode' = m /\ pending' = TRUE /\ m \in Modes
    BY <1>5, ModeOfType DEF OnDialogQuery
  <2>2. PICK s \in {"yes", "refused"} :
          dialogs' = [dialogs EXCEPT ![q] = [shown |-> s, browser |-> b, mode |-> m]]
    BY <1>5 DEF OnDialogQuery, RunFileDialog
  <2> HIDE DEF m
  <2>3. [shown |-> s, browser |-> b, mode |-> m] \in DialogsType
    BY <2>1 DEF DialogsType
  <2>4. dialogs' \in [Queries -> DialogsType]
    BY <2>2, <2>3 DEF TypeOK
  <2>5. overlapped' \in BOOLEAN
    BY <1>5 DEF OnDialogQuery, TypeOK
  <2> QED
    BY <1>2, <1>3, <2>1, <2>4, <2>5 DEF TypeOK
<1> QED
  BY <1>4, <1>5 DEF OnDialogQuery

LEMMA DismissType ==
    ASSUME TypeOK, NEW q \in Outstanding, NEW selection \in Selections(dialogs[q].mode),
           OnFileDialogDismissed(q, selection)
    PROVE  TypeOK'
<1>1. q \in Queries /\ dialogs[q].mode \in Modes
  <2>1. q \in Queries /\ dialogs[q] # NoDialog /\ dialogs[q] \in DialogsType
    BY DEF Outstanding, TypeOK
  <2> QED
    BY <2>1 DEF DialogsType
<1>2. selection \in Seq(Selected)
  BY <1>1, SelectionType
<1>3. lastFile' \in LastFiles /\ lastFrom' \in Modes
  <2>1. CASE selection = <<>>
    BY <2>1 DEF OnFileDialogDismissed, TypeOK
  <2>2. CASE selection # <<>>
    <3>1. lastFile' = Remembered(Head(selection)) /\ lastFrom' = dialogs[q].mode
      BY <2>2 DEF OnFileDialogDismissed
    <3>2. Head(selection) \in Selected
      BY <1>2, <2>2
    <3> QED
      BY <1>1, <3>1, <3>2, RememberedSlash DEF LastFiles
  <2> QED
    BY <2>1, <2>2
<1>4. /\ response' = [response EXCEPT ![q] = selection]
      /\ query' = [query EXCEPT ![q] = "answered"]
      /\ pending' = FALSE
      /\ dialogs' = [dialogs EXCEPT ![q] = NoDialog]
      /\ UNCHANGED <<mode, overlapped>>
  BY DEF OnFileDialogDismissed, DismissedPending
<1>5. \A p \in Queries : response'[p] \in Seq(Selected)
  BY <1>2, <1>4 DEF TypeOK
<1>6. /\ dialogs' \in [Queries -> DialogsType]
      /\ query' \in [Queries -> {"idle", "waiting", "answered", "declined", "forgotten"}]
  BY <1>4 DEF TypeOK, DialogsType
<1> QED
  BY <1>3, <1>4, <1>5, <1>6 DEF TypeOK

\* Every variable of the dialogs keeps its type, for all browsers, queries and paths.
THEOREM DialogTypeCorrect == Spec => []TypeOK
<1>1. Init => TypeOK
  <2> SUFFICES ASSUME Init PROVE TypeOK
    OBVIOUS
  <2>1. <<>> \in Seq(Selected)
    OBVIOUS
  <2>2. \A q \in Queries : response[q] \in Seq(Selected)
    BY <2>1 DEF Init
  <2>3. /\ dialogs \in [Queries -> DialogsType]
        /\ query \in [Queries -> {"idle", "waiting", "answered", "declined", "forgotten"}]
    BY DEF Init, DialogsType
  <2> QED
    BY <2>2, <2>3 DEF Init, TypeOK, Modes, LastFiles
<1>2. TypeOK /\ [Next]_vars => TypeOK'
  <2> SUFFICES ASSUME TypeOK, [Next]_vars PROVE TypeOK'
    OBVIOUS
  <2>1. CASE UNCHANGED vars
    BY <2>1 DEF vars, TypeOK
  <2> QED
    BY <2>1, AskType, DismissType DEF Next
<1> QED
  BY <1>1, <1>2, PTL DEF Spec
==============================================================================
