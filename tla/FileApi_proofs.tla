---------------------------- MODULE FileApi_proofs ----------------------------
(***************************************************************************)
(* What holds of the file functions for all processes, files, texts and    *)
(* directories, and that the files keep the contract of module Files.      *)
(***************************************************************************)
EXTENDS FileApi, SequenceTheorems, TLAPS

LEMMA NatPieces ==
    ASSUME NEW t \in Texts
    PROVE  Pieces[t] \in Nat
BY ConstantsAssumption

LEMMA BlockType ==
    ASSUME NEW t \in Texts, NEW i \in 1..Pieces[t]
    PROVE  Block(t, i) \in Blocks
<1> DEFINE B(u) == {Block(u, j) : j \in 1..Pieces[u]}
<1>1. Block(t, i) \in B(t)
  OBVIOUS
<1>2. B(t) \in {B(u) : u \in Texts}
  OBVIOUS
<1> HIDE DEF B
<1>3. Block(t, i) \in UNION {B(u) : u \in Texts}
  BY <1>1, <1>2
<1> QED
  BY <1>3 DEF Blocks, B

LEMMA TextType ==
    ASSUME NEW t \in Texts
    PROVE  TextOf(t) \in Seq(Blocks) /\ Len(TextOf(t)) = Pieces[t]
<1>1. \A i \in 1..Pieces[t] : Block(t, i) \in Blocks
  BY BlockType
<1> QED
  BY <1>1, NatPieces DEF TextOf

LEMMA WrittenType ==
    ASSUME NEW s \in Seq(Blocks), NEW at \in Nat, NEW b \in Blocks
    PROVE  Written(s, at, b) \in Seq(Blocks)
<1> DEFINE size == IF at < Len(s) THEN Len(s) ELSE at + 1
<1>0. Len(s) \in Nat
  OBVIOUS
<1>1. size \in Nat
  BY <1>0
<1>2. Hole \in Blocks
  BY DEF Blocks
<1>3. \A i \in 1..Len(s) : s[i] \in Blocks
  OBVIOUS
<1>4. \A i \in 1..size : (IF i = at + 1 THEN b ELSE IF i <= Len(s) THEN s[i] ELSE Hole) \in Blocks
  BY <1>2, <1>3
<1> QED
  BY <1>1, <1>4 DEF Written

\* What is written at the end of a file is appended.
LEMMA WrittenAtEnd ==
    ASSUME NEW s \in Seq(Blocks), NEW b \in Blocks
    PROVE  Written(s, Len(s), b) = Append(s, b)
<1> DEFINE w == Written(s, Len(s), b)
           a == Append(s, b)
           n == Len(s) + 1
<1>1. Len(s) \in Nat
  OBVIOUS
<1>2. w = [i \in 1..n |-> IF i = n THEN b ELSE IF i <= Len(s) THEN s[i] ELSE Hole]
  BY <1>1 DEF Written
<1>3. w \in Seq(Blocks)
  BY <1>1, WrittenType
<1>4. Len(w) = n
  BY <1>1, <1>2
<1>5. a \in Seq(Blocks) /\ Len(a) = n /\ \A i \in 1..n : a[i] = IF i = n THEN b ELSE s[i]
  BY <1>1, AppendProperties
<1>6. \A i \in 1..n : w[i] = a[i]
  <2> TAKE i \in 1..n
  <2>1. i # n => i <= Len(s)
    BY <1>1
  <2>2. w[i] = IF i = n THEN b ELSE IF i <= Len(s) THEN s[i] ELSE Hole
    BY <1>2
  <2> QED
    BY <2>1, <2>2, <1>5
<1> HIDE DEF w, a
<1>7. w = a
  BY <1>3, <1>4, <1>5, <1>6, SeqEqual
<1> QED
  BY <1>7 DEF w, a

------------------------------------------------------------------------------
\* Type correctness.

LEMMA OnDiskType ==
    ASSUME TypeOK, NEW n \in Names
    PROVE  OnDisk(n) \in Values
BY DEF TypeOK, OnDisk, Values, Known

LEMMA PutCall ==
    ASSUME TypeOK, NEW p \in Procs, call[p].fn = "put"
    PROVE  call[p] \in PutCalls
BY DEF TypeOK, Calls, Idle, GetCalls, GotCalls, PutCalls, OtherCalls, Executes

LEMMA GetCall ==
    ASSUME TypeOK, NEW p \in Procs, call[p].fn = "get"
    PROVE  call[p] \in GetCalls
BY DEF TypeOK, Calls, Idle, GetCalls, GotCalls, PutCalls, OtherCalls, Executes

LEMMA OtherCall ==
    ASSUME TypeOK, NEW p \in Procs
    PROVE  /\ call[p].fn = "got" => call[p] \in GotCalls
           /\ call[p].fn \in {"size", "remove"} => call[p] \in OtherCalls
           /\ call[p].fn = "execute" => call[p] \in Executes
BY DEF TypeOK, Calls, Idle, GetCalls, GotCalls, PutCalls, OtherCalls, Executes

CallType == call \in [Procs -> Calls]
HistoryType == base \in [Procs -> Values] /\ met \subseteq Procs /\ shared \subseteq Procs
EndedType == ended \in [Procs -> {"no", "file", "other"}]

LEMMA BeginsType ==
    ASSUME TypeOK, NEW p \in Procs, NEW c \in Calls, Begins(p, c)
    PROVE  CallType' /\ EndedType' /\ shared' \subseteq Procs
BY DEF TypeOK, Begins, CallType, EndedType

LEMMA OpensType ==
    ASSUME TypeOK, NEW p \in Procs, NEW n \in Names, NEW w \in BOOLEAN, Opens(p, n, w)
    PROVE  /\ base' \in [Procs -> Values] /\ met' \subseteq Procs
           /\ torn' \in [Names -> BOOLEAN]
BY OnDiskType DEF TypeOK, Opens, Open, Putting, Reading

LEMMA GoesOnType ==
    ASSUME TypeOK, NEW p \in Procs, NEW c \in Calls, GoesOn(p, c)
    PROVE  CallType' /\ EndedType'
BY DEF TypeOK, GoesOn, CallType, EndedType

LEMMA AnswersType ==
    ASSUME TypeOK, NEW p \in Procs, Answers(p)
    PROVE  CallType' /\ EndedType' /\ HistoryType'
BY DEF TypeOK, Answers, Closes, CallType, EndedType, HistoryType, Calls, Values

LEMMA EndsType ==
    ASSUME TypeOK, NEW p \in Procs, NEW why \in {"file", "other"}, Ends(p, why)
    PROVE  CallType' /\ EndedType' /\ HistoryType'
BY DEF TypeOK, Ends, Closes, CallType, EndedType, HistoryType, Calls, Values

DiskType == made \subseteq Dirs /\ exists \subseteq Names /\ content \in [Names -> Seq(Blocks)]
TornType == torn \in [Names -> BOOLEAN]

LEMMA TypeParts ==
    /\ TypeOK <=> DiskType /\ CallType /\ EndedType /\ HistoryType /\ TornType
    /\ TypeOK' <=> DiskType' /\ CallType' /\ EndedType' /\ HistoryType' /\ TornType'
BY DEF TypeOK, DiskType, CallType, EndedType, HistoryType, TornType

LEMMA PutOpenType ==
    ASSUME TypeOK, NEW p \in Procs, NEW n \in Names, NEW t \in Texts, NEW app \in BOOLEAN,
           PutOpen(p, n, t, app)
    PROVE  TypeOK'
<1> DEFINE c == [fn |-> "put", step |-> "write", path |-> n, text |-> t, app |-> app, done |-> 0]
<1>1. c \in Calls
  BY DEF Calls, PutCalls
<1>2. DiskType'
  BY DEF PutOpen, TypeOK, DiskType, OpenedContent
<1>3. Begins(p, c) /\ Opens(p, n, TRUE)
  BY DEF PutOpen
<1> HIDE DEF c
<1>4. CallType' /\ EndedType' /\ shared' \subseteq Procs
  BY <1>1, <1>3, BeginsType
<1>5. base' \in [Procs -> Values] /\ met' \subseteq Procs /\ TornType'
  BY <1>3, OpensType DEF TornType
<1> QED
  BY <1>2, <1>4, <1>5, TypeParts DEF HistoryType, TypeOK, DiskType, CallType, EndedType, TornType

LEMMA PutWriteType ==
    ASSUME TypeOK, NEW p \in Procs, PutWrite(p)
    PROVE  TypeOK'
<1> DEFINE c == call[p]
<1>1. c \in PutCalls /\ c.done < Pieces[c.text]
  BY PutCall DEF PutWrite, HasMore
<1>2. [c EXCEPT !.done = @ + 1] \in Calls
  BY <1>1 DEF Calls, PutCalls
<1>3. GoesOn(p, [c EXCEPT !.done = @ + 1])
  BY DEF PutWrite
<1>4. PICK at \in Positions(p) :
        content' = [content EXCEPT ![c.path] = Written(@, at, Block(c.text, c.done + 1))]
  BY DEF PutWrite
<1>5. c.path \in Names /\ c.text \in Texts /\ c.done \in Nat
  BY <1>1 DEF PutCalls
<1>6. c.done + 1 \in 1..Pieces[c.text]
  BY <1>1, <1>5, NatPieces
<1>7. Block(c.text, c.done + 1) \in Blocks
  BY <1>5, <1>6, BlockType
<1>8. content[c.path] \in Seq(Blocks) /\ Len(content[c.path]) \in Nat
  BY <1>5 DEF TypeOK
<1>9. at \in Nat
  BY <1>4, <1>5, <1>8 DEF Positions
<1>10. Written(content[c.path], at, Block(c.text, c.done + 1)) \in Seq(Blocks)
  BY <1>7, <1>8, <1>9, WrittenType
<1>11. DiskType'
  BY <1>4, <1>5, <1>10 DEF PutWrite, TypeOK, DiskType
<1> HIDE DEF c
<1>12. CallType' /\ EndedType'
  BY <1>2, <1>3, GoesOnType
<1> QED
  BY <1>11, <1>12, TypeParts DEF PutWrite, TypeOK, HistoryType, TornType, CallType, EndedType, DiskType, history

LEMMA PutRestType ==
    ASSUME TypeOK, NEW p \in Procs, PutCheck(p) \/ PutClose(p) \/ PutFails(p)
    PROVE  TypeOK'
<1> DEFINE c == call[p]
<1>1. c \in PutCalls
  BY PutCall DEF PutCheck, PutClose, PutFails
<1>2. CASE PutCheck(p)
  <2>1. [c EXCEPT !.step = "close"] \in Calls
    BY <1>1 DEF Calls, PutCalls
  <2>2. GoesOn(p, [c EXCEPT !.step = "close"])
    BY <1>2 DEF PutCheck
  <2> HIDE DEF c
  <2>3. CallType' /\ EndedType'
    BY <2>1, <2>2, GoesOnType
  <2> QED
    BY <1>2, <2>3, TypeParts DEF PutCheck, disk, history, TypeOK, HistoryType, TornType,
       DiskType, CallType, EndedType
<1>3. CASE PutClose(p) \/ PutFails(p)
  <2>1. Answers(p)
    BY <1>3 DEF PutClose, PutFails
  <2>2. CallType' /\ EndedType' /\ HistoryType'
    BY <2>1, AnswersType
  <2>3. TornType' /\ DiskType'
    BY <1>3, <1>1 DEF PutClose, PutFails, TypeOK, TornType, DiskType, disk, PutCalls
  <2> QED
    BY <2>2, <2>3, TypeParts DEF HistoryType, TypeOK, DiskType, CallType, EndedType, TornType
<1> QED
  BY <1>2, <1>3

LEMMA GetType ==
    ASSUME TypeOK, NEW p \in Procs,
           (\E n \in Names : GetStatus(p, n)) \/ GetOpen(p) \/ GetRead(p) \/ GetClose(p)
    PROVE  TypeOK'
<1> USE TypeParts
<1> DEFINE c == call[p]
<1>1. CASE \E n \in Names : GetStatus(p, n)
  <2>1. PICK n \in Names : GetStatus(p, n)
    BY <1>1
  <2> DEFINE d == [fn |-> "get", step |-> "open", path |-> n, data |-> <<>>]
  <2>2. d \in Calls
    BY DEF Calls, GetCalls
  <2>3. Begins(p, d)
    BY <2>1 DEF GetStatus
  <2> HIDE DEF d
  <2>4. CallType' /\ EndedType' /\ shared' \subseteq Procs
    BY <2>2, <2>3, BeginsType
  <2>5. DiskType' /\ TornType' /\ base' \in [Procs -> Values] /\ met' \subseteq Procs
    BY <2>1 DEF GetStatus, TypeOK, DiskType, TornType, disk
  <2> QED
    BY <2>4, <2>5 DEF HistoryType
<1>2. CASE GetOpen(p)
  <2>1. c \in GetCalls
    BY <1>2, GetCall DEF GetOpen
  <2>2. c.path \in Names /\ [c EXCEPT !.step = "read"] \in Calls
    BY <2>1 DEF Calls, GetCalls
  <2>3. DiskType'
    BY <1>2 DEF GetOpen, TypeOK, DiskType, disk
  <2>4. CASE c.path \in exists
    <3>1. GoesOn(p, [c EXCEPT !.step = "read"]) /\ Opens(p, c.path, FALSE) /\ UNCHANGED shared
      BY <1>2, <2>4 DEF GetOpen
    <3> HIDE DEF c
    <3>2. CallType' /\ EndedType'
      BY <2>2, <3>1, GoesOnType
    <3>3. base' \in [Procs -> Values] /\ met' \subseteq Procs /\ TornType'
      BY <2>2, <3>1, OpensType DEF TornType
    <3> QED
      BY <2>3, <3>1, <3>2, <3>3 DEF HistoryType, TypeOK
  <2>5. CASE c.path \notin exists
    <3>1. Answers(p) /\ UNCHANGED torn
      BY <1>2, <2>5 DEF GetOpen
    <3> QED
      BY <2>3, <3>1, AnswersType DEF TypeOK, TornType
  <2> QED
    BY <2>4, <2>5
<1>3. CASE GetRead(p)
  <2>1. c \in GetCalls
    BY <1>3, GetCall DEF GetRead
  <2>2. c.path \in Names /\ c.data \in Seq(Blocks) /\ content[c.path] \in Seq(Blocks)
    BY <2>1 DEF GetCalls, TypeOK
  <2>3. content[c.path][Len(c.data) + 1] \in Blocks
    BY <1>3, <2>2 DEF GetRead
  <2>4. Append(c.data, content[c.path][Len(c.data) + 1]) \in Seq(Blocks)
    BY <2>2, <2>3
  <2> DEFINE d == [c EXCEPT !.data = Append(@, content[c.path][Len(@) + 1])]
  <2>5. d \in Calls
    BY <2>1, <2>4 DEF Calls, GetCalls
  <2>6. GoesOn(p, d) /\ UNCHANGED <<disk, history>>
    BY <1>3 DEF GetRead
  <2> HIDE DEF d
  <2>7. CallType' /\ EndedType'
    BY <2>5, <2>6, GoesOnType
  <2> QED
    BY <2>6, <2>7 DEF TypeOK, HistoryType, DiskType, TornType, disk, history
<1>4. CASE GetClose(p)
  <2>1. c \in GetCalls
    BY <1>4, GetCall DEF GetClose
  <2> DEFINE d == [fn |-> "got", path |-> c.path, data |-> c.data,
                   sure |-> p \notin met /\ ~torn[c.path]]
  <2>2. d \in Calls
    BY <2>1 DEF Calls, GetCalls, GotCalls
  <2>3. GoesOn(p, d) /\ Closes(p) /\ UNCHANGED <<disk, shared, torn>>
    BY <1>4 DEF GetClose
  <2> HIDE DEF d
  <2>4. CallType' /\ EndedType'
    BY <2>2, <2>3, GoesOnType
  <2>5. HistoryType'
    BY <2>3 DEF Closes, TypeOK, HistoryType, Values
  <2> QED
    BY <2>3, <2>4, <2>5 DEF TypeOK, DiskType, TornType, disk
<1> QED
  BY <1>1, <1>2, <1>3, <1>4

\* The actions that only begin a call, go on with it or end it, and those that
\* change the disk on the way.
LEMMA SmallType ==
    ASSUME TypeOK, NEW p \in Procs,
           \/ GetAnswer(p) \/ Size(p) \/ Remove(p) \/ TryExecute(p) \/ ProgramEnds(p)
           \/ StartExecute(p) \/ Crash(p) \/ Restart(p)
           \/ \E n \in Names : Rename(p, n) \/ \E fn \in {"size", "remove"} : Status(p, fn, n)
           \/ \E d \in Dirs : MkDir(p, d) \/ GetDirFiles(p, d)
    PROVE  TypeOK'
<1> USE TypeParts
<1> DEFINE c == call[p]
<1>1. CASE GetAnswer(p) \/ ProgramEnds(p)
  <2>1. Answers(p) /\ UNCHANGED <<disk, torn>>
    BY <1>1 DEF GetAnswer, ProgramEnds
  <2> QED
    BY <2>1, AnswersType DEF TypeOK, DiskType, TornType, disk
<1>2. CASE Size(p)
  <2>1. (Answers(p) \/ Ends(p, "file")) /\ UNCHANGED <<disk, torn>>
    BY <1>2 DEF Size
  <2> QED
    BY <2>1, AnswersType, EndsType DEF TypeOK, DiskType, TornType, disk
<1>3. CASE Remove(p)
  <2>1. Answers(p) \/ Ends(p, "file")
    BY <1>3 DEF Remove
  <2>2. c \in OtherCalls
    BY <1>3, OtherCall DEF Remove
  <2>3. c.path \in Names
    BY <2>2 DEF OtherCalls
  <2>5. /\ made' = made
        /\ \/ /\ exists' = exists \ {c.path}
              /\ content' = [content EXCEPT ![c.path] = <<>>]
              /\ torn' = [torn EXCEPT ![c.path] = FALSE]
           \/ UNCHANGED <<exists, content, torn>>
    BY <1>3 DEF Remove
  <2>6. made \subseteq Dirs /\ exists \subseteq Names /\ content \in [Names -> Seq(Blocks)]
        /\ torn \in [Names -> BOOLEAN]
    BY DEF TypeOK
  <2> HIDE DEF c
  <2>7. <<>> \in Seq(Blocks)
    OBVIOUS
  <2>8. content' \in [Names -> Seq(Blocks)]
    BY <2>3, <2>5, <2>6, <2>7
  <2>9. torn' \in [Names -> BOOLEAN] /\ exists' \subseteq Names
    BY <2>3, <2>5, <2>6
  <2>4. DiskType' /\ TornType'
    BY <2>5, <2>6, <2>8, <2>9 DEF DiskType, TornType
  <2> QED
    BY <2>1, <2>4, AnswersType, EndsType
<1>4. CASE TryExecute(p)
  <2>1. c \in Executes
    BY <1>4, OtherCall DEF TryExecute
  <2>2. [c EXCEPT !.step = "wait"] \in Calls /\ [c EXCEPT !.times = Tried(c)] \in Calls
    BY <2>1 DEF Calls, Executes, Tried
  <2>3. UNCHANGED disk
    BY <1>4 DEF TryExecute
  <2>4. \/ GoesOn(p, [c EXCEPT !.step = "wait"]) /\ UNCHANGED history
        \/ Answers(p) /\ UNCHANGED torn
        \/ GoesOn(p, [c EXCEPT !.times = Tried(c)]) /\ UNCHANGED history
    BY <1>4 DEF TryExecute
  <2> HIDE DEF c
  <2>5. CallType' /\ EndedType'
    BY <2>2, <2>4, GoesOnType, AnswersType
  <2>6. HistoryType' /\ TornType'
    BY <2>4, AnswersType DEF TypeOK, HistoryType, TornType, history
  <2> QED
    BY <2>3, <2>5, <2>6 DEF TypeOK, DiskType, disk
<1>5. CASE StartExecute(p) \/ \E n \in Names, fn \in {"size", "remove"} : Status(p, fn, n)
  <2>1. PICK d \in Calls : Begins(p, d) /\ UNCHANGED <<disk, base, met, torn>>
    <3>1. [fn |-> "execute", step |-> "try", times |-> 0] \in Calls
      BY DEF Calls, Executes
    <3>2. \A n \in Names, fn \in {"size", "remove"} : [fn |-> fn, path |-> n] \in Calls
      BY DEF Calls, OtherCalls
    <3> QED
      BY <1>5, <3>1, <3>2 DEF StartExecute, Status
  <2>2. CallType' /\ EndedType' /\ shared' \subseteq Procs
    BY <2>1, BeginsType
  <2> QED
    BY <2>1, <2>2 DEF TypeOK, DiskType, TornType, HistoryType, disk
<1>6. CASE Crash(p)
  <2>1. Ends(p, "other") /\ UNCHANGED disk
    BY <1>6 DEF Crash
  <2>2. TornType'
    BY <1>6, PutCall DEF Crash, TypeOK, TornType, PutCalls
  <2> QED
    BY <2>1, <2>2, EndsType DEF TypeOK, DiskType, disk
<1>7. CASE Restart(p)
  BY <1>7 DEF Restart, TypeOK, DiskType, TornType, HistoryType, CallType, EndedType, disk
<1>8. CASE (\E n \in Names : Rename(p, n)) \/ \E d \in Dirs : GetDirFiles(p, d)
  <2>1. Ends(p, "other") /\ UNCHANGED <<disk, torn>>
    BY <1>8 DEF Rename, GetDirFiles
  <2> QED
    BY <2>1, EndsType DEF TypeOK, DiskType, TornType, disk
<1>9. CASE \E d \in Dirs : MkDir(p, d)
  <2>1. PICK d \in Dirs : MkDir(p, d)
    BY <1>9
  <2>2. CASE IsDir(Folder[d])
    BY <2>1, <2>2 DEF MkDir, TypeOK, DiskType, TornType, HistoryType, CallType, EndedType
  <2>3. CASE ~IsDir(Folder[d])
    <3>1. Ends(p, "other") /\ UNCHANGED <<made, exists, content, torn>>
      BY <2>1, <2>3 DEF MkDir
    <3> QED
      BY <3>1, EndsType DEF TypeOK, DiskType, TornType
  <2> QED
    BY <2>2, <2>3
<1> QED
  BY <1>1, <1>2, <1>3, <1>4, <1>5, <1>6, <1>7, <1>8, <1>9

LEMMA TypeIsKept == TypeOK /\ [Next]_vars => TypeOK'
<1> SUFFICES ASSUME TypeOK, [Next]_vars PROVE TypeOK'
  OBVIOUS
<1>1. CASE UNCHANGED vars
  BY <1>1 DEF vars, disk, history, TypeOK
<1>2. CASE Next
  <2>1. PICK p \in Procs : Calling(p) \/ Running(p) \/ PutFails(p) \/ ProgramEnds(p)
                              \/ Crash(p) \/ Restart(p)
    BY <1>2 DEF Next
  <2>2. CASE Calling(p)
    BY <2>2, PutOpenType, GetType, SmallType DEF Calling
  <2>3. CASE Running(p)
    BY <2>3, PutWriteType, PutRestType, GetType, SmallType DEF Running
  <2>4. CASE PutFails(p) \/ ProgramEnds(p) \/ Crash(p) \/ Restart(p)
    BY <2>4, PutRestType, SmallType
  <2> QED
    BY <2>1, <2>2, <2>3, <2>4
<1> QED
  BY <1>1, <1>2

LEMMA InitType == Init => TypeOK
BY DEF Init, TypeOK, Calls, Values

\* Every variable keeps its type, for all processes, files, texts and bounds.
THEOREM FileTypeCorrect == Spec => []TypeOK
<1> QED
  BY InitType, TypeIsKept, PTL DEF Spec

------------------------------------------------------------------------------
\* Only races end a process.

Stepping(p) == Calling(p) \/ Running(p) \/ PutFails(p) \/ ProgramEnds(p) \/ Crash(p) \/ Restart(p)

\* The ways a step of p can change what is known of the calls.
Starts(p) ==
    \E c \in Calls \ {Idle} :
        /\ Free(p)
        /\ Begins(p, c)
        /\ c.fn = "size" => c.path \in exists

Continues(p) ==
    \E c \in Calls \ {Idle} :
        /\ call[p] # Idle
        /\ GoesOn(p, c)
        /\ shared' = shared
        /\ c.fn # "size"

Finishes(p) == call[p] # Idle /\ Answers(p)

DiesByFile(p) ==
    \/ call[p].fn = "size" /\ call[p].path \notin exists
    \/ call[p].fn = "remove" /\ Open(call[p].path) # {}

Dies(p) ==
    /\ ended[p] = "no"
    /\ \/ Ends(p, "file") /\ DiesByFile(p)
       \/ Ends(p, "other")

Rests(p) ==
    /\ call' = call
    /\ \/ UNCHANGED <<ended, shared>>
       \/ /\ ended' = [ended EXCEPT ![p] = "no"]
          /\ shared' = shared \ {p}
          /\ ended[p] # "no"

LEMMA IdleFn == ASSUME NEW c \in Calls, c.fn # "none" PROVE c \in Calls \ {Idle}
BY DEF Idle

LEMMA StepShape ==
    ASSUME TypeOK, EndedIsIdle, NEW p \in Procs, Stepping(p)
    PROVE  Starts(p) \/ Continues(p) \/ Finishes(p) \/ Dies(p) \/ Rests(p)
<1> DEFINE c == call[p]
<1>0. c.fn # "none" => c # Idle /\ ended[p] = "no"
  BY DEF Idle, EndedIsIdle
<1>1. CASE \E n \in Names, t \in Texts, app \in BOOLEAN : PutOpen(p, n, t, app)
  <2>1. PICK n \in Names, t \in Texts, app \in BOOLEAN : PutOpen(p, n, t, app)
    BY <1>1
  <2> DEFINE d == [fn |-> "put", step |-> "write", path |-> n, text |-> t, app |-> app, done |-> 0]
  <2>2. d \in Calls \ {Idle} /\ d.fn # "size"
    BY DEF Calls, PutCalls, Idle
  <2> QED
    BY <2>1, <2>2 DEF PutOpen, Starts
<1>2. CASE \E n \in Names : GetStatus(p, n)
  <2>1. PICK n \in Names : GetStatus(p, n)
    BY <1>2
  <2> DEFINE d == [fn |-> "get", step |-> "open", path |-> n, data |-> <<>>]
  <2>2. d \in Calls \ {Idle} /\ d.fn # "size"
    BY DEF Calls, GetCalls, Idle
  <2> QED
    BY <2>1, <2>2 DEF GetStatus, Starts
<1>3. CASE \E n \in Names, fn \in {"size", "remove"} : Status(p, fn, n)
  <2>1. PICK n \in Names, fn \in {"size", "remove"} : Status(p, fn, n)
    BY <1>3
  <2> DEFINE d == [fn |-> fn, path |-> n]
  <2>2. d \in Calls \ {Idle} /\ d.path = n
    BY DEF Calls, OtherCalls, Idle
  <2> QED
    BY <2>1, <2>2 DEF Status, NeedsFile, Starts
<1>4. CASE StartExecute(p)
  <2> DEFINE d == [fn |-> "execute", step |-> "try", times |-> 0]
  <2>2. d \in Calls \ {Idle} /\ d.fn # "size"
    BY DEF Calls, Executes, Idle
  <2> QED
    BY <1>4, <2>2 DEF StartExecute, Starts
<1>5. CASE (\E n \in Names : Rename(p, n)) \/ (\E d \in Dirs : MkDir(p, d) \/ GetDirFiles(p, d))
  BY <1>5 DEF Rename, MkDir, GetDirFiles, Dies, Rests, Free
<1>6. CASE PutWrite(p) \/ PutCheck(p)
  <2>1. c \in PutCalls /\ c.fn = "put"
    BY <1>6, PutCall DEF PutWrite, PutCheck
  <2> DEFINE d == [c EXCEPT !.done = @ + 1]
             e == [c EXCEPT !.step = "close"]
  <2>2. d \in Calls /\ d.fn = "put" /\ e \in Calls /\ e.fn = "put"
    BY <2>1 DEF Calls, PutCalls
  <2>3. (GoesOn(p, d) \/ GoesOn(p, e)) /\ shared' = shared
    BY <1>6 DEF PutWrite, PutCheck, history
  <2> QED
    BY <1>0, <2>1, <2>2, <2>3, IdleFn DEF Continues
<1>7. CASE PutClose(p) \/ PutFails(p) \/ GetAnswer(p) \/ ProgramEnds(p)
  BY <1>0, <1>7 DEF PutClose, PutFails, GetAnswer, ProgramEnds, Finishes
<1>8. CASE GetOpen(p) \/ GetRead(p) \/ GetClose(p)
  <2>1. c \in GetCalls /\ c.fn = "get"
    BY <1>8, GetCall DEF GetOpen, GetRead, GetClose
  <2> DEFINE d == [c EXCEPT !.step = "read"]
             e == [c EXCEPT !.data = Append(@, content[c.path][Len(@) + 1])]
             f == [fn |-> "got", path |-> c.path, data |-> c.data,
                   sure |-> p \notin met /\ ~torn[c.path]]
  <2>2. d \in Calls /\ d.fn = "get"
    BY <2>1 DEF Calls, GetCalls
  <2>3. f \in Calls /\ f.fn = "got"
    BY <2>1 DEF Calls, GetCalls, GotCalls
  <2>4. CASE GetRead(p)
    <3>1. c.path \in Names /\ c.data \in Seq(Blocks) /\ content[c.path] \in Seq(Blocks)
      BY <2>1 DEF GetCalls, TypeOK
    <3>2. content[c.path][Len(c.data) + 1] \in Blocks
      BY <2>4, <3>1 DEF GetRead
    <3>3. Append(c.data, content[c.path][Len(c.data) + 1]) \in Seq(Blocks)
      BY <3>1, <3>2
    <3>4. e \in Calls /\ e.fn = "get"
      BY <2>1, <3>3 DEF Calls, GetCalls
    <3>5. GoesOn(p, e) /\ shared' = shared
      BY <2>4 DEF GetRead, history
    <3> QED
      BY <1>0, <2>1, <3>4, <3>5, IdleFn DEF Continues
  <2>5. CASE GetClose(p)
    <3>1. GoesOn(p, f) /\ shared' = shared
      BY <2>5 DEF GetClose
    <3> HIDE DEF f
    <3> QED
      BY <1>0, <2>1, <2>3, <3>1, IdleFn DEF Continues
  <2>6. CASE GetOpen(p)
    <3>1. (GoesOn(p, d) /\ shared' = shared) \/ Answers(p)
      BY <2>6 DEF GetOpen
    <3> HIDE DEF d
    <3> QED
      BY <1>0, <2>1, <2>2, <3>1, IdleFn DEF Continues, Finishes
  <2> QED
    BY <1>8, <2>4, <2>5, <2>6
<1>9. CASE Size(p) \/ Remove(p)
  <2>1. c.fn \in {"size", "remove"}
    BY <1>9 DEF Size, Remove
  <2>2. c # Idle /\ ended[p] = "no"
    BY <1>0, <2>1
  <2>3. CASE Size(p)
    <3>1. CASE c.path \in exists
      BY <2>2, <2>3, <3>1 DEF Size, Finishes
    <3>2. CASE c.path \notin exists
      <4>1. c.fn = "size" /\ Ends(p, "file")
        BY <2>3, <3>2 DEF Size
      <4> QED
        BY <2>2, <3>2, <4>1 DEF Dies, DiesByFile
    <3> QED
      BY <3>1, <3>2
  <2>4. CASE Remove(p)
    BY <2>2, <2>4 DEF Remove, Finishes, Dies, DiesByFile
  <2> QED
    BY <1>9, <2>3, <2>4
<1>10. CASE TryExecute(p)
  <2>1. c \in Executes /\ c.fn = "execute"
    BY <1>10, OtherCall DEF TryExecute
  <2> DEFINE d == [c EXCEPT !.step = "wait"]
             e == [c EXCEPT !.times = Tried(c)]
  <2>2. d \in Calls /\ d.fn = "execute" /\ e \in Calls /\ e.fn = "execute"
    BY <2>1 DEF Calls, Executes, Tried
  <2>3. ((GoesOn(p, d) \/ GoesOn(p, e)) /\ shared' = shared) \/ Answers(p)
    BY <1>10 DEF TryExecute, history
  <2> HIDE DEF d, e
  <2> QED
    BY <1>0, <2>1, <2>2, <2>3, IdleFn DEF Continues, Finishes
<1>11. CASE Crash(p)
  BY <1>11 DEF Crash, Dies, EndedIsIdle
<1>12. CASE Restart(p)
  BY <1>12 DEF Restart, Rests
<1> HIDE DEF c
<1> QED
  BY <1>1, <1>2, <1>3, <1>4, <1>5, <1>6, <1>7, <1>8, <1>9, <1>10, <1>11, <1>12
     DEF Stepping, Calling, Running

LEMMA RemovedBy ==
    ASSUME TypeOK, NEW p \in Procs, Stepping(p), NEW n \in exists, n \notin exists'
    PROVE  call[p].fn = "remove" /\ exists' = exists \ {call[p].path} /\ Answers(p)
BY DEF Stepping, Calling, Running, PutOpen, GetStatus, Rename, Status, MkDir, GetDirFiles,
       StartExecute, PutWrite, PutCheck, PutClose, GetOpen, GetRead, GetClose, GetAnswer, Size,
       Remove, TryExecute, PutFails, ProgramEnds, Crash, Restart, disk

\* A call that begins while others are on shares with all of them.
LEMMA BeginsShared ==
    ASSUME NEW p \in Procs, NEW c, Begins(p, c)
    PROVE  /\ \A q \in shared : q \in shared'
           /\ \A q \in Procs \ {p} : call[q] # Idle => q \in shared' /\ p \in shared'
<1> DEFINE others == {q \in Procs \ {p} : call[q] # Idle}
<1>1. shared' = IF others = {} THEN shared ELSE shared \cup {p} \cup others
  BY DEF Begins
<1>2. \A q \in Procs \ {p} : call[q] # Idle => q \in others
  OBVIOUS
<1> HIDE DEF others
<1> QED
  BY <1>1, <1>2

\* What a step of p leaves alone, and what it makes of p.
LEMMA StepEffect ==
    ASSUME TypeOK, NEW p \in Procs, Starts(p) \/ Continues(p) \/ Finishes(p) \/ Dies(p) \/ Rests(p)
    PROVE  /\ \A q \in Procs \ {p} : call'[q] = call[q] /\ ended'[q] = ended[q]
           /\ \A q \in Procs \ {p} : q \in shared => q \in shared'
           /\ Starts(p) => call[p] = Idle /\ ended'[p] = "no"
           /\ Continues(p) => call[p] # Idle /\ ended'[p] = ended[p]
           /\ Finishes(p) => call[p] # Idle /\ call'[p] = Idle /\ ended'[p] = ended[p]
           /\ Dies(p) => call'[p] = Idle /\ shared' = shared
           /\ Rests(p) => call' = call /\ ((ended' = ended /\ shared' = shared) \/ (ended'[p] = "no" /\ ended[p] # "no"))
<1>1. call \in [Procs -> Calls] /\ ended \in [Procs -> {"no", "file", "other"}]
  BY DEF TypeOK
<1>2. ASSUME Starts(p)
      PROVE  /\ \A q \in Procs \ {p} : call'[q] = call[q] /\ ended'[q] = ended[q]
             /\ \A q \in Procs \ {p} : q \in shared => q \in shared'
             /\ call[p] = Idle /\ ended'[p] = "no"
  <2>1. PICK c \in Calls : Begins(p, c) /\ Free(p)
    BY <1>2 DEF Starts
  <2>2. call' = [call EXCEPT ![p] = c] /\ ended' = ended
    BY <2>1 DEF Begins
  <2>3. \A q \in shared : q \in shared'
    BY <2>1, BeginsShared
  <2> QED
    BY <1>1, <2>1, <2>2, <2>3 DEF Free
<1>3. ASSUME Continues(p)
      PROVE  /\ \A q \in Procs \ {p} : call'[q] = call[q] /\ ended'[q] = ended[q]
             /\ shared' = shared /\ call[p] # Idle /\ ended'[p] = ended[p]
  BY <1>1, <1>3 DEF Continues, GoesOn
<1>4. ASSUME Finishes(p)
      PROVE  /\ \A q \in Procs \ {p} : call'[q] = call[q] /\ ended'[q] = ended[q]
             /\ \A q \in Procs \ {p} : q \in shared => q \in shared'
             /\ call[p] # Idle /\ call'[p] = Idle /\ ended'[p] = ended[p]
  BY <1>1, <1>4 DEF Finishes, Answers
<1>5. ASSUME Dies(p)
      PROVE  /\ \A q \in Procs \ {p} : call'[q] = call[q] /\ ended'[q] = ended[q]
             /\ call'[p] = Idle /\ shared' = shared
  BY <1>1, <1>5 DEF Dies, Ends
<1>6. ASSUME Rests(p)
      PROVE  /\ \A q \in Procs \ {p} : call'[q] = call[q] /\ ended'[q] = ended[q]
             /\ \A q \in Procs \ {p} : q \in shared => q \in shared'
             /\ call' = call
             /\ (ended' = ended /\ shared' = shared) \/ (ended'[p] = "no" /\ ended[p] # "no")
  <2>1. CASE UNCHANGED <<ended, shared>>
    <3>1. call' = call
      BY <1>6 DEF Rests
    <3>2. ended' = ended /\ shared' = shared
      BY <2>1
    <3> QED
      BY <3>1, <3>2
  <2>2. CASE ended' = [ended EXCEPT ![p] = "no"] /\ shared' = shared \ {p} /\ ended[p] # "no"
    <3>1. call' = call
      BY <1>6 DEF Rests
    <3>2. ended'[p] = "no" /\ \A q \in Procs \ {p} : ended'[q] = ended[q]
      BY <1>1, <2>2
    <3>3. \A q \in Procs \ {p} : q \in shared => q \in shared'
      BY <2>2
    <3> QED
      BY <2>2, <3>1, <3>2, <3>3
  <2> QED
    BY <1>6, <2>1, <2>2 DEF Rests
<1> HIDE DEF Starts, Continues, Finishes, Dies, Rests
<1> QED
  BY <1>2, <1>3, <1>4, <1>5, <1>6

RaceInvariant == TypeOK /\ EndedIsIdle /\ OverlapIsShared /\ OnlyRacesEndProcess

LEMMA RaceIsKept ==
    ASSUME RaceInvariant, NEW p \in Procs, Stepping(p), TypeOK'
    PROVE  EndedIsIdle' /\ OverlapIsShared' /\ OnlyRacesEndProcess'
<1>0. TypeOK /\ EndedIsIdle /\ OverlapIsShared /\ OnlyRacesEndProcess
  BY DEF RaceInvariant
<1>1. call \in [Procs -> Calls] /\ ended \in [Procs -> {"no", "file", "other"}] /\ shared \subseteq Procs
  BY <1>0 DEF TypeOK
<1>2. Starts(p) \/ Continues(p) \/ Finishes(p) \/ Dies(p) \/ Rests(p)
  BY <1>0, StepShape
<1>3. \A q \in Procs \ {p} : call'[q] = call[q] /\ ended'[q] = ended[q]
  BY <1>0, <1>2, StepEffect
<1>4. \A q \in Procs \ {p} : q \in shared => q \in shared'
  BY <1>0, <1>2, StepEffect
<1>5. EndedIsIdle'
  <2>1. ended'[p] # "no" => call'[p] = Idle
    <3>1. call[p] # Idle => ended[p] = "no"
      BY <1>0 DEF EndedIsIdle
    <3>2. ended[p] # "no" => call[p] = Idle
      BY <1>0 DEF EndedIsIdle
    <3> QED
      BY <1>0, <1>2, <3>1, <3>2, StepEffect
  <2> QED
    BY <1>0, <1>3, <2>1 DEF EndedIsIdle
<1>6. ASSUME NEW q \in Procs, NEW r \in Procs, q # r, call'[q] # Idle, call'[r] # Idle
      PROVE  q \in shared'
  <2>1. CASE Starts(p)
    <3>1. \A x \in Procs : x # p /\ call[x] # Idle => x \in shared' /\ p \in shared'
      BY <2>1, BeginsShared DEF Starts
    <3>2. \A x \in shared : x \in shared'
      BY <2>1, BeginsShared DEF Starts
    <3> QED
      BY <1>0, <1>3, <1>6, <3>1, <3>2 DEF OverlapIsShared
  <2>2. CASE ~Starts(p)
    <3>1. call'[p] # Idle => (call[p] # Idle /\ shared' = shared) \/ call' = call
      BY <1>1, <1>2, <2>2 DEF Continues, Finishes, Answers, Dies, Ends, Rests
    <3>2. call'[p] # Idle => shared' = shared
      BY <1>0, <1>1, <1>2, <2>2 DEF Continues, Finishes, Answers, Dies, Ends, Rests, EndedIsIdle
    <3> QED
      BY <1>0, <1>3, <1>4, <1>6, <3>1, <3>2 DEF OverlapIsShared
  <2> QED
    BY <2>1, <2>2
<1>7. ASSUME NEW q \in Procs, call'[q].fn = "size", call'[q].path \notin exists'
      PROVE  q \in shared'
  <2>1. call'[q] # Idle
    BY <1>7 DEF Idle
  <2>2. CASE q # p
    <3>1. call[q] = call'[q]
      BY <1>3, <2>2
    <3>2. CASE call[q].path \notin exists
      BY <1>0, <1>4, <1>7, <2>2, <3>1, <3>2 DEF OverlapIsShared
    <3>3. CASE call[q].path \in exists
      <4>1. call[p].fn = "remove"
        BY <1>0, <1>7, <3>1, <3>3, RemovedBy
      <4>2. call[p] # Idle
        BY <4>1 DEF Idle
      <4> QED
        BY <1>0, <1>4, <2>1, <2>2, <3>1, <4>2 DEF OverlapIsShared
    <3> QED
      BY <3>2, <3>3
  <2>3. CASE q = p
    <3>1. ~Continues(p) /\ ~Finishes(p) /\ ~Dies(p)
      BY <1>1, <1>7, <2>1, <2>3 DEF Continues, GoesOn, Finishes, Answers, Dies, Ends
    <3>2. CASE Starts(p)
      <4>1. call'[q].path \in exists
        <5>1. PICK c \in Calls : Begins(p, c) /\ (c.fn = "size" => c.path \in exists)
          BY <3>2 DEF Starts
        <5>2. call'[p] = c
          BY <1>1, <5>1 DEF Begins
        <5> QED
          BY <1>7, <2>3, <5>1, <5>2
      <4>2. call[p].fn = "remove" /\ call[p] = Idle
        BY <1>0, <1>2, <1>7, <3>2, <4>1, RemovedBy, StepEffect
      <4> QED
        BY <4>2 DEF Idle
    <3>3. CASE Rests(p)
      <4>1. call[p] = call'[p] /\ call[p] # Idle
        BY <2>1, <2>3, <3>3 DEF Rests
      <4>2. shared' = shared
        BY <1>0, <3>3, <4>1 DEF Rests, EndedIsIdle
      <4>3. call[p].path \notin exists
        BY <1>0, <1>7, <2>3, <4>1, RemovedBy
      <4> QED
        BY <1>0, <1>7, <2>3, <4>1, <4>2, <4>3 DEF OverlapIsShared
    <3> QED
      BY <1>2, <3>1, <3>2, <3>3
  <2> QED
    BY <2>2, <2>3
<1>8. ASSUME NEW q \in Procs, ended'[q] = "file"
      PROVE  q \in shared'
  <2>1. CASE q # p
    BY <1>0, <1>3, <1>4, <1>8, <2>1 DEF OnlyRacesEndProcess
  <2>2. CASE q = p /\ ended[p] = "file"
    <3>1. call[p] = Idle
      BY <1>0, <2>2 DEF EndedIsIdle
    <3>2. shared' = shared
      <4>1. ~Starts(p) /\ ~Dies(p)
        BY <2>2 DEF Starts, Free, Dies
      <4> QED
        BY <1>0, <1>2, <1>8, <2>2, <3>1, <4>1, StepEffect
    <3> QED
      BY <1>0, <2>2, <3>2 DEF OnlyRacesEndProcess
  <2>3. CASE q = p /\ ended[p] # "file"
    <3>1. Dies(p)
      BY <1>0, <1>2, <1>8, <2>3, StepEffect
    <3>2. /\ shared' = shared
          /\ \/ call[p].fn = "size" /\ call[p].path \notin exists
             \/ call[p].fn = "remove" /\ Open(call[p].path) # {}
      BY <1>1, <1>8, <2>3, <3>1 DEF Dies, DiesByFile, Ends
    <3>3. CASE call[p].fn = "size" /\ call[p].path \notin exists
      BY <1>0, <2>3, <3>2, <3>3 DEF OverlapIsShared
    <3>4. CASE call[p].fn = "remove" /\ Open(call[p].path) # {}
      <4>1. PICK r \in Procs : call[r].fn \in {"put", "get"}
        BY <3>4 DEF Open, Putting, Reading
      <4>2. r # p /\ call[r] # Idle /\ call[p] # Idle
        BY <3>4, <4>1 DEF Idle
      <4> QED
        BY <1>0, <2>3, <3>2, <4>2 DEF OverlapIsShared
    <3> QED
      BY <3>2, <3>3, <3>4
  <2> QED
    BY <2>1, <2>2, <2>3
<1> QED
  BY <1>5, <1>6, <1>7, <1>8 DEF OverlapIsShared, OnlyRacesEndProcess

LEMMA NextIsStepping == Next => \E p \in Procs : Stepping(p)
BY DEF Next, Stepping

LEMMA InitRaces == Init => RaceInvariant
BY InitType DEF Init, RaceInvariant, EndedIsIdle, OverlapIsShared, OnlyRacesEndProcess, Idle

LEMMA RaceInvariantIsKept == RaceInvariant /\ [Next]_vars => RaceInvariant'
<1> SUFFICES ASSUME RaceInvariant, [Next]_vars PROVE RaceInvariant'
  OBVIOUS
<1>1. TypeOK'
  BY TypeIsKept DEF RaceInvariant
<1>2. CASE UNCHANGED vars
  BY <1>1, <1>2 DEF RaceInvariant, EndedIsIdle, OverlapIsShared, OnlyRacesEndProcess, vars, disk, history
<1>3. CASE Next
  BY <1>1, <1>3, NextIsStepping, RaceIsKept DEF RaceInvariant
<1> QED
  BY <1>2, <1>3

\* A process is ended by FileSize or FileRemove only if a call of another process
\* overlapped its own, for any number of processes and files.
THEOREM OnlyRacesEnd == Spec => []OnlyRacesEndProcess
<1>1. RaceInvariant => OnlyRacesEndProcess
  BY DEF RaceInvariant
<1> QED
  BY <1>1, InitRaces, RaceInvariantIsKept, PTL DEF Spec

------------------------------------------------------------------------------
\* What an open file means for its process, and the contract of the files.

IsPutting(q, n) == call[q].fn = "put" /\ call[q].path = n
IsReading(q)    == call[q].fn = "get" /\ call[q].step = "read"

Begun(c) == SubSeq(TextOf(c.text), 1, c.done)

\* A writer that met no other has written its pieces behind what was there: c is
\* its call, b what it found, s what is in the file.
WrittenSoFar(c, b, s, spoiled) ==
    /\ ~c.app => s = Begun(c)
    /\ c.app /\ ~spoiled =>
         \/ b = Gone /\ s = Begun(c)
         \/ b.is = "known" /\ s = b.content \o Begun(c)
    /\ ~spoiled => b # Unknown

\* A reader that no writer met has read the beginning of the file.
ReadSoFar(c, s) == Len(c.data) <= Len(s) /\ c.data = SubSeq(s, 1, Len(c.data))

StartsAfresh(q) ==
    /\ call[q] = Idle => q \notin met
    /\ call[q].fn = "get" /\ call[q].step = "open" => call[q].data = <<>>

WritesWell(q) ==
    call[q].fn = "put" =>
        /\ call[q].path \in exists
        /\ q \in met => torn[call[q].path]
        /\ \A r \in Procs : r # q /\ IsPutting(r, call[q].path) => q \in met
        /\ q \notin met => WrittenSoFar(call[q], base[q], content[call[q].path], torn[call[q].path])

ReadsWell(q) ==
    IsReading(q) =>
        /\ call[q].path \in exists
        /\ q \notin met => ReadSoFar(call[q], content[call[q].path])
        /\ q \notin met => \A r \in Procs : ~IsPutting(r, call[q].path)

Fine(q) == StartsAfresh(q) /\ WritesWell(q) /\ ReadsWell(q)

FileInvariant == RaceInvariant /\ \A q \in Procs : Fine(q)

\* The ways a step of p can change what is known of the files.
Breaks(p) ==
    /\ call[p].fn = "put"
    /\ call' = [call EXCEPT ![p] = Idle]
    /\ Closes(p)
    /\ torn' = [torn EXCEPT ![call[p].path] = TRUE]
    /\ UNCHANGED <<exists, content>>

StartsReading(p) ==
    /\ call[p].fn = "get" /\ call[p].step = "open" /\ call[p].path \in exists
    /\ call' = [call EXCEPT ![p] = [call[p] EXCEPT !.step = "read"]]
    /\ Opens(p, call[p].path, FALSE)
    /\ UNCHANGED <<exists, content>>

Deletes(p) ==
    /\ call[p].fn = "remove"
    /\ Open(call[p].path) = {}
    /\ call' = [call EXCEPT ![p] = Idle]
    /\ Closes(p)
    /\ exists' = exists \ {call[p].path}
    /\ content' = [content EXCEPT ![call[p].path] = <<>>]
    /\ torn' = [torn EXCEPT ![call[p].path] = FALSE]

\* What the process sees as the result of its read.
Result(p) == [fn |-> "got", path |-> call[p].path, data |-> call[p].data,
              sure |-> p \notin met /\ ~torn[call[p].path]]

StopsReading(p) ==
    /\ IsReading(p) /\ AtEnd(call[p])
    /\ call' = [call EXCEPT ![p] = Result(p)]
    /\ Closes(p)
    /\ UNCHANGED <<exists, content, torn>>

\* A call d that has no file open.
Closed(d) ==
    /\ d.fn \notin {"put", "got"}
    /\ d.fn = "get" => d.step = "open" /\ d.data = <<>>

Quiet(p, d) ==
    /\ call[p].fn # "put" /\ Closed(d)
    /\ call' = [call EXCEPT ![p] = d]
    /\ UNCHANGED <<exists, content, torn>>
    /\ \/ UNCHANGED <<base, met>> /\ (d = Idle => p \notin met)
       \/ Closes(p)

FileStep(p) ==
    \/ \E n \in Names, t \in Texts, app \in BOOLEAN : PutOpen(p, n, t, app)
    \/ PutWrite(p) \/ PutCheck(p) \/ PutClose(p) \/ Breaks(p)
    \/ StartsReading(p) \/ GetRead(p) \/ StopsReading(p)
    \/ Deletes(p)
    \/ \E d \in Calls : Quiet(p, d)

LEMMA ClosedIdle == Closed(Idle) /\ Idle \in Calls
BY DEF Closed, Idle, Calls

LEMMA FileStepShape ==
    ASSUME FileInvariant, NEW p \in Procs, Stepping(p)
    PROVE  FileStep(p)
<1> DEFINE c == call[p]
<1>0. TypeOK /\ EndedIsIdle /\ StartsAfresh(p)
  BY DEF FileInvariant, RaceInvariant, Fine
<1>1. call \in [Procs -> Calls] /\ call = [call EXCEPT ![p] = call[p]]
  BY <1>0 DEF TypeOK
<1>2. ASSUME Answers(p) \/ Ends(p, "file") \/ Ends(p, "other"), c.fn # "put",
             UNCHANGED <<exists, content, torn>>
      PROVE  FileStep(p)
  <2>1. Quiet(p, Idle)
    BY <1>2, ClosedIdle DEF Answers, Ends, Quiet
  <2> QED
    BY <2>1, ClosedIdle DEF FileStep
<1>3. ASSUME NEW d \in Calls, Begins(p, d), Free(p), Closed(d), d # Idle,
             UNCHANGED <<exists, content, torn, base, met>>
      PROVE  FileStep(p)
  <2>1. Quiet(p, d)
    BY <1>3 DEF Begins, Free, Quiet, Idle
  <2> QED
    BY <2>1 DEF FileStep
<1>4. ASSUME NEW n \in Names, GetStatus(p, n)
      PROVE  FileStep(p)
  <2> DEFINE d == [fn |-> "get", step |-> "open", path |-> n, data |-> <<>>]
  <2>1. d \in Calls /\ Closed(d) /\ d # Idle
    BY DEF Calls, GetCalls, Idle, Closed
  <2> QED
    BY <1>3, <1>4, <2>1 DEF GetStatus, disk
<1>5. ASSUME NEW n \in Names, NEW fn \in {"size", "remove"}, Status(p, fn, n)
      PROVE  FileStep(p)
  <2> DEFINE d == [fn |-> fn, path |-> n]
  <2>1. d \in Calls /\ Closed(d) /\ d # Idle
    BY DEF Calls, OtherCalls, Idle, Closed
  <2> QED
    BY <1>3, <1>5, <2>1 DEF Status, disk
<1>6. ASSUME StartExecute(p)
      PROVE  FileStep(p)
  <2> DEFINE d == [fn |-> "execute", step |-> "try", times |-> 0]
  <2>1. d \in Calls /\ Closed(d) /\ d # Idle
    BY DEF Calls, Executes, Idle, Closed
  <2> QED
    BY <1>3, <1>6, <2>1 DEF StartExecute, disk
<1>7. ASSUME NEW n \in Names, Rename(p, n)
      PROVE  FileStep(p)
  BY <1>2, <1>7 DEF Rename, Free, Idle, disk
<1>8. ASSUME NEW d \in Dirs, GetDirFiles(p, d)
      PROVE  FileStep(p)
  BY <1>2, <1>8 DEF GetDirFiles, Free, Idle, disk
<1>9. ASSUME call' = call, call[p] = Idle, UNCHANGED <<exists, content, torn, base, met>>
      PROVE  FileStep(p)
  <2>1. Idle.fn # "put" /\ p \notin met
    BY <1>0, <1>9 DEF Idle, StartsAfresh
  <2>2. call' = [call EXCEPT ![p] = Idle]
    BY <1>1, <1>9
  <2>3. Quiet(p, Idle)
    BY <1>9, <2>1, <2>2, ClosedIdle DEF Quiet
  <2> QED
    BY <2>3, ClosedIdle DEF FileStep
<1>10. ASSUME NEW d \in Dirs, MkDir(p, d)
       PROVE  FileStep(p)
  <2>1. CASE IsDir(Folder[d])
    BY <1>9, <1>10, <2>1 DEF MkDir, Free
  <2>2. CASE ~IsDir(Folder[d])
    BY <1>2, <1>10, <2>2 DEF MkDir, Free, Idle
  <2> QED
    BY <2>1, <2>2
<1>11. ASSUME PutFails(p)
       PROVE  FileStep(p)
  BY <1>11 DEF PutFails, Answers, disk, Breaks, FileStep
<1>12. ASSUME GetOpen(p)
       PROVE  FileStep(p)
  <2>1. CASE c.path \in exists
    BY <1>12, <2>1 DEF GetOpen, GoesOn, disk, StartsReading, FileStep
  <2>2. CASE c.path \notin exists
    BY <1>2, <1>12, <2>2 DEF GetOpen, disk
  <2> QED
    BY <2>1, <2>2
<1>13. ASSUME GetClose(p)
       PROVE  FileStep(p)
  BY <1>13 DEF GetClose, GoesOn, disk, StopsReading, IsReading, Result, FileStep
<1>14. ASSUME GetAnswer(p) \/ ProgramEnds(p) \/ Size(p)
       PROVE  FileStep(p)
  BY <1>2, <1>14 DEF GetAnswer, ProgramEnds, Size, disk
<1>15. ASSUME Remove(p)
       PROVE  FileStep(p)
  <2>1. CASE c.path \in exists /\ Open(c.path) = {}
    BY <1>15, <2>1 DEF Remove, Answers, Deletes, FileStep
  <2>2. CASE ~(c.path \in exists /\ Open(c.path) = {})
    BY <1>2, <1>15, <2>2 DEF Remove
  <2> QED
    BY <2>1, <2>2
<1>16. ASSUME TryExecute(p)
       PROVE  FileStep(p)
  <2>1. c \in Executes /\ c.fn = "execute"
    BY <1>0, <1>16, OtherCall DEF TryExecute
  <2> DEFINE d == [c EXCEPT !.step = "wait"]
             e == [c EXCEPT !.times = Tried(c)]
  <2>2. /\ d \in Calls /\ d.fn = "execute" /\ e \in Calls /\ e.fn = "execute"
    BY <2>1 DEF Calls, Executes, Tried
  <2>3. Closed(d) /\ Closed(e) /\ d # Idle /\ e # Idle
    BY <2>2 DEF Closed, Idle
  <2>4. UNCHANGED <<exists, content, torn>> /\ c.fn # "put"
    BY <1>16, <2>1 DEF TryExecute, disk, history
  <2>5. \/ (GoesOn(p, d) \/ GoesOn(p, e)) /\ UNCHANGED history
        \/ Answers(p)
    BY <1>16 DEF TryExecute
  <2> HIDE DEF d, e
  <2>6. CASE GoesOn(p, d) /\ UNCHANGED history
    <3>1. Quiet(p, d)
      BY <2>3, <2>4, <2>6 DEF GoesOn, history, Quiet
    <3> QED
      BY <2>2, <3>1 DEF FileStep
  <2>7. CASE GoesOn(p, e) /\ UNCHANGED history
    <3>1. Quiet(p, e)
      BY <2>3, <2>4, <2>7 DEF GoesOn, history, Quiet
    <3> QED
      BY <2>2, <3>1 DEF FileStep
  <2> QED
    BY <1>2, <2>4, <2>5, <2>6, <2>7
<1>17. ASSUME Crash(p)
       PROVE  FileStep(p)
  <2>1. CASE c.fn = "put"
    BY <1>17, <2>1 DEF Crash, Ends, disk, Breaks, FileStep
  <2>2. CASE c.fn # "put"
    BY <1>2, <1>17, <2>2 DEF Crash, disk
  <2> QED
    BY <2>1, <2>2
<1>18. ASSUME Restart(p)
       PROVE  FileStep(p)
  BY <1>0, <1>9, <1>18 DEF Restart, EndedIsIdle, disk
<1>19. ASSUME (\E n \in Names, t \in Texts, app \in BOOLEAN : PutOpen(p, n, t, app))
              \/ PutWrite(p) \/ PutCheck(p) \/ PutClose(p) \/ GetRead(p)
       PROVE  FileStep(p)
  BY <1>19 DEF FileStep
<1> HIDE DEF c
<1> QED
  BY <1>4, <1>5, <1>6, <1>7, <1>8, <1>10, <1>11, <1>12, <1>13, <1>14, <1>15, <1>16, <1>17,
     <1>18, <1>19 DEF Stepping, Calling, Running

------------------------------------------------------------------------------
\* The invariant is kept.

FileTypes == /\ call \in [Procs -> Calls] /\ exists \subseteq Names
             /\ content \in [Names -> Seq(Blocks)] /\ base \in [Procs -> Values]
             /\ met \subseteq Procs /\ torn \in [Names -> BOOLEAN]

LEMMA FileParts ==
    ASSUME FileInvariant
    PROVE  TypeOK /\ FileTypes /\ \A q \in Procs : Fine(q)
BY DEF FileInvariant, RaceInvariant, TypeOK, FileTypes

\* Process q is not disturbed by a step of p that leaves its file alone, or that
\* lets it know.
Undisturbed(p, q) ==
    /\ call'[q] = call[q] /\ base'[q] = base[q]
    /\ q \in met => q \in met'
    /\ q \in met' => q \in met \/ call[q].fn = "put" \/ IsReading(q)
    /\ call[q].fn = "put" \/ IsReading(q) =>
         /\ call[q].path \in exists => call[q].path \in exists'
         /\ \/ q \in met' /\ (call[q].fn = "put" => torn'[call[q].path])
            \/ /\ q \in met' => q \in met
               /\ content'[call[q].path] = content[call[q].path]
               /\ torn[call[q].path] => torn'[call[q].path]
               /\ torn'[call[q].path] \in BOOLEAN
               /\ IsPutting(p, call[q].path)' => IsPutting(p, call[q].path)

LEMMA OtherStays ==
    ASSUME FileTypes, NEW p \in Procs, NEW q \in Procs, p # q, Fine(q), Undisturbed(p, q),
           \A r \in Procs \ {p} : call'[r] = call[r]
    PROVE  Fine(q)'
<1>1. StartsAfresh(q)'
  BY DEF Fine, StartsAfresh, Undisturbed, Idle, IsReading
<1>2. WritesWell(q)'
  <2> SUFFICES ASSUME call[q].fn = "put" PROVE WritesWell(q)'
    BY DEF WritesWell, Undisturbed
  <2> DEFINE n == call[q].path
  <2>0. call'[q].path = n /\ n \in exists /\ n \in exists'
    BY DEF Fine, WritesWell, Undisturbed
  <2>1. CASE q \in met' /\ torn'[n]
    BY <2>0, <2>1 DEF WritesWell
  <2>2. CASE /\ q \in met' => q \in met
             /\ content'[n] = content[n]
             /\ torn[n] => torn'[n]
             /\ torn'[n] \in BOOLEAN
             /\ IsPutting(p, n)' => IsPutting(p, n)
    <3>1. \A r \in Procs : r # q /\ IsPutting(r, n)' => q \in met'
      <4> SUFFICES ASSUME NEW r \in Procs, r # q, IsPutting(r, n)' PROVE q \in met
        BY DEF Undisturbed
      <4>1. IsPutting(r, n)
        BY <2>2 DEF IsPutting
      <4> QED
        BY <4>1 DEF Fine, WritesWell
    <3>2. q \notin met' => WrittenSoFar(call[q], base[q], content[n], torn[n])
      BY DEF Fine, WritesWell, Undisturbed
    <3>3. q \notin met' => WrittenSoFar(call[q], base[q], content[n], torn'[n])
      BY <2>2, <3>2 DEF WrittenSoFar
    <3>4. q \in met' => torn'[n]
      BY <2>2 DEF Fine, WritesWell
    <3> QED
      BY <2>0, <2>2, <3>1, <3>3, <3>4 DEF WritesWell, Undisturbed
  <2> QED
    BY <2>1, <2>2 DEF Undisturbed
<1>3. ReadsWell(q)'
  <2> SUFFICES ASSUME IsReading(q) PROVE ReadsWell(q)'
    BY DEF ReadsWell, Undisturbed, IsReading
  <2> DEFINE n == call[q].path
  <2>0. call'[q].path = n /\ n \in exists /\ n \in exists'
    BY DEF Fine, ReadsWell, Undisturbed
  <2>1. CASE q \in met'
    BY <2>0, <2>1 DEF ReadsWell
  <2>2. CASE /\ q \notin met' /\ content'[n] = content[n]
             /\ IsPutting(p, n)' => IsPutting(p, n)
    <3>1. q \notin met
      BY <2>2 DEF Undisturbed
    <3>2. \A r \in Procs : ~IsPutting(r, n)'
      BY <2>2, <3>1 DEF Fine, ReadsWell, IsPutting
    <3> QED
      BY <2>0, <2>2, <3>1, <3>2 DEF Fine, ReadsWell, Undisturbed
  <2> QED
    BY <2>1, <2>2 DEF Undisturbed
<1> QED
  BY <1>1, <1>2, <1>3 DEF Fine

LEMMA Putters ==
    ASSUME NEW n \in Names
    PROVE  /\ \A q \in Procs : q \in Putting(n) <=> IsPutting(q, n)
           /\ \A q \in Procs : q \in Open(n) <=>
                IsPutting(q, n) \/ (IsReading(q) /\ call[q].path = n)
BY DEF Putting, Reading, Open, IsPutting, IsReading

LEMMA PathIsName ==
    ASSUME TypeOK, NEW q \in Procs, call[q].fn = "put" \/ call[q].fn = "get" \/ call[q].fn = "remove"
    PROVE  call[q].path \in Names
<1>1. call[q].fn = "put" => call[q] \in PutCalls
  BY PutCall
<1>2. call[q].fn = "get" => call[q] \in GetCalls
  BY GetCall
<1>3. call[q].fn = "remove" => call[q] \in OtherCalls
  BY OtherCall
<1> QED
  BY <1>1, <1>2, <1>3 DEF PutCalls, GetCalls, OtherCalls

LEMMA PutOpenKeeps ==
    ASSUME FileInvariant, NEW p \in Procs, NEW n \in Names, NEW t \in Texts, NEW app \in BOOLEAN,
           PutOpen(p, n, t, app)
    PROVE  \A q \in Procs : Fine(q)'
<1> DEFINE c == [fn |-> "put", step |-> "write", path |-> n, text |-> t, app |-> app, done |-> 0]
<1>1. TypeOK /\ FileTypes /\ \A q \in Procs : Fine(q)
  BY FileParts
<1>2. call[p] = Idle /\ call' = [call EXCEPT ![p] = c]
  BY DEF PutOpen, Free, Begins
<1>3. call'[p] = c /\ \A q \in Procs \ {p} : call'[q] = call[q]
  BY <1>1, <1>2 DEF FileTypes
<1>4. /\ base' = [base EXCEPT ![p] = OnDisk(n)]
      /\ met' = met \cup Open(n) \cup (IF Putting(n) # {} THEN {p} ELSE {})
      /\ torn' = IF Putting(n) # {} THEN [torn EXCEPT ![n] = TRUE] ELSE torn
      /\ exists' = exists \cup {n}
      /\ content' = [content EXCEPT ![n] = OpenedContent(n, app)]
  BY DEF PutOpen, Opens
<1>5. p \notin met /\ p \notin Open(n) /\ p \notin Putting(n)
  BY <1>1, <1>2, Putters DEF Fine, StartsAfresh, Idle, IsPutting, IsReading
<1>6. ASSUME NEW q \in Procs, q # p
      PROVE  Fine(q)'
  <2>1. q \in Open(n) <=> IsPutting(q, n) \/ (IsReading(q) /\ call[q].path = n)
    BY Putters
  <2>2. IsPutting(q, n) => Putting(n) # {}
    BY Putters
  <2>3. q \in met' <=> q \in met \/ q \in Open(n)
    BY <1>4, <1>6
  <2>4. ASSUME call[q].fn = "put" \/ IsReading(q)
        PROVE  /\ call[q].path \in exists => call[q].path \in exists'
               /\ \/ q \in met' /\ (call[q].fn = "put" => torn'[call[q].path])
                  \/ /\ q \in met' => q \in met
                     /\ content'[call[q].path] = content[call[q].path]
                     /\ torn[call[q].path] => torn'[call[q].path]
                     /\ torn'[call[q].path] \in BOOLEAN
                     /\ IsPutting(p, call[q].path)' => IsPutting(p, call[q].path)
    <3>1. call[q].path \in Names
      BY <1>1, <2>4, PathIsName DEF IsReading
    <3>2. CASE call[q].path = n
      <4>1. q \in met'
        BY <2>1, <2>3, <2>4, <3>2 DEF IsPutting
      <4>2. call[q].fn = "put" => torn'[n]
        BY <1>1, <1>4, <2>2, <3>2 DEF IsPutting, FileTypes
      <4> QED
        BY <1>4, <3>2, <4>1, <4>2
    <3>3. CASE call[q].path # n
      <4>1. q \in met' => q \in met
        BY <2>1, <2>3, <3>3 DEF IsPutting
      <4>2. /\ content'[call[q].path] = content[call[q].path]
            /\ torn'[call[q].path] = torn[call[q].path]
            /\ torn[call[q].path] \in BOOLEAN
        BY <1>1, <1>4, <3>1, <3>3 DEF FileTypes
      <4>3. ~IsPutting(p, call[q].path)'
        BY <1>3, <1>6, <3>3 DEF IsPutting
      <4>4. torn[call[q].path] => torn'[call[q].path]
        BY <4>2
      <4>5. torn'[call[q].path] \in BOOLEAN
        BY <4>2
      <4>6. exists \subseteq exists'
        BY <1>4
      <4> QED
        BY <4>1, <4>2, <4>3, <4>4, <4>5, <4>6
    <3> QED
      BY <3>2, <3>3
  <2>5. base'[q] = base[q]
    BY <1>1, <1>4, <1>6 DEF FileTypes
  <2>6. Undisturbed(p, q)
    BY <1>3, <1>6, <2>1, <2>3, <2>4, <2>5 DEF Undisturbed, IsPutting
  <2> QED
    BY <1>1, <1>3, <1>6, <2>6, OtherStays
<1>7. StartsAfresh(p)' /\ ReadsWell(p)'
  BY <1>3 DEF StartsAfresh, ReadsWell, IsReading, Idle
<1>8. WritesWell(p)'
  <2>1. p \in met' => torn'[n]
    BY <1>1, <1>4, <1>5 DEF FileTypes
  <2>2. \A r \in Procs : r # p /\ IsPutting(r, n)' => p \in met'
    <3> SUFFICES ASSUME NEW r \in Procs, r # p, IsPutting(r, n)' PROVE p \in met'
      OBVIOUS
    <3>1. r \in Putting(n)
      BY <1>3, Putters DEF IsPutting
    <3> QED
      BY <1>4, <3>1
  <2>3. ASSUME p \notin met'
        PROVE  WrittenSoFar(c, base'[p], content'[n], torn'[n])
    <3>1. Putting(n) = {} /\ torn' = torn
      BY <1>4, <2>3
    <3>2. base'[p] = OnDisk(n) /\ content'[n] = OpenedContent(n, app)
      BY <1>1, <1>4 DEF FileTypes
    <3>3. Begun(c) = <<>>
      BY TextType DEF Begun
    <3>4. content[n] \in Seq(Blocks) /\ content[n] \o <<>> = content[n]
      BY <1>1 DEF FileTypes
    <3>5. ~app => OpenedContent(n, app) = <<>>
      BY DEF OpenedContent
    <3>6. ASSUME ~torn[n]
          PROVE  /\ OnDisk(n) # Unknown
                 /\ app => \/ OnDisk(n) = Gone /\ OpenedContent(n, app) = <<>>
                           \/ OnDisk(n).is = "known" /\ OpenedContent(n, app) = OnDisk(n).content
      BY <3>6 DEF OnDisk, OpenedContent, Known, Gone, Unknown
    <3>7. OnDisk(n).is = "known" /\ ~torn[n] => OnDisk(n).content \o <<>> = OnDisk(n).content
      BY <3>4 DEF OnDisk, Known, Gone, Unknown
    <3> HIDE DEF c
    <3>8. c.app = app
      BY DEF c
    <3> QED
      BY <3>1, <3>2, <3>3, <3>5, <3>6, <3>7, <3>8 DEF WrittenSoFar
  <2>4. c.path = n /\ n \in exists'
    BY <1>4
  <2> HIDE DEF c
  <2> QED
    BY <1>3, <2>1, <2>2, <2>3, <2>4 DEF WritesWell
<1> QED
  BY <1>6, <1>7, <1>8 DEF Fine

\* A piece is written: by a writer that knows no other, behind the others.
LEMMA BegunNext ==
    ASSUME NEW c \in PutCalls, HasMore(c)
    PROVE  /\ Begun(c) \in Seq(Blocks) /\ Len(Begun(c)) = c.done
           /\ Block(c.text, c.done + 1) \in Blocks
           /\ Begun([c EXCEPT !.done = @ + 1]) = Append(Begun(c), Block(c.text, c.done + 1))
<1> DEFINE t == c.text
           k == c.done
           T == TextOf(t)
           b == Block(t, k + 1)
           s == SubSeq(T, 1, k)
           u == SubSeq(T, 1, k + 1)
           a == Append(s, b)
<1>1. t \in Texts /\ k \in Nat /\ Pieces[t] \in Nat /\ k < Pieces[t]
  BY NatPieces DEF PutCalls, HasMore
<1>2. k + 1 \in 1..Pieces[t] /\ k \in Nat /\ b \in Blocks
  BY <1>1, BlockType
<1>3. T \in Seq(Blocks) /\ Len(T) = Pieces[t]
  BY <1>1, TextType
<1>4. \A i \in 1..Pieces[t] : T[i] = Block(t, i)
  BY DEF TextOf
<1> HIDE DEF T, b
<1>5. s \in Seq(Blocks) /\ Len(s) = k /\ \A i \in 1..k : s[i] = T[i]
  <2>1. \A i \in 1..k : i \in 1..Len(T) /\ T[i] \in Blocks
    BY <1>1, <1>3
  <2> QED
    BY <1>1, <1>3, <2>1
<1>6. u \in Seq(Blocks) /\ Len(u) = k + 1 /\ \A i \in 1..(k + 1) : u[i] = T[i]
  <2>1. \A i \in 1..(k + 1) : i \in 1..Len(T) /\ T[i] \in Blocks
    BY <1>1, <1>3
  <2> QED
    BY <1>1, <1>3, <2>1
<1>7. a \in Seq(Blocks) /\ Len(a) = k + 1 /\ \A i \in 1..(k + 1) : a[i] = IF i = k + 1 THEN b ELSE s[i]
  BY <1>1, <1>2, <1>5, AppendProperties
<1>8. \A i \in 1..(k + 1) : a[i] = u[i]
  <2> TAKE i \in 1..(k + 1)
  <2>1. CASE i = k + 1
    BY <1>1, <1>2, <1>4, <1>6, <1>7, <2>1 DEF b
  <2>2. CASE i # k + 1
    <3>1. i \in 1..k
      BY <1>1, <2>2
    <3> QED
      BY <1>5, <1>6, <1>7, <2>2, <3>1
  <2> QED
    BY <2>1, <2>2
<1> HIDE DEF s, u, a
<1>9. a = u
  BY <1>1, <1>6, <1>7, <1>8, SeqEqual
<1>10. Begun(c) = s
  BY DEF Begun, s, T
<1>11. Begun([c EXCEPT !.done = @ + 1]) = u
  BY <1>1 DEF Begun, u, T, PutCalls
<1> QED
  BY <1>2, <1>5, <1>9, <1>10, <1>11 DEF a, b

\* The writers of a file know of each other, and its readers of them.
LEMMA WriterIsKnown ==
    ASSUME FileInvariant, NEW p \in Procs, NEW n \in Names, IsPutting(p, n)
    PROVE  /\ \A q \in Procs \ {p} : IsPutting(q, n) => q \in met /\ p \in met /\ torn[n]
           /\ \A q \in Procs : IsReading(q) /\ call[q].path = n => q \in met
<1>1. \A q \in Procs : Fine(q)
  BY FileParts
<1>2. ASSUME NEW q \in Procs \ {p}, IsPutting(q, n)
      PROVE  q \in met /\ p \in met /\ torn[n]
  BY <1>1, <1>2 DEF Fine, WritesWell, IsPutting
<1>3. ASSUME NEW q \in Procs, IsReading(q), call[q].path = n
      PROVE  q \in met
  BY <1>1, <1>3 DEF Fine, ReadsWell
<1> QED
  BY <1>2, <1>3

LEMMA AppendLater ==
    ASSUME NEW x \in Seq(Blocks), NEW y \in Seq(Blocks), NEW b \in Blocks
    PROVE  Append(x \o y, b) = x \o Append(y, b)
<1> DEFINE z == x \o y
<1>1. z \in Seq(Blocks) /\ <<b>> \in Seq(Blocks)
  OBVIOUS
<1>2. z \o <<b>> = x \o (y \o <<b>>)
  BY <1>1, ConcatAssociative
<1>3. Append(y, b) = y \o <<b>>
  BY AppendIsConcat
<1> HIDE DEF z
<1>4. Append(z, b) = z \o <<b>>
  BY <1>1, AppendIsConcat
<1>5. Append(z, b) = x \o Append(y, b)
  BY <1>2, <1>3, <1>4
<1> QED
  BY <1>5 DEF z

LEMMA PutWriteKeeps ==
    ASSUME FileInvariant, NEW p \in Procs, PutWrite(p)
    PROVE  \A q \in Procs : Fine(q)'
<1> DEFINE c == call[p]
           d == [c EXCEPT !.done = @ + 1]
           b == Block(c.text, c.done + 1)
<1>1. TypeOK /\ FileTypes /\ \A q \in Procs : Fine(q)
  BY FileParts
<1>2. c \in PutCalls /\ c.fn = "put" /\ HasMore(c) /\ c.path \in Names
  BY <1>1, PutCall DEF PutWrite, PutCalls
<1>n. PICK n \in Names : n = c.path
  BY <1>2
<1>3. PICK at \in Positions(p) : content' = [content EXCEPT ![n] = Written(@, at, b)]
  BY <1>n DEF PutWrite
<1>4. call' = [call EXCEPT ![p] = d]
  BY DEF PutWrite, GoesOn
<1>5. exists' = exists /\ base' = base /\ met' = met /\ torn' = torn
  BY DEF PutWrite, history
<1>6. call'[p] = d /\ \A q \in Procs \ {p} : call'[q] = call[q]
  BY <1>1, <1>4 DEF FileTypes
<1>7. d.fn = "put" /\ d.path = n /\ d.app = c.app /\ d # Idle
  BY <1>2, <1>n DEF PutCalls, Idle
<1>8. IsPutting(p, n)
  BY <1>2, <1>n DEF IsPutting
<1>9. content'[n] = Written(content[n], at, b) /\ \A m \in Names \ {n} : content'[m] = content[m]
  BY <1>1, <1>2, <1>3 DEF FileTypes
<1> HIDE DEF d, b
<1>10. ASSUME NEW q \in Procs, q # p
       PROVE  Fine(q)'
  <2>1. ASSUME call[q].fn = "put" \/ IsReading(q)
        PROVE  \/ q \in met' /\ (call[q].fn = "put" => torn'[call[q].path])
               \/ /\ q \in met' => q \in met
                  /\ content'[call[q].path] = content[call[q].path]
                  /\ torn[call[q].path] => torn'[call[q].path]
                  /\ torn'[call[q].path] \in BOOLEAN
                  /\ IsPutting(p, call[q].path)' => IsPutting(p, call[q].path)
    <3>1. call[q].path \in Names
      BY <1>1, <2>1, PathIsName DEF IsReading
    <3>2. CASE call[q].path = n
      <4>1. call[q].fn = "put" => q \in met /\ torn[n]
        BY <1>2, <1>8, <1>10, <3>2, WriterIsKnown DEF IsPutting
      <4>2. IsReading(q) => q \in met
        BY <1>2, <1>8, <3>2, WriterIsKnown
      <4> QED
        BY <1>5, <2>1, <3>2, <4>1, <4>2
    <3>3. CASE call[q].path # n
      <4>1. ~IsPutting(p, call[q].path)'
        BY <1>6, <1>7, <1>10, <3>3 DEF IsPutting
      <4>2. content'[call[q].path] = content[call[q].path]
        BY <1>9, <3>1, <3>3
      <4>3. torn[call[q].path] \in BOOLEAN
        BY <1>1, <3>1 DEF FileTypes
      <4> QED
        BY <1>5, <4>1, <4>2, <4>3
    <3> QED
      BY <3>2, <3>3
  <2>2. Undisturbed(p, q)
    BY <1>5, <1>6, <1>10, <2>1 DEF Undisturbed
  <2> QED
    BY <1>1, <1>6, <1>10, <2>2, OtherStays
<1>11. StartsAfresh(p)' /\ ReadsWell(p)'
  BY <1>6, <1>7 DEF StartsAfresh, ReadsWell, IsReading
<1>12. WritesWell(p)'
  <2>1. n \in exists' /\ (p \in met' => torn'[n])
    BY <1>1, <1>2, <1>n, <1>5 DEF Fine, WritesWell
  <2>2. \A r \in Procs : r # p /\ IsPutting(r, n)' => p \in met'
    <3> SUFFICES ASSUME NEW r \in Procs, r # p, IsPutting(r, n)' PROVE p \in met
      BY <1>5
    <3>1. IsPutting(r, n)
      BY <1>2, <1>6, <1>7 DEF IsPutting
    <3> QED
      BY <1>2, <1>8, <3>1, WriterIsKnown
  <2>3. ASSUME p \notin met
        PROVE  WrittenSoFar(d, base[p], content'[n], torn[n])
    <3>1. WrittenSoFar(c, base[p], content[n], torn[n])
      BY <1>1, <1>2, <1>n, <2>3 DEF Fine, WritesWell
    <3>2. /\ Begun(c) \in Seq(Blocks) /\ Len(Begun(c)) = c.done /\ b \in Blocks
          /\ Begun(d) = Append(Begun(c), b)
      BY <1>2, BegunNext DEF d, b
    <3>3. content[n] \in Seq(Blocks)
      BY <1>1, <1>2 DEF FileTypes
    <3>4. Putting(n) = {p}
      <4>1. \A q \in Procs : IsPutting(q, n) => q = p
        BY <1>2, <1>8, <2>3, WriterIsKnown
      <4> QED
        BY <1>2, <1>8, <4>1, Putters DEF Putting
    <3>5. at = Len(content[n])
      <4>1. CASE c.app
        BY <1>n, <3>4, <4>1 DEF Positions
      <4>2. CASE ~c.app
        BY <1>n, <3>1, <3>2, <4>2 DEF Positions, WrittenSoFar
      <4> QED
        BY <4>1, <4>2
    <3>6. content'[n] = Append(content[n], b)
      BY <1>9, <3>2, <3>3, <3>5, WrittenAtEnd
    <3>7. ~c.app => content'[n] = Begun(d)
      BY <3>1, <3>2, <3>6 DEF WrittenSoFar
    <3>8. ASSUME c.app, ~torn[n]
          PROVE  \/ base[p] = Gone /\ content'[n] = Begun(d)
                 \/ base[p].is = "known" /\ content'[n] = base[p].content \o Begun(d)
      <4>1. CASE base[p] = Gone /\ content[n] = Begun(c)
        BY <3>2, <3>6, <4>1
      <4>2. CASE base[p].is = "known" /\ content[n] = base[p].content \o Begun(c)
        <5>1. base[p].content \in Seq(Blocks)
          BY <1>1, <4>2 DEF FileTypes, Values, Gone, Unknown
        <5>2. Append(base[p].content \o Begun(c), b) = base[p].content \o Append(Begun(c), b)
          BY <3>2, <5>1, AppendLater
        <5> QED
          BY <3>2, <3>6, <4>2, <5>2
      <4> QED
        BY <3>1, <3>8, <4>1, <4>2 DEF WrittenSoFar
    <3> QED
      BY <1>7, <3>1, <3>7, <3>8 DEF WrittenSoFar
  <2> QED
    BY <1>5, <1>6, <1>7, <2>1, <2>2, <2>3 DEF WritesWell
<1> QED
  BY <1>10, <1>11, <1>12 DEF Fine

\* The step before close() changes nothing that another process notices.
LEMMA PutCheckKeeps ==
    ASSUME FileInvariant, NEW p \in Procs, PutCheck(p)
    PROVE  \A q \in Procs : Fine(q)'
<1> DEFINE c == call[p]
           d == [c EXCEPT !.step = "close"]
<1>1. TypeOK /\ FileTypes /\ \A q \in Procs : Fine(q)
  BY FileParts
<1>2. c \in PutCalls /\ c.fn = "put"
  BY <1>1, PutCall DEF PutCheck
<1>3. /\ d.fn = "put" /\ d.path = c.path /\ d.app = c.app /\ d # Idle
      /\ d.text = c.text /\ d.done = c.done
  BY <1>2 DEF PutCalls, Idle
<1>4. call'[p] = d /\ \A q \in Procs \ {p} : call'[q] = call[q]
  BY <1>1 DEF PutCheck, GoesOn, FileTypes
<1>5. exists' = exists /\ content' = content /\ base' = base /\ met' = met /\ torn' = torn
  BY DEF PutCheck, disk, history
<1> HIDE DEF d
<1>6. \A q, r \in Procs : IsPutting(q, call[r].path) <=> (call'[q].fn = "put" /\ call'[q].path = call[r].path)
  BY <1>2, <1>3, <1>4 DEF IsPutting
<1>7. ASSUME NEW q \in Procs, q # p
      PROVE  Fine(q)'
  <2>1. call'[q] = call[q]
    BY <1>4, <1>7
  <2>2. IsPutting(p, call[q].path)' => IsPutting(p, call[q].path)
    BY <1>6, <1>7, <2>1 DEF IsPutting
  <2>3. call[q].fn = "put" \/ IsReading(q) => torn[call[q].path] \in BOOLEAN
    BY <1>1, PathIsName DEF FileTypes, IsReading
  <2>4. Undisturbed(p, q)
    BY <1>5, <2>1, <2>2, <2>3 DEF Undisturbed
  <2> QED
    BY <1>1, <1>4, <1>7, <2>4, OtherStays
<1>8. StartsAfresh(p)' /\ ReadsWell(p)'
  BY <1>3, <1>4 DEF StartsAfresh, ReadsWell, IsReading
<1>9. WritesWell(p)'
  <2>1. Begun(d) = Begun(c)
    BY <1>3 DEF Begun
  <2>2. \A s, b : \A x \in BOOLEAN : WrittenSoFar(c, b, s, x) => WrittenSoFar(d, b, s, x)
    BY <1>3, <2>1 DEF WrittenSoFar
  <2>3. torn[c.path] \in BOOLEAN
    BY <1>1, <1>2 DEF FileTypes, PutCalls
  <2>4. WritesWell(p)
    BY <1>1 DEF Fine
  <2>5. \A r \in Procs : r # p /\ call'[r].fn = "put" /\ call'[r].path = c.path => p \in met
    BY <1>2, <1>6, <2>4 DEF WritesWell
  <2> QED
    BY <1>2, <1>3, <1>4, <1>5, <2>2, <2>3, <2>4, <2>5 DEF WritesWell, IsPutting
<1> QED
  BY <1>7, <1>8, <1>9 DEF Fine

\* A process that has nothing open any more is fine.
LEMMA ClosedIsFine ==
    ASSUME FileTypes, NEW p \in Procs, NEW d, call' = [call EXCEPT ![p] = d],
           Closed(d) \/ d.fn = "got", d = Idle => p \notin met'
    PROVE  Fine(p)' /\ \A n : ~IsPutting(p, n)'
<1>1. call'[p] = d
  BY DEF FileTypes
<1>2. d.fn # "put" /\ ~(d.fn = "get" /\ d.step = "read") /\ (d.fn = "get" => d.data = <<>>)
  BY DEF Closed
<1> QED
  BY <1>1, <1>2 DEF Fine, StartsAfresh, WritesWell, ReadsWell, IsReading, IsPutting

LEMMA ClosesEffect ==
    ASSUME FileTypes, NEW p \in Procs, Closes(p)
    PROVE  p \notin met' /\ \A q \in Procs \ {p} : base'[q] = base[q] /\ (q \in met' <=> q \in met)
BY DEF Closes, FileTypes

LEMMA PutEndKeeps ==
    ASSUME FileInvariant, NEW p \in Procs, PutClose(p) \/ Breaks(p)
    PROVE  \A q \in Procs : Fine(q)'
<1> DEFINE c == call[p]
<1>1. TypeOK /\ FileTypes /\ \A q \in Procs : Fine(q)
  BY FileParts
<1>2. c \in PutCalls /\ c.fn = "put" /\ c.path \in Names
  BY <1>1, PutCall DEF PutClose, Breaks, PutCalls
<1>3. PICK n \in Names : n = c.path
  BY <1>2
<1>4. call' = [call EXCEPT ![p] = Idle] /\ Closes(p) /\ exists' = exists /\ content' = content
  BY DEF PutClose, Answers, Breaks, disk
<1>5. \/ torn' = [torn EXCEPT ![n] = TRUE]
      \/ torn' = torn
      \/ p \notin met /\ torn' = [torn EXCEPT ![n] = FALSE]
  BY <1>3 DEF PutClose, Breaks
<1>6. IsPutting(p, n)
  BY <1>2, <1>3 DEF IsPutting
<1>7. Fine(p)' /\ \A m : ~IsPutting(p, m)'
  BY <1>1, <1>4, ClosesEffect, ClosedIdle, ClosedIsFine
<1>8. ASSUME NEW q \in Procs, q # p
      PROVE  Fine(q)'
  <2>1. call'[q] = call[q] /\ base'[q] = base[q] /\ (q \in met' <=> q \in met)
    BY <1>1, <1>4, <1>8, ClosesEffect DEF FileTypes
  <2>2. ASSUME call[q].fn = "put"
        PROVE  (torn[call[q].path] => torn'[call[q].path]) /\ torn'[call[q].path] \in BOOLEAN
    <3>1. call[q].path \in Names
      BY <1>1, <2>2, PathIsName
    <3>2. call[q].path = n => p \in met
      BY <1>6, <1>8, <2>2, WriterIsKnown DEF IsPutting
    <3> QED
      BY <1>1, <1>5, <3>1, <3>2 DEF FileTypes
  <2>3. ASSUME IsReading(q)
        PROVE  \/ q \in met
               \/ (torn[call[q].path] => torn'[call[q].path]) /\ torn'[call[q].path] \in BOOLEAN
    <3>1. call[q].path \in Names
      BY <1>1, <2>3, PathIsName DEF IsReading
    <3>2. call[q].path = n => q \in met
      BY <1>6, <2>3, WriterIsKnown
    <3> QED
      BY <1>1, <1>5, <3>1, <3>2 DEF FileTypes
  <2>4. IsReading(q) => call[q].fn # "put"
    BY DEF IsReading
  <2>5. Undisturbed(p, q)
    BY <1>4, <1>7, <2>1, <2>2, <2>3, <2>4 DEF Undisturbed, IsPutting
  <2> QED
    BY <1>1, <1>4, <1>8, <2>5, OtherStays DEF FileTypes
<1> QED
  BY <1>7, <1>8

\* A step of p that no writer makes and that leaves the files alone.
LEMMA OthersStayFine ==
    ASSUME FileInvariant, NEW p \in Procs, NEW d, d.fn # "put",
           call' = [call EXCEPT ![p] = d],
           exists' = exists /\ content' = content /\ torn' = torn,
           \A q \in Procs \ {p} : base'[q] = base[q] /\ (q \in met' <=> q \in met)
    PROVE  \A q \in Procs \ {p} : Fine(q)'
<1>1. TypeOK /\ FileTypes /\ \A q \in Procs : Fine(q)
  BY FileParts
<1>2. call'[p] = d /\ \A q \in Procs \ {p} : call'[q] = call[q]
  BY <1>1 DEF FileTypes
<1> SUFFICES ASSUME NEW q \in Procs, q # p PROVE Fine(q)'
  OBVIOUS
<1>3. ~IsPutting(p, call[q].path)'
  BY <1>2 DEF IsPutting
<1>4. call[q].fn = "put" \/ IsReading(q) => torn[call[q].path] \in BOOLEAN
  BY <1>1, PathIsName DEF FileTypes, IsReading
<1>5. Undisturbed(p, q)
  BY <1>2, <1>3, <1>4 DEF Undisturbed
<1> QED
  BY <1>1, <1>2, <1>5, OtherStays

LEMMA StartsReadingKeeps ==
    ASSUME FileInvariant, NEW p \in Procs, StartsReading(p)
    PROVE  \A q \in Procs : Fine(q)'
<1> DEFINE c == call[p]
           d == [c EXCEPT !.step = "read"]
<1>1. TypeOK /\ FileTypes /\ \A q \in Procs : Fine(q)
  BY FileParts
<1>2. c \in GetCalls /\ c.path \in Names /\ c.path \in exists /\ c.data = <<>>
  <2>1. c.data = <<>>
    BY <1>1 DEF StartsReading, Fine, StartsAfresh
  <2> QED
    BY <1>1, <2>1, GetCall DEF StartsReading, GetCalls
<1>3. PICK n \in Names : n = c.path
  BY <1>2
<1>4. d.fn = "get" /\ d.step = "read" /\ d.path = n /\ d.data = <<>> /\ d # Idle
  BY <1>2, <1>3 DEF GetCalls, Idle
<1>5. /\ call' = [call EXCEPT ![p] = d]
      /\ exists' = exists /\ content' = content
      /\ torn' = torn /\ base' = [base EXCEPT ![p] = OnDisk(n)]
      /\ met' = met \cup (IF Putting(n) # {} THEN {p} ELSE {})
  BY <1>3 DEF StartsReading, Opens
<1> HIDE DEF d
<1>6. \A q \in Procs \ {p} : base'[q] = base[q] /\ (q \in met' <=> q \in met)
  BY <1>1, <1>5 DEF FileTypes
<1>7. \A q \in Procs \ {p} : Fine(q)'
  BY <1>4, <1>5, <1>6, OthersStayFine
<1>8. call'[p] = d /\ \A q \in Procs \ {p} : call'[q] = call[q]
  BY <1>1, <1>5 DEF FileTypes
<1>9. StartsAfresh(p)' /\ WritesWell(p)'
  BY <1>4, <1>8 DEF StartsAfresh, WritesWell
<1>10. ReadsWell(p)'
  <2>1. Len(d.data) = 0
    BY <1>4
  <2>2. content[n] \in Seq(Blocks) /\ Len(content[n]) \in Nat
    BY <1>1 DEF FileTypes
  <2>3. SubSeq(content[n], 1, 0) = <<>>
    BY <2>2, SubSeqEmpty
  <2>4. ReadSoFar(d, content[n])
    BY <1>4, <2>1, <2>2, <2>3 DEF ReadSoFar
  <2>5. p \notin met' => \A r \in Procs : ~IsPutting(r, n)'
    <3> SUFFICES ASSUME p \notin met', NEW r \in Procs, IsPutting(r, n)' PROVE FALSE
      OBVIOUS
    <3>1. r # p
      BY <1>4, <1>8 DEF IsPutting
    <3>2. IsPutting(r, n)
      BY <1>8, <3>1 DEF IsPutting
    <3> QED
      BY <1>5, <3>2, Putters
  <2> QED
    BY <1>2, <1>3, <1>4, <1>5, <1>8, <2>4, <2>5 DEF ReadsWell
<1> QED
  BY <1>7, <1>9, <1>10 DEF Fine

LEMMA GetReadKeeps ==
    ASSUME FileInvariant, NEW p \in Procs, GetRead(p)
    PROVE  \A q \in Procs : Fine(q)'
<1> DEFINE c == call[p]
           k == Len(c.data)
           d == [c EXCEPT !.data = Append(@, content[c.path][Len(@) + 1])]
<1>1. TypeOK /\ FileTypes /\ \A q \in Procs : Fine(q)
  BY FileParts
<1>2. c \in GetCalls /\ c.step = "read" /\ c.path \in Names
  BY <1>1, GetCall DEF GetRead, GetCalls
<1>3. PICK n \in Names : n = c.path
  BY <1>2
<1>4. /\ d.fn = "get" /\ d.step = "read" /\ d.path = n /\ d # Idle
      /\ d.data = Append(c.data, content[n][k + 1])
  BY <1>2, <1>3 DEF GetCalls, Idle
<1>5. /\ call' = [call EXCEPT ![p] = d]
      /\ exists' = exists /\ content' = content /\ torn' = torn /\ base' = base /\ met' = met
  BY DEF GetRead, GoesOn, disk, history
<1>6. k < Len(content[n])
  BY <1>3 DEF GetRead
<1> HIDE DEF d
<1>7. \A q \in Procs \ {p} : Fine(q)'
  BY <1>4, <1>5, OthersStayFine
<1>8. call'[p] = d /\ \A q \in Procs \ {p} : call'[q] = call[q]
  BY <1>1, <1>5 DEF FileTypes
<1>9. StartsAfresh(p)' /\ WritesWell(p)'
  BY <1>4, <1>8 DEF StartsAfresh, WritesWell
<1>10. IsReading(p) /\ ReadsWell(p)
  BY <1>1, <1>2 DEF Fine, IsReading, GetCalls
<1>11. ReadsWell(p)'
  <2>1. content[n] \in Seq(Blocks) /\ c.data \in Seq(Blocks) /\ k \in Nat
    BY <1>1, <1>2 DEF FileTypes, GetCalls
  <2>2. ASSUME p \notin met
        PROVE  ReadSoFar(d, content[n])
    <3> DEFINE s == content[n]
    <3>1. c.data = SubSeq(s, 1, k)
      BY <1>3, <1>10, <2>2 DEF ReadsWell, ReadSoFar
    <3>2. k + 1 \in 1..Len(s) /\ (k + 1) - 1 = k /\ 1 \in 1..Len(s) /\ k + 1 \in 1..Len(s)
      BY <1>6, <2>1
    <3> HIDE DEF s
    <3>3. s \in Seq(Blocks)
      BY <2>1 DEF s
    <3>4. SubSeq(s, 1, k + 1) = SubSeq(s, 1, k) \o <<s[k + 1]>>
      BY <3>2, <3>3, SubSeqRecursiveSecond
    <3>5. s[k + 1] \in Blocks
      BY <3>2, <3>3
    <3>6. Append(c.data, s[k + 1]) = c.data \o <<s[k + 1]>>
      BY <2>1, <3>5, AppendIsConcat
    <3>7. d.data = Append(c.data, s[k + 1])
      BY <1>4 DEF s
    <3>8. Len(Append(c.data, s[k + 1])) = k + 1
      BY <2>1, <3>5
    <3>9. k + 1 <= Len(s)
      BY <3>2
    <3>10. d.data = SubSeq(s, 1, Len(d.data)) /\ Len(d.data) <= Len(s)
      BY <3>1, <3>4, <3>6, <3>7, <3>8, <3>9
    <3> QED
      BY <3>10 DEF ReadSoFar, s
  <2>3. n \in exists
    BY <1>3, <1>10 DEF ReadsWell
  <2>4. p \notin met => \A r \in Procs : ~IsPutting(r, n)'
    <3> SUFFICES ASSUME p \notin met, NEW r \in Procs, IsPutting(r, n)' PROVE FALSE
      OBVIOUS
    <3>1. IsPutting(r, n)
      BY <1>4, <1>8 DEF IsPutting
    <3> QED
      BY <1>3, <1>10, <3>1 DEF ReadsWell
  <2> QED
    BY <1>4, <1>5, <1>8, <2>2, <2>3, <2>4 DEF ReadsWell
<1> QED
  BY <1>7, <1>9, <1>11 DEF Fine

LEMMA StopsOrQuietKeeps ==
    ASSUME FileInvariant, NEW p \in Procs,
           StopsReading(p) \/ \E d \in Calls : Quiet(p, d)
    PROVE  \A q \in Procs : Fine(q)'
<1>1. TypeOK /\ FileTypes /\ \A q \in Procs : Fine(q)
  BY FileParts
<1>2. CASE StopsReading(p)
  <2>1. Result(p).fn = "got" /\ Result(p) # Idle
    BY DEF Result, Idle
  <2>2. /\ call' = [call EXCEPT ![p] = Result(p)] /\ Closes(p)
        /\ exists' = exists /\ content' = content /\ torn' = torn
    BY <1>2 DEF StopsReading
  <2> DEFINE d == Result(p)
  <2> HIDE DEF d
  <2>3. d.fn # "put" /\ call' = [call EXCEPT ![p] = d]
    BY <2>1, <2>2 DEF d
  <2>4. \A q \in Procs \ {p} : base'[q] = base[q] /\ (q \in met' <=> q \in met)
    BY <1>1, <2>2, ClosesEffect
  <2>5. \A q \in Procs \ {p} : Fine(q)'
    BY <2>2, <2>3, <2>4, OthersStayFine
  <2>6. d.fn = "got" /\ d # Idle
    BY <2>1 DEF d
  <2>7. Fine(p)'
    BY <1>1, <2>3, <2>6, ClosedIsFine
  <2> QED
    BY <2>5, <2>7
<1>3. CASE \E d \in Calls : Quiet(p, d)
  <2>1. PICK d \in Calls : Quiet(p, d)
    BY <1>3
  <2>2. /\ call' = [call EXCEPT ![p] = d] /\ Closed(d) /\ d.fn # "put"
        /\ exists' = exists /\ content' = content /\ torn' = torn
    BY <2>1 DEF Quiet, Closed
  <2>3. \A q \in Procs \ {p} : base'[q] = base[q] /\ (q \in met' <=> q \in met)
    BY <1>1, <2>1, ClosesEffect DEF Quiet
  <2>4. d = Idle => p \notin met'
    BY <1>1, <2>1, ClosesEffect DEF Quiet
  <2>5. \A q \in Procs \ {p} : Fine(q)'
    BY <2>2, <2>3, OthersStayFine
  <2>6. Fine(p)'
    BY <1>1, <2>2, <2>4, ClosedIsFine
  <2> QED
    BY <2>5, <2>6
<1> QED
  BY <1>2, <1>3

LEMMA DeletesKeeps ==
    ASSUME FileInvariant, NEW p \in Procs, Deletes(p)
    PROVE  \A q \in Procs : Fine(q)'
<1>1. TypeOK /\ FileTypes /\ \A q \in Procs : Fine(q)
  BY FileParts
<1>2. call[p].path \in Names
  BY <1>1, PathIsName DEF Deletes
<1>3. PICK n \in Names : n = call[p].path
  BY <1>2
<1>4. /\ call' = [call EXCEPT ![p] = Idle] /\ Closes(p) /\ Open(n) = {}
      /\ exists' = exists \ {n} /\ content' = [content EXCEPT ![n] = <<>>]
      /\ torn' = [torn EXCEPT ![n] = FALSE]
  BY <1>3 DEF Deletes
<1>5. Fine(p)' /\ \A m : ~IsPutting(p, m)'
  BY <1>1, <1>4, ClosesEffect, ClosedIdle, ClosedIsFine
<1>6. ASSUME NEW q \in Procs, q # p
      PROVE  Fine(q)'
  <2>1. call'[q] = call[q] /\ base'[q] = base[q] /\ (q \in met' <=> q \in met)
    BY <1>1, <1>4, <1>6, ClosesEffect DEF FileTypes
  <2>2. ASSUME call[q].fn = "put" \/ IsReading(q)
        PROVE  /\ call[q].path \in exists => call[q].path \in exists'
               /\ content'[call[q].path] = content[call[q].path]
               /\ torn'[call[q].path] = torn[call[q].path]
               /\ torn[call[q].path] \in BOOLEAN
    <3>1. call[q].path \in Names
      BY <1>1, <2>2, PathIsName DEF IsReading
    <3>2. call[q].path # n
      BY <1>4, <2>2, Putters DEF IsPutting
    <3> QED
      BY <1>1, <1>4, <3>1, <3>2 DEF FileTypes
  <2>3. ~IsPutting(p, call[q].path)'
    BY <1>5
  <2>4. Undisturbed(p, q)
    BY <2>1, <2>2, <2>3 DEF Undisturbed
  <2> QED
    BY <1>1, <1>4, <1>6, <2>4, OtherStays DEF FileTypes
<1> QED
  BY <1>5, <1>6

LEMMA FineIsKept ==
    ASSUME FileInvariant, NEW p \in Procs, FileStep(p)
    PROVE  \A q \in Procs : Fine(q)'
BY PutOpenKeeps, PutWriteKeeps, PutCheckKeeps, PutEndKeeps, StartsReadingKeeps, GetReadKeeps,
   StopsOrQuietKeeps, DeletesKeeps DEF FileStep

LEMMA InitFiles == Init => FileInvariant
<1> SUFFICES ASSUME Init PROVE FileInvariant
  OBVIOUS
<1>1. ASSUME NEW q \in Procs PROVE Fine(q)
  BY DEF Init, Fine, StartsAfresh, WritesWell, ReadsWell, IsReading, Idle
<1> QED
  BY <1>1, InitRaces DEF FileInvariant

LEMMA FileInvariantIsKept == FileInvariant /\ [Next]_vars => FileInvariant'
<1> SUFFICES ASSUME FileInvariant, [Next]_vars PROVE FileInvariant'
  OBVIOUS
<1>1. RaceInvariant'
  BY RaceInvariantIsKept DEF FileInvariant
<1>2. CASE UNCHANGED vars
  <2>1. /\ exists' = exists /\ content' = content /\ call' = call
        /\ base' = base /\ met' = met /\ torn' = torn
    BY <1>2 DEF vars, disk, history
  <2>2. ASSUME NEW q \in Procs PROVE Fine(q)'
    <3>1. Fine(q)
      BY DEF FileInvariant
    <3> QED
      BY <2>1, <3>1 DEF Fine, StartsAfresh, WritesWell, ReadsWell, IsReading, IsPutting
  <2> QED
    BY <1>1, <2>2 DEF FileInvariant
<1>3. CASE Next
  <2>1. PICK p \in Procs : Stepping(p)
    BY <1>3, NextIsStepping
  <2>2. FileStep(p)
    BY <2>1, FileStepShape
  <2>3. \A q \in Procs : Fine(q)'
    BY <2>2, FineIsKept
  <2> QED
    BY <1>1, <2>3 DEF FileInvariant
<1> QED
  BY <1>2, <1>3

------------------------------------------------------------------------------
\* What a step does to what is stored, and to what was read.

Sees(q) == IF call[q].fn = "got" /\ call[q].sure THEN Known(call[q].data) ELSE Unknown

StoredStays(n) == Stored(n)' = Stored(n)
SeesStays(q)   == Sees(q)' = Sees(q)

\* What is stored in n depends on its writers, on what they found, and, if it has
\* none, on the disk.
LEMMA StoredKept ==
    ASSUME NEW n \in Names, torn'[n] = torn[n],
           \A q \in Procs : IsPutting(q, n)' <=> IsPutting(q, n),
           \A q \in Procs : IsPutting(q, n) => base'[q] = base[q],
           \/ \E q \in Procs : IsPutting(q, n)
           \/ (n \in exists' <=> n \in exists) /\ content'[n] = content[n]
    PROVE  StoredStays(n)
<1>1. Putting(n)' = Putting(n)
  <2>1. \A q \in Procs : q \in Putting(n)' <=> IsPutting(q, n)'
    BY DEF Putting, IsPutting
  <2>2. Putting(n)' \subseteq Procs /\ Putting(n) \subseteq Procs
    BY DEF Putting
  <2> QED
    BY <2>1, <2>2, Putters
<1>2. CASE torn[n]
  BY <1>2 DEF StoredStays, Stored, OnDisk, Unknown
<1>3. CASE ~torn[n] /\ Putting(n) = {}
  <2>1. (n \in exists' <=> n \in exists) /\ content'[n] = content[n]
    BY <1>3, Putters
  <2> QED
    BY <1>1, <1>3, <2>1 DEF StoredStays, Stored, OnDisk, Gone, Known
<1>4. CASE ~torn[n] /\ Putting(n) # {}
  <2> DEFINE w == CHOOSE q \in Putting(n) : TRUE
  <2>1. w \in Putting(n) /\ w \in Procs
    BY <1>4 DEF Putting
  <2>2. Stored(n) = base[w] /\ Stored(n)' = base'[w]
    BY <1>1, <1>4 DEF Stored
  <2> HIDE DEF w
  <2>3. base'[w] = base[w]
    BY <2>1, Putters
  <2> QED
    BY <2>2, <2>3 DEF StoredStays
<1> QED
  BY <1>2, <1>3, <1>4

LEMMA StoredOfTorn ==
    ASSUME NEW n \in Names
    PROVE  (torn[n] => Stored(n) = Unknown) /\ (torn'[n] => Stored(n)' = Unknown)
BY DEF Stored, OnDisk, Unknown

\* A step of p that is about n leaves the other files alone.
LEMMA OtherFilesStay ==
    ASSUME FileTypes, NEW p \in Procs, NEW n \in Names, NEW d,
           call' = [call EXCEPT ![p] = d],
           \A m \in Names \ {n} : ~IsPutting(p, m) /\ ~(d.fn = "put" /\ d.path = m),
           \A q \in Procs \ {p} : base'[q] = base[q],
           \A m \in Names \ {n} : /\ torn'[m] = torn[m] /\ content'[m] = content[m]
                                  /\ m \in exists' <=> m \in exists
    PROVE  \A m \in Names \ {n} : StoredStays(m)
<1> SUFFICES ASSUME NEW m \in Names \ {n} PROVE StoredStays(m)
  OBVIOUS
<1>1. call'[p] = d /\ \A q \in Procs \ {p} : call'[q] = call[q]
  BY DEF FileTypes
<1>2. \A q \in Procs : IsPutting(q, m)' <=> IsPutting(q, m)
  BY <1>1 DEF IsPutting
<1>3. \A q \in Procs : IsPutting(q, m) => base'[q] = base[q]
  OBVIOUS
<1> QED
  BY <1>2, <1>3, StoredKept

\* A step of p that no writer makes and that leaves the disk alone.
LEMMA AllFilesStay ==
    ASSUME FileTypes, NEW p \in Procs, NEW d, d.fn # "put", call[p].fn # "put",
           call' = [call EXCEPT ![p] = d],
           exists' = exists /\ content' = content /\ torn' = torn,
           \A q \in Procs \ {p} : base'[q] = base[q]
    PROVE  \A m \in Names : StoredStays(m)
<1> SUFFICES ASSUME NEW m \in Names PROVE StoredStays(m)
  OBVIOUS
<1>1. call'[p] = d /\ \A q \in Procs \ {p} : call'[q] = call[q]
  BY DEF FileTypes
<1>2. \A q \in Procs : IsPutting(q, m)' <=> IsPutting(q, m)
  BY <1>1 DEF IsPutting
<1>3. \A q \in Procs : IsPutting(q, m) => base'[q] = base[q]
  BY DEF IsPutting
<1> QED
  BY <1>2, <1>3, StoredKept

LEMMA AllSeeTheSame ==
    ASSUME FileTypes, NEW p \in Procs, NEW d, d.fn # "got", call[p].fn # "got",
           call' = [call EXCEPT ![p] = d]
    PROVE  \A q \in Procs : SeesStays(q)
<1>1. call'[p] = d /\ \A q \in Procs \ {p} : call'[q] = call[q]
  BY DEF FileTypes
<1> QED
  BY <1>1 DEF SeesStays, Sees

LEMMA OthersSeeTheSame ==
    ASSUME FileTypes, NEW p \in Procs, NEW d, call' = [call EXCEPT ![p] = d]
    PROVE  call'[p] = d /\ \A q \in Procs \ {p} : SeesStays(q)
<1>1. call'[p] = d /\ \A q \in Procs \ {p} : call'[q] = call[q]
  BY DEF FileTypes
<1> QED
  BY <1>1 DEF SeesStays, Sees

------------------------------------------------------------------------------
\* Such changes are steps of the contract.

LEMMA SameValues ==
    /\ Store!Gone = Gone /\ Store!Unknown = Unknown
    /\ \A s : Store!Known(s) = Known(s)
BY DEF Store!Gone, Gone, Store!Unknown, Unknown, Store!Known, Known

LEMMA MapsToStutter ==
    ASSUME \A n \in Names : StoredStays(n), \A q \in Procs : SeesStays(q)
    PROVE  UNCHANGED Store!vars
BY DEF StoredStays, SeesStays, Sees, Store!vars

StoreIs(n, v) == Stored(n)' = v /\ \A m \in Names \ {n} : StoredStays(m)

LEMMA MapsToStore ==
    ASSUME NEW n \in Names, NEW v, StoreIs(n, v)
    PROVE  [m \in Names |-> Stored(m)]' = [[m \in Names |-> Stored(m)] EXCEPT ![n] = v]
BY DEF StoreIs, StoredStays

LEMMA MapsToSpoil ==
    ASSUME NEW n \in Names, StoreIs(n, Unknown), \A q \in Procs : SeesStays(q)
    PROVE  Store!Spoil(n)
<1>1. [m \in Names |-> Stored(m)]' = [[m \in Names |-> Stored(m)] EXCEPT ![n] = Store!Unknown]
  BY MapsToStore, SameValues
<1> QED
  BY <1>1 DEF Store!Spoil, SeesStays, Sees

LEMMA MapsToRemove ==
    ASSUME NEW n \in Names, StoreIs(n, Gone), \A q \in Procs : SeesStays(q)
    PROVE  Store!Remove(n)
<1>1. [m \in Names |-> Stored(m)]' = [[m \in Names |-> Stored(m)] EXCEPT ![n] = Store!Gone]
  BY MapsToStore, SameValues
<1> QED
  BY <1>1 DEF Store!Remove, SeesStays, Sees

LEMMA MapsToPut ==
    ASSUME NEW n \in Names, NEW s, \A q \in Procs : SeesStays(q),
           \/ StoreIs(n, Known(s))
           \/ StoreIs(n, Store!Appended(Stored(n), s))
    PROVE  Store!Put(n, s)
<1> DEFINE st == [m \in Names |-> Stored(m)]
<1>1. CASE StoreIs(n, Known(s))
  <2>1. [m \in Names |-> Stored(m)]' = [[m \in Names |-> Stored(m)] EXCEPT ![n] = Store!Known(s)]
    BY <1>1, MapsToStore, SameValues
  <2> QED
    BY <2>1 DEF Store!Put, SeesStays, Sees
<1>2. CASE StoreIs(n, Store!Appended(Stored(n), s))
  <2>1. [m \in Names |-> Stored(m)]'
          = [[m \in Names |-> Stored(m)] EXCEPT ![n] = Store!Appended(Stored(n), s)]
    BY <1>2, MapsToStore
  <2>2. st[n] = Stored(n)
    OBVIOUS
  <2>3. [m \in Names |-> Stored(m)]' = [st EXCEPT ![n] = Store!Appended(st[n], s)]
    BY <2>1, <2>2
  <2> QED
    BY <2>3 DEF Store!Put, SeesStays, Sees
<1> QED
  BY <1>1, <1>2

LEMMA MapsToGet ==
    ASSUME NEW p \in Procs, NEW n \in Names, Sees(p)' \in {Stored(n), Unknown},
           \A m \in Names : StoredStays(m), \A q \in Procs \ {p} : SeesStays(q)
    PROVE  Store!Get(p, n)
<1> DEFINE st == [m \in Names |-> Stored(m)]
           se == [q \in Procs |-> Sees(q)]
<1>1. st[n] = Stored(n)
  OBVIOUS
<1>2. [q \in Procs |-> Sees(q)]' = [se EXCEPT ![p] = Sees(p)']
  BY DEF SeesStays
<1>3. Sees(p)' \in {st[n], Store!Unknown}
  BY <1>1, SameValues
<1>4. \E v \in {st[n], Store!Unknown} : [q \in Procs |-> Sees(q)]' = [se EXCEPT ![p] = v]
  BY <1>2, <1>3
<1>5. [m \in Names |-> Stored(m)]' = st
  BY DEF StoredStays
<1> QED
  BY <1>4, <1>5 DEF Store!Get, Sees

------------------------------------------------------------------------------
\* Every step is one of the contract or changes nothing in it.

Maps == UNCHANGED Store!vars \/ \E n \in Names : Store!Spoil(n) \/ Store!Remove(n)
            \/ (\E t \in Texts : Store!Put(n, TextOf(t)))
            \/ (\E p \in Procs : Store!Get(p, n))

LEMMA PutOpenMaps ==
    ASSUME FileInvariant, NEW p \in Procs, NEW n \in Names, NEW t \in Texts, NEW app \in BOOLEAN,
           PutOpen(p, n, t, app)
    PROVE  Maps
<1> DEFINE c == [fn |-> "put", step |-> "write", path |-> n, text |-> t, app |-> app, done |-> 0]
<1>1. FileTypes
  BY FileParts
<1>2. /\ call[p] = Idle /\ call' = [call EXCEPT ![p] = c]
      /\ exists' = exists \cup {n}
      /\ content' = [content EXCEPT ![n] = OpenedContent(n, app)]
      /\ base' = [base EXCEPT ![p] = OnDisk(n)]
      /\ torn' = IF Putting(n) # {} THEN [torn EXCEPT ![n] = TRUE] ELSE torn
  BY DEF PutOpen, Free, Begins, Opens
<1>3. c.fn = "put" /\ c.path = n
  OBVIOUS
<1> HIDE DEF c
<1>4. call'[p] = c /\ \A q \in Procs \ {p} : call'[q] = call[q]
  BY <1>1, <1>2 DEF FileTypes
<1>5. \A q \in Procs : SeesStays(q)
  <2>1. call[p].fn # "got" /\ c.fn # "got"
    BY <1>2, <1>3 DEF Idle
  <2> QED
    BY <1>1, <1>2, <2>1, AllSeeTheSame
<1>6. \A m \in Names \ {n} : StoredStays(m)
  <2>1. \A m \in Names \ {n} : ~IsPutting(p, m) /\ ~(c.fn = "put" /\ c.path = m)
    BY <1>2, <1>3 DEF IsPutting, Idle
  <2>2. \A q \in Procs \ {p} : base'[q] = base[q]
    BY <1>1, <1>2 DEF FileTypes
  <2>3. \A m \in Names \ {n} : /\ torn'[m] = torn[m] /\ content'[m] = content[m]
                               /\ m \in exists' <=> m \in exists
    BY <1>1, <1>2 DEF FileTypes
  <2> QED
    BY <1>1, <1>2, <2>1, <2>2, <2>3, OtherFilesStay
<1>7. CASE Putting(n) # {}
  <2>1. torn'[n]
    BY <1>1, <1>2, <1>7 DEF FileTypes
  <2>2. StoreIs(n, Unknown)
    BY <1>6, <2>1, StoredOfTorn DEF StoreIs
  <2> QED
    BY <1>5, <2>2, MapsToSpoil DEF Maps
<1>8. CASE Putting(n) = {}
  <2>1. torn' = torn
    BY <1>2, <1>8
  <2>2. CASE torn[n]
    <3>1. StoredStays(n)
      BY <2>1, <2>2, StoredOfTorn DEF StoredStays
    <3> QED
      BY <1>5, <1>6, <3>1, MapsToStutter DEF Maps
  <2>3. CASE ~torn[n]
    <3>1. Putting(n)' = {p}
      <4>1. \A q \in Procs : q \in Putting(n)' <=> q = p
        BY <1>3, <1>4, <1>8 DEF Putting
      <4> QED
        BY <4>1 DEF Putting
    <3>2. Stored(n)' = base'[p]
      BY <2>1, <2>3, <3>1 DEF Stored
    <3>3. base'[p] = OnDisk(n)
      BY <1>1, <1>2 DEF FileTypes
    <3>4. Stored(n) = OnDisk(n)
      BY <1>8 DEF Stored
    <3>5. StoredStays(n)
      BY <3>2, <3>3, <3>4 DEF StoredStays
    <3> QED
      BY <1>5, <1>6, <3>5, MapsToStutter DEF Maps
  <2> QED
    BY <2>2, <2>3
<1> QED
  BY <1>7, <1>8

\* The steps between open and close of a writer.
LEMMA PutOnMaps ==
    ASSUME FileInvariant, NEW p \in Procs, PutWrite(p) \/ PutCheck(p)
    PROVE  Maps
<1> DEFINE c == call[p]
<1>1. TypeOK /\ FileTypes
  BY FileParts
<1>2. c \in PutCalls /\ c.fn = "put" /\ c.path \in Names
  BY <1>1, PutCall DEF PutWrite, PutCheck, PutCalls
<1>3. PICK n \in Names : n = c.path
  BY <1>2
<1>4. PICK d : d.fn = "put" /\ d.path = n /\ call' = [call EXCEPT ![p] = d]
  <2>1. CASE PutWrite(p)
    <3> DEFINE d == [c EXCEPT !.done = @ + 1]
    <3>1. d.fn = "put" /\ d.path = n
      BY <1>2, <1>3 DEF PutCalls
    <3>2. call' = [call EXCEPT ![p] = d]
      BY <2>1 DEF PutWrite, GoesOn
    <3> QED
      BY <3>1, <3>2
  <2>2. CASE PutCheck(p)
    <3> DEFINE d == [c EXCEPT !.step = "close"]
    <3>1. d.fn = "put" /\ d.path = n
      BY <1>2, <1>3 DEF PutCalls
    <3>2. call' = [call EXCEPT ![p] = d]
      BY <2>2 DEF PutCheck, GoesOn
    <3> QED
      BY <3>1, <3>2
  <2> QED
    BY <2>1, <2>2
<1>5. exists' = exists /\ base' = base /\ torn' = torn
  BY DEF PutWrite, PutCheck, disk, history
<1>6. \A m \in Names \ {n} : content'[m] = content[m]
  BY <1>1, <1>2, <1>3 DEF PutWrite, PutCheck, disk, FileTypes
<1>7. call'[p] = d /\ \A q \in Procs \ {p} : call'[q] = call[q]
  BY <1>1, <1>4 DEF FileTypes
<1>8. \A q \in Procs : SeesStays(q)
  BY <1>1, <1>2, <1>4, AllSeeTheSame
<1>9. ASSUME NEW m \in Names PROVE StoredStays(m)
  <2>1. \A q \in Procs : IsPutting(q, m)' <=> IsPutting(q, m)
    BY <1>2, <1>3, <1>4, <1>7 DEF IsPutting
  <2>2. m = n => IsPutting(p, m)
    BY <1>2, <1>3 DEF IsPutting
  <2>3. (\E q \in Procs : IsPutting(q, m)) \/ content'[m] = content[m]
    BY <1>6, <2>2
  <2> QED
    BY <1>5, <2>1, <2>3, StoredKept
<1> QED
  BY <1>8, <1>9, MapsToStutter DEF Maps

\* What a writer leaves in its file when it closes it.
LEMMA WholeText ==
    ASSUME NEW c \in PutCalls, Flushed(c)
    PROVE  Begun(c) = TextOf(c.text) /\ TextOf(c.text) \in Seq(Blocks)
<1>1. c.text \in Texts
  BY DEF PutCalls
<1> DEFINE T == TextOf(c.text)
<1>2. T \in Seq(Blocks) /\ Len(T) = Pieces[c.text]
  BY <1>1, TextType
<1>3. Begun(c) = SubSeq(T, 1, c.done) /\ c.done = Pieces[c.text]
  BY DEF Begun, Flushed
<1> HIDE DEF T
<1>4. SubSeq(T, 1, Len(T)) = T
  BY <1>2, SubSeqFull
<1>5. Begun(c) = T
  BY <1>2, <1>3, <1>4
<1> QED
  BY <1>2, <1>5 DEF T

LEMMA PutCloseMaps ==
    ASSUME FileInvariant, NEW p \in Procs, PutClose(p)
    PROVE  Maps
<1> DEFINE c == call[p]
<1>1. TypeOK /\ FileTypes /\ Fine(p)
  BY FileParts
<1>2. c \in PutCalls /\ c.fn = "put" /\ c.path \in Names /\ Flushed(c)
  BY <1>1, PutCall DEF PutClose, PutCalls
<1>3. PICK n \in Names : n = c.path
  BY <1>2
<1>4. PICK t \in Texts : t = c.text
  BY <1>2 DEF PutCalls
<1>5. /\ call' = [call EXCEPT ![p] = Idle]
      /\ base' = [base EXCEPT ![p] = Gone]
      /\ exists' = exists /\ content' = content
      /\ torn' = IF p \in met \/ c.app THEN torn ELSE [torn EXCEPT ![n] = FALSE]
  BY <1>3 DEF PutClose, Answers, Closes, disk
<1>6. IsPutting(p, n) /\ n \in exists /\ (p \in met => torn[n])
  BY <1>1, <1>2, <1>3 DEF IsPutting, Fine, WritesWell
<1>7. call'[p] = Idle /\ \A q \in Procs \ {p} : call'[q] = call[q]
  BY <1>1, <1>5 DEF FileTypes
<1>8. \A q \in Procs : SeesStays(q)
  <2>1. Idle.fn # "got" /\ call[p].fn # "got"
    BY <1>2 DEF Idle
  <2> QED
    BY <1>1, <1>5, <2>1, AllSeeTheSame
<1>9. \A m \in Names \ {n} : StoredStays(m)
  <2>1. \A m \in Names \ {n} : ~IsPutting(p, m) /\ ~(Idle.fn = "put" /\ Idle.path = m)
    BY <1>3 DEF IsPutting, Idle
  <2>2. \A q \in Procs \ {p} : base'[q] = base[q]
    BY <1>1, <1>5 DEF FileTypes
  <2>3. \A m \in Names \ {n} : /\ torn'[m] = torn[m] /\ content'[m] = content[m]
                               /\ m \in exists' <=> m \in exists
    BY <1>1, <1>5 DEF FileTypes
  <2> QED
    BY <1>1, <1>5, <2>1, <2>2, <2>3, OtherFilesStay
<1>10. CASE torn[n] /\ (p \in met \/ c.app)
  <2>1. StoredStays(n)
    BY <1>5, <1>10, StoredOfTorn DEF StoredStays
  <2> QED
    BY <1>8, <1>9, <2>1, MapsToStutter DEF Maps
<1>11. CASE p \notin met /\ ~(torn[n] /\ c.app)
  <2>1. \A q \in Procs : IsPutting(q, n) => q = p
    BY <1>6, <1>11, WriterIsKnown
  <2>2. Putting(n)' = {}
    BY <1>7, <2>1 DEF Putting, IsPutting, Idle
  <2>3. ~torn'[n]
    BY <1>1, <1>5, <1>11 DEF FileTypes
  <2>4. Stored(n)' = Known(content[n])
    BY <1>5, <1>6, <2>2, <2>3 DEF Stored, OnDisk, Known
  <2>5. WrittenSoFar(c, base[p], content[n], torn[n])
    BY <1>1, <1>2, <1>3, <1>11 DEF Fine, WritesWell
  <2>6. Begun(c) = TextOf(t)
    BY <1>2, <1>4, WholeText
  <2>7. CASE ~c.app
    <3>1. Stored(n)' = Known(TextOf(t))
      BY <2>4, <2>5, <2>6, <2>7 DEF WrittenSoFar
    <3>2. StoreIs(n, Known(TextOf(t)))
      BY <1>9, <3>1 DEF StoreIs
    <3> QED
      BY <1>8, <3>2, MapsToPut DEF Maps
  <2>8. CASE c.app
    <3>1. ~torn[n]
      BY <1>11, <2>8
    <3>2. Stored(n) = base[p]
      <4>1. Putting(n) = {p}
        BY <1>6, <2>1, Putters DEF Putting
      <4> QED
        BY <3>1, <4>1 DEF Stored
    <3>3. Stored(n)' = Store!Appended(base[p], TextOf(t))
      <4>1. CASE base[p] = Gone /\ content[n] = Begun(c)
        BY <2>4, <2>6, <4>1, SameValues DEF Store!Appended, Gone
      <4>2. CASE base[p].is = "known" /\ content[n] = base[p].content \o Begun(c)
        BY <2>4, <2>6, <4>2, SameValues DEF Store!Appended
      <4> QED
        BY <2>5, <2>8, <3>1, <4>1, <4>2 DEF WrittenSoFar
    <3>4. StoreIs(n, Store!Appended(Stored(n), TextOf(t)))
      BY <1>9, <3>2, <3>3 DEF StoreIs
    <3> QED
      BY <1>8, <3>4, MapsToPut DEF Maps
  <2> QED
    BY <2>7, <2>8
<1> QED
  BY <1>6, <1>10, <1>11

LEMMA BreaksMaps ==
    ASSUME FileInvariant, NEW p \in Procs, Breaks(p)
    PROVE  Maps
<1> DEFINE c == call[p]
<1>1. TypeOK /\ FileTypes
  BY FileParts
<1>2. c.fn = "put" /\ c.path \in Names
  BY <1>1, PathIsName DEF Breaks
<1>3. PICK n \in Names : n = c.path
  BY <1>2
<1>4. /\ call' = [call EXCEPT ![p] = Idle]
      /\ base' = [base EXCEPT ![p] = Gone]
      /\ exists' = exists /\ content' = content
      /\ torn' = [torn EXCEPT ![n] = TRUE]
  BY <1>3 DEF Breaks, Closes
<1>5. \A q \in Procs : SeesStays(q)
  <2>1. Idle.fn # "got" /\ call[p].fn # "got"
    BY <1>2 DEF Idle
  <2> QED
    BY <1>1, <1>4, <2>1, AllSeeTheSame
<1>6. \A m \in Names \ {n} : StoredStays(m)
  <2>1. \A m \in Names \ {n} : ~IsPutting(p, m) /\ ~(Idle.fn = "put" /\ Idle.path = m)
    BY <1>3 DEF IsPutting, Idle
  <2>2. \A q \in Procs \ {p} : base'[q] = base[q]
    BY <1>1, <1>4 DEF FileTypes
  <2>3. \A m \in Names \ {n} : /\ torn'[m] = torn[m] /\ content'[m] = content[m]
                               /\ m \in exists' <=> m \in exists
    BY <1>1, <1>4 DEF FileTypes
  <2> QED
    BY <1>1, <1>4, <2>1, <2>2, <2>3, OtherFilesStay
<1>7. torn'[n]
  BY <1>1, <1>4 DEF FileTypes
<1>8. StoreIs(n, Unknown)
  BY <1>6, <1>7, StoredOfTorn DEF StoreIs
<1> QED
  BY <1>5, <1>8, MapsToSpoil DEF Maps

LEMMA DeletesMaps ==
    ASSUME FileInvariant, NEW p \in Procs, Deletes(p)
    PROVE  Maps
<1> DEFINE c == call[p]
<1>1. TypeOK /\ FileTypes
  BY FileParts
<1>2. c.fn = "remove" /\ c.path \in Names
  BY <1>1, PathIsName DEF Deletes
<1>3. PICK n \in Names : n = c.path
  BY <1>2
<1>4. /\ call' = [call EXCEPT ![p] = Idle]
      /\ base' = [base EXCEPT ![p] = Gone]
      /\ exists' = exists \ {n} /\ content' = [content EXCEPT ![n] = <<>>]
      /\ torn' = [torn EXCEPT ![n] = FALSE]
      /\ Open(n) = {}
  BY <1>3 DEF Deletes, Closes
<1>5. \A q \in Procs : SeesStays(q)
  <2>1. Idle.fn # "got" /\ call[p].fn # "got"
    BY <1>2 DEF Idle
  <2> QED
    BY <1>1, <1>4, <2>1, AllSeeTheSame
<1>6. \A m \in Names \ {n} : StoredStays(m)
  <2>1. \A m \in Names \ {n} : ~IsPutting(p, m) /\ ~(Idle.fn = "put" /\ Idle.path = m)
    BY <1>2 DEF IsPutting, Idle
  <2>2. \A q \in Procs \ {p} : base'[q] = base[q]
    BY <1>1, <1>4 DEF FileTypes
  <2>3. \A m \in Names \ {n} : /\ torn'[m] = torn[m] /\ content'[m] = content[m]
                               /\ m \in exists' <=> m \in exists
    BY <1>1, <1>4 DEF FileTypes
  <2> QED
    BY <1>1, <1>4, <2>1, <2>2, <2>3, OtherFilesStay
<1>7. call'[p] = Idle /\ \A q \in Procs \ {p} : call'[q] = call[q]
  BY <1>1, <1>4 DEF FileTypes
<1>8. Putting(n)' = {}
  BY <1>4, <1>7 DEF Open, Putting, Idle
<1>9. n \notin exists' /\ ~torn'[n]
  BY <1>1, <1>4 DEF FileTypes
<1>10. Stored(n)' = Gone
  BY <1>8, <1>9 DEF Stored, OnDisk, Gone
<1>11. StoreIs(n, Gone)
  BY <1>6, <1>10 DEF StoreIs
<1> QED
  BY <1>5, <1>11, MapsToRemove DEF Maps

LEMMA ReadsMap ==
    ASSUME FileInvariant, NEW p \in Procs, StartsReading(p) \/ GetRead(p)
    PROVE  Maps
<1> DEFINE c == call[p]
<1>1. TypeOK /\ FileTypes
  BY FileParts
<1>2. c \in GetCalls /\ c.fn = "get"
  BY <1>1, GetCall DEF StartsReading, GetRead
<1>3. PICK d : d.fn = "get" /\ call' = [call EXCEPT ![p] = d]
  <2>1. CASE StartsReading(p)
    <3> DEFINE d == [c EXCEPT !.step = "read"]
    <3>1. d.fn = "get"
      BY <1>2 DEF GetCalls
    <3>2. call' = [call EXCEPT ![p] = d]
      BY <2>1 DEF StartsReading
    <3> QED
      BY <3>1, <3>2
  <2>2. CASE GetRead(p)
    <3> DEFINE d == [c EXCEPT !.data = Append(@, content[c.path][Len(@) + 1])]
    <3>1. d.fn = "get"
      BY <1>2 DEF GetCalls
    <3>2. call' = [call EXCEPT ![p] = d]
      BY <2>2 DEF GetRead, GoesOn
    <3> QED
      BY <3>1, <3>2
  <2> QED
    BY <2>1, <2>2
<1>4. /\ exists' = exists /\ content' = content /\ torn' = torn
      /\ \A q \in Procs \ {p} : base'[q] = base[q]
  BY <1>1 DEF StartsReading, GetRead, Opens, disk, history, FileTypes
<1>5. \A q \in Procs : SeesStays(q)
  BY <1>1, <1>2, <1>3, AllSeeTheSame
<1>6. \A m \in Names : StoredStays(m)
  BY <1>1, <1>2, <1>3, <1>4, AllFilesStay
<1> QED
  BY <1>5, <1>6, MapsToStutter DEF Maps

LEMMA StopsReadingMaps ==
    ASSUME FileInvariant, NEW p \in Procs, StopsReading(p)
    PROVE  Maps
<1> DEFINE c == call[p]
<1>1. TypeOK /\ FileTypes /\ Fine(p)
  BY FileParts
<1>2. c \in GetCalls /\ c.fn = "get" /\ c.path \in Names
  BY <1>1, GetCall DEF StopsReading, IsReading, GetCalls
<1>3. PICK n \in Names : n = c.path
  BY <1>2
<1>4. PICK d : d = Result(p)
  OBVIOUS
<1>5. /\ d.fn = "got" /\ d.data = c.data
      /\ d.sure <=> p \notin met /\ ~torn[n]
  BY <1>3, <1>4 DEF Result
<1>6. /\ call' = [call EXCEPT ![p] = d]
      /\ exists' = exists /\ content' = content /\ torn' = torn
      /\ \A q \in Procs \ {p} : base'[q] = base[q]
  BY <1>1, <1>4, ClosesEffect DEF StopsReading
<1>7. \A m \in Names : StoredStays(m)
  BY <1>1, <1>2, <1>5, <1>6, AllFilesStay
<1>8. call'[p] = d /\ \A q \in Procs \ {p} : SeesStays(q)
  BY <1>1, <1>6, OthersSeeTheSame
<1>9. CASE d.sure
  <2>1. p \notin met /\ ~torn[n]
    BY <1>5, <1>9
  <2>2. n \in exists /\ ReadSoFar(c, content[n]) /\ \A r \in Procs : ~IsPutting(r, n)
    BY <1>1, <1>3, <2>1 DEF StopsReading, Fine, ReadsWell
  <2>3. Putting(n) = {}
    BY <2>2, Putters DEF Putting
  <2>4. Stored(n) = Known(content[n])
    BY <2>1, <2>2, <2>3 DEF Stored, OnDisk
  <2>5. c.data = content[n]
    <3> DEFINE s == content[n]
    <3>1. s \in Seq(Blocks) /\ c.data \in Seq(Blocks)
      BY <1>1, <1>2 DEF FileTypes, GetCalls
    <3>2. Len(c.data) <= Len(s) /\ Len(c.data) >= Len(s) /\ c.data = SubSeq(s, 1, Len(c.data))
      BY <1>3, <2>2 DEF ReadSoFar, StopsReading, AtEnd
    <3> HIDE DEF s
    <3>3. Len(c.data) = Len(s)
      BY <3>1, <3>2
    <3>4. SubSeq(s, 1, Len(s)) = s
      BY <3>1, SubSeqFull
    <3>5. c.data = s
      BY <3>2, <3>3, <3>4
    <3> QED
      BY <3>5 DEF s
  <2>6. Sees(p)' = Known(c.data)
    BY <1>5, <1>8, <1>9 DEF Sees, Known
  <2>7. Sees(p)' \in {Stored(n), Unknown}
    BY <2>4, <2>5, <2>6
  <2> QED
    BY <1>7, <1>8, <2>7, MapsToGet DEF Maps
<1>10. CASE ~d.sure
  <2>1. Sees(p)' = Unknown
    BY <1>8, <1>10 DEF Sees, Unknown
  <2>2. Sees(p)' \in {Stored(n), Unknown}
    BY <2>1
  <2> QED
    BY <1>7, <1>8, <2>2, MapsToGet DEF Maps
<1> QED
  BY <1>9, <1>10

LEMMA QuietMaps ==
    ASSUME FileInvariant, NEW p \in Procs, NEW d \in Calls, Quiet(p, d)
    PROVE  Maps
<1>1. TypeOK /\ FileTypes
  BY FileParts
<1>2. /\ call' = [call EXCEPT ![p] = d] /\ call[p].fn # "put"
      /\ d.fn # "put" /\ d.fn # "got"
      /\ exists' = exists /\ content' = content /\ torn' = torn
  BY DEF Quiet, Closed
<1>3. \A q \in Procs \ {p} : base'[q] = base[q]
  BY <1>1, ClosesEffect DEF Quiet
<1>4. \A m \in Names : StoredStays(m)
  BY <1>1, <1>2, <1>3, AllFilesStay
<1>5. CASE call[p].fn # "got"
  <2>1. \A q \in Procs : SeesStays(q)
    BY <1>1, <1>2, <1>5, AllSeeTheSame
  <2> QED
    BY <1>4, <2>1, MapsToStutter DEF Maps
<1>6. CASE call[p].fn = "got"
  <2>1. call[p] \in GotCalls
    BY <1>1, <1>6, OtherCall
  <2>2. PICK n \in Names : n = call[p].path
    BY <2>1 DEF GotCalls
  <2>3. call'[p] = d /\ \A q \in Procs \ {p} : SeesStays(q)
    BY <1>1, <1>2, OthersSeeTheSame
  <2>4. Sees(p)' = Unknown
    BY <1>2, <2>3 DEF Sees, Unknown
  <2>5. Sees(p)' \in {Stored(n), Unknown}
    BY <2>4
  <2> QED
    BY <1>4, <2>3, <2>5, MapsToGet DEF Maps
<1> QED
  BY <1>5, <1>6

LEMMA StepMaps ==
    ASSUME FileInvariant, NEW p \in Procs, FileStep(p)
    PROVE  Maps
BY PutOpenMaps, PutOnMaps, PutCloseMaps, BreaksMaps, ReadsMap, StopsReadingMaps, DeletesMaps,
   QuietMaps DEF FileStep

LEMMA MapsIsNext == Maps => [Store!Next]_(Store!vars)
<1> SUFFICES ASSUME Maps, ~UNCHANGED Store!vars PROVE Store!Next
  OBVIOUS
<1>1. \A t \in Texts : TextOf(t) \in {TextOf(u) : u \in Texts}
  OBVIOUS
<1> QED
  BY <1>1 DEF Maps, Store!Next

LEMMA FileNextMaps == FileInvariant /\ [Next]_vars => [Store!Next]_(Store!vars)
<1> SUFFICES ASSUME FileInvariant, [Next]_vars PROVE [Store!Next]_(Store!vars)
  OBVIOUS
<1>1. CASE UNCHANGED vars
  <2>1. /\ exists' = exists /\ content' = content /\ call' = call
        /\ base' = base /\ met' = met /\ torn' = torn
    BY <1>1 DEF vars, disk, history
  <2>2. \A q \in Procs : SeesStays(q)
    BY <2>1 DEF SeesStays, Sees
  <2>3. ASSUME NEW n \in Names PROVE StoredStays(n)
    BY <2>1, StoredKept DEF IsPutting
  <2> QED
    BY <2>2, <2>3, MapsToStutter
<1>2. CASE Next
  <2>1. PICK p \in Procs : Stepping(p)
    BY <1>2, NextIsStepping
  <2> QED
    BY <2>1, FileStepShape, StepMaps, MapsIsNext
<1> QED
  BY <1>1, <1>2

LEMMA FileInitMaps == Init => Store!Init
<1> SUFFICES ASSUME Init PROVE Store!Init
  OBVIOUS
<1>1. ASSUME NEW n \in Names PROVE Stored(n) = Gone
  <2>1. Putting(n) = {}
    BY DEF Init, Putting, Idle
  <2> QED
    BY <2>1 DEF Init, Stored, OnDisk
<1>2. \A q \in Procs : call[q].fn # "got"
  BY DEF Init, Idle
<1> QED
  BY <1>1, <1>2, SameValues DEF Store!Init, Unknown

\* The calls of all processes together keep the contract of the files: each is one
\* step of it, at the moment its stream is closed, or none.
THEOREM FilesContractIsKept == Spec => KeepsFilesContract
<1>1. Spec => Store!Init /\ [][Store!Next]_(Store!vars)
  BY InitFiles, FileInvariantIsKept, FileInitMaps, FileNextMaps, PTL DEF Spec
<1> QED
  BY <1>1 DEF KeepsFilesContract, Store!Spec
==============================================================================
