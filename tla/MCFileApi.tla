------------------------------ MODULE MCFileApi ------------------------------
(***************************************************************************)
(* A small instance of FileApi: pages of two renderer processes write and  *)
(* read one file of one directory.  FileApi lets them append without end;  *)
(* here they append as long as the file stays small.                       *)
(***************************************************************************)
EXTENDS FileApi

CONSTANTS
    p1, p2, data, file, short, long,
    MaxBlocks       \* bound: no text is appended to a file beyond it

DataFolder == [x \in {data, file} |-> IF x = file THEN data ELSE AppPath]
TextPieces == [t \in {short, long} |-> IF t = short THEN 1 ELSE 2]

AppendsAreBounded ==
    \A p \in Procs :
        call[p] = Idle /\ call'[p].fn = "put" /\ call'[p].app
          => Len(content'[file]) + Pieces[call'[p].text] <= MaxBlocks

BoundedSpec == Init /\ [][Next /\ AppendsAreBounded]_vars /\ Fairness
==============================================================================
