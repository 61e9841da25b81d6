---------------------------- MODULE MCQueryRouter ----------------------------
(***************************************************************************)
(* Small instances of QueryRouter.  Frames are numbered; the tables below  *)
(* place them.                                                             *)
(***************************************************************************)
EXTENDS QueryRouter

CONSTANTS b1, b2, p1, p2

\* One browser, one main frame: the whole protocol of a page.
OnePage     == 1..1
OneProc     == [f \in OnePage |-> p1]
OneHome     == [f \in OnePage |-> b1]

\* A browser with a main frame and a frame of another origin, in a process of its
\* own, whose ids are the same as those of the main frame.
TwoPages  == 1..2
SameHome  == [f \in TwoPages |-> b1]
TwoProcs  == [f \in TwoPages |-> IF f = 2 THEN p2 ELSE p1]

\* The same, and a second browser whose main frame shares the first process.
ThreePages  == 1..3
ThreeHomes  == [f \in ThreePages |-> IF f = 3 THEN b2 ELSE b1]
ThreeProcs  == [f \in ThreePages |-> IF f = 2 THEN p2 ELSE p1]
MainPages   == {1, 3}
==============================================================================
