------------------------------- MODULE Windows -------------------------------
(***************************************************************************)
(* What the program's windows promise the browser-side router, and what    *)
(* the router may rely on: it is made before a browser is listed, it is    *)
(* there as long as a browser is listed, and it goes together with the     *)
(* last listed browser.  A browser that is listed after that gets a new    *)
(* one; a browser is listed once.                                          *)
(***************************************************************************)
CONSTANT Browsers

VARIABLES
    listed,         \* the browsers in browser_list_
    past,           \* those that left it, or will never be in it
    router          \* message_router_ and its handler: "none", "up", "half"

vars == <<listed, past, router>>

Init == listed = {} /\ past = {} /\ router = "none"

\* OnAfterCreated.
Open(b) ==
    /\ b \notin listed \cup past
    /\ listed' = listed \cup {b}
    /\ router' = "up"
    /\ UNCHANGED past

\* OnBeforeClose; browsers whose creation depends on b are never listed.
Close(b) ==
    /\ b \in listed
    /\ listed' = listed \ {b}
    /\ \E lost \in SUBSET (Browsers \ listed) : past' = past \cup {b} \cup lost
    /\ router' = IF listed' = {} THEN "none" ELSE router

Next == \E b \in Browsers : Open(b) \/ Close(b)

Spec == Init /\ [][Next]_vars
==============================================================================
