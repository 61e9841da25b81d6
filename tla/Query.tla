-------------------------------- MODULE Query --------------------------------
(***************************************************************************)
(* What window.cefQuery promises a page, one request at a time: a request  *)
(* that was made waits; it hears answers only while it waits; a failure,   *)
(* or any answer to a request that is not persistent, is the last one; and *)
(* a request that the page gave up stays silent.                           *)
(***************************************************************************)
EXTENDS Sequences

CONSTANT Keys       \* what names a request

VARIABLES
    state,          \* key -> "new", "once" or "always" while it waits, "over"
    answers         \* key -> the answers it heard, TRUE for a success

vars == <<state, answers>>

IsWaiting(k) == state[k] \in {"once", "always"}

Init ==
    /\ state = [k \in Keys |-> "new"]
    /\ answers = [k \in Keys |-> <<>>]

\* cefQuery(), persistent or not.
Ask(k) ==
    /\ state[k] = "new"
    /\ \E how \in {"once", "always"} : state' = [state EXCEPT ![k] = how]
    /\ UNCHANGED answers

\* onSuccess or onFailure of the request is called.
Hear(k, ok) ==
    /\ IsWaiting(k)
    /\ answers' = [answers EXCEPT ![k] = Append(@, ok)]
    /\ state' = [state EXCEPT ![k] = IF ok /\ @ = "always" THEN @ ELSE "over"]

\* The page cancels the requests of S, or goes away with them.
GiveUp(S) ==
    /\ \A k \in S : IsWaiting(k)
    /\ state' = [k \in Keys |-> IF k \in S THEN "over" ELSE state[k]]
    /\ UNCHANGED answers

Next ==
    \/ \E k \in Keys : Ask(k) \/ \E ok \in BOOLEAN : Hear(k, ok)
    \/ \E S \in SUBSET Keys : GiveUp(S)

Spec == Init /\ [][Next]_vars
==============================================================================
