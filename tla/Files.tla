-------------------------------- MODULE Files --------------------------------
(***************************************************************************)
(* What the pages may take the files of the data directory for: contents   *)
(* that change all at once.  Once calls disturbed each other, or one of    *)
(* them broke off, nothing is known of the file until it is written anew   *)
(* or removed.                                                             *)
(***************************************************************************)
EXTENDS Sequences

CONSTANTS
    Procs,          \* who reads
    Names,          \* the files
    Texts           \* what is written, as sequences of blocks

VARIABLES
    store,          \* file -> what is stored in it
    seen            \* process -> what it read last

vars == <<store, seen>>

Gone    == [is |-> "gone"]
Unknown == [is |-> "unknown"]
Known(s) == [is |-> "known", content |-> s]

Appended(v, s) ==
    CASE v.is = "known" -> Known(v.content \o s)
      [] v.is = "gone"  -> Known(s)
      [] OTHER          -> Unknown

Init ==
    /\ \A n \in Names : store[n] = Gone
    /\ \A p \in Procs : seen[p] = Unknown

\* FilePutContents.
Put(n, s) ==
    /\ \/ store' = [store EXCEPT ![n] = Known(s)]
       \/ store' = [store EXCEPT ![n] = Appended(store[n], s)]
    /\ UNCHANGED seen

\* FileRemove.
Remove(n) == store' = [store EXCEPT ![n] = Gone] /\ UNCHANGED seen

\* Two writers, a write that failed, or a process that ended.
Spoil(n) == store' = [store EXCEPT ![n] = Unknown] /\ UNCHANGED seen

\* FileGetContents; a writer may have come in between.
Get(p, n) ==
    /\ \E v \in {store[n], Unknown} : seen' = [seen EXCEPT ![p] = v]
    /\ UNCHANGED store

Next == \E n \in Names :
    \/ \E s \in Texts : Put(n, s)
    \/ Remove(n) \/ Spoil(n)
    \/ \E p \in Procs : Get(p, n)

Spec == Init /\ [][Next]_vars
==============================================================================
