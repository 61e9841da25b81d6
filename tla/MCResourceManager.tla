-------------------------- MODULE MCResourceManager --------------------------
(***************************************************************************)
(* Small instances of ResourceManager.                                     *)
(***************************************************************************)
EXTENDS ResourceManager

CONSTANTS r1, r2

Add(kind, order, ident) ==
    [type |-> "add", kind |-> kind, order |-> order, ident |-> ident]

\* An archive in front of a directory, with names to remove them by.
MixedSetup == <<Add("archive", 1, "a"), Add("directory", 2, "b")>>

\* Providers come before, between and beside those that are there, and go.
AddsAndRemovals ==
    {Add("now", 0, "a"), Add("directory", 2, "b"),
     [type |-> "remove", ident |-> "a"], [type |-> "remove", ident |-> "b"],
     [type |-> "removeAll"], [type |-> "destroy"]}
==============================================================================
