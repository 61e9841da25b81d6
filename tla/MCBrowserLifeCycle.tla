-------------------------- MODULE MCBrowserLifeCycle --------------------------
(***************************************************************************)
(* Small instances of BrowserLifeCycle.                                    *)
(***************************************************************************)
EXTENDS BrowserLifeCycle, TLC

CONSTANTS b1, b2, b3

Symmetric == Permutations(Browsers)
==============================================================================
