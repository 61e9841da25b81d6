------------------------------- MODULE MCStartup -------------------------------
(***************************************************************************)
(* Two instances of the application and a few meta elements that meet:     *)
(* the same switch twice, a switch for another directory, the name of the  *)
(* functions, a homepage.                                                  *)
(***************************************************************************)
EXTENDS Startup, TLC

CONSTANTS i1, i2

Symmetric == Permutations(Instances)

Cli(key, val) == [kind |-> "cli", key |-> key, rest |-> "", val |-> val]
More(key, val) == [kind |-> "cli", key |-> key, rest |-> "more", val |-> val]
Homepage(val) == [kind |-> "homepage", key |-> "", rest |-> "", val |-> val]

NoSwitch == [k \in Keys |-> Absent]

SmallLines ==
    {NoSwitch,
     [NoSwitch EXCEPT !["app-path"] = "a", !["app-v8fn"] = "b"],
     [NoSwitch EXCEPT !["url"] = "b", !["startup-process"] = "a"]}

SmallLists ==
    {<<Cli("startup-process", "a"), Cli("url", "a"), Cli("url", "b")>>,
     <<Cli("startup-process", "true"), Cli("app-path", "a"), Cli("appV8Fn", "a"),
       Cli("appV8Fn", "b"), Homepage("b")>>,
     <<More("url", "b"), Homepage("a"), Cli("startup-process", "a"), Homepage("b"),
       Cli("app-v8fn", "a")>>}
==============================================================================
