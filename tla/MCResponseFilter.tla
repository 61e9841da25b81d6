--------------------------- MODULE MCResponseFilter ---------------------------
(***************************************************************************)
(* Short responses of a small site, and replacements that shrink, grow and *)
(* feed each other.                                                        *)
(***************************************************************************)
EXTENDS ResponseFilter

CONSTANT MaxLength

ShortTexts == UNION {[1..n -> Chars] : n \in 0..MaxLength}

Rule(from, to) == [from |-> from, to |-> to]

\* No replacement; two, the second of which finds what the first leaves; one that
\* removes; and one that grows.
SmallRules ==
    {<<>>,
     <<Rule(<<"a", "b">>, <<"b">>), Rule(<<"b", "b">>, <<"a", "a">>)>>,
     <<Rule(<<"a", "a">>, <<>>)>>,
     <<Rule(<<"b">>, <<"a", "b", "a">>)>>}

\* A host below its domain, the domain, and hosts without one: of short labels,
\* and with a long label at the end.
Site     == <<"site", "com">>
DocsSite == <<"docs", "site", "com">>
Short    == <<"www", "abc", "com">>
SiteInfo == <<"site", "info">>

SmallHosts   == {Site, DocsSite, Short, SiteInfo}
SmallScripts == {Site, <<"docs", "com">>}
==============================================================================
