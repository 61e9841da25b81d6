--------------------------- MODULE MCPagesProvider ---------------------------
(***************************************************************************)
(* A small web site and requests for it.                                   *)
(***************************************************************************)
EXTENDS PagesProvider, TLC

CONSTANTS c1, c2

\* Hosts of two and three labels, with and without a prefix of their own, and one
\* that ends with a long label.
Site     == <<"site", "com">>
WwwSite  == <<"www", "site", "com">>
DocsSite == <<"docs", "site", "com">>
Docs     == <<"docs", "com">>
SiteInfo == <<"site", "info">>

Home(host) == [host |-> host, file |-> "index.html"]

\* Two sites whose names occur in the same host.
SmallPages == {Home(Site), Home(Docs)}

SmallUrls ==
    {[scheme |-> "http", host |-> h, file |-> ""] : h \in {Site, WwwSite, DocsSite, SiteInfo}}
      \cup {[scheme |-> "devtools", host |-> Site, file |-> ""],
            [scheme |-> "http", host |-> Site, file |-> "old.html"],
            [scheme |-> "http", host |-> Site, file |-> "_/dump/header.html"]}

\* A page that moved to another site, and an entry that would move it elsewhere.
Old(host) == [host |-> host, file |-> "old.html"]

SmallRedirects ==
    <<[from |-> {Old(Site)}, to |-> Home(Docs)],
      [from |-> {Old(Site), Old(WwwSite)}, to |-> Home(Site)]>>

Symmetric == Permutations(Contents)
==============================================================================
