------------------------------ MODULE MCRequests ------------------------------
(***************************************************************************)
(* A small instance of Requests.                                           *)
(***************************************************************************)
EXTENDS Requests

Texts == {<<>>, <<"a">>, <<"|">>, <<"a", "|">>, <<"|", "a">>, <<"|", "|">>,
          <<"a", "|", "|", "1">>}

AllWords ==
    {"|", "a", "b", "c", "y", "1", "Dialog", "PrintToPDF", "DevToolsMessage", "Binding",
     "Test", "other", "horizontal"} \cup UNION {ToSet(k) : k \in DialogKinds}

\* A bar in the first parameter ends the kind.
Kinds == {<<"Dialog">>, <<"PrintToPDF">>, <<"DevToolsMessage">>, <<"Binding">>,
          <<"Binding", "Test">>, <<"other">>, <<>>,
          <<"Dialog", "|", "a">>, <<"PrintToPDF", "|", "a">>, <<"DevToolsMessage", "|">>}

\* Short requests of every kind with bars everywhere.
ShortLists ==
    {<<k>> : k \in Kinds} \cup {<<k, p>> : k \in Kinds, p \in Texts}
    \cup {<<k, p, q>> : k \in Kinds, p \in Texts, q \in Texts}

\* Dialogs of every kind, with and without a filter.
DialogLists ==
    {<<<<"Dialog">>, d, t>> : d \in DialogKinds, t \in Texts}
    \cup {<<<<"Dialog">>, d, t, f>> : d \in DialogKinds, t \in Texts, f \in Texts}

\* Prints with numbers, with texts that are none, and with omitted ones.
Begins == {<<"1">>, <<"1", "|">>}
Numbers == Begins \cup {<<>>, <<"a">>}

PrintLists ==
    LET PrintOf(path, numbers) ==
          <<<<"PrintToPDF">>, path, <<"horizontal">>, <<"y">>>> \o numbers
    IN  UNION {{PrintOf(path, <<a>>), PrintOf(path, <<a, b>>), PrintOf(path, <<a, b, c>>)} :
                 path \in {<<"a">>, <<"a", "|">>}, a \in Numbers, b \in Numbers, c \in Numbers}

AllLists == ShortLists \cup DialogLists \cup PrintLists

SelectedPaths == {<<>>, <<<<"a">>>>, <<<<"b", "c">>, <<"a">>>>, <<<<"a">>, <<"b">>, <<"a">>>>}
==============================================================================
