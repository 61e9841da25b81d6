---------------------------- MODULE ResponseFilter ----------------------------
(***************************************************************************)
(* InjectResponseFilter: what a page receives of a response, and what is   *)
(* run in the page meanwhile.                                              *)
(*                                                                         *)
(* CEF hands a response on in chunks and gives the filter a buffer for the *)
(* output of each; it decides the sizes of both.  A text is a sequence of  *)
(* characters, of which Space stands for all that trim() removes.  The     *)
(* regular expressions of the replacements are literal texts here, and     *)
(* always valid.                                                           *)
(***************************************************************************)
EXTENDS Naturals, Sequences, FiniteSetsExt

CONSTANTS
    Chars,          \* characters
    Space,
    Responses,      \* texts of responses
    RuleLists,      \* values of replace_: sequences of [from, to]
    Hosts,          \* hosts that respond, as sequences of labels
    LongLabels,     \* labels of more than three letters
    Scripts,        \* hosts there may be an inject.js for
    OutSizes,       \* sizes of the output buffer
    MaxChanges      \* bound: how often an inject.js is removed or written

Texts == Seq(Chars)
Rules == [from : Texts \ {<<>>}, to : Texts]

ASSUME FilterAssumption ==
    /\ Space \in Chars /\ Responses \subseteq Texts
    /\ RuleLists \subseteq Seq(Rules)
    /\ Hosts \subseteq Seq(STRING) \ {<<>>}
    /\ \A h \in Scripts : h[Len(h)] # ""
    /\ OutSizes \subseteq Nat \ {0} /\ MaxChanges \in Nat

VARIABLES
    response,       \* what the server sends
    mime,           \* the kind of its mime type; "json" stands for xml, too
    host,           \* the host of its URL
    rules,          \* replace_
    appJS,          \* the host whose inject.js is taken: appJS_
    appOk,          \* appOk_: it was there when the filter was made
    at,             \* how much of the response the filter has read
    delivered,      \* what the page was given
    events,         \* what was passed to eventCall, one after the other
    injected,       \* how often inject.js was run
    state,          \* "open", "done", or "broken": more written than fits
    scripts,        \* the hosts that have an inject.js
    \* History, not in the code.
    changes,        \* the number of changes of scripts
    whole           \* nothing was dropped and no border of chunks was touched

filterVars == <<response, mime, host, rules, appJS, appOk, at, delivered, events, injected,
          state, scripts, changes, whole>>

fixed == <<response, mime, host, rules, appJS, appOk>>

------------------------------------------------------------------------------
\* Which script is run.

\* Mutant: the first label is joined to the suffix.
ScriptDomainFirst(h) == IF Len(h) < 2 THEN h ELSE <<h[1], h[Len(h)]>>

\* The last long label but the first label, and what follows it, if anything; the
\* lines after the loop are not reached with an empty appJS_.
ScriptDomain(h) ==
    LET Long == {i \in 2..Len(h) : h[i] \in LongLabels} IN
    IF Long = {} THEN h
    ELSE IF Max(Long) = Len(h) THEN <<h[Len(h)], "">>
    ELSE SubSeq(h, Max(Long), Len(h))

\* That of the host itself, or else of its domain.
ScriptFor(h, There) == IF h \in There THEN h ELSE ScriptDomain(h)

------------------------------------------------------------------------------
\* Texts.

Trim(s) ==
    LET Kept == {i \in DOMAIN s : s[i] # Space} IN
    IF Kept = {} THEN <<>> ELSE SubSeq(s, Min(Kept), Max(Kept))

Matches(s, i, from) ==
    LET end == i + Len(from) - 1 IN end <= Len(s) /\ SubSeq(s, i, end) = from

\* std::regex_replace: from left to right, without overlaps.
Replaced(s, rule) ==
    LET rest[i \in 1..(Len(s) + Len(rule.from))] ==
          IF i > Len(s) THEN <<>>
          ELSE IF Matches(s, i, rule.from) THEN rule.to \o rest[i + Len(rule.from)]
          ELSE <<s[i]>> \o rest[i + 1]
    IN rest[1]

\* s after the first n replacements.
After(s, n) ==
    LET step[k \in 0..n] == IF k = 0 THEN s ELSE Replaced(step[k - 1], rules[k])
    IN step[n]

Content(s) == After(Trim(s), Len(rules))

------------------------------------------------------------------------------
\* Filter().

\* GetResourceResponseFilter: other responses are not filtered.
HasFilter == mime # "image"

\* Mutant: the output may have any size.
PartUnbounded(s, size) == s

\* What of a chunk is kept for a buffer of the given size.
Part(s, size) == SubSeq(s, 1, Min({Len(s), size}))

\* What of it is sent to the page.
Sent(s) == IF rules = <<>> THEN s ELSE Content(s)

\* Mutant: the text is passed on as it came.
ReportedAsIs(s) == s

\* What of it is passed to eventCall of the page.
Reported(s) == Content(s)

\* Mutant: the script is run when the response is complete.
InjectsAtEnd(s) == appOk /\ mime = "html" /\ at + Len(s) = Len(response)

\* s is not empty.
Injects(s) == appOk /\ mime = "html"

\* Mutant: one byte more is read than there is.
ReadOneMore(s) == Len(s) + 1

\* data_in_read.
Read(s) == Len(s)

\* A match of a replacement, at the stage it is applied, lies across the border.
MatchAcross(left, right) ==
    \E k \in DOMAIN rules :
        LET l == After(Trim(left), k - 1)
            r == After(Trim(right), k - 1)
        IN \E i \in 1..Len(l) : /\ i + Len(rules[k].from) - 1 > Len(l)
                                /\ Matches(l \o r, i, rules[k].from)

BorderIsClean(left, right) ==
    left # <<>> =>
        /\ left[Len(left)] # Space /\ right[1] # Space
        /\ ~MatchAcross(left, right)

\* Filter() is called with the next n characters and a buffer of the given size.
Filter(n, size) ==
    LET in   == SubSeq(response, at + 1, at + n)
        part == Part(in, size)
    IN
    /\ HasFilter /\ state = "open"
    /\ at + n <= Len(response)
    /\ at' = at + Read(in)
    /\ IF Len(Sent(part)) > size
         THEN state' = "broken" /\ UNCHANGED <<delivered, events, injected>>
         ELSE /\ delivered' = delivered \o Sent(part)
              /\ injected' = IF Injects(part) /\ appJS \in scripts
                               THEN injected + 1 ELSE injected
              /\ events' = IF appOk /\ mime = "json" THEN events \o Reported(part) ELSE events
              /\ UNCHANGED state
    /\ whole' = (/\ whole /\ part = in
                 /\ BorderIsClean(SubSeq(response, 1, at), in))
    /\ UNCHANGED <<fixed, scripts, changes>>

\* The response is complete; RESPONSE_FILTER_DONE has left nothing to write.
Complete ==
    /\ state = "open"
    /\ ~HasFilter \/ at = Len(response)
    /\ state' = "done"
    /\ at' = Len(response)
    /\ delivered' = IF HasFilter THEN delivered ELSE response
    /\ UNCHANGED <<fixed, events, injected, scripts, changes, whole>>

\* Somebody writes or removes the script.
ChangeScript ==
    /\ state = "open" /\ changes < MaxChanges
    /\ appJS \in Scripts
    /\ scripts' = IF appJS \in scripts THEN scripts \ {appJS} ELSE scripts \cup {appJS}
    /\ changes' = changes + 1
    /\ UNCHANGED <<fixed, at, delivered, events, injected, state, whole>>

FilterInit ==
    /\ response \in Responses /\ host \in Hosts /\ rules \in RuleLists
    /\ mime \in {"html", "json", "text", "image"}
    /\ scripts \in SUBSET Scripts
    /\ appJS = ScriptFor(host, scripts)
    /\ appOk = (appJS \in scripts)
    /\ at = 0 /\ delivered = <<>> /\ events = <<>> /\ injected = 0
    /\ state = "open" /\ changes = 0 /\ whole = TRUE

FilterNext ==
    \/ \E n \in 1..(Len(response) - at), size \in OutSizes : Filter(n, size)
    \/ Complete
    \/ ChangeScript

FilterSpec == FilterInit /\ [][FilterNext]_filterVars

------------------------------------------------------------------------------
\* Properties.

\* Every variable keeps its type.
FilterTypeOK ==
    /\ response \in Responses /\ host \in Hosts /\ rules \in RuleLists
    /\ mime \in {"html", "json", "text", "image"}
    /\ scripts \subseteq Scripts
    /\ appOk \in BOOLEAN /\ whole \in BOOLEAN
    /\ at \in 0..Len(response)
    /\ delivered \in Texts /\ events \in Texts
    /\ injected \in 0..Len(response)
    /\ state \in {"open", "done", "broken"}
    /\ changes \in 0..MaxChanges

\* What the page receives is what the replacements make of the text as a whole, and
\* the text itself without any or if it is not filtered.
DeliveryTellsResponse ==
    delivered = IF HasFilter /\ rules # <<>> THEN Content(response) ELSE response

\* The calls of eventCall for a response, taken together, tell the page the same.
EventsTellResponse == mime = "json" /\ appOk => events = Content(response)

\* However a response is cut, the page is given and told the text as a whole, unless
\* a chunk is longer than its buffer, or white space or the text of a match meets the
\* border of two chunks.
BordersDecide == state = "done" /\ whole => DeliveryTellsResponse /\ EventsTellResponse

\* More is written than fits only if some text is replaced by a longer one.
GrowthBreaks ==
    state = "broken" => \E k \in DOMAIN rules : Len(rules[k].to) > Len(rules[k].from)

\* A script is run in the pages of its own host, or of one below its domain, only.
ScriptIsOfSite ==
    appOk => \E i \in 1..Len(host) : appJS = SubSeq(host, i, Len(host))

\* If the script stays where it is, it is run before the page receives anything.
PageIsInjected ==
    appOk /\ changes = 0 /\ mime = "html" /\ delivered # <<>> => injected > 0
==============================================================================
