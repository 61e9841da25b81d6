---------------------------- MODULE Texts_proofs ----------------------------
(***************************************************************************)
(* What holds of the two components that take texts apart, for every text: *)
(* InjectResponseFilter, however a response is cut, and the requests and   *)
(* answers of pages, whatever they are joined of.                          *)
(***************************************************************************)
EXTENDS ResponseFilter, Requests, SequenceTheorems, WellFoundedInduction, TLAPS

------------------------------------------------------------------------------
\* Induction, over the members of an interval: the induction theorems of the
\* library are about operators, this is about sets.

LEMMA DownwardInduction ==
    ASSUME NEW m \in Int, NEW n \in Int, NEW S,
           \A i \in m..n : (\A j \in (i + 1)..n : j \in S) => i \in S
    PROVE  \A i \in m..n : i \in S
<1> DEFINE Less == {ss \in Nat \X Nat : ss[1] < ss[2]}
           Bad == {k \in Nat : n - k \in m..n /\ n - k \notin S}
<1>1. IsWellFoundedOn(Less, Nat)
  BY NatLessThanWellFounded DEF OpToRel
<1>2. \A a, b \in Nat : a < b => <<a, b>> \in Less
  OBVIOUS
<1>3. Bad = {}
  <2> SUFFICES ASSUME Bad # {} PROVE FALSE
    OBVIOUS
  <2>1. Bad \subseteq Nat
    OBVIOUS
  <2>2. PICK k \in Bad : \A l \in Bad : <<l, k>> \notin Less
    <3> HIDE DEF Bad, Less
    <3> QED
      BY <1>1, <2>1, WFMin
  <2>3. ASSUME NEW j \in (n - k + 1)..n PROVE j \in S
    <3>1. n - j \in Nat /\ n - j < k /\ n - (n - j) = j /\ j \in m..n
      BY <2>3
    <3>2. n - j \notin Bad
      BY <3>1, <1>2, <2>2
    <3> QED
      BY <3>1, <3>2
  <2> QED
    BY <2>3
<1>4. \A i \in m..n : n - i \in Nat /\ n - (n - i) = i
  OBVIOUS
<1> QED
  BY <1>3, <1>4

LEMMA UpwardInduction ==
    ASSUME NEW m \in Int, NEW n \in Int, NEW S,
           \A i \in m..n : (\A j \in m..(i - 1) : j \in S) => i \in S
    PROVE  \A i \in m..n : i \in S
<1> DEFINE Mirror == {i \in m..n : m + n - i \in S}
<1>1. ASSUME NEW i \in m..n, \A j \in (i + 1)..n : j \in Mirror
      PROVE  i \in Mirror
  <2>1. ASSUME NEW j \in m..(m + n - i - 1) PROVE j \in S
    <3>1. m + n - j \in (i + 1)..n /\ m + n - (m + n - j) = j
      BY <2>1
    <3> QED
      BY <1>1, <3>1
  <2>2. m + n - i \in m..n
    OBVIOUS
  <2> QED
    BY <2>1, <2>2
<1>2. \A i \in m..n : i \in Mirror
  <2> HIDE DEF Mirror
  <2> QED
    BY <1>1, DownwardInduction
<1>3. ASSUME NEW i \in m..n PROVE i \in S
  <2>1. m + n - i \in m..n /\ m + n - (m + n - i) = i
    OBVIOUS
  <2> QED
    BY <1>2, <2>1
<1> QED
  BY <1>3

------------------------------------------------------------------------------
\* Which script is run.

\* The last long label is there.
LEMMA LargestExists ==
    ASSUME NEW n \in Nat, NEW S \in SUBSET (1..n), S # {}
    PROVE  \E x \in S : \A y \in S : x >= y
<1> DEFINE Less == {ss \in Nat \X Nat : ss[1] < ss[2]}
           From == {n - i : i \in S}
<1>1. IsWellFoundedOn(Less, Nat)
  BY NatLessThanWellFounded DEF OpToRel
<1>2. \A i \in S : i \in Nat /\ n - i \in Nat /\ n - i \in From
  OBVIOUS
<1>3. From \subseteq Nat /\ From # {}
  BY <1>2
<1>4. \A a, b \in Nat : <<a, b>> \notin Less => a >= b
  OBVIOUS
<1>5. \A x \in From : \E i \in S : x = n - i
  OBVIOUS
<1> HIDE DEF Less, From
<1>6. PICK x \in From : \A y \in From : <<y, x>> \notin Less
  BY <1>1, <1>3, WFMin
<1>7. \A y \in From : y >= x
  BY <1>3, <1>4, <1>6
<1>8. PICK i \in S : x = n - i
  BY <1>5
<1>9. ASSUME NEW j \in S PROVE i >= j
  BY <1>2, <1>7, <1>8
<1> QED
  BY <1>9

LEMMA LargestIsThere ==
    ASSUME NEW n \in Nat, NEW S \in SUBSET (1..n), S # {}
    PROVE  Max(S) \in S /\ \A y \in S : Max(S) >= y
  BY LargestExists DEF Max

IsEndOf(d, h) == \E i \in 1..Len(h) : d = SubSeq(h, i, Len(h))

LEMMA ScriptDomainIsEnd ==
    ASSUME NEW h \in Seq(STRING), h # <<>>
    PROVE  IsEndOf(ScriptDomain(h), h) \/ ScriptDomain(h) = <<h[Len(h)], "">>
<1> DEFINE n    == Len(h)
           Long == {i \in 2..n : h[i] \in LongLabels}
<1>1. n \in Nat /\ n >= 1 /\ Long \in SUBSET (1..n)
  OBVIOUS
<1>2. SubSeq(h, 1, n) = h
  OBVIOUS
<1>3. CASE Long = {}
  <2>1. ScriptDomain(h) = SubSeq(h, 1, n) /\ 1 \in 1..n
    BY <1>1, <1>2, <1>3 DEF ScriptDomain
  <2> QED
    BY <2>1 DEF IsEndOf
<1>4. CASE Long # {}
  <2>1. Max(Long) \in Long
    <3> HIDE DEF n, Long
    <3> QED
      BY <1>1, <1>4, LargestIsThere
  <2>2. Max(Long) \in 1..n
    BY <1>1, <2>1
  <2>3. ScriptDomain(h) = IF Max(Long) = n THEN <<h[n], "">> ELSE SubSeq(h, Max(Long), n)
    BY <1>4 DEF ScriptDomain
  <2> QED
    BY <2>2, <2>3 DEF IsEndOf
<1> QED
  BY <1>3, <1>4

LEMMA ScriptIsEnd ==
    ASSUME NEW h \in Hosts, NEW There \in SUBSET Scripts, ScriptFor(h, There) \in There
    PROVE  IsEndOf(ScriptFor(h, There), h)
<1>1. h \in Seq(STRING) /\ h # <<>>
  BY FilterAssumption
<1>2. CASE h \in There
  <2>1. SubSeq(h, 1, Len(h)) = h /\ 1 \in 1..Len(h)
    BY <1>1
  <2> QED
    BY <1>2, <2>1 DEF ScriptFor, IsEndOf
<1>3. CASE h \notin There
  <2>1. ScriptFor(h, There) = ScriptDomain(h) /\ ScriptDomain(h) \in Scripts
    BY <1>3 DEF ScriptFor
  <2>2. ScriptDomain(h) # <<h[Len(h)], "">>
    <3>1. ASSUME NEW x PROVE <<x, "">> \notin Scripts
      <4>1. Len(<<x, "">>) = 2 /\ <<x, "">>[2] = ""
        OBVIOUS
      <4> QED
        BY <4>1, FilterAssumption
    <3> QED
      BY <2>1, <3>1
  <2> QED
    BY <1>1, <2>1, <2>2, ScriptDomainIsEnd
<1> QED
  BY <1>2, <1>3

\* A filter takes the script of its own host, or of a domain above it, whatever
\* labels the host has and whatever scripts there are.
THEOREM ScriptsAreOfTheirSite == FilterSpec => []ScriptIsOfSite
<1>1. FilterInit => ScriptIsOfSite
  <2> SUFFICES ASSUME FilterInit, appOk PROVE \E i \in 1..Len(host) : appJS = SubSeq(host, i, Len(host))
    BY DEF ScriptIsOfSite
  <2>1. host \in Hosts /\ scripts \in SUBSET Scripts /\ appJS = ScriptFor(host, scripts) /\ appJS \in scripts
    BY DEF FilterInit
  <2> QED
    BY <2>1, ScriptIsEnd DEF IsEndOf
<1>2. [FilterNext]_filterVars => UNCHANGED fixed
  BY DEF FilterNext, Filter, Complete, ChangeScript, filterVars, fixed
<1>3. ScriptIsOfSite /\ UNCHANGED fixed => ScriptIsOfSite'
  BY DEF ScriptIsOfSite, fixed
<1> QED
  BY <1>1, <1>2, <1>3, PTL DEF FilterSpec

------------------------------------------------------------------------------
\* When it is run.

\* The script of the filter is there until it is changed, and was run with the first
\* chunk that was handed on.
InjectInvariant ==
    /\ injected \in Nat /\ changes \in Nat
    /\ appOk /\ changes = 0 => appJS \in scripts
    /\ PageIsInjected

LEMMA FilterInjects ==
    ASSUME InjectInvariant, NEW n, NEW size, Filter(n, size)
    PROVE  InjectInvariant'
<1>1. UNCHANGED <<fixed, scripts, changes>>
  BY DEF Filter
<1>2. CASE UNCHANGED <<delivered, injected>>
  BY <1>1, <1>2 DEF InjectInvariant, PageIsInjected, fixed
<1>3. CASE \E s : injected' = IF Injects(s) /\ appJS \in scripts THEN injected + 1 ELSE injected
  <2>1. injected' \in Nat
    BY <1>3 DEF InjectInvariant
  <2>2. appOk /\ changes = 0 /\ mime = "html" => injected' > 0
    BY <1>3 DEF InjectInvariant, Injects
  <2> QED
    BY <1>1, <2>1, <2>2 DEF InjectInvariant, PageIsInjected, fixed
<1>4. UNCHANGED <<delivered, injected>>
        \/ \E s : injected' = IF Injects(s) /\ appJS \in scripts THEN injected + 1 ELSE injected
  <2> DEFINE part == Part(SubSeq(response, at + 1, at + n), size)
  <2>1. UNCHANGED <<delivered, injected>>
          \/ injected' = IF Injects(part) /\ appJS \in scripts THEN injected + 1 ELSE injected
    BY DEF Filter
  <2> HIDE DEF part
  <2> QED
    BY <2>1
<1> QED
  BY <1>2, <1>3, <1>4

\* A page receives nothing before the script of its site was run in it, however its
\* text is cut into chunks, as long as the script stays where it is.
THEOREM PagesAreInjected == FilterSpec => []PageIsInjected
<1>1. FilterInit => InjectInvariant
  <2>1. FilterInit => (appOk => appJS \in scripts)
    BY DEF FilterInit
  <2>2. FilterInit => injected = 0 /\ changes = 0 /\ delivered = <<>>
    BY DEF FilterInit
  <2> QED
    BY <2>1, <2>2 DEF InjectInvariant, PageIsInjected
<1>2. InjectInvariant /\ [FilterNext]_filterVars => InjectInvariant'
  <2> SUFFICES ASSUME InjectInvariant, [FilterNext]_filterVars PROVE InjectInvariant'
    OBVIOUS
  <2>1. CASE Complete
    BY <2>1 DEF Complete, InjectInvariant, PageIsInjected, HasFilter, fixed
  <2>2. CASE ChangeScript
    BY <2>2 DEF ChangeScript, InjectInvariant, PageIsInjected, fixed
  <2>3. CASE UNCHANGED filterVars
    BY <2>3 DEF filterVars, InjectInvariant, PageIsInjected
  <2> QED
    BY <2>1, <2>2, <2>3, FilterInjects DEF FilterNext
<1>3. InjectInvariant => PageIsInjected
  BY DEF InjectInvariant
<1> QED
  BY <1>1, <1>2, <1>3, PTL DEF FilterSpec

------------------------------------------------------------------------------
\* What becomes of the text: one replacement.

Rest(s, rule, f, j) ==
    IF j > Len(s) THEN <<>>
    ELSE IF Matches(s, j, rule.from) THEN rule.to \o f[j + Len(rule.from)]
    ELSE <<s[j]>> \o f[j + 1]

RestEnd(s, rule) == Len(s) + Len(rule.from)

IsRestFrom(f, i, s, rule) == f = [j \in i..RestEnd(s, rule) |-> Rest(s, rule, f, j)]

LEMMA RestBounds ==
    ASSUME NEW s \in Texts, NEW rule \in Rules
    PROVE  /\ Len(s) \in Nat /\ RestEnd(s, rule) \in Nat /\ RestEnd(s, rule) >= Len(s) + 1
           /\ \A j \in 1..RestEnd(s, rule) : j <= Len(s) =>
                /\ j + 1 \in (j + 1)..RestEnd(s, rule)
                /\ j + Len(rule.from) \in (j + 1)..RestEnd(s, rule)
<1>1. Len(s) \in Nat /\ Len(rule.from) \in Nat \ {0}
  BY DEF Rules, Texts
<1> QED
  BY <1>1 DEF RestEnd

LEMMA RestExists ==
    ASSUME NEW s \in Texts, NEW rule \in Rules
    PROVE  \E f : IsRestFrom(f, 1, s, rule)
<1> DEFINE n == RestEnd(s, rule)
           S == {i \in 1..n : \E f : IsRestFrom(f, i, s, rule)}
<1>1. ASSUME NEW i \in 1..n, \A j \in (i + 1)..n : j \in S
      PROVE  i \in S
  <2>1. PICK g : g = [j \in (i + 1)..n |-> Rest(s, rule, g, j)]
    <3>1. CASE i = n
      <4>1. [j \in (i + 1)..n |-> <<>>] = [j \in (i + 1)..n |-> Rest(s, rule, [k \in (i + 1)..n |-> <<>>], j)]
        BY RestBounds, <3>1
      <4> QED
        BY <4>1
    <3>2. CASE i # n
      <4>1. i + 1 \in S
        BY RestBounds, <1>1, <3>2
      <4> QED
        BY <4>1 DEF IsRestFrom
    <3> QED
      BY <3>1, <3>2
  <2> DEFINE f == [j \in i..n |-> IF j = i THEN Rest(s, rule, g, i) ELSE g[j]]
  <2>2. \A j \in (i + 1)..n : f[j] = g[j]
    BY RestBounds
  <2>3. \A j \in i..n : Rest(s, rule, f, j) = Rest(s, rule, g, j)
    <3> HIDE DEF f, n
    <3> QED
      BY RestBounds, <2>2 DEF Rest, n
  <2>4. \A j \in i..n : f[j] = Rest(s, rule, g, j)
    <3>1. \A j \in (i + 1)..n : g[j] = Rest(s, rule, g, j)
      BY <2>1
    <3>2. \A j \in i..n : j # i => j \in (i + 1)..n
      BY RestBounds
    <3> QED
      BY <3>1, <3>2
  <2>5. f = [j \in i..n |-> Rest(s, rule, f, j)]
    BY <2>3, <2>4
  <2> QED
    BY <2>5 DEF IsRestFrom
<1>2. n \in Int /\ 1 \in Int /\ 1 \in 1..n
  BY RestBounds
<1>3. \A i \in 1..n : i \in S
  <2> HIDE DEF S, n
  <2> QED
    BY <1>1, <1>2, DownwardInduction
<1> QED
  BY <1>2, <1>3

LEMMA ReplacedIsRest ==
    ASSUME NEW s \in Texts, NEW rule \in Rules
    PROVE  \E f : IsRestFrom(f, 1, s, rule) /\ Replaced(s, rule) = f[1]
<1> DEFINE F(h) == h = [i \in 1..(Len(s) + Len(rule.from)) |->
             IF i > Len(s) THEN <<>>
             ELSE IF Matches(s, i, rule.from) THEN rule.to \o h[i + Len(rule.from)]
             ELSE <<s[i]>> \o h[i + 1]]
           c == CHOOSE h : F(h)
<1>1. \A h : F(h) <=> IsRestFrom(h, 1, s, rule)
  BY DEF IsRestFrom, Rest, RestEnd
<1>2. \E h : F(h)
  BY <1>1, RestExists
<1>3. F(c)
  <2> HIDE DEF F
  <2> QED
    BY <1>2
<1>4. Replaced(s, rule) = c[1]
  BY DEF Replaced
<1> QED
  <2> HIDE DEF F
  <2> QED
  BY <1>1, <1>3, <1>4

LEMMA TextsConcat ==
    ASSUME NEW a \in Texts, NEW b \in Texts
    PROVE  /\ a \o b \in Texts /\ Len(a \o b) = Len(a) + Len(b)
           /\ \A i \in 1..Len(a) : (a \o b)[i] = a[i]
           /\ \A i \in 1..Len(b) : (a \o b)[Len(a) + i] = b[i]
  BY DEF Texts

LEMMA TextsAssociative ==
    \A a, b, c \in Texts : (a \o b) \o c = a \o (b \o c)
  BY ConcatAssociative DEF Texts

LEMMA EmptyText == <<>> \in Texts
  BY DEF Texts

LEMMA RestIsText ==
    ASSUME NEW s \in Texts, NEW rule \in Rules, NEW f, IsRestFrom(f, 1, s, rule)
    PROVE  \A j \in 1..RestEnd(s, rule) : f[j] \in Texts
<1> DEFINE n == RestEnd(s, rule)
           S == {i \in 1..n : f[i] \in Texts}
<1>1. ASSUME NEW i \in 1..n, \A j \in (i + 1)..n : j \in S
      PROVE  i \in S
  <2>1. f[i] = Rest(s, rule, f, i)
    BY DEF IsRestFrom
  <2>2. CASE i > Len(s)
    <3>1. f[i] = <<>>
      BY <2>1, <2>2 DEF Rest
    <3> QED
      BY <3>1, EmptyText
  <2>3. CASE i <= Len(s) /\ Matches(s, i, rule.from)
    <3>1. f[i] = rule.to \o f[i + Len(rule.from)]
      <4>1. ~(i > Len(s))
        BY <2>3, RestBounds
      <4> QED
        BY <2>1, <2>3, <4>1, Zenon DEF Rest
    <3>2. i + Len(rule.from) \in (i + 1)..n
      BY <2>3, RestBounds
    <3>3. rule.to \in Texts
      BY DEF Rules
    <3> QED
      BY <1>1, <3>1, <3>2, <3>3, TextsConcat
  <2>4. CASE i <= Len(s) /\ ~Matches(s, i, rule.from)
    <3>1. f[i] = <<s[i]>> \o f[i + 1]
      BY <2>1, <2>4, RestBounds DEF Rest
    <3>2. <<s[i]>> \in Texts
      BY <2>4, RestBounds DEF Texts
    <3>3. i + 1 \in (i + 1)..n
      BY <2>4, RestBounds
    <3> QED
      BY <1>1, <3>1, <3>2, <3>3, TextsConcat
  <2> QED
    BY <2>2, <2>3, <2>4, RestBounds
<1>2. n \in Int /\ 1 \in Int
  BY RestBounds
<1>3. \A i \in 1..n : i \in S
  <2> HIDE DEF S, n
  <2> QED
    BY <1>1, <1>2, DownwardInduction
<1> QED
  BY <1>3

LEMMA ReplacedIsText ==
    ASSUME NEW s \in Texts, NEW rule \in Rules
    PROVE  Replaced(s, rule) \in Texts
<1>1. 1 \in 1..RestEnd(s, rule)
  BY RestBounds
<1> QED
  BY <1>1, ReplacedIsRest, RestIsText

LEMMA RestCases ==
    ASSUME NEW s \in Texts, NEW rule \in Rules, NEW f, IsRestFrom(f, 1, s, rule),
           NEW j \in 1..RestEnd(s, rule)
    PROVE  /\ j > Len(s) => f[j] = <<>>
           /\ j <= Len(s) /\ Matches(s, j, rule.from) => f[j] = rule.to \o f[j + Len(rule.from)]
           /\ j <= Len(s) /\ ~Matches(s, j, rule.from) => f[j] = <<s[j]>> \o f[j + 1]
<1>1. f[j] = Rest(s, rule, f, j)
  BY DEF IsRestFrom
<1>2. j <= Len(s) <=> ~(j > Len(s))
  BY RestBounds
<1> QED
  BY <1>1, <1>2, Zenon DEF Rest

\* A match within a text is one of any text that goes on behind it.
LEMMA MatchLeft ==
    ASSUME NEW l \in Texts, NEW r \in Texts, NEW from \in Texts \ {<<>>}, NEW i \in 1..Len(l),
           i + Len(from) - 1 > Len(l) => ~Matches(l \o r, i, from)
    PROVE  Matches(l \o r, i, from) <=> Matches(l, i, from)
<1> DEFINE e == i + Len(from) - 1
<1>1. Len(l) \in Nat /\ Len(r) \in Nat /\ Len(from) \in Nat \ {0} /\ Len(l \o r) = Len(l) + Len(r)
  BY DEF Texts
<1>2. CASE e > Len(l)
  BY <1>1, <1>2 DEF Matches
<1>3. CASE e <= Len(l)
  <2>1. SubSeq(l \o r, i, e) = SubSeq(l, i, e)
    BY <1>1, <1>3, SubSeqOfConcat1 DEF Texts
  <2> QED
    BY <1>1, <1>3, <2>1 DEF Matches
<1> QED
  BY <1>1, <1>2, <1>3

LEMMA MatchRight ==
    ASSUME NEW l \in Texts, NEW r \in Texts, NEW from \in Texts \ {<<>>}, NEW j \in 1..Len(r)
    PROVE  Matches(l \o r, Len(l) + j, from) <=> Matches(r, j, from)
<1> DEFINE e == j + Len(from) - 1
<1>1. Len(l) \in Nat /\ Len(r) \in Nat /\ Len(from) \in Nat \ {0} /\ Len(l \o r) = Len(l) + Len(r)
  BY DEF Texts
<1>2. Len(l) + j + Len(from) - 1 = Len(l) + e /\ e \in Nat
  BY <1>1
<1>3. (Len(l) + e <= Len(l \o r)) <=> (e <= Len(r))
  BY <1>1, <1>2
<1>4. CASE e > Len(r)
  <2>1. ~(e <= Len(r))
    BY <1>1, <1>2, <1>4
  <2> HIDE DEF e
  <2> QED
    BY <1>2, <1>3, <2>1 DEF Matches, e
<1>5. CASE e <= Len(r)
  <2>1. SubSeq(l \o r, Len(l) + j, Len(l) + e) = SubSeq(r, j, e)
    <3>1. /\ Len(l) + j \in (Len(l) + 1)..(Len(l) + Len(r) + 1)
          /\ Len(l) + e \in (Len(l) + j - 1)..(Len(l) + Len(r))
          /\ (Len(l) + j) - Len(l) = j /\ (Len(l) + e) - Len(l) = e
      BY <1>1, <1>2, <1>5
    <3> QED
      BY <3>1, SubSeqOfConcat2 DEF Texts
  <2> QED
    BY <1>2, <1>5, <1>3, <2>1 DEF Matches
<1> QED
  BY <1>1, <1>2, <1>4, <1>5

\* Replacing in two texts is replacing in their concatenation, unless a match lies
\* across the border.
LEMMA ReplacedConcat ==
    ASSUME NEW l \in Texts, NEW r \in Texts, NEW rule \in Rules,
           \A i \in 1..Len(l) : i + Len(rule.from) - 1 > Len(l)
                                  => ~Matches(l \o r, i, rule.from)
    PROVE  Replaced(l \o r, rule) = Replaced(l, rule) \o Replaced(r, rule)
<1> DEFINE c == l \o r
           k == Len(rule.from)
<1>1. PICK f : IsRestFrom(f, 1, c, rule) /\ Replaced(c, rule) = f[1]
  BY TextsConcat, ReplacedIsRest
<1>2. PICK g : IsRestFrom(g, 1, l, rule) /\ Replaced(l, rule) = g[1]
  BY ReplacedIsRest
<1>3. PICK h : IsRestFrom(h, 1, r, rule) /\ Replaced(r, rule) = h[1]
  BY ReplacedIsRest
<1>4. /\ rule.from \in Texts \ {<<>>} /\ rule.to \in Texts
      /\ Len(l) \in Nat /\ Len(r) \in Nat /\ k \in Nat \ {0}
      /\ Len(c) = Len(l) + Len(r)
  BY TextsConcat DEF Texts, Rules
<1>5. c \in Texts
  BY TextsConcat
<1>6. /\ \A i \in 1..Len(l) : c[i] = l[i]
      /\ \A i \in 1..Len(r) : c[Len(l) + i] = r[i]
  BY TextsConcat
<1>7. /\ RestEnd(c, rule) = Len(l) + Len(r) + k
      /\ RestEnd(l, rule) = Len(l) + k
      /\ RestEnd(r, rule) = Len(r) + k
  BY <1>4 DEF RestEnd, k
<1> HIDE DEF c, k
<1>8. \A j \in 1..(Len(r) + k) : f[Len(l) + j] = h[j]
  <2> DEFINE S == {j \in 1..(Len(r) + k) : f[Len(l) + j] = h[j]}
  <2>1. ASSUME NEW j \in 1..(Len(r) + k), \A x \in (j + 1)..(Len(r) + k) : x \in S
        PROVE  j \in S
    <3>1. Len(l) + j \in 1..RestEnd(c, rule) /\ j \in 1..RestEnd(r, rule)
      BY <1>4, <1>7
    <3>2. CASE j > Len(r)
      <4>1. Len(l) + j > Len(c)
        BY <1>4, <3>2
      <4>2. f[Len(l) + j] = <<>>
        BY <1>1, <1>5, <3>1, <4>1, RestCases
      <4>3. h[j] = <<>>
        BY <1>3, <3>1, <3>2, RestCases
      <4> QED
        BY <4>2, <4>3
    <3>3. CASE j <= Len(r)
      <4>1. j \in 1..Len(r) /\ Len(l) + j <= Len(c) /\ Len(l) + j \in Nat
        BY <1>4, <3>3
      <4>2. Matches(c, Len(l) + j, rule.from) <=> Matches(r, j, rule.from)
        BY <1>4, <4>1, MatchRight DEF c
      <4>3. c[Len(l) + j] = r[j]
        BY <1>6, <4>1
      <4>4. /\ j + 1 \in (j + 1)..(Len(r) + k) /\ (Len(l) + j) + 1 = Len(l) + (j + 1)
            /\ j + k \in (j + 1)..(Len(r) + k) /\ (Len(l) + j) + k = Len(l) + (j + k)
        BY <1>4, <4>1
      <4>5. f[Len(l) + (j + 1)] = h[j + 1] /\ f[Len(l) + (j + k)] = h[j + k]
        BY <2>1, <4>4
      <4>6. CASE Matches(r, j, rule.from)
        <5>1. f[Len(l) + j] = rule.to \o f[(Len(l) + j) + k]
          BY <1>1, <1>5, <3>1, <4>1, <4>2, <4>6, RestCases DEF k
        <5>2. h[j] = rule.to \o h[j + k]
          BY <1>3, <3>1, <3>3, <4>6, RestCases DEF k
        <5> QED
          BY <4>4, <4>5, <5>1, <5>2
      <4>7. CASE ~Matches(r, j, rule.from)
        <5>1. f[Len(l) + j] = <<c[Len(l) + j]>> \o f[(Len(l) + j) + 1]
          BY <1>1, <1>5, <3>1, <4>1, <4>2, <4>7, RestCases
        <5>2. h[j] = <<r[j]>> \o h[j + 1]
          BY <1>3, <3>1, <3>3, <4>7, RestCases
        <5> QED
          BY <4>3, <4>4, <4>5, <5>1, <5>2
      <4> QED
        BY <4>6, <4>7
    <3> QED
      BY <1>4, <3>2, <3>3
  <2>2. 1 \in Int /\ Len(r) + k \in Int
    BY <1>4
  <2>3. \A j \in 1..(Len(r) + k) : j \in S
    <3> HIDE DEF S
    <3> QED
      BY <2>1, <2>2, DownwardInduction
  <2> QED
    BY <2>3
<1>9. 1 \in 1..(Len(r) + k) /\ h[1] \in Texts /\ f[Len(l) + 1] = h[1]
  <2>1. 1 \in 1..(Len(r) + k)
    BY <1>4
  <2> QED
    BY <1>3, <1>7, <1>8, <2>1, RestIsText
<1>10. \A i \in 1..(Len(l) + 1) : f[i] = g[i] \o h[1]
  <2> DEFINE S == {i \in 1..(Len(l) + 1) : f[i] = g[i] \o h[1]}
  <2>1. ASSUME NEW i \in 1..(Len(l) + 1), \A x \in (i + 1)..(Len(l) + 1) : x \in S
        PROVE  i \in S
    <3>1. i \in 1..RestEnd(c, rule) /\ i \in 1..RestEnd(l, rule)
      BY <1>4, <1>7
    <3>2. CASE i = Len(l) + 1
      <4>1. i > Len(l)
        BY <1>4, <3>2
      <4>2. g[i] = <<>>
        BY <1>2, <3>1, <4>1, RestCases
      <4> QED
        BY <1>9, <3>2, <4>2, ConcatEmptySeq DEF Texts
    <3>3. CASE i # Len(l) + 1
      <4>1. i \in 1..Len(l) /\ i <= Len(l) /\ i <= Len(c)
        BY <1>4, <3>3
      <4>2. Matches(c, i, rule.from) <=> Matches(l, i, rule.from)
        BY <1>4, <4>1, MatchLeft DEF c
      <4>3. /\ i + 1 \in (i + 1)..(Len(l) + 1)
            /\ Matches(l, i, rule.from) => i + k \in (i + 1)..(Len(l) + 1)
            /\ i + 1 \in 1..RestEnd(l, rule) /\ i + k \in 1..RestEnd(l, rule)
        <5>1. Matches(l, i, rule.from) => i + k <= Len(l) + 1
          BY <1>4, <4>1 DEF Matches, k
        <5> QED
          BY <1>4, <1>7, <4>1, <5>1
      <4>4. g[i + 1] \in Texts /\ g[i + k] \in Texts
        BY <1>2, <4>3, RestIsText
      <4>5. CASE Matches(l, i, rule.from)
        <5>1. f[i] = rule.to \o f[i + k]
          BY <1>1, <1>5, <3>1, <4>1, <4>2, <4>5, RestCases DEF k
        <5>2. g[i] = rule.to \o g[i + k]
          BY <1>2, <3>1, <4>1, <4>5, RestCases DEF k
        <5>3. f[i + k] = g[i + k] \o h[1]
          BY <2>1, <4>3, <4>5
        <5>4. (rule.to \o g[i + k]) \o h[1] = rule.to \o (g[i + k] \o h[1])
          BY <1>4, <1>9, <4>4, TextsAssociative
        <5>5. f[i] = g[i] \o h[1]
          BY <5>1, <5>2, <5>3, <5>4
        <5> QED
          BY <5>5
      <4>6. CASE ~Matches(l, i, rule.from)
        <5>1. f[i] = <<c[i]>> \o f[i + 1]
          BY <1>1, <1>5, <3>1, <4>1, <4>2, <4>6, RestCases
        <5>2. g[i] = <<l[i]>> \o g[i + 1]
          BY <1>2, <3>1, <4>1, <4>6, RestCases
        <5>3. f[i + 1] = g[i + 1] \o h[1]
          BY <2>1, <4>3
        <5>4. c[i] = l[i] /\ <<l[i]>> \in Texts
          BY <1>6, <4>1 DEF Texts
        <5>5. (<<l[i]>> \o g[i + 1]) \o h[1] = <<l[i]>> \o (g[i + 1] \o h[1])
          BY <1>9, <4>4, <5>4, TextsAssociative
        <5>6. f[i] = g[i] \o h[1]
          BY <5>1, <5>2, <5>3, <5>4, <5>5
        <5> QED
          BY <5>6
      <4> QED
        BY <4>5, <4>6
    <3> QED
      BY <3>2, <3>3
  <2>2. 1 \in Int /\ Len(l) + 1 \in Int
    BY <1>4
  <2>3. \A i \in 1..(Len(l) + 1) : i \in S
    <3> HIDE DEF S
    <3> QED
      BY <2>1, <2>2, DownwardInduction
  <2> QED
    BY <2>3
<1>11. 1 \in 1..(Len(l) + 1)
  BY <1>4
<1> QED
  BY <1>1, <1>2, <1>3, <1>10, <1>11 DEF c

\* A replacement that does not grow what it finds does not grow a text.
LEMMA ReplacedShrinks ==
    ASSUME NEW s \in Texts, NEW rule \in Rules, Len(rule.to) <= Len(rule.from)
    PROVE  Len(Replaced(s, rule)) <= Len(s)
<1> DEFINE k == Len(rule.from)
           n == Len(s) + 1
<1>1. PICK f : IsRestFrom(f, 1, s, rule) /\ Replaced(s, rule) = f[1]
  BY ReplacedIsRest
<1>2. /\ rule.to \in Texts /\ Len(rule.to) \in Nat
      /\ Len(s) \in Nat /\ k \in Nat \ {0} /\ n \in Nat
  BY DEF Texts, Rules
<1>3. \A i \in 1..n : i \in 1..RestEnd(s, rule)
  BY <1>2 DEF RestEnd
<1> DEFINE S == {i \in 1..n : Len(f[i]) <= n - i}
<1>4. ASSUME NEW i \in 1..n, \A j \in (i + 1)..n : j \in S
      PROVE  i \in S
  <2>1. CASE i = n
    <3>1. i > Len(s)
      BY <1>2, <2>1
    <3>2. f[i] = <<>>
      BY <1>1, <1>3, <3>1, RestCases
    <3> QED
      BY <1>2, <2>1, <3>2
  <2>2. CASE i # n /\ Matches(s, i, rule.from)
    <3>1. i <= Len(s)
      BY <1>2, <2>2
    <3>2. f[i] = rule.to \o f[i + k]
      BY <1>1, <1>3, <2>2, <3>1, RestCases
    <3>3. i + k \in (i + 1)..n
      BY <1>2, <2>2, <3>1 DEF Matches
    <3>4. f[i + k] \in Texts
      BY <1>1, <1>3, <1>2, <3>3, RestIsText
    <3>5. Len(f[i]) = Len(rule.to) + Len(f[i + k])
      BY <1>2, <3>2, <3>4, TextsConcat
    <3>6. Len(f[i + k]) \in Nat
      BY <3>4 DEF Texts
    <3>7. Len(f[i + k]) <= n - (i + k)
      BY <1>4, <3>3
    <3>8. Len(f[i]) <= n - i
      <4>1. ASSUME NEW a \in Nat, NEW b \in Nat, NEW x \in Nat, NEW y \in Nat, b <= a,
                   y <= x - (i + a)
            PROVE  b + y <= x - i
        BY <1>2, <4>1
      <4> QED
        BY <1>2, <3>5, <3>6, <3>7, <4>1
    <3> QED
      BY <3>8
  <2>3. CASE i # n /\ ~Matches(s, i, rule.from)
    <3>1. i <= Len(s)
      BY <1>2, <2>3
    <3>2. f[i] = <<s[i]>> \o f[i + 1]
      BY <1>1, <1>3, <2>3, <3>1, RestCases
    <3>3. i + 1 \in (i + 1)..n
      BY <1>2, <3>1
    <3>4. f[i + 1] \in Texts /\ <<s[i]>> \in Texts /\ Len(<<s[i]>>) = 1
      <4>1. f[i + 1] \in Texts
        BY <1>1, <1>3, <1>2, <3>3, RestIsText
      <4>2. s[i] \in Chars
        BY <3>1 DEF Texts
      <4> QED
        BY <4>1, <4>2 DEF Texts
    <3>5. Len(f[i]) = 1 + Len(f[i + 1]) /\ Len(f[i + 1]) <= n - (i + 1)
      BY <1>4, <3>2, <3>3, <3>4, TextsConcat
    <3>6. Len(f[i + 1]) \in Nat
      BY <3>4 DEF Texts
    <3>7. Len(f[i]) <= n - i
      BY <1>2, <3>5, <3>6
    <3> QED
      BY <3>7
  <2> QED
    BY <2>1, <2>2, <2>3
<1>5. 1 \in Int /\ n \in Int /\ 1 \in 1..n /\ n - 1 = Len(s)
  BY <1>2
<1>6. \A i \in 1..n : i \in S
  <2> HIDE DEF S, n
  <2> QED
    BY <1>4, <1>5, DownwardInduction
<1> QED
  BY <1>1, <1>5, <1>6

------------------------------------------------------------------------------
\* What becomes of the text: all replacements, and Content.

IsAfter(f, s, n) == f = [k \in 0..n |-> IF k = 0 THEN s ELSE Replaced(f[k - 1], rules[k])]

LEMMA AfterExists ==
    ASSUME NEW s, NEW n \in Nat
    PROVE  \E f : IsAfter(f, s, n)
<1> DEFINE S == {m \in 0..n : \E f : IsAfter(f, s, m)}
<1>1. ASSUME NEW m \in 0..n, \A j \in 0..(m - 1) : j \in S
      PROVE  m \in S
  <2>1. CASE m = 0
    <3>1. IsAfter([k \in 0..0 |-> s], s, 0)
      BY DEF IsAfter
    <3> QED
      BY <2>1, <3>1
  <2>2. CASE m # 0
    <3>1. m - 1 \in 0..(m - 1) /\ m \in Nat
      BY <2>2
    <3>2. PICK g : g = [k \in 0..(m - 1) |-> IF k = 0 THEN s ELSE Replaced(g[k - 1], rules[k])]
      BY <1>1, <3>1 DEF IsAfter
    <3> DEFINE f == [k \in 0..m |-> IF k = m THEN Replaced(g[m - 1], rules[m]) ELSE g[k]]
    <3>3. \A k \in 0..m : f[k] = IF k = m THEN Replaced(g[m - 1], rules[m]) ELSE g[k]
      OBVIOUS
    <3>4. \A k \in 0..(m - 1) : k \in 0..m /\ k # m /\ f[k] = g[k]
      BY <3>1
    <3>5. \A k \in 0..(m - 1) : g[k] = IF k = 0 THEN s ELSE Replaced(g[k - 1], rules[k])
      BY <3>2
    <3>6. \A k \in 0..m : k # 0 => k - 1 \in 0..(m - 1)
      BY <3>1
    <3>7. \A k \in 0..m : k # m => k \in 0..(m - 1)
      BY <3>1
    <3>8. \A k \in 0..m : f[k] = IF k = 0 THEN s ELSE Replaced(f[k - 1], rules[k])
      <4> SUFFICES ASSUME NEW k \in 0..m
                   PROVE  f[k] = IF k = 0 THEN s ELSE Replaced(f[k - 1], rules[k])
        OBVIOUS
      <4> HIDE DEF f
      <4>1. CASE k = m
        BY <2>2, <3>3, <3>4, <3>6, <4>1
      <4>2. CASE k # m
        BY <3>3, <3>4, <3>5, <3>6, <3>7, <4>2
      <4> QED
        BY <4>1, <4>2
    <3>9. f = [k \in 0..m |-> IF k = 0 THEN s ELSE Replaced(f[k - 1], rules[k])]
      BY <3>8
    <3> HIDE DEF f
    <3> QED
      BY <3>9 DEF IsAfter
  <2> QED
    BY <2>1, <2>2
<1>2. 0 \in Int /\ n \in Int /\ n \in 0..n
  OBVIOUS
<1>3. \A m \in 0..n : m \in S
  <2> HIDE DEF S
  <2> QED
    BY <1>1, <1>2, UpwardInduction
<1> QED
  BY <1>2, <1>3

LEMMA AfterIsAfter ==
    ASSUME NEW s, NEW n \in Nat
    PROVE  \E f : IsAfter(f, s, n) /\ After(s, n) = f[n]
<1> DEFINE F(h) == h = [k \in 0..n |-> IF k = 0 THEN s ELSE Replaced(h[k - 1], rules[k])]
           c == CHOOSE h : F(h)
<1>1. \A h : F(h) <=> IsAfter(h, s, n)
  BY DEF IsAfter
<1>2. \E h : F(h)
  BY <1>1, AfterExists
<1>3. After(s, n) = c[n]
  BY DEF After
<1> HIDE DEF F
<1>4. F(c)
  BY <1>2
<1> QED
  BY <1>1, <1>3, <1>4

LEMMA AfterIsUnique ==
    ASSUME NEW s, NEW m \in Nat, NEW n \in Nat, m <= n,
           NEW f, IsAfter(f, s, m), NEW g, IsAfter(g, s, n)
    PROVE  \A k \in 0..m : f[k] = g[k]
<1> DEFINE S == {k \in 0..m : f[k] = g[k]}
<1>1. ASSUME NEW k \in 0..m, \A j \in 0..(k - 1) : j \in S
      PROVE  k \in S
  <2>1. /\ f[k] = IF k = 0 THEN s ELSE Replaced(f[k - 1], rules[k])
        /\ g[k] = IF k = 0 THEN s ELSE Replaced(g[k - 1], rules[k])
    <3>1. k \in 0..n
      OBVIOUS
    <3> QED
      BY <3>1 DEF IsAfter
  <2>2. k # 0 => k - 1 \in 0..(k - 1)
    OBVIOUS
  <2> QED
    BY <1>1, <2>1, <2>2
<1>2. 0 \in Int /\ m \in Int
  OBVIOUS
<1>3. \A k \in 0..m : k \in S
  <2> HIDE DEF S
  <2> QED
    BY <1>1, <1>2, UpwardInduction
<1> QED
  BY <1>3

\* The replacements are made one after the other.
LEMMA AfterStep ==
    ASSUME NEW s
    PROVE  /\ After(s, 0) = s
           /\ \A n \in Nat : After(s, n + 1) = Replaced(After(s, n), rules[n + 1])
<1>1. After(s, 0) = s
  <2>1. 0 \in Nat /\ 0 \in 0..0
    OBVIOUS
  <2>2. PICK f : IsAfter(f, s, 0) /\ After(s, 0) = f[0]
    BY <2>1, AfterIsAfter
  <2> QED
    BY <2>1, <2>2 DEF IsAfter
<1>2. ASSUME NEW n \in Nat PROVE After(s, n + 1) = Replaced(After(s, n), rules[n + 1])
  <2>1. PICK f : IsAfter(f, s, n) /\ After(s, n) = f[n]
    BY AfterIsAfter
  <2>2. n + 1 \in Nat /\ n <= n + 1 /\ n \in 0..n
    OBVIOUS
  <2>3. PICK g : IsAfter(g, s, n + 1) /\ After(s, n + 1) = g[n + 1]
    BY <2>2, AfterIsAfter
  <2>4. f[n] = g[n]
    BY <2>1, <2>2, <2>3, AfterIsUnique
  <2>5. g[n + 1] = Replaced(g[n], rules[n + 1])
    <3>1. n + 1 \in 0..(n + 1) /\ n + 1 # 0 /\ (n + 1) - 1 = n
      OBVIOUS
    <3> QED
      BY <2>3, <3>1 DEF IsAfter
  <2> QED
    BY <2>1, <2>3, <2>4, <2>5
<1> QED
  BY <1>1, <1>2

IsFilter == rules \in Seq(Rules)

LEMMA AfterIsText ==
    ASSUME IsFilter, NEW s \in Texts
    PROVE  \A n \in 0..Len(rules) : After(s, n) \in Texts
<1> DEFINE S == {n \in 0..Len(rules) : After(s, n) \in Texts}
<1>1. ASSUME NEW n \in 0..Len(rules), \A j \in 0..(n - 1) : j \in S
      PROVE  n \in S
  <2>1. CASE n = 0
    BY <2>1, AfterStep
  <2>2. CASE n # 0
    <3>1. /\ n - 1 \in 0..(n - 1) /\ n - 1 \in Nat /\ (n - 1) + 1 = n
          /\ rules[n] \in Rules
      BY <2>2 DEF IsFilter
    <3>2. After(s, n) = Replaced(After(s, n - 1), rules[n])
      BY <3>1, AfterStep
    <3>3. After(s, n - 1) \in Texts
      BY <1>1, <3>1
    <3> QED
      BY <3>1, <3>2, <3>3, ReplacedIsText
  <2> QED
    BY <2>1, <2>2
<1>2. 0 \in Int /\ Len(rules) \in Int
  BY DEF IsFilter
<1>3. \A n \in 0..Len(rules) : n \in S
  <2> HIDE DEF S
  <2> QED
    BY <1>1, <1>2, UpwardInduction
<1> QED
  BY <1>3

LEMMA AfterShrinks ==
    ASSUME IsFilter, NEW s \in Texts,
           \A k \in 1..Len(rules) : Len(rules[k].to) <= Len(rules[k].from)
    PROVE  \A n \in 0..Len(rules) : Len(After(s, n)) <= Len(s)
<1> DEFINE S == {n \in 0..Len(rules) : Len(After(s, n)) <= Len(s)}
<1>1. ASSUME NEW n \in 0..Len(rules), \A j \in 0..(n - 1) : j \in S
      PROVE  n \in S
  <2>1. CASE n = 0
    BY <2>1, AfterStep DEF Texts
  <2>2. CASE n # 0
    <3>1. /\ n - 1 \in 0..(n - 1) /\ n - 1 \in 0..Len(rules) /\ n - 1 \in Nat
          /\ (n - 1) + 1 = n /\ n \in 1..Len(rules) /\ rules[n] \in Rules
      BY <2>2 DEF IsFilter
    <3>2. After(s, n) = Replaced(After(s, n - 1), rules[n])
      BY <3>1, AfterStep
    <3>3. After(s, n - 1) \in Texts /\ Len(After(s, n - 1)) <= Len(s)
      BY <1>1, <3>1, AfterIsText
    <3>4. Len(After(s, n)) <= Len(After(s, n - 1)) /\ After(s, n) \in Texts
      BY <3>1, <3>2, <3>3, ReplacedShrinks, ReplacedIsText
    <3>5. Len(After(s, n)) \in Nat /\ Len(After(s, n - 1)) \in Nat /\ Len(s) \in Nat
      BY <3>3, <3>4 DEF Texts
    <3> QED
      BY <3>3, <3>4, <3>5
  <2> QED
    BY <2>1, <2>2
<1>2. 0 \in Int /\ Len(rules) \in Int
  BY DEF IsFilter
<1>3. \A n \in 0..Len(rules) : n \in S
  <2> HIDE DEF S
  <2> QED
    BY <1>1, <1>2, UpwardInduction
<1> QED
  BY <1>3

LEMMA ReplacedEmpty ==
    ASSUME NEW s \in Texts, Len(s) = 0, NEW rule \in Rules
    PROVE  Replaced(s, rule) = <<>>
<1>1. PICK f : IsRestFrom(f, 1, s, rule) /\ Replaced(s, rule) = f[1]
  BY ReplacedIsRest
<1>2. 1 \in 1..RestEnd(s, rule)
  BY RestBounds
<1>3. 1 > Len(s)
  OBVIOUS
<1>4. ASSUME NEW j \in 1..RestEnd(s, rule), j > Len(s) PROVE f[j] = <<>>
  BY <1>1, <1>4, RestCases
<1> QED
  BY <1>1, <1>2, <1>3, <1>4

LEMMA AfterEmpty ==
    ASSUME IsFilter
    PROVE  \A n \in 0..Len(rules) : After(<<>>, n) = <<>>
<1> DEFINE S == {n \in 0..Len(rules) : After(<<>>, n) = <<>>}
<1>1. ASSUME NEW n \in 0..Len(rules), \A j \in 0..(n - 1) : j \in S
      PROVE  n \in S
  <2>1. CASE n = 0
    BY <2>1, AfterStep
  <2>2. CASE n # 0
    <3>1. /\ n - 1 \in 0..(n - 1) /\ n - 1 \in Nat /\ (n - 1) + 1 = n
          /\ rules[n] \in Rules
      BY <2>2 DEF IsFilter
    <3>2. After(<<>>, n) = Replaced(After(<<>>, n - 1), rules[n])
      BY <3>1, AfterStep
    <3> QED
      BY <1>1, <3>1, <3>2, ReplacedEmpty, EmptyText
  <2> QED
    BY <2>1, <2>2
<1>2. 0 \in Int /\ Len(rules) \in Int
  BY DEF IsFilter
<1>3. \A n \in 0..Len(rules) : n \in S
  <2> HIDE DEF S
  <2> QED
    BY <1>1, <1>2, UpwardInduction
<1> QED
  BY <1>3

\* Replacing one after the other in two texts, no match of any replacement being
\* across the border when it is made.
LEMMA AfterConcat ==
    ASSUME IsFilter, NEW a \in Texts, NEW b \in Texts,
           \A k \in 1..Len(rules) : \A i \in 1..Len(After(a, k - 1)) :
             i + Len(rules[k].from) - 1 > Len(After(a, k - 1))
               => ~Matches(After(a, k - 1) \o After(b, k - 1), i, rules[k].from)
    PROVE  \A n \in 0..Len(rules) : After(a \o b, n) = After(a, n) \o After(b, n)
<1> DEFINE S == {n \in 0..Len(rules) : After(a \o b, n) = After(a, n) \o After(b, n)}
<1>1. ASSUME NEW n \in 0..Len(rules), \A j \in 0..(n - 1) : j \in S
      PROVE  n \in S
  <2>1. CASE n = 0
    BY <2>1, AfterStep
  <2>2. CASE n # 0
    <3>1. /\ n - 1 \in 0..(n - 1) /\ n - 1 \in 0..Len(rules) /\ n - 1 \in Nat
          /\ (n - 1) + 1 = n /\ n \in 1..Len(rules) /\ rules[n] \in Rules
      BY <2>2 DEF IsFilter
    <3>2. /\ After(a \o b, n) = Replaced(After(a \o b, n - 1), rules[n])
          /\ After(a, n) = Replaced(After(a, n - 1), rules[n])
          /\ After(b, n) = Replaced(After(b, n - 1), rules[n])
      BY <3>1, AfterStep
    <3>3. After(a, n - 1) \in Texts /\ After(b, n - 1) \in Texts
      BY <3>1, AfterIsText
    <3>4. After(a \o b, n - 1) = After(a, n - 1) \o After(b, n - 1)
      BY <1>1, <3>1
    <3>5. \A i \in 1..Len(After(a, n - 1)) :
             i + Len(rules[n].from) - 1 > Len(After(a, n - 1))
               => ~Matches(After(a, n - 1) \o After(b, n - 1), i, rules[n].from)
      BY <3>1
    <3>6. Replaced(After(a, n - 1) \o After(b, n - 1), rules[n])
            = Replaced(After(a, n - 1), rules[n]) \o Replaced(After(b, n - 1), rules[n])
      BY <3>1, <3>3, <3>5, ReplacedConcat
    <3>7. After(a \o b, n) = After(a, n) \o After(b, n)
      BY <3>2, <3>4, <3>6
    <3> QED
      BY <3>7
  <2> QED
    BY <2>1, <2>2
<1>2. 0 \in Int /\ Len(rules) \in Int
  BY DEF IsFilter
<1>3. \A n \in 0..Len(rules) : n \in S
  <2> HIDE DEF S
  <2> QED
    BY <1>1, <1>2, UpwardInduction
<1> QED
  BY <1>3

Kept(s) == {i \in DOMAIN s : s[i] # Space}

LEMMA SmallestIsThere ==
    ASSUME NEW n \in Nat, NEW S \in SUBSET (1..n), S # {}
    PROVE  Min(S) \in S /\ \A y \in S : Min(S) <= y
<1> DEFINE Less == {ss \in Nat \X Nat : ss[1] < ss[2]}
<1>1. IsWellFoundedOn(Less, Nat)
  BY NatLessThanWellFounded DEF OpToRel
<1>2. \A a, b \in Nat : <<a, b>> \notin Less => b <= a
  OBVIOUS
<1>3. S \subseteq Nat
  OBVIOUS
<1> HIDE DEF Less
<1>4. PICK x \in S : \A y \in S : <<y, x>> \notin Less
  BY <1>1, <1>3, WFMin
<1>5. \A y \in S : x <= y
  BY <1>2, <1>3, <1>4
<1> QED
  BY <1>5 DEF Min

\* What trim() leaves goes from the first to the last character it keeps.
LEMMA TrimIs ==
    ASSUME NEW s \in Texts
    PROVE  \/ Kept(s) = {} /\ Trim(s) = <<>>
           \/ \E i \in 1..Len(s), j \in 1..Len(s) :
                /\ i <= j /\ s[i] # Space /\ s[j] # Space
                /\ \A k \in 1..Len(s) : s[k] # Space => i <= k /\ k <= j
                /\ Trim(s) = SubSeq(s, i, j)
<1>1. Len(s) \in Nat /\ DOMAIN s = 1..Len(s) /\ Kept(s) \in SUBSET (1..Len(s))
  BY DEF Texts, Kept
<1>2. Trim(s) = IF Kept(s) = {} THEN <<>> ELSE SubSeq(s, Min(Kept(s)), Max(Kept(s)))
  BY DEF Trim, Kept
<1>3. CASE Kept(s) # {}
  <2> DEFINE i == Min(Kept(s))
             j == Max(Kept(s))
  <2>1. i \in Kept(s) /\ \A k \in Kept(s) : i <= k
    BY <1>1, <1>3, SmallestIsThere
  <2>2. j \in Kept(s) /\ \A k \in Kept(s) : j >= k
    BY <1>1, <1>3, LargestIsThere
  <2>3. i <= j /\ i \in 1..Len(s) /\ j \in 1..Len(s)
    BY <1>1, <2>1, <2>2
  <2>4. \A k \in 1..Len(s) : s[k] # Space => k \in Kept(s)
    BY <1>1 DEF Kept
  <2>5. \A k \in 1..Len(s) : j >= k <=> k <= j
    BY <1>1, <2>3
  <2>6. s[i] # Space /\ s[j] # Space
    BY <2>1, <2>2 DEF Kept
  <2>7. Trim(s) = SubSeq(s, i, j)
    BY <1>2, <1>3
  <2> HIDE DEF i, j
  <2> QED
    BY <2>1, <2>2, <2>3, <2>4, <2>5, <2>6, <2>7
<1> QED
  BY <1>2, <1>3

LEMMA TrimIsText ==
    ASSUME NEW s \in Texts
    PROVE  Trim(s) \in Texts /\ Len(Trim(s)) <= Len(s)
<1>1. Len(s) \in Nat
  BY DEF Texts
<1>2. CASE Trim(s) = <<>>
  BY <1>1, <1>2, EmptyText
<1>3. ASSUME NEW i \in 1..Len(s), NEW j \in 1..Len(s), Trim(s) = SubSeq(s, i, j)
      PROVE  Trim(s) \in Texts /\ Len(Trim(s)) <= Len(s)
  BY <1>1, <1>3, SubSeqProperties DEF Texts
<1> QED
  BY <1>2, <1>3, TrimIs

\* Trimming two texts is trimming their concatenation if no white space is at the
\* border.
LEMMA TrimConcat ==
    ASSUME NEW l \in Texts, NEW r \in Texts, l # <<>>, r # <<>>,
           l[Len(l)] # Space, r[1] # Space
    PROVE  Trim(l \o r) = Trim(l) \o Trim(r)
<1> DEFINE c == l \o r
           m == Len(l)
<1>1. /\ m \in Nat \ {0} /\ Len(r) \in Nat \ {0} /\ Len(c) = m + Len(r)
      /\ m \in 1..m /\ 1 \in 1..Len(r)
  BY DEF Texts
<1>2. c \in Texts
  BY TextsConcat
<1>3. /\ \A k \in 1..m : c[k] = l[k]
      /\ \A k \in 1..Len(r) : c[m + k] = r[k]
  BY TextsConcat
<1>4. Kept(l) # {} /\ Kept(r) # {} /\ Kept(c) # {}
  <2>1. DOMAIN l = 1..m /\ DOMAIN r = 1..Len(r) /\ DOMAIN c = 1..Len(c)
    BY <1>2 DEF Texts
  <2>2. m \in Kept(l) /\ 1 \in Kept(r)
    BY <1>1, <2>1 DEF Kept
  <2>3. m \in Kept(c)
    BY <1>1, <1>3, <2>1 DEF Kept
  <2> QED
    BY <2>2, <2>3
<1> HIDE DEF c, m
<1>5. PICK i \in 1..m, j \in 1..m :
         /\ i <= j /\ l[i] # Space /\ l[j] # Space
         /\ \A k \in 1..m : l[k] # Space => i <= k /\ k <= j
         /\ Trim(l) = SubSeq(l, i, j)
  BY <1>4, TrimIs DEF m
<1>6. PICK x \in 1..Len(r), y \in 1..Len(r) :
         /\ x <= y /\ r[x] # Space /\ r[y] # Space
         /\ \A k \in 1..Len(r) : r[k] # Space => x <= k /\ k <= y
         /\ Trim(r) = SubSeq(r, x, y)
  BY <1>4, TrimIs
<1>7. PICK a \in 1..Len(c), b \in 1..Len(c) :
         /\ a <= b /\ c[a] # Space /\ c[b] # Space
         /\ \A k \in 1..Len(c) : c[k] # Space => a <= k /\ k <= b
         /\ Trim(c) = SubSeq(c, a, b)
  BY <1>2, <1>4, TrimIs
<1>8. j = m
  BY <1>1, <1>5 DEF m
<1>9. x = 1
  BY <1>1, <1>6
<1>10. a = i
  <2>1. a <= i
    BY <1>1, <1>3, <1>5, <1>7
  <2>2. i <= a
    <3>1. a \in 1..m
      BY <1>1, <1>5, <1>7, <2>1
    <3>2. l[a] # Space
      BY <1>3, <1>7, <3>1
    <3> QED
      BY <1>5, <3>1, <3>2
  <2> QED
    BY <1>1, <2>1, <2>2
<1>11. b = m + y
  <2>1. m + y <= b
    BY <1>1, <1>3, <1>6, <1>7
  <2>2. b - m \in 1..Len(r) /\ b = m + (b - m)
    BY <1>1, <1>6, <1>7, <2>1
  <2>3. r[b - m] # Space
    BY <1>3, <1>7, <2>2
  <2>4. b - m <= y
    BY <1>6, <2>2, <2>3
  <2> QED
    BY <1>1, <2>1, <2>4
<1>12. SubSeq(c, i, m) \o SubSeq(c, m + 1, m + y) = SubSeq(c, i, m + y)
  <2>1. /\ i \in 1..(Len(c) + 1) /\ m \in (i - 1)..Len(c) /\ m + y \in m..Len(c)
    BY <1>1, <1>5, <1>6
  <2> QED
    BY <1>2, <2>1, ConcatAdjacentSubSeq DEF Texts
<1>13. SubSeq(c, i, m) = SubSeq(l, i, m)
  BY <1>1, <1>5, SubSeqOfConcat1 DEF Texts, c, m
<1>14. SubSeq(c, m + 1, m + y) = SubSeq(r, 1, y)
  <2>1. /\ m + 1 \in (m + 1)..(m + Len(r)) /\ m + y \in (m + 1)..(m + Len(r))
        /\ (m + 1) - m = 1 /\ (m + y) - m = y
    BY <1>1, <1>6
  <2> QED
    BY <2>1, SubSeqOfConcat2 DEF Texts, c, m
<1>15. Trim(c) = Trim(l) \o Trim(r)
  BY <1>5, <1>6, <1>7, <1>8, <1>9, <1>10, <1>11, <1>12, <1>13, <1>14
<1> QED
  BY <1>15 DEF c

LEMMA ContentIsText ==
    ASSUME IsFilter, NEW s \in Texts
    PROVE  Content(s) \in Texts
<1>1. Len(rules) \in 0..Len(rules)
  BY DEF IsFilter
<1> QED
  BY <1>1, AfterIsText, TrimIsText DEF Content

LEMMA ContentOfNothing ==
    ASSUME IsFilter
    PROVE  Content(<<>>) = <<>>
<1>1. Len(rules) \in 0..Len(rules)
  BY DEF IsFilter
<1>2. Kept(<<>>) = {}
  BY DEF Kept
<1>3. Trim(<<>>) = <<>>
  BY <1>2 DEF Trim, Kept
<1> QED
  BY <1>1, <1>3, AfterEmpty DEF Content

\* What the replacements make of a text is what they make of its parts, unless the
\* border is touched.
LEMMA ContentConcat ==
    ASSUME IsFilter, NEW l \in Texts, NEW r \in Texts, r # <<>>, BorderIsClean(l, r)
    PROVE  Content(l \o r) = Content(l) \o Content(r)
<1>1. Len(rules) \in 0..Len(rules) /\ DOMAIN rules = 1..Len(rules)
  BY DEF IsFilter
<1>2. CASE l = <<>>
  <2>1. l \o r = r /\ Content(r) \in Texts
    BY <1>2, ContentIsText, ConcatEmptySeq DEF Texts
  <2>2. Content(l) = <<>>
    BY <1>2, ContentOfNothing
  <2>3. <<>> \o Content(r) = Content(r)
    BY <2>1, ConcatEmptySeq DEF Texts
  <2> QED
    BY <2>1, <2>2, <2>3
<1>3. CASE l # <<>>
  <2>1. l[Len(l)] # Space /\ r[1] # Space /\ ~MatchAcross(l, r)
    BY <1>3 DEF BorderIsClean
  <2>2. Trim(l \o r) = Trim(l) \o Trim(r)
    BY <1>3, <2>1, TrimConcat
  <2>3. Trim(l) \in Texts /\ Trim(r) \in Texts
    BY TrimIsText
  <2>4. \A k \in 1..Len(rules) : \A i \in 1..Len(After(Trim(l), k - 1)) :
           i + Len(rules[k].from) - 1 > Len(After(Trim(l), k - 1))
             => ~Matches(After(Trim(l), k - 1) \o After(Trim(r), k - 1), i, rules[k].from)
    BY <1>1, <2>1 DEF MatchAcross
  <2>5. After(Trim(l) \o Trim(r), Len(rules))
          = After(Trim(l), Len(rules)) \o After(Trim(r), Len(rules))
    BY <1>1, <2>3, <2>4, AfterConcat
  <2> QED
    BY <2>2, <2>5 DEF Content
<1> QED
  BY <1>2, <1>3

------------------------------------------------------------------------------
\* Filter().

LEMMA PartIs ==
    ASSUME NEW s \in Texts, NEW size \in Nat
    PROVE  Part(s, size) \in Texts /\ Len(Part(s, size)) <= size
<1> DEFINE S == {Len(s), size}
<1>1. Len(s) \in Nat
  BY DEF Texts
<1>2. Min(S) \in S /\ \A x \in S : Min(S) <= x
  <2>1. \E x \in S : \A y \in S : x <= y
    <3>1. CASE Len(s) <= size
      BY <1>1, <3>1
    <3>2. CASE size <= Len(s)
      BY <1>1, <3>2
    <3> QED
      BY <1>1, <3>1, <3>2
  <2> HIDE DEF S
  <2> QED
    BY <2>1 DEF Min
<1>3. Min(S) \in Nat /\ Min(S) <= size /\ Min(S) <= Len(s)
  BY <1>1, <1>2
<1>4. Part(s, size) = SubSeq(s, 1, Min(S))
  BY DEF Part
<1>5. \A i \in 1..Min(S) : s[i] \in Chars
  BY <1>1, <1>3 DEF Texts
<1> QED
  <2> HIDE DEF S
  <2> QED
    BY <1>3, <1>4, <1>5, SubSeqProperties DEF Texts

LEMMA SentIs ==
    ASSUME IsFilter, NEW s \in Texts
    PROVE  /\ Sent(s) \in Texts
           /\ Len(Sent(s)) > Len(s) => \E k \in DOMAIN rules : Len(rules[k].to) > Len(rules[k].from)
<1>1. Len(s) \in Nat /\ DOMAIN rules = 1..Len(rules) /\ Len(rules) \in 0..Len(rules)
  BY DEF Texts, IsFilter
<1>2. CASE rules = <<>>
  BY <1>1, <1>2 DEF Sent
<1>3. CASE rules # <<>>
  <2>1. Sent(s) = Content(s)
    BY <1>3 DEF Sent
  <2>2. Content(s) \in Texts
    BY ContentIsText
  <2>3. CASE \A k \in 1..Len(rules) : Len(rules[k].to) <= Len(rules[k].from)
    <3>1. Len(Content(s)) <= Len(Trim(s)) /\ Trim(s) \in Texts /\ Len(Trim(s)) <= Len(s)
      BY <1>1, <2>3, TrimIsText, AfterShrinks DEF Content
    <3>2. Len(Content(s)) \in Nat /\ Len(Trim(s)) \in Nat
      BY <2>2, <3>1 DEF Texts
    <3>3. ~(Len(Sent(s)) > Len(s))
      BY <1>1, <2>1, <3>1, <3>2
    <3> QED
      BY <2>1, <2>2, <3>3
  <2>4. CASE \E k \in 1..Len(rules) : ~(Len(rules[k].to) <= Len(rules[k].from))
    <3>1. PICK k \in 1..Len(rules) : ~(Len(rules[k].to) <= Len(rules[k].from))
      BY <2>4
    <3>2. rules[k] \in Rules
      BY DEF IsFilter
    <3>3. Len(rules[k].to) \in Nat /\ Len(rules[k].from) \in Nat
      BY <3>2 DEF Rules, Texts
    <3>4. Len(rules[k].to) > Len(rules[k].from)
      BY <3>1, <3>3
    <3> QED
      BY <1>1, <2>1, <2>2, <3>4
  <2> QED
    BY <2>3, <2>4
<1> QED
  BY <1>2, <1>3

\* What has been read of a response, and the chunk that is read next.
Seen == SubSeq(response, 1, at)

LEMMA ChunkIs ==
    ASSUME response \in Texts, at \in 0..Len(response),
           NEW n \in 1..(Len(response) - at)
    PROVE  LET in == SubSeq(response, at + 1, at + n) IN
           /\ Seen \in Texts /\ in \in Texts /\ in # <<>> /\ Len(in) = n
           /\ SubSeq(response, 1, at + n) = Seen \o in
           /\ at = 0 => Seen = <<>>
<1> DEFINE in == SubSeq(response, at + 1, at + n)
<1>1. Len(response) \in Nat /\ \A i \in 1..Len(response) : response[i] \in Chars
  BY DEF Texts
<1>2. /\ at \in Int /\ at + 1 \in Int /\ at + n \in Int /\ at + n <= Len(response) /\ n \in Nat /\ n >= 1
      /\ (at + n) - (at + 1) + 1 = n /\ at + 1 <= at + n
  BY <1>1
<1>3. Seen \in Texts
  <2>1. \A i \in 1..at : response[i] \in Chars
    BY <1>1, <1>2
  <2> QED
    BY <1>2, <2>1, SubSeqProperties DEF Seen, Texts
<1>4. in \in Texts /\ Len(in) = n
  <2>1. \A i \in (at + 1)..(at + n) : response[i] \in Chars
    BY <1>1, <1>2
  <2> QED
    BY <1>2, <2>1, SubSeqProperties DEF Texts
<1>5. in # <<>>
  BY <1>2, <1>4
<1>6. Seen \o in = SubSeq(response, 1, at + n)
  <2>1. 1 \in 1..(Len(response) + 1) /\ at \in (1 - 1)..Len(response) /\ at + n \in at..Len(response)
    BY <1>1, <1>2
  <2> QED
    BY <2>1, ConcatAdjacentSubSeq DEF Seen, Texts
<1>7. at = 0 => Seen = <<>>
  BY DEF Seen
<1> QED
  BY <1>3, <1>4, <1>5, <1>6, <1>7

IsResponse == response \in Texts /\ IsFilter /\ mime \in {"html", "json", "text", "image"}

\* While all is well the page has received, and was told, what has been read so far.
SoFar ==
    state = "open" /\ whole =>
        /\ HasFilter => delivered = Sent(Seen)
        /\ HasFilter /\ appOk /\ mime = "json" => events = Content(Seen)

TextInvariant ==
    /\ FilterTypeOK /\ IsResponse
    /\ injected <= at
    /\ SoFar /\ BordersDecide

LEMMA IsFilterKept == UNCHANGED fixed => (IsFilter <=> IsFilter') /\ (IsResponse <=> IsResponse')
  BY DEF fixed, IsFilter, IsResponse

LEMMA Bounds == MaxChanges \in Nat /\ OutSizes \subseteq Nat \ {0}
  BY FilterAssumption

LEMMA FilterInitTexts == FilterInit => TextInvariant
<1> SUFFICES ASSUME FilterInit PROVE TextInvariant
  OBVIOUS
<1>1. IsResponse
  BY FilterAssumption DEF FilterInit, IsResponse, IsFilter
<1>2. Len(response) \in Nat /\ 0 \in 0..Len(response)
  BY <1>1 DEF IsResponse, Texts
<1>3. FilterTypeOK
  <2>1. at \in 0..Len(response) /\ injected \in 0..Len(response)
    BY <1>2 DEF FilterInit
  <2>2. changes \in 0..MaxChanges
    BY Bounds DEF FilterInit
  <2>3. delivered \in Texts /\ events \in Texts
    BY EmptyText DEF FilterInit
  <2> QED
    BY <2>1, <2>2, <2>3 DEF FilterInit, FilterTypeOK
<1>4. Sent(<<>>) = <<>> /\ Content(<<>>) = <<>>
  BY <1>1, ContentOfNothing DEF Sent, IsResponse
<1>5. Seen = <<>> /\ delivered = <<>> /\ events = <<>>
  BY <1>2 DEF FilterInit, Seen
<1>6. SoFar
  BY <1>4, <1>5 DEF SoFar
<1>7. BordersDecide /\ injected <= at
  BY DEF FilterInit, BordersDecide
<1> QED
  BY <1>1, <1>3, <1>6, <1>7 DEF TextInvariant

\* What Filter does with a chunk, the chunk being a text.
LEMMA FilterTexts ==
    ASSUME TextInvariant, NEW n \in 1..(Len(response) - at), NEW size \in OutSizes,
           Filter(n, size)
    PROVE  TextInvariant'
<1> DEFINE in   == SubSeq(response, at + 1, at + n)
           part == Part(in, size)
<1>1. /\ response \in Texts /\ IsFilter /\ IsResponse /\ size \in Nat /\ at \in 0..Len(response)
      /\ Len(response) \in Nat
  <2>1. response \in Texts /\ IsFilter /\ IsResponse /\ at \in 0..Len(response)
    BY DEF TextInvariant, IsResponse, FilterTypeOK
  <2>2. Len(response) \in Nat
    BY <2>1 DEF Texts
  <2>3. size \in Nat
    BY Bounds
  <2> QED
    BY <2>1, <2>2, <2>3
<1>2. /\ Seen \in Texts /\ in \in Texts /\ in # <<>> /\ Len(in) = n
      /\ SubSeq(response, 1, at + n) = Seen \o in
      /\ at = 0 => Seen = <<>>
  BY <1>1, ChunkIs
<1>3. part \in Texts
  BY <1>1, <1>2, PartIs
<1>4. /\ state = "open" /\ HasFilter /\ at' = at + Read(in)
      /\ UNCHANGED <<fixed, scripts, changes>>
      /\ whole' = (/\ whole /\ part = in /\ BorderIsClean(Seen, in))
      /\ \/ state' = "broken" /\ UNCHANGED <<delivered, events, injected>>
         \/ /\ delivered' = delivered \o Sent(part)
            /\ injected' = IF Injects(part) /\ appJS \in scripts THEN injected + 1 ELSE injected
            /\ events' = IF appOk /\ mime = "json" THEN events \o Reported(part) ELSE events
            /\ UNCHANGED state
  BY DEF Filter, Seen
<1>5. at' = at + n /\ at' \in 0..Len(response) /\ Seen' = Seen \o in
  BY <1>1, <1>2, <1>4 DEF Read, Seen, fixed
<1> HIDE DEF in, part
<1>6. IsResponse' /\ IsFilter' /\ (HasFilter <=> HasFilter') /\ mime' = mime /\ appOk' = appOk
  BY <1>1, <1>4, IsFilterKept DEF fixed, HasFilter
<1>7. Sent(part) \in Texts /\ Reported(part) \in Texts
  BY <1>1, <1>3, SentIs, ContentIsText DEF Reported
<1>8. injected' \in Nat /\ injected' <= at' /\ injected' \in 0..Len(response)
  <2>1. injected \in Nat /\ injected <= at
    BY <1>1 DEF TextInvariant, FilterTypeOK
  <2>2. injected' = injected \/ injected' = injected + 1
    BY <1>4
  <2> QED
    BY <1>1, <1>5, <2>1, <2>2
<1>9. FilterTypeOK'
  <2>1. delivered' \in Texts /\ events' \in Texts
    BY <1>4, <1>7, TextsConcat DEF TextInvariant, FilterTypeOK
  <2>2. whole' \in BOOLEAN /\ state' \in {"open", "broken"}
    <3>1. whole' \in BOOLEAN
      BY <1>4
    <3>2. state' \in {"open", "broken"}
      BY <1>4
    <3> QED
      BY <3>1, <3>2
  <2> QED
    BY <1>4, <1>5, <1>8, <2>1, <2>2 DEF TextInvariant, FilterTypeOK, fixed
<1>10. SoFar'
  <2> SUFFICES ASSUME state' = "open", whole'
               PROVE  /\ delivered' = Sent(Seen)'
                      /\ appOk /\ mime = "json" => events' = Content(Seen)'
    BY <1>4, <1>6 DEF SoFar
  <2>1. part = in /\ whole /\ BorderIsClean(Seen, in)
    BY <1>4
  <2>2. /\ delivered' = delivered \o Sent(in)
        /\ appOk /\ mime = "json" => events' = events \o Content(in)
    BY <1>4, <2>1 DEF Reported
  <2>3. /\ delivered = Sent(Seen)
        /\ appOk /\ mime = "json" => events = Content(Seen)
    BY <1>4, <2>1 DEF TextInvariant, SoFar
  <2>4. Content(Seen \o in) = Content(Seen) \o Content(in)
    BY <1>1, <1>2, <2>1, ContentConcat
  <2>5. Sent(Seen \o in) = Sent(Seen) \o Sent(in)
    BY <2>4 DEF Sent
  <2>6. Content(Seen)' = Content(Seen \o in) /\ Sent(Seen)' = Sent(Seen \o in)
    <3>1. rules' = rules
      BY <1>4 DEF fixed
    <3> QED
      BY <1>5, <3>1 DEF Content, Sent, After
  <2> QED
    BY <2>2, <2>3, <2>4, <2>5, <2>6
<1>11. BordersDecide'
  BY <1>4 DEF BordersDecide
<1> QED
  BY <1>6, <1>8, <1>9, <1>10, <1>11 DEF TextInvariant

LEMMA CompleteTexts ==
    ASSUME TextInvariant, Complete
    PROVE  TextInvariant'
<1>1. /\ state = "open" /\ state' = "done" /\ at' = Len(response)
      /\ UNCHANGED <<fixed, events, injected, scripts, changes, whole>>
      /\ ~HasFilter \/ at = Len(response)
      /\ delivered' = IF HasFilter THEN delivered ELSE response
  BY DEF Complete
<1>2. IsResponse' /\ IsFilter' /\ (HasFilter <=> HasFilter')
  BY <1>1, IsFilterKept DEF fixed, HasFilter, TextInvariant, IsResponse
<1>3. /\ response \in Texts /\ Len(response) \in Nat /\ at \in 0..Len(response)
      /\ injected \in Nat /\ injected <= at
  BY DEF TextInvariant, IsResponse, FilterTypeOK, Texts
<1>4. FilterTypeOK' /\ injected' <= at'
  BY <1>1, <1>3 DEF TextInvariant, FilterTypeOK, fixed
<1>5. at = Len(response) => Seen = response
  BY <1>3, SubSeqFull DEF Seen, Texts
<1>6. whole' => DeliveryTellsResponse' /\ EventsTellResponse'
  <2> SUFFICES ASSUME whole
               PROVE  DeliveryTellsResponse' /\ EventsTellResponse'
    BY <1>1
  <2>1. rules' = rules /\ response' = response /\ mime' = mime /\ appOk' = appOk
    BY <1>1 DEF fixed
  <2>2. Content(response)' = Content(response)
    BY <2>1 DEF Content, After
  <2>3. CASE ~HasFilter
    <3>1. delivered' = response /\ mime = "image"
      BY <1>1, <2>3 DEF HasFilter
    <3> QED
      BY <1>2, <2>1, <2>3, <3>1 DEF DeliveryTellsResponse, EventsTellResponse
  <2>4. CASE HasFilter
    <3>1. delivered = Sent(response) /\ (appOk /\ mime = "json" => events = Content(response))
      BY <1>1, <1>5, <2>4 DEF TextInvariant, SoFar
    <3>2. delivered' = Sent(response) /\ events' = events
      BY <1>1, <2>4, <3>1
    <3> QED
      BY <1>2, <2>1, <2>2, <2>4, <3>1, <3>2 DEF DeliveryTellsResponse, EventsTellResponse, Sent
  <2> QED
    BY <2>3, <2>4
<1>7. BordersDecide' /\ SoFar'
  BY <1>1, <1>6 DEF BordersDecide, SoFar
<1> QED
  BY <1>2, <1>4, <1>7 DEF TextInvariant

LEMMA ChangeTexts ==
    ASSUME TextInvariant, ChangeScript \/ UNCHANGED filterVars
    PROVE  TextInvariant'
<1>1. UNCHANGED <<fixed, at, delivered, events, injected, state, whole>>
  BY DEF ChangeScript, filterVars, fixed
<1>2. IsResponse' /\ (HasFilter <=> HasFilter')
  BY <1>1, IsFilterKept DEF fixed, HasFilter, TextInvariant
<1>3. scripts' \subseteq Scripts /\ changes' \in 0..MaxChanges
  <2>1. CASE ChangeScript
    <3>1. changes \in 0..MaxChanges /\ changes < MaxChanges /\ changes' = changes + 1
      BY <2>1 DEF ChangeScript, TextInvariant, FilterTypeOK
    <3>2. changes' \in 0..MaxChanges
      BY <3>1, Bounds
    <3>3. scripts' \subseteq Scripts
      BY <2>1 DEF ChangeScript, TextInvariant, FilterTypeOK
    <3> QED
      BY <3>2, <3>3
  <2>2. CASE UNCHANGED filterVars
    BY <2>2 DEF filterVars, TextInvariant, FilterTypeOK
  <2> QED
    BY <2>1, <2>2
<1>4. FilterTypeOK' /\ injected' <= at'
  BY <1>1, <1>3 DEF TextInvariant, FilterTypeOK, fixed
<1>5. rules' = rules /\ response' = response /\ at' = at
  BY <1>1 DEF fixed
<1>6. /\ Content(response)' = Content(response) /\ Content(Seen)' = Content(Seen)
      /\ Sent(Seen)' = Sent(Seen)
  BY <1>5 DEF Content, After, Seen, Sent
<1>7. SoFar' /\ BordersDecide'
  BY <1>1, <1>2, <1>5, <1>6 DEF TextInvariant, SoFar, BordersDecide, DeliveryTellsResponse,
     EventsTellResponse, fixed
<1> QED
  BY <1>2, <1>4, <1>7 DEF TextInvariant

LEMMA TextInvariantHolds == FilterSpec => []TextInvariant
<1>1. TextInvariant /\ [FilterNext]_filterVars => TextInvariant'
  BY FilterTexts, CompleteTexts, ChangeTexts DEF FilterNext
<1> QED
  BY <1>1, FilterInitTexts, PTL DEF FilterSpec

\* Every variable of the filter keeps its type.
THEOREM FilterTypeCorrect == FilterSpec => []FilterTypeOK
<1>1. TextInvariant => FilterTypeOK
  BY DEF TextInvariant
<1> QED
  BY <1>1, TextInvariantHolds, PTL

\* However long a response is and however it is cut into chunks and buffers, the page
\* is given and told what the replacements make of it as a whole, unless a buffer was
\* too small for a chunk or white space or a match met the border of two chunks.
THEOREM ChunksMakeNoDifference == FilterSpec => []BordersDecide
<1>1. TextInvariant => BordersDecide
  BY DEF TextInvariant
<1> QED
  BY <1>1, TextInvariantHolds, PTL

\* The output buffer is too small only if a replacement grows what it finds, whatever
\* the sizes of chunk and buffer.
THEOREM OnlyGrowthBreaks == FilterSpec => []GrowthBreaks
<1>1. FilterInit => GrowthBreaks
  BY DEF FilterInit, GrowthBreaks
<1>2. TextInvariant /\ GrowthBreaks /\ [FilterNext]_filterVars => GrowthBreaks'
  <2> SUFFICES ASSUME TextInvariant, GrowthBreaks, [FilterNext]_filterVars PROVE GrowthBreaks'
    OBVIOUS
  <2>1. ASSUME NEW n \in 1..(Len(response) - at), NEW size \in OutSizes, Filter(n, size)
        PROVE  GrowthBreaks'
    <3> DEFINE in   == SubSeq(response, at + 1, at + n)
               part == Part(in, size)
    <3>1. /\ state = "open" /\ rules' = rules
          /\ Len(Sent(part)) > size \/ state' = state
      BY <2>1 DEF Filter, fixed
    <3>2. /\ response \in Texts /\ IsFilter /\ size \in Nat /\ at \in 0..Len(response)
      BY FilterAssumption DEF TextInvariant, IsResponse, FilterTypeOK
    <3>3. in \in Texts
      BY <3>2, ChunkIs
    <3>4. part \in Texts /\ Len(part) <= size
      BY <3>2, <3>3, PartIs
    <3>5. Sent(part) \in Texts
      BY <3>2, <3>4, SentIs
    <3> HIDE DEF part
    <3>6. Len(Sent(part)) \in Nat /\ Len(part) \in Nat
      BY <3>4, <3>5 DEF Texts
    <3>7. Len(Sent(part)) > size => Len(Sent(part)) > Len(part)
      BY <3>2, <3>4, <3>6
    <3>8. Len(Sent(part)) > size => \E k \in DOMAIN rules : Len(rules[k].to) > Len(rules[k].from)
      BY <3>2, <3>4, <3>7, SentIs
    <3> QED
      BY <3>1, <3>8 DEF GrowthBreaks
  <2>2. CASE Complete
    BY <2>2 DEF Complete, GrowthBreaks
  <2>3. CASE ChangeScript
    BY <2>3 DEF ChangeScript, GrowthBreaks, fixed
  <2>4. CASE UNCHANGED filterVars
    BY <2>4 DEF filterVars, GrowthBreaks
  <2> QED
    BY <2>1, <2>2, <2>3, <2>4 DEF FilterNext
<1> QED
  BY <1>1, <1>2, TextInvariantHolds, PTL DEF FilterSpec

------------------------------------------------------------------------------
\* Requests and answers of pages: what is joined.

Phrases == Seq(Words)
Joint == Bar \o Bar

LEMMA BarIsPhrase ==
    /\ Bar \in Phrases /\ Len(Bar) = 1 /\ Bar[1] = "|"
    /\ Joint \in Phrases /\ Len(Joint) = 2 /\ Joint[1] = "|" /\ Joint[2] = "|"
<1>1. "|" \in Words
  BY RequestAssumption
<1>2. Bar \in Phrases /\ Len(Bar) = 1 /\ Bar[1] = "|"
  BY <1>1 DEF Bar, Phrases
<1>3. Joint \in Phrases /\ Len(Joint) = 2 /\ Joint[1] = "|" /\ Joint[2] = "|"
  <2>1. /\ Joint \in Phrases /\ Len(Joint) = Len(Bar) + Len(Bar)
        /\ \A i \in 1..(Len(Bar) + Len(Bar)) :
             Joint[i] = IF i <= Len(Bar) THEN Bar[i] ELSE Bar[i - Len(Bar)]
    <3>1. Bar \in Seq(Words)
      BY <1>2 DEF Phrases
    <3> QED
      BY <3>1, ConcatProperties, Zenon DEF Joint, Phrases
  <2>2. Joint[1] = Bar[1] /\ Joint[2] = Bar[1]
    BY <1>2, <2>1
  <2> QED
    BY <1>2, <2>1, <2>2
<1> QED
  BY <1>2, <1>3

Link(ps, sep, f, k) == IF k = Len(ps) THEN ps[k] ELSE ps[k] \o sep \o f[k + 1]

IsJoinFrom(f, i, ps, sep) == f = [k \in i..Len(ps) |-> Link(ps, sep, f, k)]

LEMMA JoinExists ==
    ASSUME NEW ps, NEW sep, Len(ps) \in Nat \ {0}
    PROVE  \E f : IsJoinFrom(f, 1, ps, sep)
<1> DEFINE n == Len(ps)
           S == {i \in 1..n : \E f : IsJoinFrom(f, i, ps, sep)}
<1>0. n \in Nat \ {0}
  OBVIOUS
<1>1. ASSUME NEW i \in 1..n, \A j \in (i + 1)..n : j \in S
      PROVE  i \in S
  <2>1. PICK g : i # n => g = [j \in (i + 1)..n |-> Link(ps, sep, g, j)]
    <3>1. CASE i = n
      BY <3>1
    <3>2. CASE i # n
      <4>1. i + 1 \in S
        BY <1>0, <1>1, <3>2
      <4> QED
        BY <4>1 DEF IsJoinFrom
    <3> QED
      BY <3>1, <3>2
  <2> DEFINE f == [j \in i..n |-> IF j = i THEN Link(ps, sep, g, i) ELSE g[j]]
  <2>2. \A j \in (i + 1)..n : f[j] = g[j] /\ g[j] = Link(ps, sep, g, j)
    <3> SUFFICES ASSUME NEW j \in (i + 1)..n PROVE f[j] = g[j] /\ g[j] = Link(ps, sep, g, j)
      OBVIOUS
    <3>1. i # n /\ j \in i..n /\ j # i
      BY <1>0
    <3> QED
      BY <2>1, <3>1
  <2>3. \A j \in i..n : Link(ps, sep, f, j) = Link(ps, sep, g, j)
    <3> HIDE DEF f
    <3> QED
      BY <1>0, <2>2 DEF Link
  <2>4. \A j \in i..n : f[j] = Link(ps, sep, g, j)
    <3>1. \A j \in i..n : j # i => j \in (i + 1)..n
      BY <1>0
    <3> QED
      BY <2>2, <3>1
  <2>5. f = [j \in i..n |-> Link(ps, sep, f, j)]
    BY <2>3, <2>4
  <2> QED
    BY <2>5 DEF IsJoinFrom
<1>2. n \in Int /\ 1 \in Int /\ 1 \in 1..n
  BY <1>0
<1>3. \A i \in 1..n : i \in S
  <2> HIDE DEF S, n
  <2> QED
    BY <1>1, <1>2, DownwardInduction
<1> QED
  BY <1>2, <1>3

Joins(ps, sep) == CHOOSE f : IsJoinFrom(f, 1, ps, sep)

LEMMA JoinsIs ==
    ASSUME NEW ps, NEW sep, Len(ps) \in Nat \ {0}
    PROVE  \A k \in 1..Len(ps) :
             Joins(ps, sep)[k] = IF k = Len(ps) THEN ps[k] ELSE ps[k] \o sep \o Joins(ps, sep)[k + 1]
<1> DEFINE f == Joins(ps, sep)
<1>1. IsJoinFrom(f, 1, ps, sep)
  BY JoinExists DEF Joins
<1> HIDE DEF f
<1>2. \A k \in 1..Len(ps) : f[k] = Link(ps, sep, f, k)
  BY <1>1 DEF IsJoinFrom
<1> USE DEF f
<1> QED
  BY <1>2 DEF Link

LEMMA JoinsAreUnique ==
    ASSUME NEW ps, NEW sep, NEW f, Len(ps) \in Nat \ {0}, IsJoinFrom(f, 1, ps, sep)
    PROVE  f[1] = Joins(ps, sep)[1]
<1> DEFINE n == Len(ps)
           S == {k \in 1..n : f[k] = Joins(ps, sep)[k]}
<1>1. ASSUME NEW k \in 1..n, \A j \in (k + 1)..n : j \in S
      PROVE  k \in S
  <2>1. f[k] = IF k = n THEN ps[k] ELSE ps[k] \o sep \o f[k + 1]
    BY DEF IsJoinFrom, Link
  <2>2. Joins(ps, sep)[k] = IF k = n THEN ps[k] ELSE ps[k] \o sep \o Joins(ps, sep)[k + 1]
    BY JoinsIs
  <2>3. k # n => k + 1 \in (k + 1)..n
    OBVIOUS
  <2>4. f[k] = Joins(ps, sep)[k]
    BY <1>1, <2>1, <2>2, <2>3
  <2> QED
    BY <2>4
<1>2. n \in Int /\ 1 \in Int /\ 1 \in 1..n
  OBVIOUS
<1>3. \A k \in 1..n : k \in S
  <2> HIDE DEF S, n
  <2> QED
    BY <1>1, <1>2, DownwardInduction
<1> QED
  BY <1>2, <1>3

LEMMA RequestIsJoin ==
    ASSUME NEW ps, Len(ps) \in Nat \ {0}
    PROVE  Request(ps) = Joins(ps, Joint)[1]
<1> DEFINE F(h) == h = [k \in 1..Len(ps) |->
             IF k = Len(ps) THEN ps[k] ELSE ps[k] \o (Bar \o Bar) \o h[k + 1]]
           c == CHOOSE h : F(h)
<1>1. \A h : F(h) <=> IsJoinFrom(h, 1, ps, Joint)
  BY DEF IsJoinFrom, Link, Joint
<1>2. \E h : F(h)
  BY <1>1, JoinExists
<1>3. Request(ps) = c[1]
  BY DEF Request
<1> HIDE DEF F
<1>4. F(c)
  BY <1>2
<1> QED
  BY <1>1, <1>3, <1>4, JoinsAreUnique

LEMMA JoinsArePhrases ==
    ASSUME NEW ps \in Seq(Phrases), ps # <<>>, NEW sep \in Phrases
    PROVE  \A k \in 1..Len(ps) : Joins(ps, sep)[k] \in Phrases
<1> DEFINE n == Len(ps)
           S == {k \in 1..n : Joins(ps, sep)[k] \in Phrases}
<1>0. n \in Nat \ {0} /\ \A k \in 1..n : ps[k] \in Phrases
  OBVIOUS
<1>1. ASSUME NEW k \in 1..n, \A j \in (k + 1)..n : j \in S
      PROVE  k \in S
  <2>1. Joins(ps, sep)[k] = IF k = n THEN ps[k] ELSE ps[k] \o sep \o Joins(ps, sep)[k + 1]
    BY <1>0, JoinsIs
  <2>2. k # n => k + 1 \in (k + 1)..n
    BY <1>0
  <2>3. k # n => Joins(ps, sep)[k + 1] \in Phrases
    BY <1>1, <2>2
  <2>4. Joins(ps, sep)[k] \in Phrases
    <3>1. CASE k = n
      BY <1>0, <2>1, <3>1
    <3>2. CASE k # n
      <4>1. ps[k] \o sep \in Phrases
        BY <1>0, ConcatProperties DEF Phrases
      <4>2. (ps[k] \o sep) \o Joins(ps, sep)[k + 1] \in Phrases
        BY <2>3, <3>2, <4>1, ConcatProperties DEF Phrases
      <4> QED
        BY <2>1, <3>2, <4>2
    <3> QED
      BY <3>1, <3>2
  <2> QED
    BY <2>4
<1>2. n \in Int /\ 1 \in Int
  BY <1>0
<1>3. \A k \in 1..n : k \in S
  <2> HIDE DEF S, n
  <2> QED
    BY <1>1, <1>2, DownwardInduction
<1> QED
  BY <1>3

\* One more piece in front.
LEMMA JoinFront ==
    ASSUME NEW p \in Phrases, NEW q \in Seq(Phrases), q # <<>>, NEW sep \in Phrases
    PROVE  Joins(<<p>> \o q, sep)[1] = p \o sep \o Joins(q, sep)[1]
<1> DEFINE n == Len(q)
           ps == <<p>> \o q
           S == {k \in 1..n : Joins(ps, sep)[k + 1] = Joins(q, sep)[k]}
<1>0. /\ n \in Nat \ {0} /\ Len(ps) = n + 1 /\ ps[1] = p
      /\ \A k \in 1..n : ps[k + 1] = q[k]
  OBVIOUS
<1> HIDE DEF ps
<1>1. ASSUME NEW k \in 1..n, \A j \in (k + 1)..n : j \in S
      PROVE  k \in S
  <2>1. Joins(q, sep)[k] = IF k = n THEN q[k] ELSE q[k] \o sep \o Joins(q, sep)[k + 1]
    BY <1>0, JoinsIs
  <2>2. k # n => k + 1 \in (k + 1)..n
    BY <1>0
  <2>3. Joins(ps, sep)[k + 1] = IF k = n THEN ps[k + 1] ELSE ps[k + 1] \o sep \o Joins(ps, sep)[k + 2]
    <3>1. k + 1 \in 1..Len(ps) /\ (k + 1 = Len(ps) <=> k = n) /\ (k + 1) + 1 = k + 2
      BY <1>0
    <3>2. Len(ps) \in Nat \ {0}
      BY <1>0
    <3>3. Joins(ps, sep)[k + 1] = IF k + 1 = Len(ps) THEN ps[k + 1] ELSE ps[k + 1] \o sep \o Joins(ps, sep)[(k + 1) + 1]
      BY <3>1, <3>2, JoinsIs
    <3> QED
      BY <3>1, <3>3
  <2>4. k # n => Joins(ps, sep)[k + 2] = Joins(q, sep)[k + 1]
    <3>1. k # n => Joins(ps, sep)[(k + 1) + 1] = Joins(q, sep)[k + 1]
      BY <1>1, <2>2
    <3>2. (k + 1) + 1 = k + 2
      OBVIOUS
    <3> QED
      BY <3>1, <3>2
  <2>5. Joins(ps, sep)[k + 1] = Joins(q, sep)[k]
    BY <1>0, <2>1, <2>3, <2>4
  <2> QED
    BY <2>5
<1>2. n \in Int /\ 1 \in Int /\ 1 \in 1..n
  BY <1>0
<1>3. \A k \in 1..n : k \in S
  <2> HIDE DEF S, n
  <2> QED
    BY <1>1, <1>2, DownwardInduction
<1>4. Joins(ps, sep)[1 + 1] = Joins(q, sep)[1]
  BY <1>2, <1>3
<1>5. Joins(ps, sep)[1] = ps[1] \o sep \o Joins(ps, sep)[1 + 1]
  <2>1. Len(ps) \in Nat \ {0} /\ 1 \in 1..Len(ps) /\ 1 # Len(ps)
    BY <1>0
  <2> QED
    BY <2>1, JoinsIs
<1> USE DEF ps
<1> QED
  BY <1>0, <1>4, <1>5

------------------------------------------------------------------------------
\* What is split: the first place of a pattern.

LEMMA FirstFound ==
    ASSUME NEW text \in Phrases, NEW sep \in Phrases, sep # <<>>, NEW pos \in 1..(Len(text) + 1),
           Found(text, sep, pos) # {}
    PROVE  LET next == Min(Found(text, sep, pos)) IN
           /\ next \in pos..Len(text) /\ next + Len(sep) \in (pos + 1)..(Len(text) + 1)
           /\ SubSeq(text, next, next + Len(sep) - 1) = sep
           /\ \A i \in pos..(next - 1) : SubSeq(text, i, i + Len(sep) - 1) # sep
<1> DEFINE F == Found(text, sep, pos)
           next == Min(F)
<1>1. Len(text) \in Nat /\ Len(sep) \in Nat \ {0}
  BY DEF Phrases
<1>2. F \in SUBSET (1..Len(text))
  BY <1>1 DEF Found
<1>3. next \in F /\ \A y \in F : next <= y
  <2>1. F # {}
    OBVIOUS
  <2> HIDE DEF F
  <2> QED
    BY <1>1, <1>2, <2>1, SmallestIsThere
<1>4. /\ next \in pos..(Len(text) - Len(sep) + 1)
      /\ SubSeq(text, next, next + Len(sep) - 1) = sep
  BY <1>3 DEF Found
<1>5. ASSUME NEW i \in pos..(next - 1) PROVE SubSeq(text, i, i + Len(sep) - 1) # sep
  <2>1. i \in pos..(Len(text) - Len(sep) + 1) /\ i < next
    BY <1>1, <1>4
  <2>2. i \notin F
    BY <1>2, <1>3, <2>1
  <2> QED
    BY <2>1, <2>2 DEF Found
<1> HIDE DEF F
<1>6. next \in pos..Len(text) /\ next + Len(sep) \in (pos + 1)..(Len(text) + 1)
  BY <1>1, <1>4
<1> USE DEF F
<1> QED
  BY <1>4, <1>5, <1>6

\* The rest of a text from pos; keep: also if nothing is left of it.
Cut(text, sep, keep, f, pos) ==
    IF Found(text, sep, pos) = {}
    THEN IF pos > Len(text) /\ ~keep THEN <<>> ELSE <<SubSeq(text, pos, Len(text))>>
    ELSE LET next == Min(Found(text, sep, pos)) IN
         <<SubSeq(text, pos, next - 1)>> \o f[next + Len(sep)]

IsSplitFrom(f, i, text, sep, keep) ==
    f = [pos \in i..(Len(text) + 1) |-> Cut(text, sep, keep, f, pos)]

LEMMA SplitExists ==
    ASSUME NEW text \in Phrases, NEW sep \in Phrases, sep # <<>>, NEW keep
    PROVE  \E f : IsSplitFrom(f, 1, text, sep, keep)
<1> DEFINE n == Len(text) + 1
           C(f, pos) == Cut(text, sep, keep, f, pos)
           S == {i \in 1..n : \E f : IsSplitFrom(f, i, text, sep, keep)}
<1>0. n \in Nat \ {0} /\ Len(text) \in Nat /\ n = Len(text) + 1
  BY DEF Phrases
<1>1. ASSUME NEW i \in 1..n, \A j \in (i + 1)..n : j \in S
      PROVE  i \in S
  <2>1. PICK g : i # n => g = [j \in (i + 1)..n |-> C(g, j)]
    <3>1. CASE i = n
      BY <3>1
    <3>2. CASE i # n
      <4>1. i + 1 \in S
        BY <1>0, <1>1, <3>2
      <4> QED
        BY <4>1 DEF IsSplitFrom
    <3> QED
      BY <3>1, <3>2
  <2> DEFINE f == [j \in i..n |-> IF j = i THEN C(g, i) ELSE g[j]]
  <2>2. \A j \in (i + 1)..n : f[j] = g[j] /\ g[j] = C(g, j)
    <3> SUFFICES ASSUME NEW j \in (i + 1)..n PROVE f[j] = g[j] /\ g[j] = C(g, j)
      OBVIOUS
    <3>1. i # n /\ j \in i..n /\ j # i
      BY <1>0
    <3> HIDE DEF C, n
    <3> QED
      BY <2>1, <3>1
  <2>3. ASSUME NEW j \in i..n PROVE C(f, j) = C(g, j)
    <3>1. CASE Found(text, sep, j) = {}
      BY <3>1 DEF Cut
    <3>2. CASE Found(text, sep, j) # {}
      <4> DEFINE k == Min(Found(text, sep, j)) + Len(sep)
      <4>1. k \in (i + 1)..n
        <5>1. j \in 1..(Len(text) + 1)
          BY <1>0
        <5>2. k \in (j + 1)..(Len(text) + 1)
          BY <3>2, <5>1, FirstFound
        <5> HIDE DEF k
        <5> QED
          BY <1>0, <5>2
      <4>2. f[k] = g[k]
        <5> HIDE DEF f, k
        <5> QED
          BY <2>2, <4>1
      <4> HIDE DEF f
      <4> QED
        BY <3>2, <4>2 DEF Cut
    <3> QED
      BY <3>1, <3>2
  <2>4. \A j \in i..n : f[j] = C(g, j)
    <3>1. \A j \in i..n : j # i => j \in (i + 1)..n
      BY <1>0
    <3> HIDE DEF C, n
    <3> QED
      BY <2>2, <3>1
  <2>5. f = [j \in i..n |-> C(f, j)]
    <3> HIDE DEF C, n
    <3> QED
      BY <2>3, <2>4
  <2> QED
    BY <2>5 DEF IsSplitFrom
<1>2. n \in Int /\ 1 \in Int /\ 1 \in 1..n
  BY <1>0
<1>3. \A i \in 1..n : i \in S
  <2> HIDE DEF S, n
  <2> QED
    BY <1>1, <1>2, DownwardInduction
<1> QED
  BY <1>2, <1>3

Pieces(text, sep, keep) == CHOOSE f : IsSplitFrom(f, 1, text, sep, keep)

LEMMA PiecesIs ==
    ASSUME NEW text \in Phrases, NEW sep \in Phrases, sep # <<>>, NEW keep
    PROVE  \A pos \in 1..(Len(text) + 1) :
             Pieces(text, sep, keep)[pos] = Cut(text, sep, keep, Pieces(text, sep, keep), pos)
<1> DEFINE f == Pieces(text, sep, keep)
<1>1. IsSplitFrom(f, 1, text, sep, keep)
  BY SplitExists DEF Pieces
<1> HIDE DEF f
<1>2. \A pos \in 1..(Len(text) + 1) : f[pos] = Cut(text, sep, keep, f, pos)
  BY <1>1 DEF IsSplitFrom
<1> USE DEF f
<1> QED
  BY <1>2

LEMMA SplitIsPieces ==
    ASSUME NEW text \in Phrases, NEW sep \in Phrases, sep # <<>>
    PROVE  /\ Split(text, sep) = Pieces(text, sep, FALSE)[1]
           /\ SplitInPage(text, sep) = Pieces(text, sep, TRUE)[1]
<1> DEFINE F(h) == h = [pos \in 1..(Len(text) + 1) |->
             IF Found(text, sep, pos) = {}
             THEN IF pos > Len(text) THEN <<>> ELSE <<SubSeq(text, pos, Len(text))>>
             ELSE LET next == Min(Found(text, sep, pos)) IN
                  <<SubSeq(text, pos, next - 1)>> \o h[next + Len(sep)]]
           G(h) == h = [pos \in 1..(Len(text) + 1) |->
             IF Found(text, sep, pos) = {} THEN <<SubSeq(text, pos, Len(text))>>
             ELSE LET next == Min(Found(text, sep, pos)) IN
                  <<SubSeq(text, pos, next - 1)>> \o h[next + Len(sep)]]
<1>1. \A h : F(h) <=> IsSplitFrom(h, 1, text, sep, FALSE)
  BY DEF IsSplitFrom, Cut
<1>2. \A h : G(h) <=> IsSplitFrom(h, 1, text, sep, TRUE)
  BY DEF IsSplitFrom, Cut
<1>3. Split(text, sep) = (CHOOSE h : F(h))[1]
  BY DEF Split
<1>4. SplitInPage(text, sep) = (CHOOSE h : G(h))[1]
  BY DEF SplitInPage
<1> HIDE DEF F, G
<1>5. (CHOOSE h : F(h)) = Pieces(text, sep, FALSE)
  BY <1>1 DEF Pieces
<1>6. (CHOOSE h : G(h)) = Pieces(text, sep, TRUE)
  BY <1>2 DEF Pieces
<1> QED
  BY <1>3, <1>4, <1>5, <1>6

\* p, and then sep, is found to end where p does.
Separates(sep, p) ==
    \A i \in 1..Len(p) : SubSeq(p \o sep, i, i + Len(sep) - 1) # sep

\* A text that tells k letters of another from pos on tells every part of them.
LEMMA PartOfText ==
    ASSUME NEW text \in Phrases, NEW u \in Phrases, NEW pos \in Nat \ {0}, NEW k \in 0..Len(u),
           pos + k - 1 <= Len(text), \A i \in 1..k : text[pos + i - 1] = u[i],
           NEW a \in 1..(k + 1), NEW b \in 0..k
    PROVE  SubSeq(text, pos + a - 1, pos + b - 1) = SubSeq(u, a, b)
<1> DEFINE x == pos + a - 1
           y == pos + b - 1
<1>1. Len(text) \in Nat /\ Len(u) \in Nat /\ x \in Int /\ y \in Int /\ y - x = b - a /\ x >= 1
      /\ y <= Len(text) /\ a \in Int /\ b \in Int /\ b <= Len(u) /\ pos + a = x + 1
  BY DEF Phrases
<1>2. /\ \A i \in 1..Len(text) : text[i] \in Words
      /\ \A i \in 1..Len(u) : u[i] \in Words
  BY DEF Phrases
<1>3. \A i \in x..y : text[i] \in Words
  <2> HIDE DEF x, y
  <2> QED
    BY <1>1, <1>2
<1>4. \A i \in a..b : u[i] \in Words
  BY <1>1, <1>2
<1>5. /\ SubSeq(text, x, y) \in Seq(Words)
      /\ Len(SubSeq(text, x, y)) = IF x <= y THEN y - x + 1 ELSE 0
      /\ \A i \in 1..(y - x + 1) : SubSeq(text, x, y)[i] = text[x + i - 1]
  <2> HIDE DEF x, y
  <2> QED
    BY <1>1, <1>3, SubSeqProperties
<1>6. /\ SubSeq(u, a, b) \in Seq(Words)
      /\ Len(SubSeq(u, a, b)) = IF a <= b THEN b - a + 1 ELSE 0
      /\ \A i \in 1..(b - a + 1) : SubSeq(u, a, b)[i] = u[a + i - 1]
  BY <1>1, <1>4, SubSeqProperties
<1>7. Len(SubSeq(text, x, y)) = Len(SubSeq(u, a, b))
  <2> HIDE DEF x, y
  <2> QED
    BY <1>1, <1>5, <1>6
<1>8. ASSUME NEW i \in 1..Len(SubSeq(text, x, y)) PROVE SubSeq(text, x, y)[i] = SubSeq(u, a, b)[i]
  <2>1. i \in 1..(y - x + 1) /\ i \in 1..(b - a + 1)
    <3> HIDE DEF x, y
    <3> QED
      BY <1>1, <1>5
  <2>2. SubSeq(text, x, y)[i] = text[x + i - 1] /\ SubSeq(u, a, b)[i] = u[a + i - 1]
    BY <1>5, <1>6, <2>1
  <2>3. a + i - 1 \in 1..k /\ pos + (a + i - 1) - 1 = x + i - 1
    BY <2>1
  <2>4. text[pos + (a + i - 1) - 1] = u[a + i - 1]
    BY <2>3
  <2> QED
    BY <2>2, <2>3, <2>4
<1> HIDE DEF x, y
<1>9. SubSeq(text, x, y) = SubSeq(u, a, b)
  BY <1>5, <1>6, <1>7, <1>8, SeqEqual
<1> USE DEF x, y
<1> QED
  BY <1>9

RestIs(text, pos, u) == SubSeq(text, pos, Len(text)) = u
PieceIs(text, sep, keep, pos, p, to) ==
    Pieces(text, sep, keep)[pos] = <<p>> \o Pieces(text, sep, keep)[to]

LEMMA CutFront ==
    ASSUME NEW text \in Phrases, NEW sep \in Phrases, sep # <<>>, NEW keep,
           NEW pos \in 1..(Len(text) + 1), NEW p \in Phrases, NEW rest \in Phrases,
           RestIs(text, pos, p \o sep \o rest), Separates(sep, p),
           NEW to, to = pos + Len(p) + Len(sep)
    PROVE  /\ to \in (pos + 1)..(Len(text) + 1)
           /\ RestIs(text, to, rest) /\ PieceIs(text, sep, keep, pos, p, to)
<1> DEFINE n == Len(text)
           m == Len(p)
           l == Len(sep)
           next == pos + m + l
           tail == SubSeq(text, pos, n)
<1>0. tail = p \o sep \o rest
  BY DEF RestIs
<1>1. n \in Nat /\ m \in Nat /\ l \in Nat \ {0} /\ Len(rest) \in Nat
  BY DEF Phrases
<1>2. /\ tail \in Phrases /\ Len(tail) = n - pos + 1
      /\ \A i \in 1..(n - pos + 1) : tail[i] = text[pos + i - 1]
  BY <1>1 DEF Phrases
<1>3. p \o sep \in Phrases /\ Len(p \o sep) = m + l
  BY ConcatProperties DEF Phrases
<1>4. /\ Len((p \o sep) \o rest) = m + l + Len(rest)
      /\ \A i \in 1..(m + l) : ((p \o sep) \o rest)[i] = (p \o sep)[i]
      /\ \A i \in 1..Len(rest) : ((p \o sep) \o rest)[m + l + i] = rest[i]
  <2>1. /\ Len((p \o sep) \o rest) = Len(p \o sep) + Len(rest)
        /\ \A i \in 1..(Len(p \o sep) + Len(rest)) : ((p \o sep) \o rest)[i] =
             IF i <= Len(p \o sep) THEN (p \o sep)[i] ELSE rest[i - Len(p \o sep)]
    <3> HIDE DEF m, l, tail
    <3>1. p \o sep \in Seq(Words) /\ rest \in Seq(Words)
      BY <1>3 DEF Phrases
    <3> QED
      BY <3>1, ConcatProperties, Zenon
  <2> HIDE DEF m, l
  <2>2. \A i \in 1..Len(rest) : m + l + i - (m + l) = i /\ ~(m + l + i <= m + l)
                                /\ m + l + i \in 1..(m + l + Len(rest))
    BY <1>1
  <2> QED
    BY <1>1, <1>3, <2>1, <2>2
<1>5. n = pos + m + l + Len(rest) - 1 /\ next \in (pos + 1)..(n + 1)
  <2>1. n - pos + 1 = m + l + Len(rest)
    BY <1>0, <1>2, <1>4
  <2> HIDE DEF m, l, n
  <2> QED
    BY <1>1, <2>1
<1>6. /\ \A i \in 1..(m + l) : text[pos + i - 1] = (p \o sep)[i]
      /\ \A i \in 1..Len(rest) : text[next + i - 1] = rest[i]
  <2>1. \A i \in 1..(m + l + Len(rest)) : text[pos + i - 1] = ((p \o sep) \o rest)[i]
    <3>1. m + l + Len(rest) = n - pos + 1
      <4> HIDE DEF m, l, n
      <4> QED
        BY <1>1, <1>5
    <3> QED
      BY <1>0, <1>2, <3>1
  <2>2. \A i \in 1..(m + l) : i \in 1..(m + l + Len(rest))
    <3> HIDE DEF m, l
    <3> QED
      BY <1>1
  <2>3. \A i \in 1..Len(rest) : m + l + i \in 1..(m + l + Len(rest)) /\ pos + (m + l + i) - 1 = next + i - 1
    <3> HIDE DEF m, l
    <3> QED
      BY <1>1
  <2> HIDE DEF m, l, next
  <2> QED
    BY <1>4, <2>1, <2>2, <2>3
<1>7. SubSeq(text, next, n) = rest
  <2>1. \A i \in next..n : text[i] \in Words
    <3>1. \A i \in 1..n : text[i] \in Words
      BY DEF Phrases
    <3> HIDE DEF n, next
    <3> QED
      BY <1>1, <1>5, <3>1
  <2>2. /\ SubSeq(text, next, n) \in Seq(Words) 
        /\ Len(SubSeq(text, next, n)) = IF next <= n THEN n - next + 1 ELSE 0
        /\ \A i \in 1..(n - next + 1) : SubSeq(text, next, n)[i] = text[next + i - 1]
    <3>1. next \in Int /\ n \in Int
      BY <1>1
    <3> HIDE DEF n, next
    <3> QED
      BY <2>1, <3>1, SubSeqProperties
  <2>3. n - next + 1 = Len(rest) /\ Len(SubSeq(text, next, n)) = Len(rest)
    <3>1. n - next + 1 = Len(rest) /\ (next <= n <=> Len(rest) > 0)
      <4> HIDE DEF n, m, l
      <4> QED
        BY <1>1, <1>5
    <3> HIDE DEF n, next
    <3> QED
      BY <1>1, <2>2, <3>1
  <2>4. \A i \in 1..Len(SubSeq(text, next, n)) : SubSeq(text, next, n)[i] = rest[i]
    BY <1>6, <2>2, <2>3
  <2> HIDE DEF n, next
  <2>5. rest \in Seq(Words)
    BY DEF Phrases
  <2> QED
    BY <2>2, <2>3, <2>4, <2>5, SeqEqual
<1> DEFINE u == p \o sep
<1>8. /\ u \in Phrases /\ Len(u) = m + l
      /\ \A i \in 1..(m + l) : u[i] = IF i <= m THEN p[i] ELSE sep[i - m]
      /\ pos + (m + l) - 1 <= n /\ \A i \in 1..(m + l) : text[pos + i - 1] = u[i]
  <2>1. u \in Seq(Words) /\ Len(u) = Len(p) + Len(sep)
        /\ \A i \in 1..(Len(p) + Len(sep)) : u[i] = IF i <= Len(p) THEN p[i] ELSE sep[i - Len(p)]
    <3>1. p \in Seq(Words) /\ sep \in Seq(Words)
      BY DEF Phrases
    <3> QED
      BY <3>1, ConcatProperties, Zenon
  <2>2. pos + (m + l) - 1 <= n
    <3> HIDE DEF m, l, n
    <3> QED
      BY <1>1, <1>5
  <2> QED
    BY <1>6, <2>1, <2>2 DEF Phrases
<1> HIDE DEF u
<1>9. \A a \in 1..(m + l + 1), b \in 0..(m + l) :
        SubSeq(text, pos + a - 1, pos + b - 1) = SubSeq(u, a, b)
  <2>1. m + l \in 0..Len(u) /\ pos \in Nat \ {0}
    <3> HIDE DEF m, l
    <3> QED
      BY <1>1, <1>8
  <2> HIDE DEF m, l
  <2> QED
    BY <1>8, <2>1, PartOfText DEF n
<1>10. SubSeq(u, 1, m) = p
  <2>1. m \in 0..m /\ Len(p) = m /\ 1 + m - 1 <= Len(u) /\ 1 + m - 1 = m /\ 1 + 1 - 1 = 1
        /\ 1 \in Nat \ {0} /\ 1 \in 1..(m + 1)
    <3> HIDE DEF l
    <3> QED
      BY <1>1, <1>8
  <2>2. \A i \in 1..m : u[1 + i - 1] = p[i]
    <3>1. \A i \in 1..m : 1 + i - 1 = i /\ i \in 1..(m + l) /\ i <= m
      <4> HIDE DEF m, l
      <4> QED
        BY <1>1
    <3> QED
      BY <1>8, <3>1
  <2>3. SubSeq(u, 1 + 1 - 1, 1 + m - 1) = SubSeq(p, 1, m)
    <3> HIDE DEF m
    <3> QED
      BY <1>8, <2>1, <2>2, PartOfText
  <2>4. SubSeq(p, 1, m) = p
    BY SubSeqFull DEF Phrases
  <2> QED
    BY <2>1, <2>3, <2>4
<1>11. SubSeq(u, m + 1, m + l) = sep
  <2> DEFINE q == m + 1
  <2>1. /\ l \in 0..l /\ l \in 0..Len(sep) /\ Len(sep) = l /\ q + l - 1 <= Len(u)
        /\ q + l - 1 = m + l /\ q + 1 - 1 = q /\ q \in Nat \ {0} /\ 1 \in 1..(l + 1)
    <3>1. Len(sep) = l
      OBVIOUS
    <3> HIDE DEF m, l
    <3> QED
      BY <1>1, <1>8, <3>1
  <2>2. ASSUME NEW i \in 1..l PROVE u[q + i - 1] = sep[i]
    <3> DEFINE j == q + i - 1
    <3>1. j \in 1..(m + l) /\ ~(j <= m) /\ j - m = i
      <4> HIDE DEF m, l
      <4> QED
        BY <1>1
    <3> HIDE DEF j
    <3>2. u[j] = sep[j - m]
      BY <1>8, <3>1
    <3> USE DEF j
    <3> QED
      BY <3>1, <3>2
  <2>3. SubSeq(u, q + 1 - 1, q + l - 1) = SubSeq(sep, 1, l)
    <3> HIDE DEF q, l
    <3> QED
      BY <1>8, <2>1, <2>2, PartOfText
  <2>4. SubSeq(sep, 1, l) = sep
    BY SubSeqFull DEF Phrases
  <2> QED
    BY <2>1, <2>3, <2>4
<1>12. SubSeq(text, pos, pos + m - 1) = p
  <2>1. 1 \in 1..(m + l + 1) /\ m \in 0..(m + l) /\ pos + 1 - 1 = pos
    <3> HIDE DEF m, l
    <3> QED
      BY <1>1
  <2>2. SubSeq(text, pos + 1 - 1, pos + m - 1) = SubSeq(u, 1, m)
    BY <1>9, <2>1
  <2> QED
    BY <1>10, <2>1, <2>2
<1>13. SubSeq(text, pos + m, (pos + m) + l - 1) = sep
  <2>1. m + 1 \in 1..(m + l + 1) /\ m + l \in 0..(m + l) /\ pos + (m + 1) - 1 = pos + m
        /\ pos + (m + l) - 1 = (pos + m) + l - 1
    <3> HIDE DEF m, l
    <3> QED
      BY <1>1
  <2>2. SubSeq(text, pos + (m + 1) - 1, pos + (m + l) - 1) = SubSeq(u, m + 1, m + l)
    BY <1>9, <2>1
  <2> QED
    BY <1>11, <2>1, <2>2
<1>14. ASSUME NEW i \in pos..(pos + m - 1) PROVE SubSeq(text, i, i + l - 1) # sep
  <2> DEFINE j == i - pos + 1
  <2>1. j \in 1..m /\ j \in 1..(m + l + 1) /\ j + l - 1 \in 0..(m + l) /\ pos + j - 1 = i
        /\ pos + (j + l - 1) - 1 = i + l - 1
    <3> HIDE DEF m, l
    <3> QED
      BY <1>1
  <2>2. SubSeq(text, pos + j - 1, pos + (j + l - 1) - 1) = SubSeq(u, j, j + l - 1)
    <3> HIDE DEF j, l, m
    <3> QED
      BY <1>9, <2>1
  <2>3. SubSeq(u, j, j + l - 1) # sep
    <3> HIDE DEF j
    <3> QED
      BY <2>1 DEF Separates, u
  <2> QED
    BY <2>1, <2>2, <2>3
<1>15. Found(text, sep, pos) # {} /\ Min(Found(text, sep, pos)) = pos + m
  <2>1. pos + m \in Found(text, sep, pos)
    <3>1. pos + m \in pos..(n - l + 1)
      <4> HIDE DEF m, l, n
      <4> QED
        BY <1>1, <1>5
    <3> QED
      BY <1>13, <3>1 DEF Found
  <2> DEFINE first == Min(Found(text, sep, pos))
  <2>2. /\ first \in pos..n /\ SubSeq(text, first, first + l - 1) = sep
        /\ \A i \in pos..(first - 1) : SubSeq(text, i, i + l - 1) # sep
    BY <2>1, FirstFound
  <2> HIDE DEF first
  <2>3. ~(first < pos + m)
    <3>1. first < pos + m => first \in pos..(pos + m - 1)
      <4> HIDE DEF m, n
      <4> QED
        BY <1>1, <2>2
    <3> QED
      BY <1>14, <2>2, <3>1
  <2>4. ~(pos + m < first)
    <3>1. pos + m < first => pos + m \in pos..(first - 1)
      <4> HIDE DEF m, n
      <4> QED
        BY <1>1, <2>2
    <3> HIDE DEF m, l
    <3> QED
      BY <1>13, <2>2, <3>1
  <2>5. first = pos + m
    <3> HIDE DEF m, l, n
    <3> QED
      BY <1>1, <2>2, <2>3, <2>4
  <2> USE DEF first
  <2> QED
    BY <2>1, <2>5
<1>16. Pieces(text, sep, keep)[pos] = <<p>> \o Pieces(text, sep, keep)[next]
  <2> DEFINE f == Pieces(text, sep, keep)
  <2>1. f[pos] = Cut(text, sep, keep, f, pos)
    BY PiecesIs
  <2> HIDE DEF f
  <2>2. Cut(text, sep, keep, f, pos) = <<SubSeq(text, pos, (pos + m) - 1)>> \o f[(pos + m) + l]
    BY <1>15 DEF Cut
  <2>3. f[pos] = <<p>> \o f[(pos + m) + l]
    <3>1. <<SubSeq(text, pos, (pos + m) - 1)>> = <<p>>
      BY <1>12
    <3>2. f[pos] = <<SubSeq(text, pos, (pos + m) - 1)>> \o f[(pos + m) + l]
      BY <2>1, <2>2
    <3> HIDE DEF m, l
    <3> QED
      BY <3>1, <3>2
  <2> USE DEF f
  <2> QED
    BY <2>3
<1>17. to = next
  OBVIOUS
<1> QED
  BY <1>5, <1>7, <1>16, <1>17 DEF RestIs, PieceIs

\* What is found in a part of a text is found in the text.
LEMMA FoundInPart ==
    ASSUME NEW text \in Phrases, NEW sep \in Phrases, NEW a \in 1..(Len(text) + 1),
           NEW b \in (a - 1)..Len(text), NEW i \in Found(SubSeq(text, a, b), sep, 1)
    PROVE  a + i - 1 \in Found(text, sep, a) /\ a + i - 1 + Len(sep) - 1 <= b
<1> DEFINE p == SubSeq(text, a, b)
           l == Len(sep)
<1>1. Len(text) \in Nat /\ l \in Nat /\ a \in Nat \ {0} /\ b \in Int
  BY DEF Phrases
<1>2. /\ p \in Phrases /\ Len(p) = b - a + 1
      /\ \A j \in 1..Len(p) : p[j] = text[a + j - 1]
  <2>1. \A j \in a..b : text[j] \in Words
    BY DEF Phrases
  <2>2. /\ p \in Seq(Words) /\ Len(p) = IF a <= b THEN b - a + 1 ELSE 0
        /\ \A j \in 1..(b - a + 1) : p[j] = text[a + j - 1]
    BY <1>1, <2>1, SubSeqProperties
  <2> HIDE DEF p
  <2> QED
    BY <1>1, <2>2 DEF Phrases
<1>3. i \in 1..(Len(p) - l + 1) /\ SubSeq(p, i, i + l - 1) = sep
  BY DEF Found
<1> HIDE DEF p
<1>4. SubSeq(text, a + i - 1, a + (i + l - 1) - 1) = SubSeq(p, i, i + l - 1)
  <2>1. Len(p) \in 0..Len(p) /\ a + Len(p) - 1 <= Len(text) /\ i \in 1..(Len(p) + 1)
        /\ i + l - 1 \in 0..Len(p)
    <3> HIDE DEF l
    <3> QED
      BY <1>1, <1>2, <1>3
  <2>2. \A j \in 1..Len(p) : text[a + j - 1] = p[j]
    BY <1>2
  <2> HIDE DEF l
  <2> QED
    BY <1>1, <1>2, <2>1, <2>2, PartOfText
<1>5. a + (i + l - 1) - 1 = a + i - 1 + l - 1 /\ a + i - 1 \in a..(Len(text) - l + 1)
      /\ a + i - 1 + l - 1 <= b
  <2> HIDE DEF l
  <2> QED
    BY <1>1, <1>2, <1>3
<1> QED
  BY <1>3, <1>4, <1>5 DEF Found

\* Pieces that are told apart from what separates them are split as they were joined.
LEMMA JoinedSplits ==
    ASSUME NEW ps \in Seq(Phrases), ps # <<>>, NEW sep \in Phrases, sep # <<>>,
           NEW keep \in BOOLEAN,
           \A k \in 1..(Len(ps) - 1) : Separates(sep, ps[k]),
           Found(ps[Len(ps)], sep, 1) = {}, keep \/ ps[Len(ps)] # <<>>
    PROVE  Pieces(Joins(ps, sep)[1], sep, keep)[1] = ps
<1> DEFINE n == Len(ps)
           J == Joins(ps, sep)
           text == J[1]
           f == Pieces(text, sep, keep)
           S == {k \in 1..n : \A pos \in 1..(Len(text) + 1) :
                   SubSeq(text, pos, Len(text)) = J[k] => f[pos] = SubSeq(ps, k, n)}
<1>1. /\ n \in Nat \ {0} /\ 1 \in 1..n /\ n \in 1..n /\ n \in Int
      /\ \A k \in 1..n : ps[k] \in Phrases
  OBVIOUS
<1>2. \A k \in 1..n : J[k] \in Phrases /\ J[k] = IF k = n THEN ps[k] ELSE ps[k] \o sep \o J[k + 1]
  BY <1>1, JoinsIs, JoinsArePhrases
<1>3. text \in Phrases /\ Len(text) \in Nat
  <2> HIDE DEF J
  <2> QED
    BY <1>1, <1>2 DEF Phrases
<1> HIDE DEF J, text, n
<1>4. ASSUME NEW k \in 1..n, \A j \in (k + 1)..n : j \in S
      PROVE  k \in S
  <2> SUFFICES ASSUME NEW pos \in 1..(Len(text) + 1), SubSeq(text, pos, Len(text)) = J[k]
               PROVE  f[pos] = SubSeq(ps, k, n)
    OBVIOUS
  <2>1. CASE k = n
    <3>1. SubSeq(text, pos, Len(text)) = ps[n]
      BY <1>2, <2>1
    <3>2. Found(text, sep, pos) = {}
      <4> SUFFICES ASSUME NEW i \in Found(text, sep, pos) PROVE FALSE
        OBVIOUS
      <4> DEFINE u == ps[n]
                 j == i - pos + 1
      <4>1. u \in Phrases /\ Len(u) \in Nat /\ Len(u) = Len(text) - pos + 1
            /\ \A m \in 1..Len(u) : text[pos + m - 1] = u[m]
        <5>1. \A m \in pos..Len(text) : text[m] \in Words
          BY <1>3 DEF Phrases
        <5>2. /\ Len(u) = IF pos <= Len(text) THEN Len(text) - pos + 1 ELSE 0
              /\ \A m \in 1..(Len(text) - pos + 1) : u[m] = text[pos + m - 1]
          BY <1>3, <3>1, <5>1, SubSeqProperties
        <5>3. u \in Phrases /\ Len(u) \in Nat
          BY <1>1 DEF Phrases
        <5> HIDE DEF u
        <5> QED
          BY <1>3, <5>2, <5>3
      <4>2. i \in pos..(Len(text) - Len(sep) + 1) /\ SubSeq(text, i, i + Len(sep) - 1) = sep
        BY DEF Found
      <4>3. Len(sep) \in Nat
        BY DEF Phrases
      <4> HIDE DEF u
      <4>4. /\ j \in 1..(Len(u) - Len(sep) + 1) /\ j \in 1..(Len(u) + 1)
            /\ j + Len(sep) - 1 \in 0..Len(u)
            /\ pos + j - 1 = i /\ pos + (j + Len(sep) - 1) - 1 = i + Len(sep) - 1
            /\ pos \in Nat \ {0} /\ Len(u) \in 0..Len(u) /\ pos + Len(u) - 1 <= Len(text)
        BY <1>3, <4>1, <4>2, <4>3
      <4> HIDE DEF j
      <4>5. SubSeq(text, pos + j - 1, pos + (j + Len(sep) - 1) - 1) = SubSeq(u, j, j + Len(sep) - 1)
        BY <1>3, <4>1, <4>4, PartOfText
      <4>6. j \in Found(u, sep, 1)
        BY <4>2, <4>4, <4>5 DEF Found
      <4> QED
        BY <4>6 DEF u, n
    <3>3. pos > Len(text) => SubSeq(text, pos, Len(text)) = <<>>
      BY <1>3, SubSeqEmpty
    <3>4. pos > Len(text) => keep
      BY <3>1, <3>3 DEF n
    <3>5. f[pos] = <<SubSeq(text, pos, Len(text))>>
      <4>1. f[pos] = Cut(text, sep, keep, f, pos)
        BY <1>3, PiecesIs
      <4> HIDE DEF f
      <4> QED
        BY <3>2, <3>4, <4>1 DEF Cut
    <3>6. SubSeq(ps, n, n) = <<ps[n]>>
      <4>1. SubSeq(ps, n, n) = <<ps[n]>> \o SubSeq(ps, n + 1, n)
        BY <1>1, SubSeqRecursiveFirst DEF n
      <4>2. SubSeq(ps, n + 1, n) = <<>>
        BY <1>1, SubSeqEmpty
      <4>3. <<ps[n]>> \in Seq(Phrases)
        BY <1>1
      <4> QED
        BY <4>1, <4>2, <4>3, ConcatEmptySeq
    <3> QED
      BY <2>1, <3>1, <3>5, <3>6
  <2>2. CASE k # n
    <3>1. k + 1 \in (k + 1)..n /\ k + 1 \in 1..n /\ k \in 1..(n - 1)
      BY <1>1, <2>2
    <3>2. J[k] = ps[k] \o sep \o J[k + 1] /\ J[k + 1] \in Phrases /\ ps[k] \in Phrases
      BY <1>1, <1>2, <2>2, <3>1
    <3>3. Separates(sep, ps[k])
      BY <3>1 DEF n
    <3> DEFINE p == ps[k]
               rest == J[k + 1]
               next == pos + Len(p) + Len(sep)
    <3>4. /\ next \in (pos + 1)..(Len(text) + 1) /\ SubSeq(text, next, Len(text)) = rest
          /\ f[pos] = <<p>> \o f[next]
      <4>1. p \in Phrases /\ rest \in Phrases /\ Separates(sep, p)
            /\ RestIs(text, pos, p \o sep \o rest)
        BY <3>2, <3>3 DEF RestIs
      <4>2. next = pos + Len(p) + Len(sep)
        OBVIOUS
      <4> HIDE DEF p, rest, next
      <4>3. next \in (pos + 1)..(Len(text) + 1) /\ RestIs(text, next, rest)
            /\ PieceIs(text, sep, keep, pos, p, next)
        BY <1>3, <4>1, <4>2, CutFront
      <4> QED
        BY <4>3 DEF RestIs, PieceIs
    <3> HIDE DEF f, next
    <3>5. f[next] = SubSeq(ps, k + 1, n)
      <4>1. next \in 1..(Len(text) + 1)
        BY <1>3, <3>4
      <4>2. k + 1 \in S
        BY <1>4, <3>1
      <4> QED
        BY <3>4, <4>1, <4>2
    <3>6. SubSeq(ps, k, n) = <<ps[k]>> \o SubSeq(ps, k + 1, n)
      <4>1. k \in 1..Len(ps) /\ n \in k..Len(ps)
        BY <1>1 DEF n
      <4> QED
        BY <4>1, SubSeqRecursiveFirst
    <3> QED
      BY <3>4, <3>5, <3>6
  <2> QED
    BY <2>1, <2>2
<1>5. \A k \in 1..n : k \in S
  <2>1. 1 \in Int
    OBVIOUS
  <2> HIDE DEF S
  <2> QED
    BY <1>1, <1>4, <2>1, DownwardInduction
<1>6. SubSeq(text, 1, Len(text)) = J[1] /\ 1 \in 1..(Len(text) + 1)
  <2>1. SubSeq(text, 1, Len(text)) = text
    BY <1>3, SubSeqFull DEF Phrases
  <2> QED
    BY <1>3, <2>1 DEF text
<1>7. f[1] = SubSeq(ps, 1, n)
  BY <1>1, <1>5, <1>6
<1>8. SubSeq(ps, 1, n) = ps
  BY SubSeqFull DEF n
<1> USE DEF J, text
<1> QED
  BY <1>7, <1>8

\* When p ends where two bars are found: it has none itself and does not end with one.
LEMMA JointSeparates ==
    ASSUME NEW p \in Phrases, Found(p, Joint, 1) = {}, p # <<>> => Last(p) # "|"
    PROVE  Separates(Joint, p)
<1> SUFFICES ASSUME NEW i \in 1..Len(p), SubSeq(p \o Joint, i, i + 1) = Joint PROVE FALSE
  <2>1. Len(Joint) = 2
    BY BarIsPhrase
  <2>2. \A i \in 1..Len(p) : i + Len(Joint) - 1 = i + 1
    BY <2>1
  <2> QED
    BY <2>2 DEF Separates
<1> DEFINE u == p \o Joint
<1>1. Len(p) \in Nat \ {0} /\ p # <<>> /\ Joint \in Phrases /\ Len(Joint) = 2
      /\ Joint[1] = "|" /\ Joint[2] = "|"
  BY BarIsPhrase DEF Phrases
<1>2. /\ u \in Phrases /\ Len(u) = Len(p) + 2
      /\ \A j \in 1..Len(p) : u[j] = p[j]
  <2>1. p \in Seq(Words) /\ Joint \in Seq(Words)
    BY <1>1 DEF Phrases
  <2>2. /\ u \in Seq(Words) /\ Len(u) = Len(p) + Len(Joint)
        /\ \A j \in 1..(Len(p) + Len(Joint)) :
             u[j] = IF j <= Len(p) THEN p[j] ELSE Joint[j - Len(p)]
    BY <2>1, ConcatProperties, Zenon
  <2> HIDE DEF u
  <2> QED
    BY <1>1, <2>2 DEF Phrases
<1> HIDE DEF u
<1>3. u[i] = "|" /\ u[i + 1] = "|"
  <2>1. \A j \in i..(i + 1) : u[j] \in Words
    BY <1>1, <1>2 DEF Phrases
  <2>2. \A j \in 1..((i + 1) - i + 1) : SubSeq(u, i, i + 1)[j] = u[i + j - 1]
    BY <2>1, SubSeqProperties
  <2>3. SubSeq(u, i, i + 1)[1] = u[i] /\ SubSeq(u, i, i + 1)[2] = u[i + 1]
    BY <2>2
  <2>4. SubSeq(u, i, i + 1) = Joint
    BY DEF u
  <2> QED
    BY <1>1, <2>3, <2>4
<1>4. CASE i = Len(p)
  BY <1>1, <1>2, <1>3, <1>4 DEF Last
<1>5. CASE i # Len(p)
  <2>1. i \in 1..(Len(p) - 2 + 1) /\ i + 2 - 1 = i + 1
    BY <1>1, <1>5
  <2>2. SubSeq(u, 1 + i - 1, 1 + (i + 1) - 1) = SubSeq(p, i, i + 1)
    <3>1. Len(p) \in 0..Len(p) /\ 1 \in Nat \ {0} /\ 1 + Len(p) - 1 <= Len(u)
          /\ i \in 1..(Len(p) + 1) /\ i + 1 \in 0..Len(p)
      BY <1>1, <1>2, <1>5
    <3>2. \A j \in 1..Len(p) : u[1 + j - 1] = p[j]
      BY <1>2
    <3> QED
      BY <1>2, <3>1, <3>2, PartOfText
  <2>3. SubSeq(p, i, i + 2 - 1) = Joint
    <3>1. 1 + i - 1 = i /\ 1 + (i + 1) - 1 = i + 1
      OBVIOUS
    <3> QED
      BY <2>1, <2>2, <3>1 DEF u
  <2>4. i \in Found(p, Joint, 1)
    BY <1>1, <2>1, <2>3 DEF Found
  <2> QED
    BY <2>4
<1> QED
  BY <1>4, <1>5

LEMMA BarSeparates ==
    ASSUME NEW p \in Phrases, "|" \notin ToSet(p)
    PROVE  Separates(Bar, p) /\ Found(p, Bar, 1) = {}
<1>1. Len(p) \in Nat /\ Bar \in Phrases /\ Len(Bar) = 1 /\ Bar[1] = "|"
      /\ \A i \in 1..Len(p) : p[i] # "|"
  BY BarIsPhrase DEF Phrases, ToSet
<1>2. ASSUME NEW u \in Phrases, NEW i \in 1..Len(p), SubSeq(u, i, i) = Bar, Len(u) >= Len(p),
             \A j \in 1..Len(p) : u[j] = p[j]
      PROVE  FALSE
  <2>1. \A j \in i..i : u[j] \in Words
    BY <1>1, <1>2 DEF Phrases
  <2>2. \A j \in 1..(i - i + 1) : SubSeq(u, i, i)[j] = u[i + j - 1]
    BY <2>1, SubSeqProperties
  <2>3. SubSeq(u, i, i)[1] = u[i]
    BY <2>2
  <2> QED
    BY <1>1, <1>2, <2>3
<1>3. Found(p, Bar, 1) = {}
  <2> SUFFICES ASSUME NEW i \in Found(p, Bar, 1) PROVE FALSE
    OBVIOUS
  <2>1. i \in 1..Len(p) /\ SubSeq(p, i, i) = Bar
    BY <1>1 DEF Found
  <2> QED
    BY <1>1, <1>2, <2>1
<1>4. Separates(Bar, p)
  <2> DEFINE u == p \o Bar
  <2> SUFFICES ASSUME NEW i \in 1..Len(p), SubSeq(u, i, i) = Bar PROVE FALSE
    BY <1>1 DEF Separates
  <2>1. p \in Seq(Words) /\ Bar \in Seq(Words)
    BY <1>1 DEF Phrases
  <2>2. /\ u \in Seq(Words) /\ Len(u) = Len(p) + Len(Bar)
        /\ \A j \in 1..(Len(p) + Len(Bar)) :
             u[j] = IF j <= Len(p) THEN p[j] ELSE Bar[j - Len(p)]
    BY <2>1, ConcatProperties, Zenon
  <2> HIDE DEF u
  <2>3. u \in Phrases /\ Len(u) >= Len(p) /\ \A j \in 1..Len(p) : u[j] = p[j]
    BY <1>1, <2>2 DEF Phrases
  <2> QED
    BY <1>2, <2>3
<1> QED
  BY <1>3, <1>4

\* What a text is split into is plain, or the text has two bars more than what it is
\* split into joins to.
Taken(text, pos, q) ==
    /\ q \in Seq(Phrases)
    /\ q = <<>> => pos = Len(text) + 1
    /\ \A k \in 1..Len(q) : Found(q[k], Joint, 1) = {}
    /\ \A k \in 1..(Len(q) - 1) : q[k] # <<>> => Last(q[k]) # "|"
    /\ q # <<>> /\ Last(q) = <<>> => Len(text) - pos + 1 = Len(Joins(q, Joint)[1]) + 2

LEMMA LastPieceTaken ==
    ASSUME NEW text \in Phrases, NEW pos \in 1..(Len(text) + 1), Found(text, Joint, pos) = {}
    PROVE  Taken(text, pos, Cut(text, Joint, FALSE, Pieces(text, Joint, FALSE), pos))
<1>1. Len(text) \in Nat /\ Joint \in Phrases /\ Len(Joint) = 2
  BY BarIsPhrase DEF Phrases
<1>2. CASE pos > Len(text)
  <2>1. pos = Len(text) + 1
    BY <1>1, <1>2
  <2>2. Taken(text, pos, <<>>)
    BY <2>1 DEF Taken
  <2> QED
    BY <1>2, <2>2 DEF Cut
<1>3. CASE ~(pos > Len(text))
  <2> DEFINE u == SubSeq(text, pos, Len(text))
  <2>1. u \in Phrases /\ u # <<>>
    <3>1. \A j \in pos..Len(text) : text[j] \in Words
      BY DEF Phrases
    <3>2. u \in Seq(Words) /\ Len(u) = IF pos <= Len(text) THEN Len(text) - pos + 1 ELSE 0
      BY <1>1, <3>1, SubSeqProperties
    <3>3. Len(u) > 0
      BY <1>1, <1>3, <3>2
    <3> HIDE DEF u
    <3> QED
      BY <3>2, <3>3 DEF Phrases
  <2>2. Found(u, Joint, 1) = {}
    <3> SUFFICES ASSUME NEW i \in Found(u, Joint, 1) PROVE FALSE
      OBVIOUS
    <3>1. Len(text) \in (pos - 1)..Len(text)
      BY <1>1
    <3>2. pos + i - 1 \in Found(text, Joint, pos)
      BY <1>1, <3>1, FoundInPart
    <3> QED
      BY <3>2
  <2> HIDE DEF u
  <2>3. <<u>> \in Seq(Phrases) /\ <<u>> # <<>> /\ Last(<<u>>) = u
    BY <2>1 DEF Last
  <2>4. \A k \in 1..Len(<<u>>) : Found(<<u>>[k], Joint, 1) = {}
    BY <2>2
  <2>5. Taken(text, pos, <<u>>)
    BY <2>1, <2>3, <2>4 DEF Taken
  <2> USE DEF u
  <2> QED
    BY <1>3, <2>5 DEF Cut
<1> QED
  BY <1>2, <1>3

LEMMA TwoBars ==
    ASSUME NEW text \in Phrases, NEW i \in 1..(Len(text) - 1)
    PROVE  SubSeq(text, i, i + 1) = Joint <=> text[i] = "|" /\ text[i + 1] = "|"
<1> DEFINE p == SubSeq(text, i, i + 1)
<1>1. Len(text) \in Nat /\ \A j \in i..(i + 1) : text[j] \in Words
  BY DEF Phrases
<1>2. /\ p \in Seq(Words)
      /\ Len(p) = IF i <= i + 1 THEN (i + 1) - i + 1 ELSE 0
      /\ \A j \in 1..((i + 1) - i + 1) : p[j] = text[i + j - 1]
  BY <1>1, SubSeqProperties
<1>3. Len(p) = 2 /\ p[1] = text[i] /\ p[2] = text[i + 1]
  <2> HIDE DEF p
  <2> QED
    BY <1>2
<1>4. Joint \in Seq(Words) /\ Len(Joint) = 2 /\ Joint[1] = "|" /\ Joint[2] = "|"
  BY BarIsPhrase DEF Phrases
<1> HIDE DEF p
<1>5. (\A j \in 1..Len(p) : p[j] = Joint[j]) => p = Joint
  BY <1>2, <1>3, <1>4, SeqEqual
<1>6. p = Joint <=> p[1] = "|" /\ p[2] = "|"
  BY <1>3, <1>4, <1>5
<1> QED
  BY <1>3, <1>6 DEF p

LEMMA FrontPieceTaken ==
    ASSUME NEW text \in Phrases, NEW pos \in 1..(Len(text) + 1), Found(text, Joint, pos) # {},
           \A j \in (pos + 1)..(Len(text) + 1) : Taken(text, j, Pieces(text, Joint, FALSE)[j])
    PROVE  Taken(text, pos, Pieces(text, Joint, FALSE)[pos])
<1> DEFINE next == Min(Found(text, Joint, pos))
           p == SubSeq(text, pos, next - 1)
           r == Pieces(text, Joint, FALSE)[next + 2]
           n == Len(text)
<1>1. n \in Nat /\ Joint \in Phrases /\ Len(Joint) = 2 /\ Joint # <<>>
  <2>1. n \in Nat /\ Joint \in Phrases /\ Len(Joint) = 2
    BY BarIsPhrase DEF Phrases
  <2>2. Joint # <<>>
    BY <2>1
  <2> QED
    BY <2>1, <2>2
<1>2. /\ next \in pos..n /\ next + 2 \in (pos + 1)..(n + 1)
      /\ SubSeq(text, next, next + 1) = Joint
      /\ \A i \in pos..(next - 1) : SubSeq(text, i, i + 1) # Joint
  <2>1. /\ next \in pos..n /\ next + Len(Joint) \in (pos + 1)..(n + 1)
        /\ SubSeq(text, next, next + Len(Joint) - 1) = Joint
        /\ \A i \in pos..(next - 1) : SubSeq(text, i, i + Len(Joint) - 1) # Joint
    BY <1>1, FirstFound
  <2> HIDE DEF next
  <2>2. \A i \in pos..next : i + Len(Joint) - 1 = i + 1
    BY <1>1, <2>1
  <2>3. next \in pos..next /\ \A i \in pos..(next - 1) : i \in pos..next
    BY <1>1, <2>1
  <2> QED
    BY <1>1, <2>1, <2>2, <2>3
<1>3. Pieces(text, Joint, FALSE)[pos] = <<p>> \o r
  <2> DEFINE f == Pieces(text, Joint, FALSE)
  <2>1. f[pos] = Cut(text, Joint, FALSE, f, pos)
    BY <1>1, PiecesIs
  <2>2. next + Len(Joint) = next + 2
    BY <1>1
  <2> HIDE DEF f
  <2> QED
    BY <2>1, <2>2 DEF Cut, f
<1>4. Taken(text, next + 2, r)
  BY <1>2
<1> HIDE DEF next, r
<1>5. p \in Phrases /\ Len(p) = next - pos
      /\ \A j \in 1..(next - pos) : p[j] = text[pos + j - 1]
  <2>1. \A j \in pos..(next - 1) : text[j] \in Words
    BY <1>1, <1>2 DEF Phrases
  <2>2. /\ p \in Seq(Words) /\ Len(p) = IF pos <= next - 1 THEN (next - 1) - pos + 1 ELSE 0
        /\ \A j \in 1..((next - 1) - pos + 1) : p[j] = text[pos + j - 1]
    BY <1>1, <1>2, <2>1, SubSeqProperties
  <2> HIDE DEF p
  <2> QED
    BY <1>1, <1>2, <2>2 DEF Phrases
<1>6. Found(p, Joint, 1) = {}
  <2> SUFFICES ASSUME NEW i \in Found(p, Joint, 1) PROVE FALSE
    OBVIOUS
  <2>1. next - 1 \in (pos - 1)..n
    BY <1>1, <1>2
  <2>2. pos + i - 1 \in Found(text, Joint, pos) /\ pos + i - 1 + Len(Joint) - 1 <= next - 1
    BY <1>1, <2>1, FoundInPart
  <2> DEFINE j == pos + i - 1
  <2>3. j \in Found(text, Joint, pos) /\ j + Len(Joint) - 1 <= next - 1
    BY <2>2
  <2> HIDE DEF j
  <2>4. j \in pos..(n - Len(Joint) + 1) /\ SubSeq(text, j, j + Len(Joint) - 1) = Joint
    BY <2>3 DEF Found
  <2>5. j + Len(Joint) - 1 = j + 1 /\ j \in pos..(next - 1)
    BY <1>1, <1>2, <2>3, <2>4
  <2> QED
    BY <1>2, <2>4, <2>5
<1>7. p # <<>> => Last(p) # "|"
  <2> SUFFICES ASSUME p # <<>>, Last(p) = "|" PROVE FALSE
    OBVIOUS
  <2>1. next > pos
    BY <1>1, <1>2, <1>5 DEF Phrases
  <2>2. text[next - 1] = "|"
    <3>1. next - pos \in 1..(next - pos) /\ pos + (next - pos) - 1 = next - 1
      BY <1>1, <1>2, <2>1
    <3> HIDE DEF p
    <3> QED
      BY <1>5, <3>1 DEF Last
  <2>3. text[next] = "|"
    <3>1. next \in 1..(n - 1)
      BY <1>1, <1>2
    <3> QED
      BY <1>2, <3>1, TwoBars
  <2>4. next - 1 \in 1..(n - 1) /\ (next - 1) + 1 = next /\ next - 1 \in pos..(next - 1)
    BY <1>1, <1>2, <2>1
  <2>5. SubSeq(text, next - 1, (next - 1) + 1) = Joint
    BY <2>2, <2>3, <2>4, TwoBars
  <2> QED
    BY <1>2, <2>4, <2>5
<1> HIDE DEF p
<1> DEFINE q == <<p>> \o r
<1>8. /\ r \in Seq(Phrases)
      /\ r = <<>> => next + 2 = n + 1
      /\ \A k \in 1..Len(r) : Found(r[k], Joint, 1) = {}
      /\ \A k \in 1..(Len(r) - 1) : r[k] # <<>> => Last(r[k]) # "|"
      /\ r # <<>> /\ Last(r) = <<>> => n - (next + 2) + 1 = Len(Joins(r, Joint)[1]) + 2
  BY <1>4 DEF Taken
<1>9. /\ q \in Seq(Phrases) /\ Len(q) = Len(r) + 1 /\ Len(r) \in Nat /\ q[1] = p /\ q # <<>>
      /\ \A k \in 2..Len(q) : q[k] = r[k - 1]
  BY <1>5, <1>8
<1> HIDE DEF q
<1>10. \A k \in 1..Len(q) : Found(q[k], Joint, 1) = {}
  <2>1. \A k \in 1..Len(q) : k = 1 \/ (k \in 2..Len(q) /\ k - 1 \in 1..Len(r))
    BY <1>9
  <2> QED
    BY <1>6, <1>8, <1>9, <2>1
<1>11. \A k \in 1..(Len(q) - 1) : q[k] # <<>> => Last(q[k]) # "|"
  <2>1. \A k \in 1..(Len(q) - 1) : k = 1 \/ (k \in 2..Len(q) /\ k - 1 \in 1..(Len(r) - 1))
    BY <1>9
  <2> QED
    BY <1>7, <1>8, <1>9, <2>1
<1>12. Last(q) = <<>> => n - pos + 1 = Len(Joins(q, Joint)[1]) + 2
  <2>1. CASE r = <<>>
    <3>1. Len(q) = 1 /\ Len(q) \in Nat \ {0} /\ 1 \in 1..Len(q)
      BY <1>9, <2>1
    <3>2. Joins(q, Joint)[1] = q[1]
      BY <3>1, JoinsIs
    <3>3. n - pos + 1 = Len(p) + 2
      BY <1>1, <1>2, <1>5, <1>8, <2>1
    <3> QED
      BY <1>9, <3>2, <3>3
  <2>2. CASE r # <<>>
    <3>1. Last(q) = Last(r)
      <4>1. Len(r) > 0
        BY <1>8, <2>2
      <4>2. Len(q) \in 2..Len(q) /\ Len(q) - 1 = Len(r)
        BY <1>9, <4>1
      <4> QED
        BY <1>9, <4>2 DEF Last
    <3> DEFINE J == Joins(r, Joint)[1]
    <3>2. Joins(q, Joint)[1] = p \o Joint \o J
      BY <1>1, <1>5, <1>8, <2>2, JoinFront DEF q
    <3>3. J \in Phrases /\ Len(J) \in Nat
      <4>1. Len(r) \in Nat \ {0} /\ 1 \in 1..Len(r)
        BY <1>8, <2>2
      <4>2. J \in Phrases
        BY <1>1, <1>8, <2>2, <4>1, JoinsArePhrases
      <4> HIDE DEF J
      <4> QED
        BY <4>2 DEF Phrases
    <3> HIDE DEF J
    <3>4. Len(p \o Joint \o J) = Len(p) + 2 + Len(J)
      <4>1. p \in Seq(Words) /\ Joint \in Seq(Words) /\ J \in Seq(Words)
        BY <1>1, <1>5, <3>3 DEF Phrases
      <4>2. p \o Joint \in Seq(Words) /\ Len(p \o Joint) = Len(p) + Len(Joint)
        BY <4>1, ConcatProperties
      <4>3. Len((p \o Joint) \o J) = Len(p \o Joint) + Len(J)
        BY <4>1, <4>2, ConcatProperties
      <4> QED
        BY <1>1, <4>2, <4>3
    <3>5. Last(q) = <<>> => n - (next + 2) + 1 = Len(J) + 2
      BY <1>8, <2>2, <3>1 DEF J
    <3>6. Last(q) = <<>> => n - pos + 1 = Len(p) + 2 + Len(J) + 2
      <4> SUFFICES ASSUME Last(q) = <<>> PROVE n - pos + 1 = Len(p) + 2 + Len(J) + 2
        OBVIOUS
      <4>1. n - (next + 2) + 1 = Len(J) + 2
        BY <3>5
      <4>2. n \in Int /\ next \in Int /\ pos \in Int /\ Len(p) = next - pos
        BY <1>1, <1>2, <1>5
      <4> HIDE DEF n
      <4> QED
        BY <3>3, <4>1, <4>2
    <3> QED
      BY <3>2, <3>4, <3>6
  <2> QED
    BY <2>1, <2>2
<1>13. Taken(text, pos, q)
  BY <1>9, <1>10, <1>11, <1>12 DEF Taken
<1> QED
  BY <1>3, <1>13 DEF q

LEMMA AllTaken ==
    ASSUME NEW text \in Phrases
    PROVE  Taken(text, 1, Split(text, Joint))
<1> DEFINE n == Len(text) + 1
           f == Pieces(text, Joint, FALSE)
           S == {pos \in 1..n : Taken(text, pos, f[pos])}
<1>1. n \in Int /\ 1 \in Int /\ 1 \in 1..n /\ Joint \in Phrases /\ Joint # <<>>
  <2>1. Joint \in Phrases /\ Len(Joint) = 2
    BY BarIsPhrase
  <2>2. Len(text) \in Nat /\ Joint # <<>>
    BY <2>1 DEF Phrases
  <2> QED
    BY <2>1, <2>2
<1>2. ASSUME NEW pos \in 1..n, \A j \in (pos + 1)..n : j \in S
      PROVE  pos \in S
  <2>1. f[pos] = Cut(text, Joint, FALSE, f, pos)
    BY <1>1, PiecesIs
  <2>2. CASE Found(text, Joint, pos) = {}
    <3>1. Taken(text, pos, f[pos])
      BY <2>1, <2>2, LastPieceTaken
    <3> QED
      BY <3>1
  <2>3. CASE Found(text, Joint, pos) # {}
    <3>1. \A j \in (pos + 1)..n : Taken(text, j, f[j])
      BY <1>2
    <3>2. Taken(text, pos, f[pos])
      BY <2>3, <3>1, FrontPieceTaken
    <3> QED
      BY <3>2
  <2> QED
    BY <2>2, <2>3
<1>3. \A pos \in 1..n : pos \in S
  <2> HIDE DEF S, n
  <2> QED
    BY <1>1, <1>2, DownwardInduction
<1>4. Taken(text, 1, f[1])
  BY <1>1, <1>3
<1> QED
  BY <1>1, <1>4, SplitIsPieces

\* Parameters arrive just if they are plain.
LEMMA PlainArrives ==
    ASSUME NEW ps \in Seq(Phrases), ps # <<>>
    PROVE  Split(Request(ps), Joint) = ps <=> Plain(ps)
<1> DEFINE n == Len(ps)
           text == Request(ps)
<1>1. n \in Nat \ {0} /\ n \in 1..n /\ 1 \in 1..n /\ DOMAIN ps = 1..n /\ \A k \in 1..n : ps[k] \in Phrases
  OBVIOUS
<1>2. Joint \in Phrases /\ Joint # <<>> /\ Len(Joint) = 2
  <2>1. Joint \in Phrases /\ Len(Joint) = 2
    BY BarIsPhrase
  <2> QED
    BY <2>1
<1>3. text = Joins(ps, Joint)[1] /\ text \in Phrases
  BY <1>1, <1>2, RequestIsJoin, JoinsArePhrases
<1>4. ASSUME Plain(ps) PROVE Split(text, Joint) = ps
  <2>1. \A k \in 1..n : Found(ps[k], Joint, 1) = {}
    BY <1>1, <1>4 DEF Plain, Joint
  <2>2. ASSUME NEW k \in 1..(n - 1) PROVE Separates(Joint, ps[k])
    <3>1. ps[k] # <<>> => Last(ps[k]) # "|"
      BY <1>4 DEF Plain
    <3>2. k \in 1..n
      BY <1>1
    <3> QED
      BY <1>1, <2>1, <3>1, <3>2, JointSeparates
  <2>3. ps[n] # <<>>
    BY <1>4 DEF Plain, Last
  <2>4. Pieces(Joins(ps, Joint)[1], Joint, FALSE)[1] = ps
    BY <1>1, <1>2, <2>1, <2>2, <2>3, JoinedSplits
  <2> HIDE DEF text
  <2> QED
    BY <1>2, <1>3, <2>4, SplitIsPieces
<1>5. ASSUME Split(text, Joint) = ps PROVE Plain(ps)
  <2>1. Taken(text, 1, ps)
    <3> HIDE DEF text
    <3> QED
      BY <1>3, <1>5, AllTaken
  <2>2. /\ \A k \in 1..n : Found(ps[k], Joint, 1) = {}
        /\ \A k \in 1..(n - 1) : ps[k] # <<>> => Last(ps[k]) # "|"
        /\ Last(ps) = <<>> => Len(text) - 1 + 1 = Len(Joins(ps, Joint)[1]) + 2
    BY <2>1 DEF Taken
  <2>3. Last(ps) # <<>>
    <3> HIDE DEF text
    <3>1. Len(text) \in Nat
      BY <1>3 DEF Phrases
    <3> QED
      BY <1>3, <2>2, <3>1
  <2> QED
    BY <1>1, <2>2, <2>3 DEF Plain, Joint
<1> QED
  BY <1>4, <1>5

------------------------------------------------------------------------------
\* What a dialog answers.

IsTextOf(f, paths, m) ==
    f = [k \in 0..m |->
          IF k = 0 THEN <<>>
          ELSE IF f[k - 1] = <<>> THEN paths[k] ELSE f[k - 1] \o Bar \o paths[k]]

LEMMA TextExists ==
    ASSUME NEW paths, NEW n \in Nat
    PROVE  \E f : IsTextOf(f, paths, n)
<1> DEFINE T(f, k) == IF k = 0 THEN <<>>
                      ELSE IF f[k - 1] = <<>> THEN paths[k] ELSE f[k - 1] \o Bar \o paths[k]
           S == {m \in 0..n : \E f : IsTextOf(f, paths, m)}
<1>1. ASSUME NEW m \in 0..n, \A j \in 0..(m - 1) : j \in S
      PROVE  m \in S
  <2>1. CASE m = 0
    <3> DEFINE f == [k \in 0..0 |-> <<>>]
    <3>1. f = [k \in 0..0 |-> T(f, k)]
      <4>1. \A k \in 0..0 : T(f, k) = <<>>
        OBVIOUS
      <4> HIDE DEF T
      <4> QED
        BY <4>1
    <3>2. IsTextOf(f, paths, 0)
      <4> HIDE DEF f
      <4> QED
        BY <3>1 DEF IsTextOf
    <3> QED
      BY <2>1, <3>2
  <2>2. CASE m # 0
    <3>1. m - 1 \in S
      BY <1>1, <2>2
    <3>2. PICK g : g = [k \in 0..(m - 1) |-> T(g, k)]
      BY <3>1 DEF IsTextOf
    <3> DEFINE f == [k \in 0..m |-> IF k = m THEN T(g, m) ELSE g[k]]
    <3>3. \A k \in 0..(m - 1) : k \in 0..m /\ k # m
      OBVIOUS
    <3>4. \A k \in 0..(m - 1) : f[k] = g[k] /\ g[k] = T(g, k)
      <4>1. \A k \in 0..(m - 1) : g[k] = T(g, k)
        <5> HIDE DEF T
        <5> QED
          BY <3>2
      <4>2. \A k \in 0..(m - 1) : f[k] = g[k]
        <5> HIDE DEF T
        <5> QED
          BY <3>3
      <4> QED
        BY <4>1, <4>2
    <3>5. ASSUME NEW k \in 0..m PROVE T(f, k) = T(g, k)
      <4>1. k # 0 => k - 1 \in 0..(m - 1)
        OBVIOUS
      <4>2. k # 0 => f[k - 1] = g[k - 1]
        <5> HIDE DEF f
        <5> QED
          BY <3>4, <4>1
      <4> HIDE DEF f
      <4> QED
        BY <4>2
    <3>6. ASSUME NEW k \in 0..m PROVE f[k] = T(g, k)
      <4>1. CASE k = m
        <5> HIDE DEF T
        <5> QED
          BY <4>1
      <4>2. CASE k # m
        <5>1. k \in 0..(m - 1)
          BY <4>2
        <5> HIDE DEF T, f
        <5> QED
          BY <3>4, <5>1
      <4> QED
        BY <4>1, <4>2
    <3>7. f = [k \in 0..m |-> T(f, k)]
      <4>1. \A k \in 0..m : (IF k = m THEN T(g, m) ELSE g[k]) = T(f, k)
        <5> HIDE DEF T
        <5> QED
          BY <3>5, <3>6
      <4> HIDE DEF T
      <4> QED
        BY <4>1
    <3>8. IsTextOf(f, paths, m)
      <4> HIDE DEF f
      <4> QED
        BY <3>7 DEF IsTextOf
    <3> QED
      BY <3>8
  <2> QED
    BY <2>1, <2>2
<1>2. 0 \in Int /\ n \in Int /\ n \in 0..n
  OBVIOUS
<1>3. \A m \in 0..n : m \in S
  <2> HIDE DEF S
  <2> QED
    BY <1>1, <1>2, UpwardInduction
<1> QED
  BY <1>2, <1>3

LEMMA ResponseIs ==
    ASSUME NEW paths, Len(paths) \in Nat
    PROVE  \E f : IsTextOf(f, paths, Len(paths)) /\ Response(paths) = f[Len(paths)]
<1> DEFINE F(h) == h = [k \in 0..Len(paths) |->
             IF k = 0 THEN <<>>
             ELSE IF h[k - 1] = <<>> THEN paths[k] ELSE h[k - 1] \o Bar \o paths[k]]
           c == CHOOSE h : F(h)
<1>1. \A h : F(h) <=> IsTextOf(h, paths, Len(paths))
  BY DEF IsTextOf
<1>2. \E h : F(h)
  BY <1>1, TextExists
<1>3. Response(paths) = c[Len(paths)]
  BY DEF Response
<1> HIDE DEF F
<1>4. F(c)
  BY <1>2
<1> QED
  BY <1>1, <1>3, <1>4

LEMMA ResponseOfNothing == Response(<<>>) = <<>>
<1>1. PICK f : IsTextOf(f, <<>>, 0) /\ Response(<<>>) = f[0]
  <2>1. Len(<<>>) = 0
    OBVIOUS
  <2> QED
    BY <2>1, ResponseIs
<1> QED
  BY <1>1 DEF IsTextOf

LEMMA PhrasesAssociative ==
    \A a, b, c \in Seq(Words) : (a \o b) \o c = a \o (b \o c)
  BY ConcatAssociative

\* The answer joins the paths with one bar between them.
LEMMA ResponseIsJoin ==
    ASSUME NEW paths \in Seq(Phrases), paths # <<>>, \A k \in 1..Len(paths) : paths[k] # <<>>
    PROVE  Response(paths) = Joins(paths, Bar)[1] /\ Response(paths) # <<>>
<1> DEFINE n == Len(paths)
           J == Joins(paths, Bar)
<1>1. n \in Nat \ {0} /\ n \in Int /\ n \in 1..n /\ 1 \in 1..n /\ 1 \in Int
      /\ \A k \in 1..n : paths[k] \in Phrases /\ paths[k] # <<>>
  OBVIOUS
<1>2. Bar \in Phrases /\ Len(Bar) = 1
  BY BarIsPhrase
<1>3. \A k \in 1..n : J[k] \in Phrases /\ J[k] = IF k = n THEN paths[k] ELSE paths[k] \o Bar \o J[k + 1]
  BY <1>1, <1>2, JoinsIs, JoinsArePhrases
<1>4. PICK f : IsTextOf(f, paths, n) /\ Response(paths) = f[n]
  BY <1>1, ResponseIs
<1>5. /\ f[0] = <<>>
      /\ \A k \in 1..n : f[k] = IF f[k - 1] = <<>> THEN paths[k] ELSE f[k - 1] \o Bar \o paths[k]
  <2>1. \A k \in 1..n : k \in 0..n /\ k # 0
    BY <1>1
  <2>2. 0 \in 0..n
    BY <1>1
  <2> HIDE DEF n
  <2> QED
    BY <1>4, <2>1, <2>2 DEF IsTextOf
<1> DEFINE Begins(t, k) == IF k = n THEN t = J[1] ELSE t \o Bar \o J[k + 1] = J[1]
           S == {k \in 1..n : f[k] \in Phrases /\ f[k] # <<>> /\ Begins(f[k], k)}
<1> HIDE DEF n, J
<1>6. ASSUME NEW k \in 1..n, \A j \in 1..(k - 1) : j \in S
      PROVE  k \in S
  <2>1. CASE k = 1
    <3>1. f[k] = paths[1]
      BY <1>1, <1>5, <2>1
    <3>2. Begins(paths[1], 1)
      BY <1>1, <1>3
    <3> HIDE DEF Begins
    <3> QED
      BY <1>1, <2>1, <3>1, <3>2
  <2>2. CASE k # 1
    <3> DEFINE t == f[k - 1]
               p == paths[k]
    <3>1. k - 1 \in S /\ k - 1 \in 1..n /\ k - 1 # n /\ (k - 1) + 1 = k
      <4>1. k - 1 \in 1..(k - 1) /\ k - 1 \in 1..n /\ k - 1 # n /\ (k - 1) + 1 = k
        BY <1>1, <2>2
      <4> HIDE DEF S
      <4> QED
        BY <1>6, <4>1
    <3>2. t \in Phrases /\ t # <<>> /\ t \o Bar \o J[k] = J[1] /\ f[k] = t \o Bar \o p /\ p \in Phrases
      BY <1>1, <1>5, <3>1
    <3>3. J[k] \in Phrases /\ J[k] = IF k = n THEN p ELSE p \o Bar \o J[k + 1]
      BY <1>3
    <3>4. k # n => k + 1 \in 1..n
      BY <1>1
    <3>5. k # n => J[k + 1] \in Phrases
      BY <1>3, <3>4
    <3> HIDE DEF t, p
    <3>6. t \in Seq(Words) /\ Bar \in Seq(Words) /\ p \in Seq(Words)
      BY <1>2, <3>2 DEF Phrases
    <3>7. t \o Bar \in Seq(Words) /\ Len(t \o Bar) = Len(t) + 1
      <4>1. t \o Bar \in Seq(Words) /\ Len(t \o Bar) = Len(t) + Len(Bar)
        BY <3>6, ConcatProperties, Zenon
      <4> QED
        BY <1>2, <4>1
    <3>8. f[k] \in Phrases /\ f[k] # <<>>
      <4>1. (t \o Bar) \o p \in Seq(Words) /\ Len((t \o Bar) \o p) = Len(t) + 1 + Len(p)
        <5>1. (t \o Bar) \o p \in Seq(Words) /\ Len((t \o Bar) \o p) = Len(t \o Bar) + Len(p)
          BY <3>6, <3>7, ConcatProperties, Zenon
        <5> QED
          BY <3>7, <5>1
      <4>2. Len((t \o Bar) \o p) > 0
        BY <3>6, <4>1
      <4>3. Len(f[k]) > 0
        BY <3>2, <4>2
      <4>4. f[k] # <<>>
        BY <4>3
      <4> QED
        BY <3>2, <4>1, <4>4 DEF Phrases
    <3>9. Begins(f[k], k)
      <4>1. CASE k = n
        BY <3>2, <3>3, <4>1
      <4>2. CASE k # n
        <5> DEFINE r == J[k + 1]
        <5>1. r \in Seq(Words)
          BY <3>5, <4>2 DEF Phrases
        <5> HIDE DEF r
        <5>2. ((t \o Bar) \o p) \o (Bar \o r) = (t \o Bar) \o (p \o (Bar \o r))
          <6>1. Bar \o r \in Seq(Words)
            BY <3>6, <5>1, ConcatProperties, Zenon
          <6> QED
            BY <3>6, <3>7, <6>1, PhrasesAssociative
        <5>3. (((t \o Bar) \o p) \o Bar) \o r = ((t \o Bar) \o p) \o (Bar \o r)
          <6>1. (t \o Bar) \o p \in Seq(Words)
            BY <3>6, <3>7, ConcatProperties, Zenon
          <6> QED
            BY <3>6, <5>1, <6>1, PhrasesAssociative
        <5>4. (p \o Bar) \o r = p \o (Bar \o r)
          BY <3>6, <5>1, PhrasesAssociative
        <5>5. f[k] \o Bar \o r = (t \o Bar) \o ((p \o Bar) \o r)
          BY <3>2, <5>2, <5>3, <5>4
        <5>6. J[k] = (p \o Bar) \o r
          BY <3>3, <4>2 DEF r
        <5>7. f[k] \o Bar \o r = J[1]
          BY <3>2, <5>5, <5>6
        <5> QED
          BY <4>2, <5>7 DEF r
      <4> QED
        BY <4>1, <4>2
    <3> HIDE DEF Begins
    <3> QED
      BY <3>8, <3>9
  <2> QED
    BY <2>1, <2>2
<1>7. \A k \in 1..n : k \in S
  <2> HIDE DEF S
  <2> QED
    BY <1>1, <1>6, UpwardInduction
<1>8. f[n] # <<>> /\ f[n] = J[1]
  BY <1>1, <1>7
<1> USE DEF J
<1> QED
  BY <1>4, <1>8

LEMMA ResponseArrives ==
    ASSUME NEW paths \in Selections \cup {<<>>}
    PROVE  /\ Response(paths) = <<>> <=> paths = <<>>
           /\ paths # <<>> => SplitInPage(Response(paths), Bar) = paths
<1>1. CASE paths = <<>>
  BY <1>1, ResponseOfNothing
<1>2. CASE paths # <<>>
  <2>1. /\ paths \in Seq(Phrases)
        /\ \A k \in DOMAIN paths : paths[k] # <<>> /\ "|" \notin ToSet(paths[k])
    BY <1>2, RequestAssumption DEF Phrases
  <2>2. Len(paths) \in Nat \ {0} /\ DOMAIN paths = 1..Len(paths) /\ 1 \in 1..Len(paths)
        /\ \A k \in 1..Len(paths) : paths[k] \in Phrases
    BY <1>2, <2>1
  <2>3. Bar \in Phrases /\ Len(Bar) = 1
    BY BarIsPhrase
  <2>4. Bar # <<>>
    BY <2>3
  <2>5. Response(paths) = Joins(paths, Bar)[1] /\ Response(paths) # <<>>
    BY <1>2, <2>1, <2>2, ResponseIsJoin
  <2>6. \A k \in 1..Len(paths) : Separates(Bar, paths[k]) /\ Found(paths[k], Bar, 1) = {}
    BY <2>1, <2>2, BarSeparates
  <2>7. Pieces(Joins(paths, Bar)[1], Bar, TRUE)[1] = paths
    <3>1. \A k \in 1..(Len(paths) - 1) : Separates(Bar, paths[k])
      BY <2>2, <2>6
    <3>2. Found(paths[Len(paths)], Bar, 1) = {}
      BY <2>2, <2>6
    <3> QED
      BY <1>2, <2>1, <2>3, <2>4, <3>1, <3>2, JoinedSplits
  <2>8. Joins(paths, Bar)[1] \in Phrases
    BY <1>2, <2>1, <2>2, <2>3, JoinsArePhrases
  <2>9. SplitInPage(Response(paths), Bar) = paths
    BY <2>3, <2>4, <2>5, <2>7, <2>8, SplitIsPieces
  <2> QED
    BY <1>2, <2>5, <2>9
<1> QED
  BY <1>1, <1>2

------------------------------------------------------------------------------
\* One request after the other.

\* What runs has the pieces of the last request, and a dialog answered with what was
\* selected in it.
Exchange ==
    /\ TypeOK
    /\ job.kind = "none" => job = NoJob
    /\ job.kind = "dialog" => Kind = <<"Dialog">>
    /\ job.kind = "print" => Kind = <<"PrintToPDF">> /\ Len(job.items) >= 2
    /\ job.kind # "none" => params \in Lists /\ job.items = Split(Request(params), Joint)
    /\ params # <<>> /\ Kind = <<"Dialog">> /\ answer.kind = "success" =>
         answer = Success(Response(selected))
    /\ PlainRequestsAreSafe /\ SilenceIsUnknown

LEMMA ExchangeInit == Init => Exchange
  BY DEF Init, Exchange, TypeOK, NoJob, NoAnswer, PlainRequestsAreSafe, SilenceIsUnknown

\* What becomes of the variables when a request is taken whose items are known.
LEMMA QueryCases ==
    ASSUME NEW ps, OnQuery(ps), NEW items, items = Split(Request(ps), Joint)
    PROVE  /\ process = "up" /\ job = NoJob /\ params' = ps /\ selected' = <<>>
           /\ Kind' = Prefix(Request(ps))
           /\ \/ Kind' = <<"Dialog">> /\ OnDialogQuery(items)
              \/ Kind' = <<"PrintToPDF">> /\ OnPrintToPDF(items)
              \/ Kind' = <<"DevToolsMessage">> /\ OnDevToolsMessage(items)
              \/ Kind' = <<"Binding">> /\ OnBindingQuery(Request(ps))
              \/ /\ Kind' \notin {<<"Dialog">>, <<"PrintToPDF">>, <<"DevToolsMessage">>,
                                  <<"Binding">>}
                 /\ answer' = Canceled /\ UNCHANGED <<job, process>>
  BY DEF OnQuery, Kind, Joint

LEMMA KindsDiffer ==
    /\ <<"Dialog">> # <<"PrintToPDF">> /\ <<"Dialog">> # <<"DevToolsMessage">>
    /\ <<"Dialog">> # <<"Binding">> /\ <<"PrintToPDF">> # <<"DevToolsMessage">>
    /\ <<"PrintToPDF">> # <<"Binding">> /\ <<"DevToolsMessage">> # <<"Binding">>
<1>1. \A a, b : <<a>> = <<b>> => a = b
  OBVIOUS
<1> QED
  BY <1>1

\* What is split of a request is what was joined, just if that was plain.
LEMMA PlainItems ==
    ASSUME NEW ps \in Lists
    PROVE  /\ Request(ps) \in Phrases /\ Split(Request(ps), Joint) \in Seq(Phrases)
           /\ Split(Request(ps), Joint) = ps <=> Plain(ps)
<1>1. ps \in Seq(Phrases) /\ ps # <<>>
  BY RequestAssumption DEF Phrases
<1>2. Request(ps) \in Phrases
  <2>1. Len(ps) \in Nat \ {0} /\ 1 \in 1..Len(ps) /\ Joint \in Phrases
    BY <1>1, BarIsPhrase
  <2> QED
    BY <1>1, <2>1, RequestIsJoin, JoinsArePhrases
<1> QED
  BY <1>1, <1>2, AllTaken, PlainArrives DEF Taken

\* What comes before the first bar is all of a kind: no request of the kind "Binding"
\* begins with "BindingTest".
LEMMA BindingIsNoTest ==
    ASSUME NEW text \in Phrases, Prefix(text) = <<"Binding">>
    PROVE  ~IsPrefix(<<"Binding", "Test">>, text)
<1> DEFINE Bars == {i \in DOMAIN text : text[i] = "|"}
           m == Min(Bars)
<1>1. Len(text) \in Nat /\ Bars \in SUBSET (1..Len(text)) /\ text \in Seq(Words)
  BY DEF Phrases
<1>2. Bars # {}
  <2>1. <<"Binding">> # <<>>
    OBVIOUS
  <2> QED
    BY <2>1 DEF Prefix
<1>3. m \in Bars
  <2> HIDE DEF Bars
  <2> QED
    BY <1>1, <1>2, SmallestIsThere
<1>4. m \in 1..Len(text) /\ text[m] = "|"
  BY <1>1, <1>3
<1>5. SubSeq(text, 1, m - 1) = <<"Binding">>
  BY <1>2 DEF Prefix
<1> HIDE DEF Bars, m
<1>6. m = 2
  <2>1. Len(SubSeq(text, 1, m - 1)) = m - 1
    BY <1>1, <1>4
  <2> QED
    BY <1>4, <1>5, <2>1
<1> SUFFICES ASSUME 2 <= Len(text), SubSeq(<<"Binding", "Test">>, 1, 2) = SubSeq(text, 1, 2)
             PROVE  FALSE
  BY DEF IsPrefix
<1>7. SubSeq(text, 1, 2)[2] = text[2]
  BY <1>1
<1>8. SubSeq(<<"Binding", "Test">>, 1, 2)[2] = "Test"
  OBVIOUS
<1> QED
  BY <1>4, <1>6, <1>7, <1>8

LEMMA ExchangeQuery ==
    ASSUME Exchange, NEW ps \in Lists, OnQuery(ps)
    PROVE  Exchange'
<1> DEFINE items == Split(Request(ps), Joint)
           Outcome ==
             \/ Kind' = <<"Dialog">> /\ OnDialogQuery(items)
             \/ Kind' = <<"PrintToPDF">> /\ OnPrintToPDF(items)
             \/ Kind' = <<"DevToolsMessage">> /\ OnDevToolsMessage(items)
             \/ Kind' = <<"Binding">> /\ OnBindingQuery(Request(ps))
             \/ /\ Kind' \notin {<<"Dialog">>, <<"PrintToPDF">>, <<"DevToolsMessage">>,
                                 <<"Binding">>}
                /\ answer' = Canceled /\ UNCHANGED <<job, process>>
<1>1. process = "up" /\ job = NoJob /\ params' = ps /\ selected' = <<>>
      /\ Kind' = Prefix(Request(ps)) /\ Outcome
  BY QueryCases
<1>2. items \in Seq(Phrases) /\ (items = ps <=> Plain(ps)) /\ Request(ps) \in Phrases
  BY PlainItems
<1>3. Split(Request(params), Joint)' = items
  BY <1>1
<1>4. NoJob.kind = "none" /\ NoJob.items = <<>>
      /\ \A k : Job(k, items).kind = k /\ Job(k, items).items = items
  BY DEF NoJob, Job
<1>5. /\ NoAnswer.kind = "none" /\ Failure.kind = "failure" /\ Canceled.kind = "canceled"
      /\ \A t : Success(t).kind = "success"
  BY DEF NoAnswer, Failure, Canceled, Success
<1> HIDE DEF items
<1>6. CASE Kind' = <<"Dialog">> /\ OnDialogQuery(items)
  <2>1. process' = "up" /\ answer' = (IF Len(items) >= 3 THEN NoAnswer ELSE Canceled)
        /\ job' = IF Len(items) >= 3 /\ items[2] \in DialogKinds THEN Job("dialog", items) ELSE NoJob
    <3>1. Enough(<<"Dialog">>, items) <=> Len(items) >= 3
      BY KindsDiffer DEF Enough
    <3> QED
      BY <1>1, <1>6, <3>1 DEF OnDialogQuery
  <2>2. job'.kind \in {"none", "dialog"} /\ (job'.kind = "none" => job' = NoJob)
        /\ (job'.kind = "dialog" => job'.items = items /\ Len(items) >= 3)
    BY <1>4, <2>1
  <2>3. answer'.kind \in {"none", "canceled"}
    BY <1>5, <2>1
  <2>4. TypeOK'
    <3>1. job'.kind = "none" <=> job'.items = <<>>
      BY <1>2, <1>4, <2>2
    <3> QED
      BY <1>1, <2>1, <2>2, <2>3, <3>1 DEF TypeOK
  <2>5. SilenceIsUnknown'
    <3> SUFFICES ASSUME Plain(ps), job' = NoJob
                 PROVE  /\ answer' = NoAnswer => IsTaken' /\ ps[2] \notin DialogKinds
                        /\ answer' = Canceled <=> ~IsTaken'
      BY <1>1, <1>6 DEF SilenceIsUnknown
    <3>1. items = ps
      BY <1>2
    <3>2. answer' = Canceled <=> ~(Len(items) >= 3)
      BY <1>5, <2>1
    <3>3. IsTaken' <=> Len(ps) >= 3
      BY <1>1, <1>6, KindsDiffer DEF IsTaken
    <3>4. answer' = NoAnswer => Len(items) >= 3
      BY <1>5, <2>1
    <3> QED
      BY <1>4, <2>1, <3>1, <3>2, <3>3, <3>4
  <2>6. PlainRequestsAreSafe'
    BY <2>1 DEF PlainRequestsAreSafe
  <2> QED
    BY <1>1, <1>3, <1>6, <2>2, <2>3, <2>4, <2>5, <2>6 DEF Exchange
<1>7. CASE Kind' = <<"PrintToPDF">> /\ OnPrintToPDF(items)
  <2>1. \/ answer' = Canceled /\ ~(Len(items) >= 2) /\ job' = NoJob /\ process' = "up"
        \/ NumbersAreRead(items) /\ Len(items) >= 2 /\ job' = Job("print", items)
           /\ answer' = NoAnswer /\ process' = "up"
        \/ ~NumbersAreRead(items) /\ process' = "ended" /\ answer' = NoAnswer /\ job' = NoJob
    <3>1. Enough(<<"PrintToPDF">>, items) <=> Len(items) >= 2
      BY DEF Enough
    <3> QED
      BY <1>1, <1>7, <3>1 DEF OnPrintToPDF
  <2>2. job'.kind \in {"none", "print"} /\ (job'.kind = "none" => job' = NoJob)
        /\ (job'.kind = "print" => job'.items = items /\ Len(items) >= 2)
    BY <1>4, <2>1
  <2>3. answer'.kind \in {"none", "canceled"} /\ process' \in {"up", "ended"}
    BY <1>5, <2>1
  <2>4. TypeOK'
    <3>1. job'.kind = "none" <=> job'.items = <<>>
      BY <1>2, <1>4, <2>2
    <3> QED
      BY <1>1, <2>2, <2>3, <3>1 DEF TypeOK
  <2>5. SilenceIsUnknown'
    <3> SUFFICES ASSUME Plain(ps), process' = "up", job' = NoJob
                 PROVE  answer' # NoAnswer /\ answer' = Canceled /\ ~IsTaken'
      BY <1>1 DEF SilenceIsUnknown
    <3>1. Job("print", items) # NoJob
      BY <1>4
    <3>2. answer' = Canceled /\ ~(Len(items) >= 2)
      BY <2>1, <3>1
    <3>3. IsTaken' <=> Len(ps) >= 2
      BY <1>1, <1>7, KindsDiffer DEF IsTaken
    <3> QED
      BY <1>2, <1>5, <3>2, <3>3
  <2>6. PlainRequestsAreSafe'
    <3> SUFFICES ASSUME Plain(ps), \A k \in Numeric(ps) : ps[k] \in Numerals PROVE process' = "up"
      BY <1>1, <1>7 DEF PlainRequestsAreSafe
    <3>1. NumbersAreRead(items)
      BY <1>2 DEF NumbersAreRead
    <3> QED
      BY <2>1, <3>1
  <2>7. Kind' # <<"Dialog">>
    BY <1>7, KindsDiffer
  <2> QED
    BY <1>1, <1>3, <1>7, <2>2, <2>4, <2>5, <2>6, <2>7 DEF Exchange
<1>8. CASE Kind' = <<"DevToolsMessage">> /\ OnDevToolsMessage(items)
  <2>1. /\ job' = NoJob
        /\ \/ answer' = Canceled /\ ~(Len(items) >= 3) /\ process' = "up"
           \/ answer' \in {Success(<<"ok">>), Failure} /\ Len(items) >= 3 /\ process' = "up"
           \/ items[2] = <<>> /\ Len(items) >= 3 /\ process' = "ended" /\ answer' = NoAnswer
    <3>1. Enough(<<"DevToolsMessage">>, items) <=> Len(items) >= 3
      BY KindsDiffer DEF Enough
    <3> QED
      BY <1>1, <1>8, <3>1 DEF OnDevToolsMessage
  <2>2. answer'.kind \in {"none", "success", "failure", "canceled"} /\ process' \in {"up", "ended"}
        /\ (process' = "up" => answer'.kind # "none")
    BY <1>5, <2>1
  <2>3. TypeOK'
    BY <1>1, <1>4, <2>1, <2>2 DEF TypeOK
  <2>4. SilenceIsUnknown'
    <3> SUFFICES ASSUME Plain(ps), process' = "up"
                 PROVE  answer' # NoAnswer /\ (answer' = Canceled <=> ~IsTaken')
      BY <1>1 DEF SilenceIsUnknown
    <3>1. answer' # NoAnswer /\ (answer' = Canceled <=> ~(Len(items) >= 3))
      BY <1>5, <2>1, <2>2
    <3>2. IsTaken' <=> Len(ps) >= 3
      BY <1>1, <1>8, KindsDiffer DEF IsTaken
    <3> QED
      BY <1>2, <3>1, <3>2
  <2>5. PlainRequestsAreSafe'
    <3> SUFFICES ASSUME Plain(ps), Len(ps) > 1 => ps[2] # <<>> PROVE process' = "up"
      BY <1>1, <1>8 DEF PlainRequestsAreSafe
    <3>1. Len(items) \in Nat
      BY <1>2
    <3>2. Len(items) >= 3 => Len(items) > 1
      BY <3>1
    <3> QED
      BY <1>2, <2>1, <3>2
  <2>6. Kind' # <<"Dialog">>
    BY <1>8, KindsDiffer
  <2> QED
    BY <1>1, <1>4, <2>1, <2>3, <2>4, <2>5, <2>6 DEF Exchange
<1>9. ASSUME Kind' \notin {<<"Dialog">>, <<"PrintToPDF">>, <<"DevToolsMessage">>}, job' = NoJob,
             process' = "up", answer' = Canceled
      PROVE  Exchange'
  <2>1. TypeOK'
    BY <1>1, <1>4, <1>5, <1>9 DEF TypeOK
  <2>2. ~IsTaken'
    BY <1>1, <1>9 DEF IsTaken
  <2>3. SilenceIsUnknown' /\ PlainRequestsAreSafe'
    BY <1>5, <1>9, <2>2 DEF SilenceIsUnknown, PlainRequestsAreSafe
  <2> QED
    BY <1>4, <1>5, <1>9, <2>1, <2>3 DEF Exchange
<1>10. CASE Kind' = <<"Binding">> /\ OnBindingQuery(Request(ps))
  <2>1. job' = NoJob /\ process' = "up" /\ answer' = Canceled
    BY <1>1, <1>2, <1>10, BindingIsNoTest DEF OnBindingQuery
  <2>2. Kind' \notin {<<"Dialog">>, <<"PrintToPDF">>, <<"DevToolsMessage">>}
    BY <1>10, KindsDiffer
  <2> QED
    BY <1>9, <2>1, <2>2
<1>11. CASE /\ Kind' \notin {<<"Dialog">>, <<"PrintToPDF">>, <<"DevToolsMessage">>, <<"Binding">>}
            /\ answer' = Canceled /\ UNCHANGED <<job, process>>
  <2>1. job' = NoJob /\ process' = "up" /\ answer' = Canceled
    BY <1>1, <1>11
  <2> QED
    BY <1>9, <1>11, <2>1
<1> QED
  BY <1>1, <1>6, <1>7, <1>8, <1>10, <1>11

LEMMA ExchangeEnds ==
    ASSUME Exchange,
           (\E paths \in Selections : OnFileDialogDismissed(paths)) \/ OnPdfPrintFinished
             \/ UNCHANGED vars
    PROVE  Exchange'
<1>1. NoJob.kind = "none" /\ NoJob.items = <<>>
  BY DEF NoJob
<1>2. /\ NoAnswer.kind = "none" /\ Failure.kind = "failure" /\ Canceled.kind = "canceled"
      /\ \A t : Success(t).kind = "success"
  BY DEF NoAnswer, Failure, Success, Canceled
<1>3. params' = params /\ process' = process /\ Kind' = Kind
  BY DEF OnFileDialogDismissed, OnPdfPrintFinished, vars, Kind
<1>4. PlainRequestsAreSafe'
  BY <1>3 DEF Exchange, PlainRequestsAreSafe
<1>5. ASSUME NEW paths \in Selections, OnFileDialogDismissed(paths) PROVE Exchange'
  <2>1. selected' = paths /\ answer' = Success(Response(paths)) /\ job' = NoJob
    BY <1>5 DEF OnFileDialogDismissed
  <2>2. TypeOK'
    BY <1>1, <1>2, <1>3, <2>1 DEF Exchange, TypeOK
  <2>3. Kind = <<"Dialog">> /\ params \in Lists /\ job.items = Split(Request(params), Joint)
        /\ Len(job.items) >= 3
    BY <1>5 DEF OnFileDialogDismissed, Exchange, TypeOK
  <2>4. Plain(params) => IsTaken'
    BY <1>3, <2>3, PlainItems DEF IsTaken
  <2>5. SilenceIsUnknown'
    BY <1>2, <1>3, <2>1, <2>4 DEF SilenceIsUnknown
  <2> QED
    BY <1>1, <1>3, <1>4, <2>1, <2>2, <2>5 DEF Exchange
<1>6. CASE OnPdfPrintFinished
  <2>1. job.kind = "print" /\ answer' \in {Success(job.items[2]), Failure} /\ job' = NoJob
        /\ selected' = selected
    BY <1>6 DEF OnPdfPrintFinished
  <2>2. answer'.kind \in {"success", "failure"}
    BY <1>2, <2>1
  <2>3. TypeOK' /\ SilenceIsUnknown'
    <3>1. TypeOK'
      BY <1>1, <1>2, <1>3, <2>1, <2>2 DEF Exchange, TypeOK
    <3>2. Kind = <<"PrintToPDF">> /\ params \in Lists /\ Len(job.items) >= 2
          /\ job.items = Split(Request(params), Joint)
      BY <2>1 DEF Exchange
    <3>3. Plain(params) => IsTaken'
      BY <1>3, <3>2, PlainItems DEF IsTaken
    <3>4. SilenceIsUnknown'
      BY <1>2, <1>3, <2>1, <2>2, <3>3 DEF SilenceIsUnknown
    <3> QED
      BY <3>1, <3>4
  <2>4. Kind' # <<"Dialog">>
    BY <1>3, <2>1, KindsDiffer DEF Exchange
  <2> QED
    BY <1>1, <1>4, <2>1, <2>3, <2>4 DEF Exchange
<1>7. CASE UNCHANGED vars
  <2>1. job' = job /\ answer' = answer /\ selected' = selected
    BY <1>7 DEF vars
  <2>2. TypeOK' /\ SilenceIsUnknown'
    BY <1>3, <2>1 DEF Exchange, TypeOK, SilenceIsUnknown, IsTaken
  <2> QED
    BY <1>3, <1>4, <2>1, <2>2 DEF Exchange
<1> QED
  BY <1>5, <1>6, <1>7

LEMMA ExchangeHolds == Spec => []Exchange
<1>1. Exchange /\ [Next]_vars => Exchange'
  BY ExchangeQuery, ExchangeEnds DEF Next
<1> QED
  BY <1>1, ExchangeInit, PTL DEF Spec

\* Every variable has its type.
THEOREM RequestTypeCorrect == Spec => []TypeOK
<1>1. Exchange => TypeOK
  BY DEF Exchange
<1> QED
  BY <1>1, ExchangeHolds, PTL

\* Whatever a page joins, what is run gets the parameters as they were just if they are
\* plain.
THEOREM PlainParametersArrive == Spec => []ParamsArrive
<1>1. Exchange => ParamsArrive
  <2> SUFFICES ASSUME Exchange, job # NoJob PROVE job.items = params <=> Plain(params)
    BY DEF ParamsArrive
  <2>1. params \in Lists /\ job.items = Split(Request(params), Joint)
    BY DEF Exchange
  <2>2. params \in Seq(Phrases) /\ params # <<>>
    BY <2>1, RequestAssumption DEF Phrases
  <2> QED
    BY <2>1, <2>2, PlainArrives
<1> QED
  BY <1>1, ExchangeHolds, PTL

\* No plain request with numbers where they are read and a name of a method ends the
\* browser process.
THEOREM PlainRequestsEndNothing == Spec => []PlainRequestsAreSafe
<1>1. Exchange => PlainRequestsAreSafe
  BY DEF Exchange
<1> QED
  BY <1>1, ExchangeHolds, PTL

\* Whatever paths are selected, the page finds them in the answer.
THEOREM SelectionsArrive == Spec => []SelectionArrives
<1>1. Exchange => SelectionArrives
  <2> SUFFICES ASSUME Exchange, params # <<>>, Kind = <<"Dialog">>, answer.kind = "success"
               PROVE  /\ answer.text = <<>> <=> selected = <<>>
                      /\ selected # <<>> => SplitInPage(answer.text, Bar) = selected
    BY DEF SelectionArrives
  <2>1. answer.text = Response(selected) /\ selected \in Selections \cup {<<>>}
    BY DEF Exchange, TypeOK, Success
  <2> QED
    BY <2>1, ResponseArrives
<1> QED
  BY <1>1, ExchangeHolds, PTL

\* Every plain request gets an answer, but one for a dialog of an unknown kind.
THEOREM SilenceIsForUnknownDialogs == Spec => []SilenceIsUnknown
<1>1. Exchange => SilenceIsUnknown
  BY DEF Exchange
<1> QED
  BY <1>1, ExchangeHolds, PTL
==============================================================================
