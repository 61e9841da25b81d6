---------------------------- MODULE Startup_proofs ----------------------------
(***************************************************************************)
(* Theorems about Startup, for any instances, command lines and meta       *)
(* elements.                                                               *)
(*                                                                         *)
(* Lists of meta elements come first: the two ways to make a command line  *)
(* of them agree unless elements contradict each other.  Then each group   *)
(* of variables has an invariant of its own, with one step per action.     *)
(***************************************************************************)
EXTENDS Startup, WellFoundedInduction, TLAPS

------------------------------------------------------------------------------
\* Lists of meta elements.

\* A set of positions that is not empty has a smallest and a largest one.
LEMMA SmallestIsThere ==
    ASSUME NEW n \in Nat, NEW S \in SUBSET (1..n), S # {}
    PROVE  \E i \in S : \A j \in S : i <= j
<1> DEFINE Less == {ss \in Nat \X Nat : ss[1] < ss[2]}
<1>1. IsWellFoundedOn(Less, Nat)
  BY NatLessThanWellFounded DEF OpToRel
<1>2. \A a, b \in Nat : <<a, b>> \notin Less => a >= b
  OBVIOUS
<1>3. S \subseteq Nat
  OBVIOUS
<1> HIDE DEF Less
<1>4. PICK i \in S : \A j \in S : <<j, i>> \notin Less
  BY <1>1, <1>3, WFMin
<1> QED
  BY <1>2, <1>3, <1>4

LEMMA LargestIsThere ==
    ASSUME NEW n \in Nat, NEW S \in SUBSET (1..n), S # {}
    PROVE  \E i \in S : \A j \in S : j <= i
<1> DEFINE From == {n - i + 1 : i \in S}
<1>1. \A i \in S : i \in Int /\ n - i + 1 \in 1..(n + 1)
  OBVIOUS
<1>2. From \in SUBSET (1..(n + 1)) /\ From # {} /\ n + 1 \in Nat
  <2>1. PICK i \in S : TRUE
    OBVIOUS
  <2>2. n - i + 1 \in From
    OBVIOUS
  <2> QED
    BY <1>1, <2>2
<1>3. \A x \in From : \E i \in S : x = n - i + 1
  OBVIOUS
<1>4. \A i \in S : n - i + 1 \in From
  OBVIOUS
<1> HIDE DEF From
<1>5. PICK x \in From : \A y \in From : x <= y
  BY <1>2, SmallestIsThere
<1>6. PICK i \in S : x = n - i + 1
  BY <1>3
<1>7. ASSUME NEW j \in S PROVE j <= i
  BY <1>1, <1>4, <1>5, <1>6
<1> QED
  BY <1>7

Elems == Values \cup {Empty, "true"}

LEMMA ListFacts ==
    ASSUME NEW list \in Seq(Metas)
    PROVE  /\ Len(list) \in Nat /\ DOMAIN list = 1..Len(list)
           /\ \A i \in DOMAIN list :
                /\ list[i] \in Metas /\ list[i].val \in Elems
                /\ Value(list[i]) \in Values \cup {Empty}
<1>1. Len(list) \in Nat /\ DOMAIN list = 1..Len(list) /\ \A i \in DOMAIN list : list[i] \in Metas
  OBVIOUS
<1>2. \A m \in Metas : m.val \in Values \cup {"true"}
  BY DEF Metas
<1> QED
  BY <1>1, <1>2 DEF Value, Elems

\* The elements for switch k: the first, the last, and one the map meta keeps.
At(list, k) == {i \in DOMAIN list : IsSwitch(list[i], k)}

LEMMA FirstAndLast ==
    ASSUME NEW list \in Seq(Metas), NEW k, At(list, k) # {}
    PROVE  /\ (CHOOSE i \in At(list, k) : \A j \in At(list, k) : i <= j) \in At(list, k)
           /\ (CHOOSE i \in At(list, k) : \A j \in At(list, k) : j <= i) \in At(list, k)
           /\ \E i \in At(list, k) : list[i] \in LastOfName(list)
<1>1. Len(list) \in Nat /\ At(list, k) \in SUBSET (1..Len(list)) /\ At(list, k) \subseteq DOMAIN list
  BY ListFacts DEF At
<1>2. \E i \in At(list, k) : \A j \in At(list, k) : i <= j
  BY <1>1, SmallestIsThere
<1>3. PICK i \in At(list, k) : \A j \in At(list, k) : j <= i
  BY <1>1, LargestIsThere
<1>4. list[i] \in LastOfName(list)
  <2>1. IsSwitch(list[i], k) /\ i \in DOMAIN list
    BY DEF At
  <2>2. ASSUME NEW j \in DOMAIN list, Named(list[j]) = Named(list[i]) PROVE j <= i
    <3>1. list[j].kind = list[i].kind /\ list[j].key = list[i].key
      BY <2>2 DEF Named
    <3>2. j \in At(list, k)
      BY <2>1, <3>1 DEF At, IsSwitch
    <3> QED
      BY <1>3, <3>2
  <2> QED
    BY <2>1, <2>2 DEF LastOfName
<1> QED
  BY <1>2, <1>3, <1>4

LEMMA WithFirstType ==
    ASSUME NEW line \in Lines, NEW list \in Seq(Metas)
    PROVE  WithFirst(line, list) \in Lines
<1> SUFFICES ASSUME NEW k \in Keys PROVE WithFirst(line, list)[k] \in Values \cup {Absent, Empty}
  BY DEF WithFirst, Lines
<1>1. line[k] \in Values \cup {Absent, Empty}
  BY DEF Lines
<1>2. WithFirst(line, list)[k] =
        IF line[k] # Absent \/ At(list, k) = {} THEN line[k]
        ELSE Value(list[CHOOSE i \in At(list, k) : \A j \in At(list, k) : i <= j])
  BY DEF WithFirst, At
<1>3. CASE line[k] # Absent \/ At(list, k) = {}
  BY <1>1, <1>2, <1>3
<1>4. CASE ~(line[k] # Absent \/ At(list, k) = {})
  <2>1. (CHOOSE i \in At(list, k) : \A j \in At(list, k) : i <= j) \in DOMAIN list
    BY <1>4, FirstAndLast DEF At
  <2> QED
    BY <1>2, <1>4, <2>1, ListFacts
<1> QED
  BY <1>3, <1>4

\* What the map keeps stands in the list.
LEMMA MapIsOfList ==
    ASSUME NEW list \in Seq(Metas), NEW m \in LastOfName(list)
    PROVE  \E i \in DOMAIN list : m = list[i]
  BY DEF LastOfName

SetFor(list, k) == {m \in LastOfName(list) : IsSwitch(m, k) /\ m.rest = ""}

LEMMA WithLastIs ==
    ASSUME NEW line, NEW list, NEW k \in Keys
    PROVE  WithLast(line, list)[k] =
             IF line[k] # Absent \/ SetFor(list, k) = {} THEN line[k]
             ELSE Value(CHOOSE m \in SetFor(list, k) : TRUE)
  BY DEF WithLast, SetFor

LEMMA WithLastType ==
    ASSUME NEW line \in Lines, NEW list \in Seq(Metas)
    PROVE  WithLast(line, list) \in Lines
<1> SUFFICES ASSUME NEW k \in Keys PROVE WithLast(line, list)[k] \in Values \cup {Absent, Empty}
  BY DEF WithLast, Lines
<1>1. line[k] \in Values \cup {Absent, Empty}
  BY DEF Lines
<1>2. CASE line[k] # Absent \/ SetFor(list, k) = {}
  BY <1>1, <1>2, WithLastIs
<1>3. CASE ~(line[k] # Absent \/ SetFor(list, k) = {})
  <2> DEFINE m == CHOOSE m \in SetFor(list, k) : TRUE
  <2>1. m \in LastOfName(list)
    BY <1>3 DEF SetFor
  <2>2. WithLast(line, list)[k] = Value(m)
    BY <1>3, WithLastIs
  <2> HIDE DEF m
  <2>3. PICK i \in DOMAIN list : m = list[i]
    BY <2>1, MapIsOfList
  <2> QED
    BY <2>2, <2>3, ListFacts
<1> QED
  BY <1>2, <1>3

LEMMA FunctionType ==
    ASSUME NEW line \in Lines, NEW list \in Seq(Metas)
    PROVE  FunctionOf(line, list) \in Elems
<1>1. FunctionOf(line, list) =
        IF At(list, "appV8Fn") # {}
          THEN list[CHOOSE i \in At(list, "appV8Fn") : \A j \in At(list, "appV8Fn") : j <= i].val
          ELSE IF line["app-v8fn"] = Absent THEN Empty ELSE line["app-v8fn"]
  BY DEF FunctionOf, At
<1>2. line["app-v8fn"] \in Values \cup {Absent, Empty}
  BY DEF Lines, Keys
<1>3. CASE At(list, "appV8Fn") = {}
  BY <1>1, <1>2, <1>3 DEF Elems
<1>4. CASE At(list, "appV8Fn") # {}
  <2>1. (CHOOSE i \in At(list, "appV8Fn") : \A j \in At(list, "appV8Fn") : j <= i) \in DOMAIN list
    BY <1>4, FirstAndLast DEF At
  <2> QED
    BY <1>1, <1>4, <2>1, ListFacts
<1> QED
  BY <1>3, <1>4

\* The first element and the one of the map give a switch the same value, unless
\* elements for it contradict each other.
LEMMA LinesMeanTheSame ==
    ASSUME NEW line \in Lines, NEW list \in Seq(Metas), NEW k \in Keys, ~Ambiguous(list, k)
    PROVE  WithFirst(line, list)[k] = WithLast(line, list)[k]
<1> DEFINE x == CHOOSE i \in At(list, k) : \A j \in At(list, k) : i <= j
           m == CHOOSE e \in SetFor(list, k) : TRUE
<1>1. WithFirst(line, list)[k] =
        IF line[k] # Absent \/ At(list, k) = {} THEN line[k] ELSE Value(list[x])
  BY DEF WithFirst, At
<1>2. WithLast(line, list)[k] =
        IF line[k] # Absent \/ SetFor(list, k) = {} THEN line[k] ELSE Value(m)
  BY WithLastIs
<1>3. \A e \in SetFor(list, k) : \E i \in At(list, k) : e = list[i]
  BY MapIsOfList DEF SetFor, At
<1>4. \A i, j \in At(list, k) : list[i].val = list[j].val /\ list[i].rest = ""
  BY DEF Ambiguous, At
<1>5. CASE At(list, k) = {}
  BY <1>1, <1>2, <1>3, <1>5
<1>6. CASE At(list, k) # {}
  <2>1. x \in At(list, k) /\ \E i \in At(list, k) : list[i] \in LastOfName(list)
    BY <1>6, FirstAndLast
  <2>2. SetFor(list, k) # {}
    BY <1>4, <2>1 DEF SetFor, At
  <2>3. m \in SetFor(list, k)
    BY <2>2
  <2> HIDE DEF x, m
  <2>4. PICK i \in At(list, k) : m = list[i]
    BY <1>3, <2>3
  <2>5. Value(m) = Value(list[x])
    BY <1>4, <2>1, <2>4 DEF Value
  <2> QED
    BY <1>1, <1>2, <1>6, <2>2, <2>5
<1> QED
  BY <1>5, <1>6

LEMMA HomepagesType ==
    ASSUME NEW list \in Seq(Metas)
    PROVE  Homepages(list) \subseteq Values
<1> SUFFICES ASSUME NEW m \in LastOfName(list), m.kind = "homepage" PROVE m.val \in Values
  BY DEF Homepages
<1>1. m \in Metas
  BY MapIsOfList, ListFacts
<1> QED
  BY <1>1 DEF Metas

------------------------------------------------------------------------------
\* Type correctness.

LEMMA PathType == ASSUME NEW line \in CommandLines PROVE line \in Lines /\ PathOf(line) \in Paths
  BY StartupAssumption DEF PathOf, Paths

LEMMA ElementsType ==
    ASSUME NEW list \in MetaLists \cup {Missing}
    PROVE  Elements(list) \in MetaLists \cup {<<>>}
  BY DEF Elements

LEMMA MetaType == ASSUME NEW list \in MetaLists \cup {<<>>} PROVE list \in Seq(Metas)
<1>1. <<>> \in Seq(Metas)
  OBVIOUS
<1>2. MetaLists \subseteq Seq(Metas)
  BY StartupAssumption
<1> QED
  BY <1>1, <1>2

LEMMA InitType == Init => TypeOK
<1>1. [k \in Keys |-> Absent] \in Lines
  BY DEF Lines
<1>2. NoRenderer \in [appPath : Paths \cup {Absent}, appV8Fn : Values \cup {Empty, "true"}]
  BY DEF NoRenderer
<1>3. 0 \in 0..MaxEdits /\ DefaultPath \in Paths
  BY StartupAssumption DEF Paths
<1> QED
  BY <1>1, <1>2, <1>3 DEF Init, TypeOK, Steps

LEMMA MakeType ==
    ASSUME TypeOK, NEW i \in Instances, NEW line \in CommandLines, Make(i, line)
    PROVE  TypeOK'
<1> DEFINE list == Elements(page[PathOf(line)])
<1>1. line \in Lines /\ PathOf(line) \in Paths
  BY PathType
<1>2. list \in MetaLists \cup {<<>>} /\ list \in Seq(Metas)
  BY <1>1, ElementsType, MetaType DEF TypeOK
<1>3. FunctionOf(line, list) \in Elems /\ WithFirst(line, list) \in Lines
  BY <1>1, <1>2, FunctionType, WithFirstType
<1>4. /\ step' = [step EXCEPT ![i] = "made"] /\ appPath' = [appPath EXCEPT ![i] = PathOf(line)]
      /\ appV8Fn' = [appV8Fn EXCEPT ![i] = FunctionOf(line, list)]
      /\ meta' = [meta EXCEPT ![i] = list] /\ own' = [own EXCEPT ![i] = WithFirst(line, list)]
      /\ cef' = [cef EXCEPT ![i] = line] /\ given' = [given EXCEPT ![i] = line]
      /\ stale' = stale \ {i}
      /\ UNCHANGED <<page, first, renderer, running, overlap, edits>>
  BY DEF Make
<1> HIDE DEF list
<1> QED
  BY <1>1, <1>2, <1>3, <1>4 DEF TypeOK, Steps, Elems

LEMMA ConfigureType ==
    ASSUME TypeOK, NEW i \in Instances, Configure(i)
    PROVE  TypeOK'
<1> DEFINE line == WithLast(cef[i], meta[i])
           f    == line["startup-process"]
<1>1. line \in Lines
  BY MetaType, WithLastType DEF TypeOK
<1>2. f \in Values \cup {Absent, Empty}
  BY <1>1 DEF Lines, Keys
<1>3. overlap' \subseteq Values
  BY <1>2 DEF Configure, Needed, TypeOK
<1>4. step' \in [Instances -> Steps]
  BY DEF Configure, TypeOK, Steps
<1>5. cef' = [cef EXCEPT ![i] = line]
  BY DEF Configure
<1>6. UNCHANGED <<page, own, appPath, appV8Fn, meta, first, renderer, running, given, stale, edits>>
  BY DEF Configure
<1> HIDE DEF line, f
<1> QED
  BY <1>1, <1>3, <1>4, <1>5, <1>6 DEF TypeOK

LEMMA StartProcessType ==
    ASSUME TypeOK, NEW i \in Instances, StartProcess(i)
    PROVE  TypeOK'
<1> DEFINE f == cef[i]["startup-process"]
<1>1. \A g \in Values : running[g] \in Nat
  BY DEF TypeOK
<1>2. running' \in [Values -> Nat] /\ overlap' \subseteq Values
  <2>1. CASE running' = [running EXCEPT ![f] = @ + 1] /\ UNCHANGED overlap
    <3>1. running \in [Values -> Nat]
      BY DEF TypeOK
    <3>2. running' \in [Values -> Nat]
      <4> HIDE DEF f
      <4>1. CASE f \in Values
        BY <1>1, <2>1, <3>1, <4>1
      <4>2. CASE f \notin Values
        BY <2>1, <3>1, <4>2
      <4> QED
        BY <4>1, <4>2
    <3> QED
      BY <2>1, <3>2 DEF TypeOK
  <2>2. CASE UNCHANGED running /\ (overlap' = overlap \ {f} \/ overlap' = overlap)
    BY <2>2 DEF TypeOK
  <2> QED
    BY <2>1, <2>2 DEF StartProcess
<1> QED
  BY <1>2 DEF StartProcess, TypeOK, Steps

LEMMA ShownType ==
    ASSUME TypeOK, NEW i \in Instances
    PROVE  Shown(i) \in Values \cup {Absent, "about", "startup.html"}
<1>1. own[i]["url"] \in Values \cup {Absent, Empty}
  BY DEF TypeOK, Lines, Keys
<1>2. Homepages(meta[i]) \subseteq Values
  BY MetaType, HomepagesType DEF TypeOK
<1> QED
  BY <1>1, <1>2 DEF Shown

LEMMA LaunchRendererType ==
    ASSUME TypeOK, NEW i \in Instances, LaunchRenderer(i)
    PROVE  TypeOK'
<1> DEFINE line == [k \in Keys |-> IF k = "app-path" THEN ChildPath(i) ELSE Absent]
           list == Elements(page[ChildPath(i)])
           other == [k \in Keys |-> Absent]
<1>1. ChildPath(i) \in Paths
  BY DEF ChildPath, TypeOK
<1>2. list \in Seq(Metas)
  BY <1>1, ElementsType, MetaType DEF TypeOK
<1>3. FunctionOf(line, list) \in Elems
  <2>1. other \in Lines
    BY DEF Lines
  <2>2. line["app-v8fn"] = Absent /\ other["app-v8fn"] = Absent
    BY DEF Keys
  <2>3. FunctionOf(line, list) = FunctionOf(other, list)
    <3> HIDE DEF line, other, list
    <3> QED
      BY <2>2 DEF FunctionOf
  <2>4. FunctionOf(other, list) \in Elems
    <3> HIDE DEF other, list
    <3> QED
      BY <1>2, <2>1, FunctionType
  <2> QED
    BY <2>3, <2>4
<1>4. renderer' = [renderer EXCEPT ![i] = [appPath |-> ChildPath(i), appV8Fn |-> FunctionOf(line, list)]]
  BY DEF LaunchRenderer
<1>5. UNCHANGED <<page, step, own, cef, appPath, appV8Fn, meta, first, running, given, stale,
                  overlap, edits>>
  BY DEF LaunchRenderer
<1> HIDE DEF line, list
<1> QED
  BY <1>1, <1>3, <1>4, <1>5 DEF TypeOK, Elems

LEMMA NextType == TypeOK /\ [Next]_vars => TypeOK'
<1> SUFFICES ASSUME TypeOK, [Next]_vars PROVE TypeOK'
  OBVIOUS
<1>1. CASE UNCHANGED vars
  BY <1>1 DEF vars, TypeOK
<1>2. ASSUME NEW i \in Instances, OnContextInitialized(i) PROVE TypeOK'
  BY <1>2, ShownType DEF OnContextInitialized, TypeOK, Steps
<1>3. ASSUME NEW i \in Instances, Quit(i) PROVE TypeOK'
  <2>1. NoRenderer \in [appPath : Paths \cup {Absent}, appV8Fn : Values \cup {Empty, "true"}]
    BY DEF NoRenderer
  <2> QED
    BY <1>3, <2>1 DEF Quit, TypeOK, Steps
<1>4. ASSUME NEW f \in Values, ProcessEnds(f) PROVE TypeOK'
  <2>1. running[f] \in Nat /\ running[f] > 0
    BY <1>4 DEF ProcessEnds, TypeOK
  <2>2. running' \in [Values -> Nat]
    BY <1>4, <2>1 DEF ProcessEnds, TypeOK
  <2> QED
    BY <1>4, <2>2 DEF ProcessEnds, TypeOK
<1>5. ASSUME NEW d \in Paths, NEW list \in MetaLists \cup {Missing}, Edit(d, list) PROVE TypeOK'
  <2>1. edits + 1 \in 0..MaxEdits
    BY <1>5, StartupAssumption DEF Edit, TypeOK
  <2> QED
    BY <1>5, <2>1 DEF Edit, TypeOK
<1> QED
  BY <1>1, <1>2, <1>3, <1>4, <1>5, MakeType, ConfigureType, StartProcessType,
     LaunchRendererType DEF Next

\* Every variable keeps its type, for any instances, command lines and elements.
THEOREM StartupTypeCorrect == Spec => []TypeOK
<1> QED
  BY InitType, NextType, PTL DEF Spec

------------------------------------------------------------------------------
\* What an instance and its renderer processes work with.

\* What an instance made of its command line and the elements it read.
LinesRead ==
    \A i \in Instances : step[i] # "none" =>
        /\ own[i] = WithFirst(given[i], meta[i])
        /\ cef[i] = IF step[i] = "made" THEN given[i] ELSE WithLast(given[i], meta[i])
        /\ appV8Fn[i] = FunctionOf(given[i], meta[i])

\* The elements are those of the page, unless it was edited since.
PageRead ==
    \A i \in Instances :
        step[i] # "none" /\ i \notin stale => meta[i] = Elements(page[appPath[i]])

OnlyUpHasRenderer == \A i \in Instances : renderer[i] # NoRenderer => step[i] = "up"

ConfigInvariant ==
    LinesRead /\ PageRead /\ OnlyUpHasRenderer /\ RendererAgrees /\ HomepageIsShown

LEMMA InitConfig == Init => ConfigInvariant
  BY DEF Init, ConfigInvariant, LinesRead, PageRead, OnlyUpHasRenderer, RendererAgrees,
         HomepageIsShown

\* What is read and written of one instance.
SameInstance(j) ==
    /\ step'[j] = step[j] /\ own'[j] = own[j] /\ cef'[j] = cef[j] /\ given'[j] = given[j]
    /\ meta'[j] = meta[j] /\ appPath'[j] = appPath[j] /\ appV8Fn'[j] = appV8Fn[j]
    /\ first'[j] = first[j] /\ renderer'[j] = renderer[j]
    /\ j \in stale' <=> j \in stale

\* Each part of the invariant for one instance.
Configured(i) ==
    /\ step[i] # "none" =>
         /\ own[i] = WithFirst(given[i], meta[i])
         /\ cef[i] = IF step[i] = "made" THEN given[i] ELSE WithLast(given[i], meta[i])
         /\ appV8Fn[i] = FunctionOf(given[i], meta[i])
         /\ i \notin stale => meta[i] = Elements(page[appPath[i]])
    /\ renderer[i] # NoRenderer =>
         /\ step[i] = "up"
         /\ renderer[i].appPath = appPath[i]
         /\ i \notin stale /\ given[i]["app-v8fn"] = Absent =>
              renderer[i].appV8Fn = appV8Fn[i]
    /\ step[i] = "up" /\ own[i]["url"] \in {Absent, Empty} /\ i \notin stale =>
         Homepages(meta[i]) = {} \/ first[i] \in Homepages(meta[i])

LEMMA ConfigIsOfEach == ConfigInvariant <=> \A i \in Instances : Configured(i)
  BY DEF ConfigInvariant, Configured, LinesRead, PageRead, OnlyUpHasRenderer,
         RendererAgrees, HomepageIsShown

LEMMA SameIsConfigured ==
    ASSUME NEW j \in Instances, Configured(j), SameInstance(j), UNCHANGED page
    PROVE  Configured(j)'
  BY DEF Configured, SameInstance

LEMMA MakeConfig ==
    ASSUME TypeOK, NEW i \in Instances, NEW line \in CommandLines, Make(i, line), Configured(i)
    PROVE  Configured(i)'
<1> DEFINE list == Elements(page[PathOf(line)])
<1>1. /\ step[i] = "none" /\ step'[i] = "made"
      /\ appPath'[i] = PathOf(line) /\ appV8Fn'[i] = FunctionOf(line, list)
      /\ meta'[i] = list /\ own'[i] = WithFirst(line, list)
      /\ cef'[i] = line /\ given'[i] = line /\ renderer'[i] = renderer[i]
      /\ UNCHANGED page
  BY DEF Make, TypeOK
<1>2. renderer'[i] = NoRenderer
  BY <1>1 DEF Configured
<1>3. meta'[i] = Elements(page'[appPath'[i]])
  BY <1>1
<1> HIDE DEF list
<1> QED
  BY <1>1, <1>2, <1>3 DEF Configured

LEMMA ConfigureConfig ==
    ASSUME TypeOK, NEW i \in Instances, Configure(i), Configured(i)
    PROVE  Configured(i)'
<1>1. /\ step[i] = "made" /\ step'[i] \in {"starting", "configured"}
      /\ cef'[i] = WithLast(cef[i], meta[i])
      /\ UNCHANGED <<page, own, appPath, appV8Fn, meta, renderer, given, stale>>
  BY DEF Configure, TypeOK
<1>2. cef[i] = given[i] /\ renderer[i] = NoRenderer
  BY <1>1 DEF Configured
<1> QED
  BY <1>1, <1>2 DEF Configured

LEMMA ContextConfig ==
    ASSUME TypeOK, NEW i \in Instances, OnContextInitialized(i), Configured(i)
    PROVE  Configured(i)'
<1>1. /\ step[i] = "configured" /\ step'[i] = "up" /\ first'[i] = Shown(i)
      /\ UNCHANGED <<page, own, cef, appPath, appV8Fn, meta, renderer, given, stale>>
  BY DEF OnContextInitialized, TypeOK
<1>2. ASSUME own[i]["url"] \in {Absent, Empty}, i \notin stale, Homepages(meta[i]) # {}
      PROVE  Shown(i) \in Homepages(meta[i])
  <2>1. page[appPath[i]] # Missing
    <3>1. meta[i] = Elements(page[appPath[i]])
      BY <1>1, <1>2 DEF Configured
    <3>2. Homepages(<<>>) = {}
      BY DEF Homepages, LastOfName
    <3> QED
      BY <1>2, <3>1, <3>2 DEF Elements
  <2> QED
    BY <1>2, <2>1 DEF Shown
<1> QED
  BY <1>1, <1>2 DEF Configured

LEMMA LaunchConfig ==
    ASSUME TypeOK, NEW i \in Instances, LaunchRenderer(i), Configured(i)
    PROVE  Configured(i)'
<1> DEFINE line == [k \in Keys |-> IF k = "app-path" THEN ChildPath(i) ELSE Absent]
           list == Elements(page[ChildPath(i)])
<1>1. /\ step[i] = "up"
      /\ renderer'[i] = [appPath |-> ChildPath(i), appV8Fn |-> FunctionOf(line, list)]
      /\ UNCHANGED <<page, step, own, cef, appPath, appV8Fn, meta, first, given, stale>>
  BY DEF LaunchRenderer, TypeOK
<1>2. ASSUME i \notin stale, given[i]["app-v8fn"] = Absent
      PROVE  FunctionOf(line, list) = appV8Fn[i]
  <2>1. meta[i] = list /\ appV8Fn[i] = FunctionOf(given[i], meta[i])
    BY <1>1, <1>2 DEF Configured, ChildPath
  <2>2. line["app-v8fn"] = Absent
    BY DEF Keys
  <2> HIDE DEF line, list
  <2> QED
    BY <1>2, <2>1, <2>2 DEF FunctionOf
<1>3. renderer'[i].appPath = appPath[i] /\ renderer'[i].appV8Fn = FunctionOf(line, list)
  BY <1>1 DEF ChildPath
<1> HIDE DEF line, list
<1> QED
  BY <1>1, <1>2, <1>3 DEF Configured

LEMMA EditConfig ==
    ASSUME TypeOK, NEW d \in Paths, NEW list \in MetaLists \cup {Missing}, Edit(d, list),
           NEW i \in Instances, Configured(i)
    PROVE  Configured(i)'
<1>1. /\ page' = [page EXCEPT ![d] = list]
      /\ i \in stale' <=> i \in stale \/ (step[i] # "none" /\ appPath[i] = d)
      /\ UNCHANGED <<step, own, cef, appPath, appV8Fn, meta, first, renderer, given>>
  BY DEF Edit
<1>2. step[i] # "none" /\ i \notin stale' => page'[appPath[i]] = page[appPath[i]]
  BY <1>1 DEF TypeOK
<1> QED
  BY <1>1, <1>2 DEF Configured

LEMMA NextConfig ==
    ASSUME TypeOK, ConfigInvariant, [Next]_vars
    PROVE  ConfigInvariant'
<1> SUFFICES ASSUME NEW j \in Instances PROVE Configured(j)'
  BY DEF ConfigInvariant, Configured, LinesRead, PageRead, OnlyUpHasRenderer,
         RendererAgrees, HomepageIsShown
<1>1. Configured(j)
  BY ConfigIsOfEach
<1>2. CASE UNCHANGED vars
  BY <1>1, <1>2, SameIsConfigured DEF vars, SameInstance
<1>3. ASSUME NEW i \in Instances, NEW line \in CommandLines, Make(i, line) PROVE Configured(j)'
  <2>1. j # i => SameInstance(j) /\ UNCHANGED page
    BY <1>3 DEF Make, SameInstance, TypeOK
  <2> QED
    BY <1>1, <1>3, <2>1, MakeConfig, SameIsConfigured
<1>4. ASSUME NEW i \in Instances, Configure(i) PROVE Configured(j)'
  <2>1. j # i => SameInstance(j) /\ UNCHANGED page
    BY <1>4 DEF Configure, SameInstance, TypeOK
  <2> QED
    BY <1>1, <1>4, <2>1, ConfigureConfig, SameIsConfigured
<1>5. ASSUME NEW i \in Instances, StartProcess(i) PROVE Configured(j)'
  <2>1. /\ UNCHANGED <<page, own, cef, appPath, appV8Fn, meta, first, renderer, given, stale>>
        /\ j # i => step'[j] = step[j]
        /\ j = i => step[j] = "starting" /\ step'[j] = "configured"
    BY <1>5 DEF StartProcess, TypeOK
  <2> QED
    BY <1>1, <2>1 DEF Configured
<1>6. ASSUME NEW i \in Instances, OnContextInitialized(i) PROVE Configured(j)'
  <2>1. j # i => SameInstance(j) /\ UNCHANGED page
    BY <1>6 DEF OnContextInitialized, SameInstance, TypeOK
  <2> QED
    BY <1>1, <1>6, <2>1, ContextConfig, SameIsConfigured
<1>7. ASSUME NEW i \in Instances, LaunchRenderer(i) PROVE Configured(j)'
  <2>1. j # i => SameInstance(j) /\ UNCHANGED page
    BY <1>7 DEF LaunchRenderer, SameInstance, TypeOK
  <2> QED
    BY <1>1, <1>7, <2>1, LaunchConfig, SameIsConfigured
<1>8. ASSUME NEW i \in Instances, Quit(i) PROVE Configured(j)'
  <2>1. /\ UNCHANGED <<page, own, cef, appPath, appV8Fn, meta, first, given, stale>>
        /\ j # i => step'[j] = step[j] /\ renderer'[j] = renderer[j]
        /\ j = i => step'[j] = "none" /\ renderer'[j] = NoRenderer
    BY <1>8 DEF Quit, TypeOK
  <2> QED
    BY <1>1, <2>1 DEF Configured
<1>9. ASSUME NEW f \in Values, ProcessEnds(f) PROVE Configured(j)'
  BY <1>1, <1>9, SameIsConfigured DEF ProcessEnds, SameInstance
<1>10. ASSUME NEW d \in Paths, NEW list \in MetaLists \cup {Missing}, Edit(d, list)
       PROVE  Configured(j)'
  BY <1>1, <1>10, EditConfig
<1> QED
  BY <1>2, <1>3, <1>4, <1>5, <1>6, <1>7, <1>8, <1>9, <1>10 DEF Next

THEOREM ConfigInvariantHolds == Spec => []ConfigInvariant
<1>1. TypeOK /\ ConfigInvariant /\ [Next]_vars => ConfigInvariant'
  BY NextConfig
<1> QED
  BY <1>1, InitConfig, StartupTypeCorrect, PTL DEF Spec

\* The command line an instance keeps and the one CEF works with mean the same, and
\* what the user gave, unless elements for a switch contradict each other: for any
\* command lines and any elements.
THEOREM InstancesAgreeOnLines == Spec => []CommandLinesAgree
<1>1. TypeOK /\ ConfigInvariant => CommandLinesAgree
  <2> SUFFICES ASSUME TypeOK, ConfigInvariant, NEW i \in Instances,
                      step[i] \in Steps \ {"none", "made"}, NEW k \in Keys
               PROVE  /\ own[i][k] = cef[i][k] \/ Ambiguous(meta[i], k)
                      /\ given[i][k] # Absent => own[i][k] = given[i][k]
    BY DEF CommandLinesAgree
  <2>1. own[i] = WithFirst(given[i], meta[i]) /\ cef[i] = WithLast(given[i], meta[i])
    BY DEF ConfigInvariant, LinesRead
  <2>2. given[i] \in Lines /\ meta[i] \in Seq(Metas)
    BY MetaType DEF TypeOK
  <2>3. ~Ambiguous(meta[i], k) => own[i][k] = cef[i][k]
    BY <2>1, <2>2, LinesMeanTheSame
  <2>4. given[i][k] # Absent => own[i][k] = given[i][k]
    BY <2>1 DEF WithFirst
  <2> QED
    BY <2>3, <2>4
<1> QED
  BY <1>1, StartupTypeCorrect, ConfigInvariantHolds, PTL

\* Renderer processes work for the directory of their browser process, and offer its
\* functions by the same name unless startup.html was edited or the name was given on
\* the command line.
THEOREM RenderersAgree == Spec => []RendererAgrees
<1>1. ConfigInvariant => RendererAgrees
  BY DEF ConfigInvariant
<1> QED
  BY <1>1, ConfigInvariantHolds, PTL

\* The first browser shows the homepage that was read.
THEOREM HomepagesAreShown == Spec => []HomepageIsShown
<1>1. ConfigInvariant => HomepageIsShown
  BY DEF ConfigInvariant
<1> QED
  BY <1>1, ConfigInvariantHolds, PTL

------------------------------------------------------------------------------
\* The startup process.

\* Unless two instances looked for it at the same time, a startup process is started
\* by one instance, and only when it does not run.
RunsInvariant ==
    \A f \in Values \ overlap :
        /\ running[f] <= 1
        /\ running[f] = 1 => Starting(f) = {}
        /\ \A i, j \in Starting(f) : i = j

StartsNamed ==
    \A i \in Instances : step[i] = "starting" => cef[i]["startup-process"] \in Values

ProcessInvariant == RunsInvariant /\ StartsNamed

LEMMA InitProcess == Init => ProcessInvariant
  BY DEF Init, ProcessInvariant, RunsInvariant, StartsNamed, Starting

\* Most actions change neither what starts nor what runs.
LEMMA SameProcesses ==
    ASSUME ProcessInvariant, UNCHANGED <<running, overlap>>,
           \A i \in Instances : /\ step'[i] = "starting" <=> step[i] = "starting"
                                /\ step[i] = "starting" => cef'[i] = cef[i]
    PROVE  ProcessInvariant'
<1>1. StartsNamed'
  BY DEF ProcessInvariant, StartsNamed
<1>2. ASSUME NEW f \in Values PROVE Starting(f)' = Starting(f)
  BY DEF Starting
<1>3. RunsInvariant'
  BY <1>2 DEF ProcessInvariant, RunsInvariant
<1> QED
  BY <1>1, <1>3 DEF ProcessInvariant

LEMMA ConfigureProcess ==
    ASSUME TypeOK, ProcessInvariant, NEW i \in Instances, Configure(i)
    PROVE  ProcessInvariant'
<1> DEFINE line == WithLast(cef[i], meta[i])
           g    == line["startup-process"]
<1>1. /\ step[i] = "made" /\ cef'[i] = line
      /\ step'[i] = IF Needed(g) THEN "starting" ELSE "configured"
      /\ overlap' = IF Needed(g) /\ Starting(g) # {} THEN overlap \cup {g} ELSE overlap
      /\ running' = running
      /\ \A j \in Instances \ {i} : step'[j] = step[j] /\ cef'[j] = cef[j]
  BY DEF Configure, TypeOK
<1>2. g \in Values \cup {Absent, Empty}
  <2>1. line \in Lines
    BY MetaType, WithLastType DEF TypeOK
  <2> QED
    BY <2>1 DEF Lines, Keys
<1> HIDE DEF line
<1>3. Needed(g) => g \in Values /\ running[g] = 0
  BY <1>2 DEF Needed
<1>4. StartsNamed'
  BY <1>1, <1>3 DEF ProcessInvariant, StartsNamed
<1>5. ASSUME NEW f \in Values PROVE Starting(f)' = IF Needed(g) /\ f = g THEN Starting(f) \cup {i} ELSE Starting(f)
  BY <1>1 DEF Starting
<1>6. RunsInvariant'
  <2> SUFFICES ASSUME NEW f \in Values \ overlap'
               PROVE  /\ running'[f] <= 1
                      /\ running'[f] = 1 => Starting(f)' = {}
                      /\ \A j, k \in Starting(f)' : j = k
    BY DEF RunsInvariant
  <2>1. f \in Values \ overlap /\ (Needed(g) /\ f = g => Starting(f) = {} /\ running[f] = 0)
    BY <1>1, <1>3
  <2>2. /\ running[f] <= 1 /\ (running[f] = 1 => Starting(f) = {})
        /\ \A j, k \in Starting(f) : j = k
    BY <2>1 DEF ProcessInvariant, RunsInvariant
  <2> HIDE DEF g
  <2> QED
    BY <1>1, <1>5, <2>1, <2>2
<1> QED
  BY <1>4, <1>6 DEF ProcessInvariant

LEMMA StartProcessProcess ==
    ASSUME TypeOK, ProcessInvariant, NEW i \in Instances, StartProcess(i)
    PROVE  ProcessInvariant'
<1> DEFINE g == cef[i]["startup-process"]
<1>1. /\ step[i] = "starting" /\ step'[i] = "configured" /\ cef' = cef
      /\ \A j \in Instances \ {i} : step'[j] = step[j]
      /\ \/ running' = [running EXCEPT ![g] = @ + 1] /\ overlap' = overlap
         \/ /\ overlap' = IF running[g] = 0 /\ Starting(g) = {i} THEN overlap \ {g} ELSE overlap
            /\ running' = running
  BY DEF StartProcess, TypeOK
<1>2. g \in Values /\ i \in Starting(g)
  BY <1>1 DEF ProcessInvariant, StartsNamed, Starting
<1>3. StartsNamed'
  BY <1>1 DEF ProcessInvariant, StartsNamed
<1>4. ASSUME NEW f \in Values PROVE Starting(f)' = Starting(f) \ {i}
  BY <1>1 DEF Starting
<1>5. \A f \in Values : f # g => i \notin Starting(f)
  BY DEF Starting
<1>6. RunsInvariant'
  <2> SUFFICES ASSUME NEW f \in Values \ overlap'
               PROVE  /\ running'[f] <= 1
                      /\ running'[f] = 1 => Starting(f)' = {}
                      /\ \A j, k \in Starting(f)' : j = k
    BY DEF RunsInvariant
  <2>1. \A h \in Values \ overlap :
          /\ running[h] <= 1 /\ (running[h] = 1 => Starting(h) = {})
          /\ \A j, k \in Starting(h) : j = k
    BY DEF ProcessInvariant, RunsInvariant
  <2>2. running \in [Values -> Nat]
    BY DEF TypeOK
  <2> HIDE DEF g
  <2>3. CASE f \in overlap
    <3>1. f = g /\ running[g] = 0 /\ Starting(g) = {i} /\ running' = running
      BY <1>1, <2>3
    <3> QED
      BY <1>4, <3>1
  <2>4. CASE f \notin overlap /\ f = g
    <3>1. running[f] = 0 /\ Starting(f) = {i}
      BY <1>2, <2>1, <2>2, <2>4
    <3>2. Starting(f)' = {} /\ running'[f] \in {0, 1}
      BY <1>1, <1>4, <2>2, <2>4, <3>1
    <3> QED
      BY <3>2
  <2>5. CASE f \notin overlap /\ f # g
    <3>1. running'[f] = running[f] /\ Starting(f)' = Starting(f)
      BY <1>1, <1>4, <1>5, <2>2, <2>5
    <3> QED
      BY <2>1, <2>5, <3>1
  <2> QED
    BY <2>3, <2>4, <2>5
<1> QED
  BY <1>3, <1>6 DEF ProcessInvariant

LEMMA ProcessEndsProcess ==
    ASSUME TypeOK, ProcessInvariant, NEW g \in Values, ProcessEnds(g)
    PROVE  ProcessInvariant'
<1>1. /\ running[g] > 0 /\ running' = [running EXCEPT ![g] = @ - 1]
      /\ overlap' = IF running[g] = 1 /\ Starting(g) = {} THEN overlap \ {g} ELSE overlap
      /\ UNCHANGED <<step, cef>> /\ running \in [Values -> Nat]
  BY DEF ProcessEnds, TypeOK
<1>2. StartsNamed'
  BY <1>1 DEF ProcessInvariant, StartsNamed
<1>3. ASSUME NEW f \in Values PROVE Starting(f)' = Starting(f)
  BY <1>1 DEF Starting
<1>4. RunsInvariant'
  <2> SUFFICES ASSUME NEW f \in Values \ overlap'
               PROVE  /\ running'[f] <= 1
                      /\ running'[f] = 1 => Starting(f)' = {}
                      /\ \A j, k \in Starting(f)' : j = k
    BY DEF RunsInvariant
  <2>1. CASE f \in overlap
    <3>1. f = g /\ running[g] = 1 /\ Starting(g) = {}
      BY <1>1, <2>1
    <3> QED
      BY <1>1, <1>3, <3>1
  <2>2. CASE f \notin overlap
    <3>1. /\ running[f] <= 1 /\ (running[f] = 1 => Starting(f) = {})
          /\ \A j, k \in Starting(f) : j = k
      BY <2>2 DEF ProcessInvariant, RunsInvariant
    <3>2. running'[f] = running[f] \/ (running[f] = 1 /\ running'[f] = 0)
      BY <1>1, <3>1
    <3> QED
      BY <1>3, <3>1, <3>2
  <2> QED
    BY <2>1, <2>2
<1> QED
  BY <1>2, <1>4 DEF ProcessInvariant

LEMMA NextProcess ==
    ASSUME TypeOK, ProcessInvariant, [Next]_vars
    PROVE  ProcessInvariant'
<1>1. CASE UNCHANGED vars
  BY <1>1, SameProcesses DEF vars
<1>2. ASSUME NEW i \in Instances, NEW line \in CommandLines, Make(i, line) PROVE ProcessInvariant'
  BY <1>2, SameProcesses DEF Make, TypeOK
<1>3. ASSUME NEW i \in Instances, OnContextInitialized(i) PROVE ProcessInvariant'
  BY <1>3, SameProcesses DEF OnContextInitialized, TypeOK
<1>4. ASSUME NEW i \in Instances, LaunchRenderer(i) PROVE ProcessInvariant'
  BY <1>4, SameProcesses DEF LaunchRenderer
<1>5. ASSUME NEW i \in Instances, Quit(i) PROVE ProcessInvariant'
  BY <1>5, SameProcesses DEF Quit, TypeOK
<1>6. ASSUME NEW d \in Paths, NEW list \in MetaLists \cup {Missing}, Edit(d, list)
      PROVE  ProcessInvariant'
  BY <1>6, SameProcesses DEF Edit
<1> QED
  BY <1>1, <1>2, <1>3, <1>4, <1>5, <1>6, ConfigureProcess, StartProcessProcess,
     ProcessEndsProcess DEF Next

\* A startup process runs once, for any number of instances, unless two of them
\* looked for it before the first one started it.
THEOREM StartupProcessRunsOnce == Spec => []RunsOnce
<1>1. TypeOK /\ ProcessInvariant => RunsOnce
  BY DEF TypeOK, ProcessInvariant, RunsInvariant, RunsOnce
<1>2. TypeOK /\ ProcessInvariant /\ [Next]_vars => ProcessInvariant'
  BY NextProcess
<1> QED
  BY <1>1, <1>2, InitProcess, StartupTypeCorrect, PTL DEF Spec
==============================================================================
