-------------------------------- MODULE Startup --------------------------------
(***************************************************************************)
(* How an instance of the application is configured: from its command line *)
(* and from the meta elements of startup.html in its directory.            *)
(*                                                                         *)
(* The browser process reads them once and works with two command lines,   *)
(* its own (m_command_line) and the one CEF hands to                       *)
(* OnBeforeCommandLineProcessing.  A renderer process is told app-path     *)
(* only and reads startup.html again, which may have been edited, or       *)
(* removed, since.  Several instances may start at the same time.          *)
(*                                                                         *)
(* Entries of the kinds cors, replace and redirect fill lists and are kept *)
(* out of the model, together with the settings that wWinMain takes from   *)
(* its own command line.                                                   *)
(***************************************************************************)
EXTENDS Naturals, Sequences

CONSTANTS
    Instances,      \* instances of the application: their browser processes
    Values,         \* what a switch is set to
    Dirs,           \* those of them that are app directories
    DefaultPath,    \* the app directory beside the executable
    CommandLines,   \* the command lines users give
    MetaLists,      \* what may stand in startup.html
    MaxEdits        \* bound: how often a startup.html is edited

Keys   == {"url", "app-path", "app-v8fn", "startup-process"}
Absent == "absent"
Empty  == ""                    \* a switch without a value
Lines  == [Keys -> Values \cup {Absent, Empty}]
Paths  == Dirs \cup {DefaultPath}
Missing == <<"missing">>        \* no startup.html

(***************************************************************************)
(* The name of a meta element is "<kind>|<key>" or "<kind>|<key>|<rest>",  *)
(* or "homepage".                                                          *)
(***************************************************************************)
Metas ==
    [kind : {"cli"}, key : Keys \cup {"appV8Fn"}, rest : {"", "more"},
     val : Values \cup {"true"}]
      \cup [kind : {"homepage"}, key : {""}, rest : {""}, val : Values]

ASSUME StartupAssumption ==
    /\ {Absent, Empty, "true"} \cap Values = {} /\ DefaultPath \notin Values
    /\ Dirs \subseteq Values
    /\ CommandLines \subseteq Lines
    /\ \A line \in CommandLines : line["app-path"] \in Dirs \cup {Absent, Empty}
    /\ MetaLists \subseteq Seq(Metas) /\ Missing \notin MetaLists
    /\ MaxEdits \in Nat

VARIABLES
    page,           \* directory -> its startup.html
    step,           \* instance -> how far it is
    own,            \* instance -> m_command_line
    cef,            \* instance -> the command line of CEF
    appPath,        \* instance -> appPath
    appV8Fn,        \* instance -> appV8Fn
    meta,           \* instance -> the meta elements it read
    first,          \* instance -> what its first browser shows
    renderer,       \* instance -> appPath and appV8Fn of its last renderer process
    running,        \* file -> how often it runs as startup process
    \* History, not in the code.
    given,          \* instance -> the command line it was started with
    stale,          \* instances whose startup.html was edited since they read it
    overlap,        \* files that two instances at a time wanted to start
    edits           \* the number of edits

vars == <<page, step, own, cef, appPath, appV8Fn, meta, first, renderer, running,
          given, stale, overlap, edits>>

Steps == {"none", "made", "starting", "configured", "up"}

NoRenderer == [appPath |-> Absent, appV8Fn |-> Empty]

Elements(list) == IF list = Missing THEN <<>> ELSE list

------------------------------------------------------------------------------
\* Command lines and meta elements.

IsSwitch(m, k) == m.kind = "cli" /\ m.key = k
Named(m)       == <<m.kind, m.key, m.rest>>

\* A switch set to "true" has no value.
Value(m) == IF m.val = "true" THEN Empty ELSE m.val

\* Mutant: a meta element replaces a switch that is there.
WithFirstReplaced(line, list) ==
    [k \in Keys |->
       LET At == {i \in DOMAIN list : IsSwitch(list[i], k)} IN
       IF At = {} THEN line[k]
       ELSE Value(list[CHOOSE i \in At : \A j \in At : i <= j])]

\* PrepareStartupMeta: a switch that is not there yet is appended, so the first
\* element for it decides.
WithFirst(line, list) ==
    [k \in Keys |->
       LET At == {i \in DOMAIN list : IsSwitch(list[i], k)} IN
       IF line[k] # Absent \/ At = {} THEN line[k]
       ELSE Value(list[CHOOSE i \in At : \A j \in At : i <= j])]

\* The map meta: the last element of a name stays.
LastOfName(list) ==
    {list[i] : i \in {i \in DOMAIN list : \A j \in DOMAIN list :
                        Named(list[j]) = Named(list[i]) => j <= i}}

\* OnBeforeCommandLineProcessing: switches of the map that are not there yet; those
\* with a rest have another name.
WithLast(line, list) ==
    [k \in Keys |->
       LET Set == {m \in LastOfName(list) : IsSwitch(m, k) /\ m.rest = ""} IN
       IF line[k] # Absent \/ Set = {} THEN line[k] ELSE Value(CHOOSE m \in Set : TRUE)]

\* Where an instance with this command line lives.
PathOf(line) == IF line["app-path"] \in {Absent, Empty} THEN DefaultPath ELSE line["app-path"]

\* The name pages call the functions by: the last element decides, not the switch.
FunctionOf(line, list) ==
    LET At == {i \in DOMAIN list : IsSwitch(list[i], "appV8Fn")} IN
    IF At # {} THEN list[CHOOSE i \in At : \A j \in At : j <= i].val
    ELSE IF line["app-v8fn"] = Absent THEN Empty ELSE line["app-v8fn"]

Homepages(list) == {m.val : m \in {m \in LastOfName(list) : m.kind = "homepage"}}

------------------------------------------------------------------------------

Init ==
    /\ page \in [Paths -> MetaLists \cup {Missing}]
    /\ step = [i \in Instances |-> "none"]
    /\ own = [i \in Instances |-> [k \in Keys |-> Absent]]
    /\ cef = own /\ given = own
    /\ appPath = [i \in Instances |-> DefaultPath]
    /\ appV8Fn = [i \in Instances |-> Empty]
    /\ meta = [i \in Instances |-> <<>>]
    /\ first = [i \in Instances |-> Absent]
    /\ renderer = [i \in Instances |-> NoRenderer]
    /\ running = [f \in Values |-> 0]
    /\ stale = {} /\ overlap = {} /\ edits = 0

\* ClientApp::ClientApp of the browser process.
Make(i, line) ==
    LET list == Elements(page[PathOf(line)]) IN
    /\ step[i] = "none"
    /\ step' = [step EXCEPT ![i] = "made"]
    /\ appPath' = [appPath EXCEPT ![i] = PathOf(line)]
    /\ appV8Fn' = [appV8Fn EXCEPT ![i] = FunctionOf(line, list)]
    /\ meta' = [meta EXCEPT ![i] = list]
    /\ own' = [own EXCEPT ![i] = WithFirst(line, list)]
    /\ cef' = [cef EXCEPT ![i] = line]
    /\ given' = [given EXCEPT ![i] = line]
    /\ stale' = stale \ {i}
    /\ UNCHANGED <<page, first, renderer, running, overlap, edits>>

\* Mutant: the process is not looked for.
NeededAlways(f) == f \notin {Absent, Empty}

\* A startup process is named, and IsProcessExist does not find it.
Needed(f) == f \notin {Absent, Empty} /\ running[f] = 0

\* The instances that are about to start f.
Starting(f) == {i \in Instances : step[i] = "starting" /\ cef[i]["startup-process"] = f}

\* OnBeforeCommandLineProcessing, up to exec.
Configure(i) ==
    LET line == WithLast(cef[i], meta[i])
        f    == line["startup-process"]
    IN
    /\ step[i] = "made"
    /\ cef' = [cef EXCEPT ![i] = line]
    /\ step' = [step EXCEPT ![i] = IF Needed(f) THEN "starting" ELSE "configured"]
    /\ overlap' = IF Needed(f) /\ Starting(f) # {} THEN overlap \cup {f} ELSE overlap
    /\ UNCHANGED <<page, own, appPath, appV8Fn, meta, first, renderer, running, given,
                   stale, edits>>

\* exec: the process runs, or could not be started.
StartProcess(i) ==
    LET f == cef[i]["startup-process"] IN
    /\ step[i] = "starting"
    /\ step' = [step EXCEPT ![i] = "configured"]
    /\ \/ running' = [running EXCEPT ![f] = @ + 1] /\ UNCHANGED overlap
       \/ /\ overlap' = IF running[f] = 0 /\ Starting(f) = {i} THEN overlap \ {f} ELSE overlap
          /\ UNCHANGED running
    /\ UNCHANGED <<page, own, cef, appPath, appV8Fn, meta, first, renderer, given, stale,
                   edits>>

\* Mutant: the order of two branches is swapped.
ShownStartup(i) ==
    IF own[i]["url"] \notin {Absent, Empty} THEN own[i]["url"]
    ELSE IF page[appPath[i]] # Missing THEN "startup.html" ELSE "about"

\* OnContextInitialized: what the first browser shows.
Shown(i) ==
    LET Home == Homepages(meta[i]) IN
    IF own[i]["url"] \notin {Absent, Empty} THEN own[i]["url"]
    ELSE IF page[appPath[i]] = Missing THEN "about"
    ELSE IF Home = {} THEN "startup.html"
    ELSE CHOOSE v \in Home : TRUE

OnContextInitialized(i) ==
    /\ step[i] = "configured"
    /\ step' = [step EXCEPT ![i] = "up"]
    /\ first' = [first EXCEPT ![i] = Shown(i)]
    /\ UNCHANGED <<page, own, cef, appPath, appV8Fn, meta, renderer, running, given, stale,
                   overlap, edits>>

\* Mutant: the renderer process is left with the command line of CEF.
ChildPathOfSwitch(i) == PathOf(cef[i])

\* OnBeforeChildProcessLaunch.
ChildPath(i) == appPath[i]

\* ClientApp::ClientApp of a renderer process.
LaunchRenderer(i) ==
    LET line == [k \in Keys |-> IF k = "app-path" THEN ChildPath(i) ELSE Absent]
        list == Elements(page[ChildPath(i)])
    IN
    /\ step[i] = "up"
    /\ renderer' = [renderer EXCEPT ![i] =
                      [appPath |-> ChildPath(i), appV8Fn |-> FunctionOf(line, list)]]
    /\ UNCHANGED <<page, step, own, cef, appPath, appV8Fn, meta, first, running, given,
                   stale, overlap, edits>>

\* The last window is closed; the instance can be started anew.
Quit(i) ==
    /\ step[i] = "up"
    /\ step' = [step EXCEPT ![i] = "none"]
    /\ renderer' = [renderer EXCEPT ![i] = NoRenderer]
    /\ UNCHANGED <<page, own, cef, appPath, appV8Fn, meta, first, running, given, stale,
                   overlap, edits>>

\* The startup process ends.
ProcessEnds(f) ==
    /\ running[f] > 0
    /\ running' = [running EXCEPT ![f] = @ - 1]
    /\ overlap' = IF running[f] = 1 /\ Starting(f) = {} THEN overlap \ {f} ELSE overlap
    /\ UNCHANGED <<page, step, own, cef, appPath, appV8Fn, meta, first, renderer, given,
                   stale, edits>>

\* Somebody edits a startup.html.
Edit(d, list) ==
    /\ edits < MaxEdits /\ list # page[d]
    /\ page' = [page EXCEPT ![d] = list]
    /\ stale' = stale \cup {i \in Instances : step[i] # "none" /\ appPath[i] = d}
    /\ edits' = edits + 1
    /\ UNCHANGED <<step, own, cef, appPath, appV8Fn, meta, first, renderer, running, given,
                   overlap>>

Next ==
    \/ \E i \in Instances :
         \/ \E line \in CommandLines : Make(i, line)
         \/ Configure(i) \/ StartProcess(i) \/ OnContextInitialized(i)
         \/ LaunchRenderer(i) \/ Quit(i)
    \/ \E f \in Values : ProcessEnds(f)
    \/ \E d \in Paths, list \in MetaLists \cup {Missing} : Edit(d, list)

Spec == Init /\ [][Next]_vars

------------------------------------------------------------------------------
\* Properties.

\* Every variable keeps its type.
TypeOK ==
    /\ page \in [Paths -> MetaLists \cup {Missing}]
    /\ step \in [Instances -> Steps]
    /\ own \in [Instances -> Lines] /\ cef \in [Instances -> Lines]
    /\ given \in [Instances -> Lines]
    /\ appPath \in [Instances -> Paths]
    /\ appV8Fn \in [Instances -> Values \cup {Empty, "true"}]
    /\ meta \in [Instances -> MetaLists \cup {<<>>}]
    /\ first \in [Instances -> Values \cup {Absent, "about", "startup.html"}]
    /\ renderer \in [Instances -> [appPath : Paths \cup {Absent},
                                   appV8Fn : Values \cup {Empty, "true"}]]
    /\ running \in [Values -> Nat]
    /\ stale \subseteq Instances /\ overlap \subseteq Values
    /\ edits \in 0..MaxEdits

\* Elements for a switch that contradict each other, or carry a rest.
Ambiguous(list, k) ==
    \E x, y \in DOMAIN list :
        /\ IsSwitch(list[x], k) /\ IsSwitch(list[y], k)
        /\ list[x].val # list[y].val \/ list[x].rest # ""

\* The two command lines of the browser process mean the same, and what the user
\* gave, as soon as both are complete, unless meta elements contradict each other.
CommandLinesAgree ==
    \A i \in Instances : step[i] \in Steps \ {"none", "made"} =>
        \A k \in Keys :
            /\ own[i][k] = cef[i][k] \/ Ambiguous(meta[i], k)
            /\ given[i][k] # Absent => own[i][k] = given[i][k]

\* A renderer process works in the directory of its browser process, and offers the
\* functions by the name its browser process has read, unless startup.html was
\* edited in between or the name was given on the command line, which is not handed on.
RendererAgrees ==
    \A i \in Instances : renderer[i] # NoRenderer =>
        /\ renderer[i].appPath = appPath[i]
        /\ i \notin stale /\ given[i]["app-v8fn"] = Absent =>
             renderer[i].appV8Fn = appV8Fn[i]

\* However often instances start and quit, a startup process runs once, unless two
\* of them looked for it before the first one started it.
RunsOnce == \A f \in Values : running[f] > 1 => f \in overlap

\* A homepage that was read is shown, unless the user wants another page or
\* startup.html was removed before the first browser was created.
HomepageIsShown ==
    \A i \in Instances :
        step[i] = "up" /\ own[i]["url"] \in {Absent, Empty} /\ i \notin stale =>
            Homepages(meta[i]) = {} \/ first[i] \in Homepages(meta[i])
==============================================================================
