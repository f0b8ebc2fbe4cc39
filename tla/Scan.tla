-------------------------------- MODULE Scan --------------------------------
(***************************************************************************)
(* The scans an audit begins with (depscan.py, eolscan.py): every manifest *)
(* and lockfile of the tree is read in path order, what they pin is held   *)
(* against the advisories of OSV.dev in one batch, and the runtimes they   *)
(* name against endoflife.date.  Both services may fail or answer garbage. *)
(*                                                                         *)
(* A package stands for its ecosystem and name.  Of a specification only   *)
(* the form counts that it is written in, since that decides what the      *)
(* parser of its file makes of it.                                         *)
(***************************************************************************)
EXTENDS AgentCall, Sequences, FiniteSets, Functions

CONSTANTS Trees,            \* trees: the files read, in path order
          MaxDependencies,  \* _MAX_DEPENDENCIES
          MaxExpansions,    \* _MAX_GROUP_EXPANSIONS
          Services          \* what endoflife.date may know of a product's cycles

ASSUME ScanAssumption == MaxDependencies \in Nat \ {0} /\ MaxExpansions \in Nat \ {0}

\* The parsers that an exception may leave: the one of packages.config minds no
\* ValueError (of an encoding that expat refuses), and a name that is no text
\* in a package-lock.json cannot be looked up.  What other files hold that
\* cannot be read or parsed is "broken".
Fragile == {"packages.config", "package-lock.json"}

\* Lists of what parsers find; only a pyproject.toml has groups, in a table
\* of TOML, which names each once.
IsList(s) == s \in Seq(Range(s))

IsFile(f) ==
    /\ f.state \in {"sound", "broken"} \union (IF f.file \in Fragile THEN {"raises"} ELSE {})
    /\ IsList(f.specs) /\ IsList(f.groups)
    /\ \A g \in Range(f.groups) : IsList(g.entries)
    /\ \A g, h \in Range(f.groups) : g.name = h.name => g = h
    /\ f.file # "pyproject.toml" => f.groups = <<>>

ASSUME TreesAssumption == \A t \in Trees : IsList(t) /\ \A f \in Range(t) : IsFile(f)

VARIABLES
    tree,  \* the tree under audit
    pos,   \* the file that is read next
    walk,  \* _resolve_dependency_groups: its stack, its count, whether it was cut
    scan,  \* the scan of the dependencies
    terms  \* the scan of the runtimes

scanVars == <<tree, pos, walk, scan, terms>>

NoWalk == [left |-> <<>>, stack |-> <<>>, count |-> 0, cut |-> FALSE]
NoScan == [deps |-> <<>>, osv |-> <<>>, found |-> {}, queried |-> FALSE, truncated |-> 0]
NoTerms == [runtimes |-> <<>>, status |-> <<>>, queried |-> FALSE]

-----------------------------------------------------------------------------
(* What the parsers take from a file: from one that is broken, nothing.    *)

LockFiles == {"packages.config", "package-lock.json", "poetry.lock", "Cargo.lock",
              "packages.lock.json"}
PlainLocks == {"go.mod", "Gemfile.lock", "composer.lock"}
PythonPins == {"requirements.txt", "pyproject.toml"}
MavenPins == {"pom.xml"}
RangeFiles == {"package.json", "Cargo.toml", ".csproj"}
ComposerRanges == {"composer.json"}

Locks == LockFiles \union PlainLocks
Recognised == Locks \union PythonPins \union MavenPins \union RangeFiles \union ComposerRanges

\* The forms of a specification:
\*   bare       1.2.3                 metadata   1.2.3+build
\*   equals     =1.2.3, ==1.2.3, [1.2.3]
\*   decorated  name[extra]==1.2.3, or with a marker behind it
\*   joined     ==1.2.3 with a second constraint or a hash
\*   partial    1.x, ==1.*            caret      ^1.2, ~1.2
\*   mistaken   a range with "==" in its marker; [1,2) of Maven
\*   open       any other range, a tag, a path, a property
Forms == {"bare", "metadata", "equals", "decorated", "joined", "partial", "caret", "mistaken",
          "open"}

\* The forms that mean one version; a bare one is a least version to Cargo and
\* NuGet.
Naming(file) == IF file \in PythonPins THEN {"equals", "decorated", "joined"}
                ELSE IF file \in {"Cargo.toml", ".csproj"} THEN {"equals"}
                ELSE {"bare", "equals", "metadata"}

\* Taken for a pin as it stands: in a lockfile anything; by _exact_version
\* anything that begins with a digit and has letters and digits between dots.
Exact(file) == IF file \in Locks THEN Forms
               ELSE IF file = "pom.xml" THEN {"bare", "metadata", "partial"}
               ELSE IF file = "requirements.txt" THEN {"equals", "partial"}
               ELSE IF file = "pyproject.toml" THEN {"equals", "partial", "decorated"}
               ELSE IF file = ".csproj" THEN {"equals"}
               ELSE {"bare", "equals", "partial"}

\* Taken for a least version, and marked as approximate.
Floor(file) == IF file = ".csproj" THEN {"bare", "partial", "caret"}
               ELSE IF file \in RangeFiles \union ComposerRanges THEN {"caret"} ELSE {}

\* Taken for a pin of another name or version than it has.
Misread(file) == IF file = "pom.xml" THEN {"equals", "mistaken"}
                 ELSE IF file = "requirements.txt" THEN {"decorated", "joined", "mistaken"}
                 ELSE IF file = "pyproject.toml" THEN {"joined"} ELSE {}

Takes(file) == Exact(file) \union Floor(file) \union Misread(file)

Reading(file, s) == [pkg |-> s.pkg, version |-> s.version,
                     approximate |-> s.form \in Floor(file), garbled |-> s.form \in Misread(file)]

\* What a list has at some of its places, in order.
Picked(list, places) ==
    LET upTo[n \in 0..Len(list)] == IF n = 0 THEN <<>>
                                    ELSE IF n \in places THEN Append(upTo[n-1], list[n])
                                    ELSE upTo[n-1]
    IN  upTo[Len(list)]

Readings(file, specs) ==
    LET taken == Picked(specs, {i \in DOMAIN specs : specs[i].form \in Takes(file)})
    IN  [i \in DOMAIN taken |-> Reading(file, taken[i])]

Parsed(f) == IF f.file \notin Recognised \/ f.state # "sound" THEN <<>>
             ELSE Readings(f.file, f.specs)

\* The first entry for a package and a version stays.
Same(d, r) == d.pkg = r.pkg /\ d.version = r.version /\ d.garbled = r.garbled
Unlisted(deps, new) == {i \in DOMAIN new : /\ \A d \in Range(deps) : ~Same(d, new[i])
                                         /\ \A j \in 1..i-1 : ~Same(new[j], new[i])}
AddAll(deps, new) == deps \o Picked(new, Unlisted(deps, new))

-----------------------------------------------------------------------------
(* collect_dependencies *)

BeginScan ==
    /\ at = "assess" /\ Goto("manifests")
    /\ tree' \in Trees /\ pos' = 1
    /\ UNCHANGED <<call, walk, scan, terms>> /\ Free

ReadManifest ==
    /\ at = "manifests" /\ pos <= Len(tree) /\ tree[pos].state # "raises"
    /\ scan' = [scan EXCEPT !.deps = AddAll(@, Parsed(tree[pos]))]
    /\ IF tree[pos].file = "pyproject.toml" /\ tree[pos].state = "sound"
       THEN /\ walk' = [walk EXCEPT !.left = tree[pos].groups, !.stack = <<>>, !.count = 0]
            /\ Goto("groups") /\ UNCHANGED pos
       ELSE pos' = pos + 1 /\ UNCHANGED <<at, exit, chat, walk>>
    /\ UNCHANGED <<call, tree, terms>> /\ Free

\* Nothing between a parser and main() minds its exception: the audit is over.
ScanRaises ==
    /\ at = "manifests" /\ pos <= Len(tree) /\ tree[pos].state = "raises"
    /\ Raise(IF tree[pos].file = "packages.config" THEN "ValueError" ELSE "TypeError")
    /\ tree' = <<>> /\ pos' = 1 /\ walk' = NoWalk /\ scan' = NoScan
    /\ UNCHANGED <<call, terms>> /\ Free

-----------------------------------------------------------------------------
(* _resolve_dependency_groups: a stack of groups to expand, each with the  *)
(* groups on its path; one count for the groups and entries looked at.     *)

CapReached == walk.count = MaxExpansions

NextGroup ==
    /\ at = "groups" /\ ~CapReached /\ walk.stack = <<>> /\ walk.left # <<>>
    /\ walk' = [walk EXCEPT !.left = Tail(@),
                            !.stack = <<[name |-> Head(walk.left).name, path |-> {}]>>]
    /\ UNCHANGED <<at, exit, chat, call, tree, pos, scan, terms>> /\ Free

\* Entries of the group named, none for one that is not in the table.
Entries(name) ==
    LET here == {g \in Range(tree[pos].groups) : g.name = name}
    IN  IF here = {} THEN <<>> ELSE (CHOOSE g \in here : TRUE).entries

ExpandGroup ==
    /\ at = "groups" /\ ~CapReached /\ walk.stack # <<>>
    /\ LET top == walk.stack[Len(walk.stack)]
           entries == IF top.name \in top.path THEN <<>> ELSE Entries(top.name)
           room == MaxExpansions - walk.count - 1
           seen == IF Len(entries) <= room THEN entries ELSE SubSeq(entries, 1, room)
           included == Picked(seen, {i \in DOMAIN seen : seen[i].include # ""})
           own == Picked(seen, {i \in DOMAIN seen : seen[i].include = ""})
           frames == [i \in DOMAIN included |->
                         [name |-> included[i].include, path |-> top.path \union {top.name}]]
       IN  /\ walk' = [walk EXCEPT !.stack = SubSeq(@, 1, Len(@) - 1) \o frames,
                                   !.count = @ + 1 + Len(seen)]
           /\ scan' = [scan EXCEPT !.deps = AddAll(@, Readings("pyproject.toml", own))]
    /\ UNCHANGED <<at, exit, chat, call, tree, pos, terms>> /\ Free

GroupsResolved ==
    /\ at = "groups" /\ Goto("manifests") /\ pos' = pos + 1
    /\ \/ CapReached /\ walk' = [walk EXCEPT !.cut = TRUE]
       \/ ~CapReached /\ walk.stack = <<>> /\ walk.left = <<>> /\ UNCHANGED walk
    /\ UNCHANGED <<call, tree, scan, terms>> /\ Free

\* An exact pin supersedes the floors of its package.
Supersede ==
    /\ at = "manifests" /\ pos > Len(tree) /\ Goto("osv")
    /\ LET Superseded(d) ==
               d.approximate /\ \E e \in Range(scan.deps) : ~e.approximate /\ e.pkg = d.pkg
       IN  scan' = [scan EXCEPT !.deps = Picked(@, {i \in DOMAIN @ : ~Superseded(@[i])})]
    /\ UNCHANGED <<call, tree, pos, walk, terms>> /\ Free

-----------------------------------------------------------------------------
(* scan_dependencies *)

Truncated == IF Len(scan.deps) > MaxDependencies THEN Len(scan.deps) - MaxDependencies ELSE 0
Queryable == SubSeq(scan.deps, 1, Len(scan.deps) - Truncated)

\* What OSV has on each dependency: nothing, an advisory, or one without an id.
Advisories == {"nothing", "advisory", "no id"}

\* As Complete, taking the results that are there for the whole answer.
TakenAsIs(length, wellformed) == wellformed

\* The batch was answered: a result for each query, each of them in shape.
Complete(length, wellformed) == length = Len(Queryable) /\ wellformed

QueryOsv ==
    /\ at = "osv" /\ Queryable # <<>>
    /\ \E osv \in [DOMAIN Queryable -> Advisories], length \in 0..Len(Queryable),
         wellformed \in BOOLEAN :
          scan' = [scan EXCEPT
              !.osv = osv, !.truncated = Truncated,
              !.queried = Complete(length, wellformed),
              !.found = IF Complete(length, wellformed)
                        THEN {scan.deps[i] : i \in {i \in 1..length : osv[i] = "advisory"}}
                        ELSE {}]
    /\ Goto("runtimes") /\ UNCHANGED <<call, tree, pos, walk, terms>> /\ Free

\* The scan is switched off, or there is nothing to ask about.
SkipOsv ==
    /\ at = "osv" /\ Goto("runtimes")
    /\ scan' = [scan EXCEPT !.truncated = Truncated]
    /\ UNCHANGED <<call, tree, pos, walk, terms>> /\ Free

-----------------------------------------------------------------------------
(* scan_eol *)

\* What the parsers make of a file: the product whose version it names, if any.
RuntimeOf(f) == IF f.state = "sound" THEN f.runtime ELSE ""

\* The files that are the first to name their product.
First == {i \in DOMAIN tree : /\ RuntimeOf(tree[i]) # ""
                             /\ \A j \in 1..i-1 : RuntimeOf(tree[j]) # RuntimeOf(tree[i])}

\* One runtime per product, of the first file in path order that names it.
\* The dependencies' scan is printed by now and read by nothing else.
DetectRuntimes ==
    /\ at = "runtimes" /\ Goto("endoflife")
    /\ LET named == Picked(tree, First)
       IN  terms' = [terms EXCEPT !.runtimes = [n \in DOMAIN named |-> RuntimeOf(named[n])]]
    /\ scan' = NoScan /\ walk' = NoWalk /\ UNCHANGED <<call, tree, pos>> /\ Free

\* The cycles a version may belong to, the most specific one first.
Cycles == <<"full", "minor", "major">>

\* _match_cycle and _eol_verdict.  The service knows of a cycle that its end
\* has come, will come or is not planned, or says so in no known form.
Judgement(known) ==
    LET hits == SelectSeq(Cycles, LAMBDA c : c \in DOMAIN known)
    IN  IF hits = <<>> \/ known[hits[1]] = "odd" THEN "unknown"
        ELSE IF known[hits[1]] = "past" THEN "ended" ELSE "supported"

\* One request per runtime, one after the other.
QueryEol ==
    /\ at = "endoflife" /\ Len(terms.status) < Len(terms.runtimes)
    /\ \E known \in Services : terms' = [terms EXCEPT !.status = Append(@, Judgement(known))]
    /\ UNCHANGED <<at, exit, chat, call, tree, pos, walk, scan>> /\ Free

\* The scan is off, or a request fails or its answer is not in shape.
EolFails ==
    /\ at = "endoflife" /\ Goto("terms")
    /\ terms' = [terms EXCEPT !.status = [i \in DOMAIN terms.runtimes |-> "unknown"]]
    /\ UNCHANGED <<call, tree, pos, walk, scan>> /\ Free

EolAnswered ==
    /\ at = "endoflife" /\ Len(terms.status) = Len(terms.runtimes) /\ Goto("terms")
    /\ terms' = [terms EXCEPT !.queried = terms.runtimes # <<>>]
    /\ UNCHANGED <<call, tree, pos, walk, scan>> /\ Free

\* Both scans are part of the evidence that every phase is given.
EndScan ==
    /\ at = "terms" /\ Goto("survey")
    /\ tree' = <<>> /\ pos' = 1 /\ walk' = NoWalk /\ scan' = NoScan /\ terms' = NoTerms
    /\ UNCHANGED call /\ Free

ScanInit == tree = <<>> /\ pos = 1 /\ walk = NoWalk /\ scan = NoScan /\ terms = NoTerms

ScanStep ==
    \/ BeginScan \/ ReadManifest \/ ScanRaises \/ NextGroup \/ ExpandGroup \/ GroupsResolved \/ Supersede
    \/ QueryOsv \/ SkipOsv \/ DetectRuntimes \/ QueryEol \/ EolFails \/ EolAnswered \/ EndScan

-----------------------------------------------------------------------------
\* The specifications of a file, of its groups too.
Specs(f) == Range(f.specs)
                \union {e \in UNION {Range(g.entries) : g \in Range(f.groups)} : e.include = ""}
Clean(f) == f.state = "sound" /\ f.file \in Recognised

\* What a file is taken to say, and what it says of that in so many words: a
\* version, in a form that means one and is read as that one.
Says(f) == {Reading(f.file, s) : s \in {s \in Specs(f) : s.form \in Takes(f.file)}}
Pins(f) == {Reading(f.file, s) : s \in {s \in Specs(f) : s.form \in Exact(f.file) \intersect Naming(f.file)}}

CleanFiles == {f \in Range(tree) : Clean(f)}
Said == UNION {Says(f) : f \in CleanFiles}
Pinned == UNION {Pins(f) : f \in CleanFiles}

\* A floor of the very same version takes the place of an exact pin in the
\* list when it is read first, and is then superseded with the others.
Shadowed(s) == \E r \in Said : Same(r, s) /\ r.approximate

Reported(s) == \E i \in DOMAIN scan.deps :
                  /\ Same(scan.deps[i], s)
                  /\ scan.osv[i] = "advisory" => scan.deps[i] \in scan.found

\* The scan claims to be complete.
Whole == at = "runtimes" /\ scan.queried /\ scan.truncated = 0

\* As HonestScan asks of the pins without an exception (no run checks this).
EveryPinReported == Whole => \A s \in Pinned : Reported(s)

\* What the scans do not report is not there: if the scan says that OSV was
\* asked and says nothing of a version left out, every pin that is written in
\* a form its parser reads right was asked about, and is reported if OSV has
\* an advisory with an id on it.  No advisory is reported but on what a file
\* is taken to say, and as certain as it was taken; and a scan that fails
\* half-way, of dependencies or of runtimes, publishes nothing.  Two gaps are
\* silent, a table of groups beyond its bound and a pin that is Shadowed,
\* besides the forms that are misread (depscan.py, collect_dependencies and
\* scan_dependencies; eolscan.py, scan_eol).
HonestScan ==
    /\ Whole /\ ~walk.cut => \A s \in Pinned : Reported(s) \/ Shadowed(s)
    /\ scan.found \subseteq Said
    /\ at = "runtimes" /\ ~scan.queried => scan.found = {}
    /\ at = "terms" /\ ~terms.queried => \A i \in DOMAIN terms.status : terms.status[i] = "unknown"

\* What the doc of _exact_version says: it gives the version that is pinned,
\* and none for a range, so that what the list holds as exact is pinned by some
\* file.  The code takes 1.x for a version, and TLC refutes this (no run checks it).
ExactIsPinned ==
    \A d \in Range(scan.deps) : ~d.approximate /\ ~d.garbled => d \in Pinned
=============================================================================
