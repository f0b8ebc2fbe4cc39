----------------------------- MODULE MCCommand ------------------------------
EXTENDS Command, TLC

CONSTANTS e1, d1, d2, c1, v1, v2, v3, t1, t2

MCCaller == {e1, d1, d2, c1, v1, v2, v3, "inventory", "conventions", "recommendation",
             "summary"}
MCGraphs == {g \in [Task -> SUBSET Task] : \A t \in Task : t \notin g[t]}
\* The longest command lines that are accepted, and all that differ from one of
\* them in at most two options.
Longest == {
    {"title"} \union (OfSimulate \ {"no-personas"}),
    {"assess"} \union (OfAssess \ {"roster"}),
    {"deliver"} \union (OfDeliver \ {"roster", "no-commit"}),
    {"deliver"} \union (OfDeliver \ {"roster", "pull-request", "pr-tuning", "watch-checks",
                                    "watch-fix", "pr-comments", "pr-author"}),
    {"chat"} \union (OfChat \ (Sandbox \union {"roster", "no-commit"})),
    {"intake"} \union (OfIntake \ (Sandbox \union {"roster", "no-commit", "title", "audit"})),
    {"verify"} \union OfVerify, {"dashboard"} \union OfDashboard,
    {"dispatch"} \union (OfDispatch \ {"env-file"}), {"make-backlog", "json"}}
MCLines == {l \in {(m \ T) \union (T \ m) : m \in Longest,
                                         T \in {{o, p} : o, p \in Option}} : l # {}}
\* Items are skipped, repeated and in the way of one another in each result.
Item(m, says) == [object |-> TRUE, must |-> m, says |-> says]
Junk == [object |-> FALSE]
MCAudits == {
    [ok |-> {"recommendation", "buildability"},
     plan |-> <<Junk, Item(FALSE, [step |-> "c1"]), Item(FALSE, [step |-> "null"])>>,
     blockers |-> <<Item(FALSE, [claim |-> "c1"]), Item(TRUE, [claim |-> "c2"])>>,
     dependencies |-> <<Item(TRUE, [name |-> "c1"])>>, secrets |-> <<>>],
    [ok |-> {"recommendation", "risk"},
     plan |-> <<Item(FALSE, [step |-> " "]), Item(FALSE, [claim |-> "c1", step |-> "c2"])>>,
     blockers |-> <<Item(TRUE, [claim |-> "c1"])>>,
     dependencies |-> <<Item(FALSE, [name |-> "c1"]), Item(TRUE, [convention |-> "c1"])>>,
     secrets |-> <<Item(FALSE, [claim |-> ""]), Item(FALSE, [claim |-> "c2"])>>]}
\* Trees of up to three files out of these, in any order; one table of groups is
\* beyond the bound.
Wants(p, v, form) == [pkg |-> p, version |-> v, form |-> form, include |-> ""]
Includes(g) == [pkg |-> "", version |-> 0, form |-> "open", include |-> g]
File(f, specs) == [file |-> f, state |-> "sound", specs |-> specs, groups |-> <<>>, runtime |-> ""]
MCFiles == {
    File("package-lock.json", <<Wants("p", 2, "bare")>>),
    [File("package.json", <<Wants("p", 1, "caret"), Wants("r", 1, "open")>>)
        EXCEPT !.runtime = "nodejs"],
    [File("package.json", <<Wants("p", 1, "bare"), Wants("r", 2, "partial")>>)
        EXCEPT !.runtime = "nodejs"],
    [File("go.mod", <<Wants("r", 1, "bare")>>) EXCEPT !.runtime = "go"],
    [File("composer.lock", <<Wants("p", 3, "bare")>>) EXCEPT !.state = "broken"],
    [File("packages.config", <<>>) EXCEPT !.state = "raises"],
    File("requirements.txt", <<Wants("q", 1, "decorated"), Wants("q", 2, "equals")>>),
    [File("pyproject.toml", <<Wants("q", 1, "open")>>) EXCEPT !.groups =
        <<[name |-> "g", entries |-> <<Includes("h"), Wants("q", 1, "equals")>>],
          [name |-> "h", entries |-> <<Includes("g"), Wants("q", 2, "equals")>>]>>],
    [File("pyproject.toml", <<Wants("s", 1, "decorated")>>) EXCEPT !.groups =
        <<[name |-> "g", entries |-> <<Includes("h"), Includes("g")>>],
          [name |-> "h", entries |-> <<Wants("q", 1, "equals")>>]>>]}
MCTrees == {t \in UNION {[1..n -> MCFiles] : n \in 1..3} :
                \A i, j \in DOMAIN t : i < j => t[i] # t[j] /\ t[i].state = "sound"}
MCServices == {[c \in {} |-> "past"], [c \in {"minor"} |-> "future"],
               [c \in {"full", "major"} |-> IF c = "full" THEN "odd" ELSE "past"],
               [c \in {"full", "major"} |-> IF c = "full" THEN "past" ELSE "none"]}
Alike == Permutations({d1, d2}) \union Permutations({v1, v2, v3}) \union Permutations({t1, t2})
=============================================================================
