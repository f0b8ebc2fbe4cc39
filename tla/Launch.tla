------------------------------- MODULE Launch -------------------------------
(***************************************************************************)
(* How a run of the command line begins (cli.py, build_parser,             *)
(* _validate_args and _run): the options typed are held against a table of *)
(* rules, the credentials and the clone are made ready, and one command is *)
(* entered.  Options that every rule and every command treat alike are one *)
(* member here, and their values are taken to be in range.                 *)
(***************************************************************************)
EXTENDS AgentCall

CONSTANT Lines   \* the command lines that are typed

VARIABLE line    \* the options of this run, until its command is entered

Mode == {"dashboard", "make-backlog", "dispatch", "verify", "intake", "chat", "assess",
         "deliver"}

General == {"title", "constraint", "json", "interactive", "roster", "no-personas",
            "min-coverage", "budget", "record-transcripts"}
ServingGroup == {"bind", "dashboard-only", "dashboard-workspace", "pool"}
Finding == {"finding", "verify-tuning"}
Sandbox == {"sandbox", "sandbox-tuning"}
Source  == {"workspace", "repo", "env-file"}
Visual  == {"visual-review", "serve-command", "visual-tuning"}
Engine  == {"engine", "no-commit", "docker-build", "docker-run", "remote-status",
            "remote-trigger"} \union Visual
Publish == {"pull-request", "pr-tuning", "watch-checks", "watch-fix", "pr-comments",
            "pr-author"}
Option  == Mode \union General \union ServingGroup \union Finding \union Sandbox
               \union Source \union Engine \union Publish \union {"audit", "intake-apply"}

-----------------------------------------------------------------------------
(* _validate_args *)

\* Who types one of the first options types one of the second as well.
Need(these, those) == [these |-> these, those |-> those]
Met(n) == n.these \intersect line # {} => n.those \intersect line # {}

Delivering == {"deliver", "chat", "intake"}

\* As DeliverOnly, letting an audit pass that does not look at the options.
DeliverOrAssess == {Need(Engine, Delivering \union {"assess"}),
                    Need({"workspace"}, Delivering \union {"assess", "dashboard"})}

\* _reject_deliver_only_flags
DeliverOnly == {Need(Engine, Delivering),
                Need({"workspace"}, Delivering \union {"assess", "dashboard"})}

ModeNeeds == {
    Need({"intake-apply"}, {"intake"}), Need(Finding, {"verify"}),
    Need({"verify"}, {"finding"}), Need({"audit"}, {"assess"}),
    Need({"bind"}, {"dashboard", "dispatch"}), Need({"dashboard-only"}, {"dashboard"}),
    Need({"dashboard-workspace"}, {"dispatch"}),
    Need({"record-transcripts"}, {"assess", "deliver", "dispatch", "intake"}),
    Need({"repo"}, Delivering \union {"assess"}), Need({"env-file"}, {"repo"})}

PublishNeeds == {
    Need({"pull-request"}, Delivering), Need({"pull-request"}, {"repo"}),
    Need({"pr-tuning", "watch-checks", "watch-fix", "pr-comments"}, {"pull-request"}),
    Need({"watch-fix"}, {"watch-checks"}), Need({"pr-comments"}, {"interactive"}),
    Need({"pr-comments"}, {"watch-fix"}), Need({"pr-comments"}, {"pr-author"}),
    Need({"pr-author"}, {"pr-comments"})}

ToolNeeds == {
    Need({"remote-trigger"}, {"remote-status"}), Need({"docker-run"}, {"docker-build"}),
    Need({"sandbox"}, {"deliver", "assess", "dispatch"}),
    Need({"sandbox-tuning"}, {"sandbox"}), Need({"visual-review"}, {"serve-command"}),
    Need({"serve-command", "visual-tuning"}, {"visual-review"})}

Clashes == {{"chat", "title"}, {"chat", "json"}, {"intake", "title"},
            {"roster", "no-personas"}, {"pull-request", "no-commit"},
            {"deliver", "min-coverage"}, {"budget", "dashboard"}, {"budget", "dispatch"},
            {"budget", "make-backlog"}}

\* A chat may be typed along with --deliver; it wins.
OneMode == \/ \A m, n \in line \intersect Mode : m = n
           \/ line \intersect Mode = {"chat", "deliver"}

TitleGiven == line \intersect Mode \subseteq {"deliver"} => "title" \in line

Accepted ==
    /\ OneMode /\ TitleGiven
    /\ \A n \in ModeNeeds \union PublishNeeds \union ToolNeeds \union DeliverOnly : Met(n)
    /\ \A c \in Clashes : ~(c \subseteq line)

\* The modes that read a directory refuse one that is not there.
ReadsDirectory == \/ line \intersect {"dashboard", "verify", "make-backlog"} # {}
                  \/ "assess" \in line /\ "repo" \notin line

-----------------------------------------------------------------------------
(* _run *)

\* The command in force, of the mode options typed.
Chosen == CASE "dashboard" \in line -> "dashboard" [] "make-backlog" \in line -> "make-backlog"
            [] "dispatch" \in line -> "dispatch"   [] "verify" \in line -> "verify"
            [] "intake" \in line -> "intake"       [] "chat" \in line -> "chat"
            [] "assess" \in line -> "assess"
            [] "deliver" \in line /\ "chat" \notin line -> "deliver"
            [] OTHER -> "simulate"

\* The places that a command begins at; two stages of a delivery have their own.
Place(c) == CASE c = "dashboard" -> {"viewing"}    [] c = "make-backlog" -> {"backlog"}
              [] c = "dispatch" -> {"serving"}     [] c = "chat" -> {"talk"}
              [] c = "deliver" -> {"deliver", "develop", "deploy"}
              [] OTHER -> {c}

Validate ==
    /\ at = "typing"
    /\ \/ Accepted /\ Goto("credentials") /\ UNCHANGED line
       \/ /\ ~Accepted \/ ReadsDirectory
          /\ at' = "end" /\ exit' = "2" /\ line' = {} /\ UNCHANGED chat
    /\ UNCHANGED call /\ Free

Enter == line' = {} /\ \E p \in Place(Chosen) : Goto(p)

\* ensure_credentials, and what the servers ask of their surroundings.
Preflight ==
    /\ at = "credentials"
    /\ \/ "repo" \in line /\ Goto("clone") /\ UNCHANGED line
       \/ "repo" \notin line /\ Enter
       \/ Chosen # "make-backlog" /\ Raise("DevTeamError") /\ line' = {}
    /\ UNCHANGED call /\ Free

\* _materialise_repo: a new clone, or a fast-forward of one of the same
\* remote; what else is at the destination is left alone.
Clone ==
    /\ at = "clone"
    /\ \/ Enter
       \/ Raise("DevTeamError") /\ line' = {}
    /\ UNCHANGED call /\ Free

\* _serve_dashboard, _serve_dispatch: until Ctrl-C.
StopServing ==
    /\ at \in {"viewing", "serving"} /\ Return("0")
    /\ UNCHANGED <<line, call>> /\ Free

LaunchInit == line \in Lines

LaunchStep == Validate \/ Preflight \/ Clone \/ StopServing

-----------------------------------------------------------------------------
(* What the commands look at *)

Team == {"interactive", "roster", "no-personas", "budget"}

OfSimulate == Team \union {"title", "constraint", "json", "min-coverage"}
OfAssess == Team \union Sandbox \union Source
                 \union {"title", "json", "record-transcripts", "audit"}
OfDeliver == Team \union Sandbox \union Source \union Engine \union Publish
                  \union {"title", "constraint", "json", "record-transcripts"}
\* A chat has no run that transcripts could belong to.
OfChat == OfDeliver \ {"title", "json", "record-transcripts"}
OfIntake == {"intake-apply"} \union OfAssess \union OfDeliver
OfVerify == {"json", "budget"} \union Finding
OfDashboard == {"bind", "dashboard-only", "workspace", "pool"}
OfDispatch == {"bind", "dashboard-workspace", "pool", "record-transcripts", "env-file"}
                  \union Sandbox

Reads(p) == CASE p = "simulate" -> OfSimulate [] p = "assess" -> OfAssess
              [] p = "talk" -> OfChat         [] p = "intake" -> OfIntake
              [] p = "verify" -> OfVerify     [] p = "viewing" -> OfDashboard
              [] p = "serving" -> OfDispatch  [] p = "backlog" -> {"json"}
              [] OTHER -> OfDeliver

\* Options that one of the rules speaks for.
Policed == (Option \ Mode) \ {"title", "constraint", "json", "interactive", "roster",
                              "no-personas", "min-coverage", "pool"}

\* No combination of options is accepted and then silently without effect:
\* whatever is typed and ruled on is looked at by the command that runs, with
\* one exception, transcripts asked of a chat by way of --deliver (cli.py,
\* _validate_args).
Honoured ==
    [][line # {} /\ line' = {} /\ exit' = "running"
          /\ ~({"chat", "deliver", "record-transcripts"} \subseteq line)
       => line \intersect Policed \subseteq Reads(at')]_<<line, exit, at>>
=============================================================================
