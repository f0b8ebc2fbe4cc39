---------------------------- MODULE Publication -----------------------------
(***************************************************************************)
(* What --pull-request does with a delivered branch (cli.py): push it,     *)
(* open the pull request, watch its checks, and for a bounded number of    *)
(* rounds let the engineer fix a failure and push again.  Reviewers push   *)
(* to the branch meanwhile, checks register and conclude in their own      *)
(* time, and a call of GitHub may fail before or after it took effect.     *)
(*                                                                         *)
(* A branch is the set of its commits: 0 is the delivery, n the fix of     *)
(* round n, Human what a reviewer adds on top.                             *)
(***************************************************************************)
EXTENDS AgentCall, FiniteSets

CONSTANTS Human, Engineer,
          Check,        \* checks that CI runs for a head
          FixRounds,    \* watch_fix_rounds
          MaxPolls      \* polls that fit into watch_timeout

ASSUME PublicationAssumption ==
    /\ Engineer \in Caller /\ Human \notin Nat /\ IsFiniteSet(Check)
    /\ FixRounds \in Nat /\ MaxPolls \in Nat \ {0}

VARIABLES
    options,  \* pull_request, watch_checks
    local,    \* commits of the delivery branch
    dirty,    \* uncommitted edits of a fix
    remote,   \* the branch at GitHub; empty when there is none
    tracked,  \* refs/remotes/origin/<branch>
    pr,       \* whether the pull request is open
    prOk,     \* pr_ok
    ci,       \* checks and commit status of the head at GitHub
    checks,   \* outcome.checks
    page,     \* the check runs last read, and of which head
    polls,    \* polls left in this watch
    round,    \* fix rounds begun
    cached,   \* the token provider holds a token that is not about to expire
    seen,     \* history: the head whose checks outcome.checks reports
    code      \* history: what the delivery returned

branchVars == <<local, dirty, remote, tracked>>
watchVars  == <<checks, page, polls, seen>>
pubVars == <<options, branchVars, watchVars, pr, prOk, ci, round, cached, code>>

CheckState == {"absent", "running", "passed", "failed"}
NoChecks == [runs |-> [c \in Check |-> "absent"], status |-> "pending"]

-----------------------------------------------------------------------------
(* Credentials and pushing *)

\* _mint_token: a cached token, or one fetched in two calls of GitHub that
\* may fail; the consumer then goes without.
HaveToken == cached' = TRUE
NoToken == ~cached /\ UNCHANGED cached

\* An installation token nears its expiry.
TokenAges == /\ exit = "running" /\ cached /\ cached' = FALSE
             /\ UNCHANGED <<processVars, call, options, branchVars, watchVars,
                            pr, prOk, ci, round, code>>

\* As Accepts, with a bare --force.
AcceptsForced(lease) == lease \/ remote \subseteq local

\* git push accepts what descends from the branch at GitHub; with a lease,
\* whatever replaces the head that git last saw there.
Accepts(lease) == IF lease THEN remote = tracked ELSE remote \subseteq local

\* The push arrives, and unless its answer is lost git notes the new head.
Lands(answered) ==
    /\ remote' = local
    /\ tracked' = IF answered THEN local ELSE tracked
    /\ ci' = IF remote = local THEN ci ELSE NoChecks

Unpushed == UNCHANGED <<remote, tracked, ci>>

-----------------------------------------------------------------------------
(* _open_pull_request *)

\* deliver() has returned an outcome, whatever it is (Delivery.tla), or died.
Delivered ==
    /\ at = "deliver"
    /\ \/ /\ Goto("publish")
          /\ options' \in [pr : BOOLEAN, watch : BOOLEAN]
          /\ local' = {0} /\ remote' \in {{}, {Human}}
       \/ Raise("DevTeamError") /\ UNCHANGED <<options, local, remote>>
    /\ UNCHANGED <<call, dirty, tracked, watchVars, pr, prOk, ci, round, cached, code>>
    /\ Free

Unpublished == prOk' = FALSE /\ Goto("finish")

\* An uncommitted delivery, or no token: nothing is pushed.
PublishRefused ==
    /\ at = "publish" /\ options.pr
    /\ HaveToken \/ NoToken
    /\ Unpublished
    /\ UNCHANGED <<call, options, branchVars, watchVars, pr, ci, round, code>> /\ Free

PushBranch ==
    /\ at = "publish" /\ options.pr /\ HaveToken
    /\ \/ Accepts(FALSE) /\ Lands(TRUE) /\ Goto("open") /\ UNCHANGED prOk
       \/ Accepts(FALSE) /\ Lands(FALSE) /\ Unpublished
       \/ Unpushed /\ Unpublished
    /\ UNCHANGED <<call, options, local, dirty, watchVars, pr, round, code>> /\ Free

\* The pull request is opened; or GitHub refuses; or its answer is lost,
\* unreadable or late, and what that raises is caught only when it is an
\* HTTP or URL error.
OpenPullRequest ==
    /\ at = "open"
    /\ \/ /\ pr' = TRUE /\ polls' = MaxPolls /\ UNCHANGED prOk
          /\ IF options.watch THEN Goto("runs") ELSE Goto("round")
       \/ pr' \in {pr, TRUE} /\ UNCHANGED polls /\ Unpublished
       \/ /\ pr' = TRUE /\ UNCHANGED <<prOk, polls>>
          /\ \E e \in {"ValueError", "TimeoutError"} : Raise(e)
    /\ UNCHANGED <<call, options, branchVars, checks, page, seen, ci, round, cached, code>>
    /\ Free

-----------------------------------------------------------------------------
(* watch_checks: by name of the branch, and in two reads *)

\* _classify
Classified(runs, status) ==
    IF (\E c \in Check : runs[c] = "failed") \/ status = "failure" THEN "failure"
    ELSE IF \E c \in Check : runs[c] = "running" THEN "pending"
    ELSE IF (\E c \in Check : runs[c] = "passed") \/ status = "success" THEN "success"
    ELSE "pending"

ReadRuns ==
    /\ at = "runs" /\ page' = [runs |-> ci.runs, head |-> remote] /\ Goto("status")
    /\ UNCHANGED <<call, options, branchVars, checks, polls, seen, pr, prOk, ci,
                   round, cached, code>> /\ Free

\* As ReadStatus, without the deadline of the watch.
ReadStatusForever ==
    /\ at = "status"
    /\ LET s == Classified(page.runs, ci.status)
       IN IF s # "pending"
          THEN checks' = s /\ seen' = page.head /\ Goto("round")
          ELSE Goto("runs") /\ UNCHANGED <<checks, seen>>
    /\ UNCHANGED <<call, options, branchVars, page, polls, pr, prOk, ci, round, cached,
                   code>> /\ Free

ReadStatus ==
    /\ at = "status"
    /\ LET s == Classified(page.runs, ci.status)
       IN IF s # "pending" \/ polls = 1
          THEN /\ checks' = IF s = "pending" THEN "timeout" ELSE s
               /\ seen' = page.head /\ Goto("round") /\ UNCHANGED polls
          ELSE polls' = polls - 1 /\ Goto("runs") /\ UNCHANGED <<checks, seen>>
    /\ UNCHANGED <<call, options, branchVars, page, pr, prOk, ci, round, cached, code>>
    /\ Free

\* A ChecksError ends the watch and leaves outcome.checks as it was; a read
\* that times out in its body raises something that nobody catches.
ReadFails ==
    /\ at \in {"runs", "status"}
    /\ Goto("round") \/ Raise("TimeoutError")
    /\ UNCHANGED <<call, pubVars>> /\ Free

-----------------------------------------------------------------------------
(* _run_ci_fix_loop *)

RoundsOver ==
    /\ at = "round" /\ (checks # "failure" \/ round = FixRounds)
    /\ Goto("finish")
    /\ UNCHANGED <<call, pubVars>> /\ Free

BeginRound ==
    /\ at = "round" /\ checks = "failure" /\ round < FixRounds
    /\ round' = round + 1
    /\ (Goto("fix") \/ Goto("asking"))
    /\ UNCHANGED <<call, options, branchVars, watchVars, pr, prOk, ci, cached, code>>
    /\ Free

\* Where a channel is set up, a human answers at the console or in a comment of the pull request; no
\* answer, and a comment API that fails, mean no fix.
HumanReplies ==
    /\ at = "asking"
    /\ \/ Goto("fix") \/ Goto("finish")
       \/ \E e \in {"ValueError", "TimeoutError"} : Raise(e)
    /\ UNCHANGED <<call, pubVars>> /\ Free

\* remediate_checks: without gates there is nothing to verify a fix with.
Remediate ==
    /\ at = "fix"
    /\ \/ call' = Asked({Engineer}) /\ Goto("fixing")
       \/ UNCHANGED call /\ Goto("finish")
    /\ UNCHANGED pubVars /\ Free

\* The engineer edits the working directory whatever its call comes to.
FixReturns ==
    /\ at = "fixing" /\ call[Engineer].st \notin {"idle", "out"}
    /\ CASE call[Engineer].st = "good"    -> Goto("gating")
         [] call[Engineer].st = "broke"   -> Goto("finish")
         [] call[Engineer].st = "garbled" -> Raise("DevTeamError")
    /\ dirty' \in BOOLEAN /\ call' = Settled(Engineer)
    /\ UNCHANGED <<options, local, remote, tracked, watchVars, pr, prOk, ci,
                   round, cached, code>> /\ Free

\* The gates decide; only a change that passes them is committed.
GateFix ==
    /\ at = "gating"
    /\ \/ dirty' = FALSE /\ UNCHANGED local /\ Goto("finish")
       \/ ~dirty /\ UNCHANGED <<dirty, local>> /\ Goto("finish")
       \/ dirty /\ dirty' = FALSE /\ local' = local \union {round} /\ Goto("repush")
       \/ dirty /\ UNCHANGED <<dirty, local>> /\ Raise("DevTeamError")
    /\ UNCHANGED <<call, options, remote, tracked, watchVars, pr, prOk, ci, round,
                   cached, code>> /\ Free

\* As RepushFix, watching on although the push was rejected.
RepushUnchecked ==
    /\ at = "repush" /\ HaveToken
    /\ (Accepts(TRUE) /\ Lands(TRUE)) \/ Unpushed
    /\ polls' = MaxPolls /\ Goto("runs")
    /\ UNCHANGED <<call, options, local, dirty, checks, page, seen, pr, prOk, round,
                   code>> /\ Free

\* The fix replaces the branch at GitHub if that is what git last saw there.
RepushFix ==
    /\ at = "repush" /\ HaveToken
    /\ \/ Accepts(TRUE) /\ Lands(TRUE) /\ polls' = MaxPolls /\ Goto("runs")
       \/ Accepts(TRUE) /\ Lands(FALSE) /\ UNCHANGED polls /\ Goto("finish")
       \/ Unpushed /\ UNCHANGED polls /\ Goto("finish")
    /\ UNCHANGED <<call, options, local, dirty, checks, page, seen, pr, prOk, round, code>>
    /\ Free

RepushRefused ==
    /\ at = "repush" /\ NoToken /\ Goto("finish")
    /\ UNCHANGED <<call, options, branchVars, watchVars, pr, prOk, ci, round, code>> /\ Free

-----------------------------------------------------------------------------
\* The end of _deliver, whose outcome was a success or none.
Finish ==
    /\ at = "finish" \/ (at = "publish" /\ ~options.pr)
    /\ \E success \in BOOLEAN :
          code' = IF success /\ prOk /\ checks \in {"none", "success"} THEN "0" ELSE "1"
    /\ Return(code')
    /\ UNCHANGED <<call, options, branchVars, watchVars, pr, prOk, ci, round, cached>>
    /\ Free

(* GitHub *)

\* A reviewer adds a commit to the branch.
HumanPushes ==
    /\ exit = "running" /\ pr /\ Human \notin remote
    /\ remote' = remote \union {Human} /\ ci' = NoChecks
    /\ UNCHANGED <<processVars, call, options, local, dirty, tracked, watchVars,
                   pr, prOk, round, cached, code>>

CheckMoves ==
    /\ exit = "running" /\ at \in {"runs", "status"}
    /\ \/ \E c \in Check, s \in {"running", "passed", "failed"} :
             /\ ci.runs[c] = "absent" \/ (ci.runs[c] = "running" /\ s # "running")
             /\ ci' = [ci EXCEPT !.runs[c] = s]
       \/ \E s \in {"success", "failure"} :
             ci.status = "pending" /\ ci' = [ci EXCEPT !.status = s]
    /\ UNCHANGED <<processVars, call, options, branchVars, watchVars, pr, prOk,
                   round, cached, code>>

PublicationInit ==
    /\ options = [pr |-> FALSE, watch |-> FALSE]
    /\ local = {} /\ dirty = FALSE /\ remote = {} /\ tracked = {} /\ code = "running"
    /\ pr = FALSE /\ prOk = TRUE /\ ci = NoChecks
    /\ checks = "none" /\ page = [runs |-> NoChecks.runs, head |-> {}]
    /\ polls = 0 /\ round = 0 /\ cached = FALSE /\ seen = {}

PublicationStep ==
    \/ Delivered \/ PublishRefused \/ PushBranch \/ OpenPullRequest
    \/ ReadRuns \/ ReadStatus \/ ReadFails
    \/ RoundsOver \/ BeginRound \/ HumanReplies \/ Remediate \/ FixReturns
    \/ GateFix \/ RepushFix \/ RepushRefused \/ Finish

GitHub == TokenAges \/ HumanPushes \/ CheckMoves

-----------------------------------------------------------------------------
\* What a reviewer has pushed to the delivery's branch is never pushed away,
\* neither by the first push nor by that of a fix that was in the making
\* while the reviewer pushed (delivery_target.py, push_branch; git.py, push).
HumanWorkKept == [][(Human \in remote) => (Human \in remote')]_remote

\* A delivery that returns 0 and was to be published has its pull request,
\* with every commit of the delivery and of its fixes on the branch; and if
\* it reports that the checks passed, they passed on a head that has these
\* commits, whatever was lost, rejected or pushed by others in between
\* (cli.py, _deliver and _run_ci_fix_loop).
ZeroMeansPublished ==
    code = "0" /\ options.pr =>
        /\ pr /\ local \subseteq remote /\ ~dirty
        /\ checks = "success" => local \subseteq seen
=============================================================================
