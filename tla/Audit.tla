------------------------------- MODULE Audit --------------------------------
(***************************************************************************)
(* The commands that read a repository (assessment.py, cli.py): --assess   *)
(* audits it in phases, several of them side by side, and writes a report; *)
(* --make-backlog turns a stored result into stories; --verify lets some   *)
(* agents vote on one finding of it.  A phase may fail by its agent, and   *)
(* the file system may fail under any write.                               *)
(***************************************************************************)
EXTENDS AgentCall, FiniteSets

CONSTANTS Inventory, Deep, Conventions, Component, Recommendation, Summary,
          Voter   \* votes of --verify

AuditCalls == Deep \union Component
                  \union {Inventory, Conventions, Recommendation, Summary}

ASSUME AuditAssumption == AuditCalls \union Voter \subseteq Caller /\ IsFiniteSet(Voter)

VARIABLES
    ask,     \* what the command line asked of an audit
    phase,   \* phase -> its result
    disk,    \* which of the files in .dev_team this run has written
    ballot   \* voter -> its verdict

auditVars == <<ask, phase, disk, ballot>>

\* The phases that success needs; the others only enrich the report.
Core == Deep \union {Inventory, Recommendation}
Phase == Core \union {Conventions}
Verdict == {"confirmed", "refuted", "needs-context"}

Ended(C) == \A c \in C : call[c].st \notin {"idle", "out"}
SettledAll(C) == [c \in Caller |-> IF c \in C THEN [st |-> "idle", left |-> 0] ELSE call[c]]

\* _phase: an agent that gave no answer fails its phase, and so does an
\* answer without the required keys or with an unknown classification.
Judged(P) == {r \in [P -> {"ok", "failed"}] : \A p \in P : r[p] = "ok" => call[p].st = "good"}
Known(r) == [p \in Phase |-> IF p \in DOMAIN r THEN r[p] ELSE phase[p]]

Write(f) == disk' = [disk EXCEPT ![f] = TRUE]

-----------------------------------------------------------------------------
(* --assess *)

\* After the scans that cost nothing; a tree without files ends here.
Survey ==
    /\ at = "survey"
    /\ ask' \in [scope : BOOLEAN, fanout : BOOLEAN, backlog : BOOLEAN]
    /\ \/ call' = Asked({Inventory}) /\ Goto("inventory")
       \/ UNCHANGED call /\ Raise("DevTeamError")
    /\ UNCHANGED <<phase, disk, ballot>> /\ Free

\* The phases that run side by side.
Wide == Deep \union {Conventions} \union (IF ask.fanout THEN Component ELSE {})

InventoryDone ==
    /\ at = "inventory" /\ Ended({Inventory})
    /\ \E r \in Judged({Inventory}) :
          /\ phase' = Known(r)
          /\ IF ask.scope /\ r[Inventory] = "ok"
             THEN call' = SettledAll({Inventory}) /\ Goto("scope")
             ELSE /\ call' = [Asked(Wide) EXCEPT ![Inventory] = CallIdle]
                  /\ Goto("wide")
    /\ UNCHANGED <<ask, disk, ballot>> /\ Free

\* _check_scope: to abort writes nothing and is no success.
CheckScope ==
    /\ at = "scope"
    /\ \/ call' = Asked(Wide) /\ Goto("wide")
       \/ UNCHANGED call /\ Return("1")
    /\ UNCHANGED auditVars /\ Free

\* The gather is over: the conventions are saved if there are any.  What
\* fails in a deep dive of a component stays in its entry.
WideDone ==
    /\ at = "wide" /\ Ended(Wide)
    /\ \E r \in Judged(Deep \union {Conventions}) :
          /\ phase' = Known(r)
          /\ \/ Write("conventions") /\ r[Conventions] = "ok"
             \/ UNCHANGED disk
    /\ call' = [c \in Caller |-> IF c \in Wide THEN CallIdle
                                 ELSE Asked({Recommendation})[c]]
    /\ Goto("verdict")
    /\ UNCHANGED <<ask, ballot>> /\ Free

VerdictDone ==
    /\ at = "verdict" /\ Ended({Recommendation})
    /\ \E r \in Judged({Recommendation}) : phase' = Known(r)
    /\ call' = [Asked({Summary}) EXCEPT ![Recommendation] = CallIdle]
    /\ Goto("summary")
    /\ UNCHANGED <<ask, disk, ballot>> /\ Free

\* As SummaryDone, keeping no report of an audit that failed.
SummaryOrNothing ==
    /\ at = "summary" /\ Ended({Summary}) /\ call' = SettledAll({Summary})
    /\ IF \A p \in Core : phase[p] = "ok" THEN Goto("report") ELSE Return("1")
    /\ UNCHANGED auditVars /\ Free

\* Without an answer of the writer the recommendation's summary stands.
SummaryDone ==
    /\ at = "summary" /\ Ended({Summary})
    /\ call' = SettledAll({Summary}) /\ Goto("report")
    /\ UNCHANGED auditVars /\ Free

Succeeded == \A p \in Core : phase[p] = "ok"

WriteReport ==
    /\ at = "report" /\ Write("report") /\ Goto("result")
    /\ UNCHANGED <<call, ask, phase, ballot>> /\ Free

WriteResult ==
    /\ at = "result" /\ Write("result")
    /\ IF ask.backlog THEN Goto("stories") ELSE Return(IF Succeeded THEN "0" ELSE "1")
    /\ UNCHANGED <<call, ask, phase, ballot>> /\ Free

\* _update_backlog mirrors the phases that are ok, whatever the others are.
WriteStories ==
    /\ at = "stories"
    /\ \/ Write("backlog") /\ Return(IF Succeeded THEN "0" ELSE "1")
       \/ UNCHANGED disk /\ Raise("DevTeamError")      \* backlog.json is corrupt
    /\ UNCHANGED <<call, ask, phase, ballot>> /\ Free

\* A write fails, or a component's answer carries null for a list.
AuditFails ==
    /\ \/ at \in {"report", "result", "stories"} /\ Raise("OSError")
       \/ at = "wide" /\ ask.fanout /\ Raise("TypeError")
          /\ \E c \in Component : call[c].st = "good"
    /\ UNCHANGED <<call, auditVars>> /\ Free

-----------------------------------------------------------------------------
(* --make-backlog *)

MakeBacklog ==
    /\ at = "backlog"
    /\ \/ Write("backlog") /\ Return("0")
       \/ /\ UNCHANGED disk
          /\ \E e \in {"DevTeamError", "ValueError", "OSError"} : Raise(e)
    /\ UNCHANGED <<call, ask, phase, ballot>> /\ Free

-----------------------------------------------------------------------------
(* --verify *)

\* No file, no such finding or another hash: refused before any cost.  A
\* finding whose citation is known to be broken may be skipped.
BeginVerify ==
    /\ at = "verify"
    /\ \/ \E V \in SUBSET Voter \ {{}} : call' = Asked(V) /\ Goto("voting")
       \/ UNCHANGED call /\ Return("0")
       \/ UNCHANGED call /\ Raise("DevTeamError")
    /\ UNCHANGED auditVars /\ Free

Polled == {v \in Voter : call[v].st # "idle"}

\* _verify_pass: an answer out of contract counts as needs-context, a
\* failure not at all.
VotesIn ==
    /\ at = "voting" /\ Ended(Polled)
    /\ \E b \in [Polled -> Verdict \union {"error"}] :
          /\ \A v \in Polled : b[v] = "error" <=> call[v].st # "good"
          /\ ballot' = b
    /\ call' = SettledAll(Polled) /\ Goto("tally")
    /\ UNCHANGED <<ask, phase, disk>> /\ Free

\* An answer whose list of citations is null unwinds the vote.
VoteBreaks ==
    /\ at = "voting" /\ \E v \in Polled : call[v].st = "good"
    /\ Raise("TypeError")
    /\ UNCHANGED <<call, auditVars>> /\ Free

Votes(w) == Cardinality({v \in DOMAIN ballot : ballot[v] = w})
Counted == {v \in DOMAIN ballot : ballot[v] # "error"}
Winners == {w \in Verdict : Votes(w) > 0 /\ \A u \in Verdict : Votes(u) <= Votes(w)}

\* The verdict that verify_finding reports.
Outcome == IF \E w \in Verdict : Winners = {w} THEN CHOOSE w \in Verdict : Winners = {w}
           ELSE "needs-context"

Tally ==
    /\ at = "tally" /\ Return(IF Counted = {} THEN "1" ELSE "0")
    /\ UNCHANGED <<call, auditVars>> /\ Free

AuditInit ==
    /\ ask = [scope |-> FALSE, fanout |-> FALSE, backlog |-> FALSE]
    /\ phase = [p \in Phase |-> "none"]
    /\ disk = [f \in {"conventions", "report", "result", "backlog"} |-> FALSE]
    /\ ballot = [v \in {} |-> "error"]

AuditStep ==
    \/ Survey \/ InventoryDone \/ CheckScope \/ WideDone \/ VerdictDone
    \/ SummaryDone \/ WriteReport \/ WriteResult \/ WriteStories \/ AuditFails
    \/ MakeBacklog \/ BeginVerify \/ VotesIn \/ VoteBreaks \/ Tally

-----------------------------------------------------------------------------
\* An audit that returns from its phases, with or without success, has left
\* its report and its result, stories only ever follow a stored result, and
\* a zero means that every core phase held, however many agents failed, ran
\* into the budget or answered outside their contract side by side
\* (assessment.py, assess).
AuditReported ==
    /\ exit \in {"0", "1"} /\ phase[Recommendation] # "none" =>
           /\ disk.report /\ disk.result /\ (ask.backlog => disk.backlog)
           /\ exit = "0" <=> \A p \in Core : phase[p] = "ok"
    /\ disk.backlog /\ phase[Inventory] # "none" => disk.result
    /\ disk.conventions => phase[Conventions] = "ok"

\* A vote that decides has more votes than each of the others, and a vote
\* without a single answer decides nothing (assessment.py, verify_finding).
VerdictFailsSecure ==
    at = "tally" /\ Outcome # "needs-context" =>
        \A w \in Verdict \ {Outcome} : Votes(Outcome) > Votes(w)
=============================================================================
