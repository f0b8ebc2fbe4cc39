------------------------------ MODULE Reports -------------------------------
(***************************************************************************)
(* What the dispatch service keeps of an audit and what others make of it  *)
(* (dispatch.py, assessment.py): the worker mirrors the result, then marks *)
(* the job as ended; stories and verdicts refer to the findings in the     *)
(* mirrored result by their positions; a restart leaves only what is on    *)
(* disk, and then the disk answers for the job.                            *)
(*                                                                         *)
(* The jobs here are those of one repository, of which one runs at a time  *)
(* (DispatchQueue); its stories share its epic.  A purge is one step; how   *)
(* it interleaves with the other handlers is in JobArchive.                *)
(***************************************************************************)
EXTENDS Process, Sequences, FiniteSets

CONSTANTS MaxJobs,       \* bound: jobs submitted
          Audits,        \* the results that an audit may have
          MaxRestarts    \* bound

ASSUME ReportsAssumption == MaxJobs \in Nat /\ MaxRestarts \in Nat

VARIABLES
    job,      \* the registry
    mirror,   \* audit/<id>/ of each job: the result and the marker
    verdicts, \* audit/<id>/verifications.jsonl
    stories,  \* the board
    minted,   \* jobs submitted so far
    restarts

reportVars == <<job, mirror, verdicts, stories, minted, restarts>>

Job == 1..MaxJobs

NoRecord == [st |-> "absent"]
Bare == [result |-> <<>>, meta |-> "none"]
Stored(j) == mirror[j].result # <<>>
Terminal == {"succeeded", "failed", "cancelled"}

-----------------------------------------------------------------------------
(* Findings and stories.  A result holds lists of items, each of one phase, *)
(* and which of its phases held.  An item is what a model wrote: it may say *)
(* anything in any field, or be no object at all.  list_findings and       *)
(* dict_to_backlog read the same lists and test the items each in its way. *)

Lists == {"plan", "blockers", "dependencies", "secrets"}
PhaseOf(l) == IF l = "plan" THEN "recommendation"
              ELSE IF l = "blockers" THEN "buildability" ELSE "risk"

Items(a, l) == IF PhaseOf(l) \in a.ok THEN SelectSeq(a[l], LAMBDA i : i.object) ELSE <<>>

\* _as_finding: the first field, in this order, that holds a text.
Fields == <<"claim", "step", "name", "convention">>
NoText == {"", " ", "null", "number"}
Texts(i) == {f \in 1..4 : Fields[f] \in DOMAIN i.says /\ i.says[Fields[f]] \notin NoText}
FirstText(i) == Fields[CHOOSE f \in Texts(i) : \A g \in Texts(i) : f <= g]

\* list_findings: the position counts all items, those without a text too.
Claims(a, l) == {n \in 1..Len(Items(a, l)) : Texts(Items(a, l)[n]) # {}}
Claim(i) == i.says[FirstText(i)]
Findings(a) ==
    UNION {{[id |-> <<l, n>>, claim |-> Claim(Items(a, l)[n])] : n \in Claims(a, l)} : l \in Lists}

\* The field of which a story is made, and what is shown without it; any value
\* is turned into a text.
Own(l) == IF l = "plan" THEN "step" ELSE IF l = "dependencies" THEN "name" ELSE "claim"
Shown(l, i) == IF Own(l) \in DOMAIN i.says THEN i.says[Own(l)]
               ELSE IF l = "dependencies" THEN "?" ELSE ""

\* What is shown of no story: blank texts; of a secret what Python holds for
\* false; and nothing of a dependency.
Unshown(l) == IF l = "dependencies" THEN {} ELSE IF l = "secrets" THEN {"", "null"}
              ELSE {"", " "}

\* The items that deserve a story; blockers and dependencies if they must be fixed.
Deserving(a, l) == {n \in 1..Len(Items(a, l)) :
                       LET i == Items(a, l)[n]
                       IN  /\ l \in {"blockers", "dependencies"} => i.must
                           /\ Shown(l, i) \notin Unshown(l)}

\* As Position, counting the items that deserve a story only.
PositionAmongDeserving(a, l, n) == <<l, Cardinality({k \in Deserving(a, l) : k <= n})>>

Position(a, l, n) == <<l, n>>

\* The epic of the repository; without a marker nobody knows which that is.
Epic(j) == IF mirror[j].meta = "none" THEN "shared" ELSE "repo"

\* dict_to_backlog: titles that are new to the epic, each once; a new step of
\* the plan depends on the one added before it.
Merged(a, j) ==
    LET title(l, n) == <<l, Shown(l, Items(a, l)[n])>>
        known == {s.title : s \in {s \in stories : s.epic = Epic(j)}}
        new(l) == {n \in Deserving(a, l) :
                      /\ title(l, n) \notin known
                      /\ \A k \in Deserving(a, l) : k < n => title(l, k) # title(l, n)}
        before(n) == {title("plan", k) : k \in {k \in new("plan") :
                         k < n /\ \A m \in new("plan") : m < n => m <= k}}
    IN  stories \union
        UNION {{[epic |-> Epic(j), title |-> title(l, n), source |-> j,
                 finding |-> Position(a, l, n),
                 deps |-> IF l = "plan" THEN before(n) ELSE {}] : n \in new(l)} : l \in Lists}

-----------------------------------------------------------------------------
(* Submitting.  A job to verify takes its finding along, as it was read.   *)

Serves == at = "serving"
Register(r) == /\ minted < MaxJobs /\ minted' = minted + 1
               /\ job' = [job EXCEPT ![minted'] = r]

SubmitAudit ==
    /\ Serves
    /\ \E b \in BOOLEAN : Register([st |-> "queued", mode |-> "assess", backlog |-> b])
    /\ UNCHANGED <<mirror, verdicts, stories, restarts>>

\* _verify_spec: from the disk, so that it works after a restart.
SubmitVerify ==
    /\ Serves
    /\ \E s \in Job :
          /\ Stored(s) /\ mirror[s].meta # "none"
          /\ \E f \in Findings(mirror[s].result) :
                Register([st |-> "queued", mode |-> "verify", source |-> s, finding |-> f])
    /\ UNCHANGED <<mirror, verdicts, stories, restarts>>

CancelJob(j) ==
    /\ Serves /\ job[j].st = "queued" /\ job' = [job EXCEPT ![j].st = "cancelled"]
    /\ UNCHANGED <<mirror, verdicts, stories, minted, restarts>>

-----------------------------------------------------------------------------
(* The worker *)

Move(j, from, to) == Serves /\ job[j].st = from /\ job' = [job EXCEPT ![j].st = to]

StartJob(j) ==
    /\ \A k \in Job : job[k].st \in {"absent", "queued"} \union Terminal
    /\ Move(j, "queued", "running")
    /\ UNCHANGED <<mirror, verdicts, stories, minted, restarts>>

\* The clone, the agents or the budget fail, or one of the writes; an audit
\* fails on a backlog.json that is corrupt as well.
FailJob(j) ==
    /\ \E from \in {"running", "stored", "stamped"} : Move(j, from, "failed")
    /\ UNCHANGED <<mirror, verdicts, stories, minted, restarts>>

\* _mirror_report and _mirror_assessment_json.
MirrorResult(j) ==
    /\ Move(j, "running", "stored") /\ job[j].mode = "assess"
    /\ \E a \in Audits : mirror' = [mirror EXCEPT ![j].result = a]
    /\ UNCHANGED <<verdicts, stories, minted, restarts>>

\* As MirrorMeta, with the marker left to the first one who archives the job.
MirrorNoMeta(j) ==
    /\ Move(j, "stored", IF job[j].backlog THEN "stamped" ELSE "merged")
    /\ UNCHANGED <<mirror, verdicts, stories, minted, restarts>>

MirrorMeta(j) ==
    /\ Move(j, "stored", IF job[j].backlog THEN "stamped" ELSE "merged")
    /\ mirror' = [mirror EXCEPT ![j].meta = "plain"]
    /\ UNCHANGED <<verdicts, stories, minted, restarts>>

\* _merge_backlog, when the submitter asked for it.
MergeOwn(j) ==
    /\ Move(j, "stamped", "merged") /\ stories' = Merged(mirror[j].result, j)
    /\ UNCHANGED <<mirror, verdicts, minted, restarts>>

Succeed(j) ==
    /\ Move(j, "merged", "succeeded")
    /\ UNCHANGED <<mirror, verdicts, stories, minted, restarts>>

\* _run_verify: a verdict is kept, unless a broken citation spared the agent.
EndVerify(j) ==
    /\ Move(j, "running", "succeeded") /\ job[j].mode = "verify"
    /\ \/ verdicts' = [verdicts EXCEPT ![job[j].source] = @ \union {job[j].finding}]
       \/ UNCHANGED verdicts
    /\ UNCHANGED <<mirror, stories, minted, restarts>>

-----------------------------------------------------------------------------
(* The handlers *)

\* make_backlog: at any later time, from the disk.
MakeStories(j) ==
    /\ Serves /\ Stored(j) /\ stories' = Merged(mirror[j].result, j)
    /\ UNCHANGED <<job, mirror, verdicts, minted, restarts>>

Archive(j) ==
    /\ Serves /\ job[j].st \in Terminal \union {"absent"}
    /\ mirror[j].meta = "plain" /\ mirror' = [mirror EXCEPT ![j].meta = "archived"]
    /\ UNCHANGED <<job, verdicts, stories, minted, restarts>>

Unarchive(j) ==
    /\ Serves /\ mirror[j].meta = "archived"
    /\ mirror' = [mirror EXCEPT ![j].meta = "plain"]
    /\ UNCHANGED <<job, verdicts, stories, minted, restarts>>

OfJob(j, e) == {s \in stories : s.source = j /\ s.epic = e}

PurgeJob(j) ==
    /\ Serves /\ job[j].st \in Terminal \union {"absent"} /\ mirror[j].meta = "archived"
    /\ job' = [job EXCEPT ![j] = NoRecord]
    /\ mirror' = [mirror EXCEPT ![j] = Bare] /\ verdicts' = [verdicts EXCEPT ![j] = {}]
    /\ stories' = {[s EXCEPT !.deps = @ \ {g.title : g \in OfJob(j, s.epic)}] :
                      s \in {s \in stories : s.source # j}}
    /\ UNCHANGED <<minted, restarts>>

\* The process dies at any time and is started again.
Restart ==
    /\ Serves /\ restarts < MaxRestarts /\ restarts' = restarts + 1
    /\ job' = [j \in Job |-> NoRecord]
    /\ UNCHANGED <<mirror, verdicts, stories, minted>>

ReportsInit ==
    /\ job = [j \in Job |-> NoRecord] /\ mirror = [j \in Job |-> Bare]
    /\ verdicts = [j \in Job |-> {}] /\ stories = {} /\ minted = 0 /\ restarts = 0

ReportsStep ==
    /\ \/ SubmitAudit \/ SubmitVerify \/ Restart
       \/ \E j \in Job : \/ CancelJob(j) \/ StartJob(j) \/ FailJob(j)
                         \/ MirrorResult(j) \/ MirrorMeta(j) \/ MergeOwn(j)
                         \/ Succeed(j) \/ EndVerify(j) \/ MakeStories(j)
                         \/ Archive(j) \/ Unarchive(j) \/ PurgeJob(j)
    /\ UNCHANGED processVars

-----------------------------------------------------------------------------
\* GET /jobs/{id}: the registry, and without a record the disk (disk_status).
Answer(j) == IF job[j].st # "absent" THEN job[j].st
             ELSE IF Stored(j) /\ mirror[j].meta # "none" THEN "succeeded" ELSE "unknown"

\* The finding of its audit that a story names.
Verifiable(a, s) == [id |-> s.finding, claim |-> s.title[2]] \in Findings(a)

\* A story leads to the item it was made of, and to a finding that claims the
\* same if the item's first text is in the field stories are made of.
Leads(a, s) ==
    \E l \in Lists : \E n \in Deserving(a, l) :
        LET i == Items(a, l)[n]
        IN  /\ s.finding = <<l, n>> /\ s.title = <<l, Shown(l, i)>>
            /\ Texts(i) # {} /\ FirstText(i) = Own(l) => Verifiable(a, s)

\* A story and a verdict name a finding by its position in an audit's lists.
\* As long as the audit is kept, whoever follows a story's name finds the very
\* item it was made of, and the same claim to verify wherever the two readers
\* of the item look at one field; and a verdict's name the claim it was given
\* on; whatever was skipped, merged before, archived or lost in a restart
\* between (assessment.py, dict_to_backlog and list_findings).
FindingsAgree ==
    \A j \in Job : Stored(j) =>
        /\ \A s \in stories : s.source = j => Leads(mirror[j].result, s)
        /\ verdicts[j] \subseteq Findings(mirror[j].result)

\* What the doc of dict_to_backlog says of all its stories: each can be traced
\* to, and verified against, the claim it came from.  The code makes stories
\* of items that list_findings skips, or reads another field of, and TLC refutes
\* this (no run checks it).
StoriesVerifiable ==
    \A s \in stories : Stored(s.source) => Verifiable(mirror[s.source].result, s)

\* An audit that was once answered as succeeded is so until it is purged, a
\* restart between any two steps notwithstanding (dispatch.py, disk_status).
SuccessSticks ==
    [][\A j \in Job : Answer(j) = "succeeded" /\ Stored(j) =>
          Answer(j)' = "succeeded" \/ (mirror[j].meta = "archived" /\ mirror'[j] = Bare)]_reportVars
=============================================================================
