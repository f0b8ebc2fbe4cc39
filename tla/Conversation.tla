---------------------------- MODULE Conversation ----------------------------
(***************************************************************************)
(* The commands that talk before they work (cli.py, chat.py): --intake     *)
(* asks an agent what a request calls for and then proposes or runs it,    *)
(* and --chat shapes a request with a backend outside the budget and hands *)
(* it to the team as often as the human confirms it.  Lines of a chat that *)
(* hand nothing over change nothing here.                                  *)
(***************************************************************************)
EXTENDS AgentCall

CONSTANTS Triage,     \* the agent that routes a request
          Handoffs    \* bound: simulations of one chat, or else one delivery

ASSUME ConversationAssumption == Triage \in Caller /\ Handoffs \in Nat

VARIABLE talk   \* hand-offs left

-----------------------------------------------------------------------------
(* --intake *)

BeginIntake ==
    /\ at = "intake"
    /\ call' = Asked({Triage}) /\ Goto("triage")
    /\ UNCHANGED talk /\ Free

OpenChat == at' = "chat" /\ chat' = [chat EXCEPT !.open = TRUE] /\ UNCHANGED exit

\* The routed mode; a chat cannot be entered when the result is to be JSON.
Routed == Goto("deliver") \/ Goto("assess") \/ OpenChat \/ Return("0")

\* Neither an unusable answer nor a budget that this call exceeds is caught.
TriageDies ==
    /\ at = "triage" /\ call[Triage].st \in {"garbled", "broke"}
    /\ call' = Settled(Triage) /\ Raise("DevTeamError")
    /\ UNCHANGED talk /\ Free

TriageDecides ==
    /\ at = "triage" /\ call[Triage].st = "good" /\ call' = Settled(Triage)
    /\ \E apply, interactive, unclear \in BOOLEAN :
          CASE unclear              -> Return(IF apply THEN "1" ELSE "0")
            [] ~unclear /\ apply    -> Routed
            [] ~unclear /\ ~apply   -> IF interactive THEN Goto("confirm")
                                      ELSE Return("0")
    /\ UNCHANGED talk /\ Free

\* At the terminal; no answer means no.
Confirm ==
    /\ at = "confirm" /\ (Routed \/ Return("0"))
    /\ UNCHANGED <<call, talk>> /\ Free

-----------------------------------------------------------------------------
(* --chat *)

EnterChat ==
    /\ at = "talk" /\ OpenChat
    /\ UNCHANGED <<call, talk>> /\ Free

\* /run or /deliver: the brief is distilled and shown.
HandOff ==
    /\ at = "chat" /\ talk > 0 /\ Goto("brief")
    /\ UNCHANGED <<call, talk>> /\ Free

\* No brief, or anything but a clear yes.
Cancel ==
    /\ at = "brief" /\ Goto("chat")
    /\ UNCHANGED <<call, talk>> /\ Free

GoAhead ==
    /\ at = "brief"
    /\ \/ Goto("simulate") /\ talk' = talk - 1
       \/ talk = Handoffs /\ Goto("deliver") /\ talk' = 0
    /\ UNCHANGED call /\ Free

\* /quit, or the end of the input.
LeaveChat ==
    /\ at = "chat" /\ at' = "end" /\ exit' = chat.last
    /\ UNCHANGED <<chat, call, talk>> /\ Free

\* The conversation's own session fails.
BackendFails ==
    /\ at \in {"chat", "brief"} /\ Raise("SDKError")
    /\ UNCHANGED <<call, talk>> /\ Free

ConversationInit ==
    talk = Handoffs

ConversationStep ==
    \/ BeginIntake \/ TriageDies \/ TriageDecides \/ Confirm
    \/ EnterChat \/ HandOff \/ Cancel \/ GoAhead \/ LeaveChat \/ BackendFails
=============================================================================
