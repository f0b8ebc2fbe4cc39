------------------------------ MODULE Process -------------------------------
(***************************************************************************)
(* One run of the command line (cli.py): a single thread of control that   *)
(* passes from place to place, one meter for the whole run, and an exit    *)
(* code.  A run started from a chat returns to the chat.  The modules that *)
(* extend this one are the parts of a run; each names its own places.      *)
(***************************************************************************)
EXTENDS Metering

CONSTANT Attempts   \* max_task_attempts

ASSUME ProcessAssumption == Attempts \in Nat \ {0}

VARIABLES at,    \* the place that the run has reached
          exit,  \* its exit code
          chat   \* whether a chat is open, and the code of its last run

processVars == <<at, exit, chat, spent, reserved>>

\* main() maps what leaves _run to an exit code: 2 for the program's own
\* errors and for ValueError; any other exception is a traceback.
ExitCodes == {"running", "0", "1", "2", "traceback"}

Goto(p) == at' = p /\ UNCHANGED <<exit, chat>>

\* A command is done: the process ends, or the chat goes on.
Return(code) ==
    IF chat.open THEN at' = "chat" /\ chat' = [chat EXCEPT !.last = code] /\ UNCHANGED exit
                 ELSE at' = "end" /\ exit' = code /\ UNCHANGED chat

\* Nothing catches an exception on its way to main(), a chat neither.
Raise(e) ==
    /\ at' = "end" /\ UNCHANGED chat
    /\ exit' = IF e \in {"DevTeamError", "ValueError"} THEN "2" ELSE "traceback"

Free == UNCHANGED <<spent, reserved>>
=============================================================================
