----------------------------- MODULE ExecPromise -----------------------------
(***************************************************************************)
(* What one exec call promises its client (README.md, "Default exec        *)
(* behavior"): one reply, which carries the command's own exit code if the *)
(* command ended, or timed_out=true and the exit code 124 if the timeout   *)
(* was hit; and the reply does come.                                       *)
(***************************************************************************)
EXTENDS Naturals

CONSTANTS
    OwnCodes,       \* exit codes a command may end with
    Running,        \* not ended yet
    NoReply

TimeoutCode == 124

VARIABLES
    ended,          \* the command's own exit code, or Running
    late,           \* whether the timeout is over
    reply

promise == <<ended, late, reply>>

Init == ended = Running /\ late = FALSE /\ reply = NoReply

Done(timedOut, code) == [ok |-> TRUE, timed_out |-> timedOut, exit_code |-> code]
Failed               == [ok |-> FALSE]

CommandEnds ==
    /\ ended = Running
    /\ ended' \in OwnCodes
    /\ UNCHANGED <<late, reply>>

TimeoutHit ==
    /\ ~late
    /\ late' = TRUE
    /\ UNCHANGED <<ended, reply>>

Answer ==
    /\ reply = NoReply
    /\ \/ ended # Running /\ reply' = Done(FALSE, ended)
       \/ late /\ reply' = Done(TRUE, TimeoutCode)
    /\ UNCHANGED <<ended, late>>

Refuse ==
    /\ reply = NoReply
    /\ reply' = Failed
    /\ UNCHANGED <<ended, late>>

Next == CommandEnds \/ TimeoutHit \/ Answer \/ Refuse

Spec == Init /\ [][Next]_promise /\ WF_promise(TimeoutHit) /\ WF_promise(Answer)

=============================================================================
