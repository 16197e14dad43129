------------------------------ MODULE RustExec ------------------------------
(***************************************************************************)
(* One exec call of the Rust server: execute_command of rust/src/ops.rs    *)
(* and the reply of exec.  Two spawned tasks read the pipes to their ends  *)
(* while the call waits for the shell under a timeout; then it waits for   *)
(* the tasks.  The call itself may be dropped with its connection, and     *)
(* wait, kill and the reads may fail.                                      *)
(***************************************************************************)
EXTENDS ExecCommand

CONSTANTS
    NoReply,
    Disconnects,    \* whether clients may go away
    SystemFaults    \* whether wait, kill and the reads may fail

(* What the message of an error tells.                                     *)
Errors  == {"refused", "wait", "kill", "read"}
Codes   == OwnCodes \cup {0, 1, 124}
Replies == [ok : {FALSE}, error : Errors]
               \cup [ok : {TRUE}, timed_out : BOOLEAN, exit_code : Codes]

ASSUME RustExecAssumption ==
    Disconnects \in BOOLEAN /\ SystemFaults \in BOOLEAN /\ NoReply \notin Replies

VARIABLES
    pc,             \* what the call waits for; "return" and "dropped" end it
    task,           \* stream -> "reading", or how its task ended
    late,           \* the timer fired
    result,
    reply

server == <<pc, result, reply>>
vars   == <<command, server, task, late>>

NoResult == [timed_out |-> FALSE, exit_code |-> 0]

TypeOK ==
    /\ CommandTypeOK
    /\ pc \in {"start", "wait", "kill", "join", "return", "dropped"}
    /\ task \in [Streams -> {"reading", "end", "failed"}] /\ late \in BOOLEAN
    /\ result \in [timed_out : BOOLEAN, exit_code : Codes]
    /\ reply \in Replies \cup {NoReply}
    /\ pc = "return" <=> reply # NoReply

Init ==
    /\ CommandInit
    /\ pc = "start" /\ late = FALSE
    /\ task = [s \in Streams |-> "reading"]
    /\ result = NoResult /\ reply = NoReply

-----------------------------------------------------------------------------
Return(r)      == pc' = "return" /\ reply' = r
ReturnError(e) == Return([ok |-> FALSE, error |-> e])

(* Bad token, blank command, working directory outside the root, no process. *)
Refuse ==
    /\ pc = "start"
    /\ ReturnError("refused")
    /\ UNCHANGED <<command, result>>

Start ==
    /\ pc = "start"
    /\ Spawned
    /\ pc' = "wait"
    /\ UNCHANGED <<result, reply>>

(* ExitStatus::code() is None for a shell that died of a signal.           *)
CodeOr(default) == IF status = Signalled THEN default ELSE status

Join(timedOut, code) ==
    /\ Reaped
    /\ result' = [timed_out |-> timedOut, exit_code |-> code]
    /\ pc' = "join"
    /\ UNCHANGED reply

ShellFinished ==
    /\ pc = "wait" /\ shell = "zombie"
    /\ Join(FALSE, CodeOr(1))

(* The timer may fire before the runtime hears that the shell has ended.   *)
(* A slip: to wait for the shell without killing it.                       *)
TimeOutUnkilled ==
    /\ pc = "wait" /\ late
    /\ pc' = "kill"
    /\ UNCHANGED <<command, result, reply>>

TimeOut ==
    /\ pc = "wait" /\ late
    /\ Killed
    /\ pc' = "kill"
    /\ UNCHANGED <<result, reply>>

LeaveZombie ==
    /\ pc = "kill"
    /\ result' = [timed_out |-> TRUE, exit_code |-> 124]
    /\ pc' = "join"
    /\ UNCHANGED <<command, reply>>

KilledFinished ==
    /\ pc = "kill" /\ shell = "zombie"
    /\ Join(TRUE, CodeOr(124))

(* child.wait() fails, the first time or after the kill, or the kill does. *)
(* The call ends at once and leaves the shell as it is.                    *)
WaitFails ==
    /\ pc = "wait"
    /\ ReturnError("wait")
    /\ UNCHANGED <<command, result>>

KillFails ==
    /\ pc = "wait" /\ late
    /\ ReturnError("kill")
    /\ UNCHANGED <<command, result>>

KilledUnwaited ==
    /\ pc = "kill"
    /\ ReturnError("wait")
    /\ UNCHANGED <<command, result>>

CallFails == SystemFaults /\ (WaitFails \/ KillFails \/ KilledUnwaited)

StdoutAtEnd == task["stdout"] = "end"
TasksAtEnd  == \A s \in Streams : task[s] = "end"

Answer ==
    /\ pc = "join" /\ TasksAtEnd
    /\ Return([ok |-> TRUE, timed_out |-> result.timed_out, exit_code |-> result.exit_code])
    /\ UNCHANGED <<command, result>>

(* stdout_task is awaited first: an error of the other waits for its end.  *)
AnswerError ==
    /\ pc = "join"
    /\ \/ task["stdout"] = "failed"
       \/ task["stdout"] = "end" /\ task["stderr"] = "failed"
    /\ ReturnError("read")
    /\ UNCHANGED <<command, result>>

CallStep ==
    \/ Refuse \/ Start
    \/ ShellFinished \/ TimeOut \/ KilledFinished
    \/ Answer \/ AnswerError

(* The future of the call is dropped; kill_on_drop is not set, and the     *)
(* spawned tasks go on.  The runtime reaps the shell when it ends, which   *)
(* no call waits for.                                                      *)
Disconnect ==
    /\ Disconnects
    /\ pc \in {"wait", "kill", "join"}
    /\ pc' = "dropped"
    /\ UNCHANGED <<command, task, result, reply, late>>

-----------------------------------------------------------------------------
(* read_to_end of one stream.  Nobody reads a stream whose task failed.    *)
ReadSome(s) ==
    /\ task[s] = "reading" /\ pipe[s] # <<>>
    /\ Taken(s, Len(pipe[s]))
    /\ UNCHANGED task

PipeEnded(s) == pipe[s] = <<>> /\ Writers = {}

ReadEnd(s) ==
    /\ pc # "start" /\ task[s] = "reading"
    /\ PipeEnded(s)
    /\ task' = [task EXCEPT ![s] = "end"]
    /\ UNCHANGED command

ReadFails(s) ==
    /\ SystemFaults
    /\ pc # "start" /\ task[s] = "reading"
    /\ task' = [task EXCEPT ![s] = "failed"]
    /\ UNCHANGED command

TaskStep(s) == ReadSome(s) \/ ReadEnd(s)

Clock == ~late /\ pc # "start" /\ late' = TRUE /\ UNCHANGED <<command, server, task>>

Next ==
    \/ (CallStep \/ CallFails) /\ UNCHANGED <<task, late>>
    \/ Disconnect
    \/ \E s \in Streams : (TaskStep(s) \/ ReadFails(s)) /\ UNCHANGED <<server, late>>
    \/ CommandStep /\ UNCHANGED <<server, task, late>>
    \/ Clock

(* The runtime polls the call and the tasks, and time passes.  Nothing is  *)
(* assumed of the command, and nothing has to fail.                        *)
Spec ==
    /\ Init /\ [][Next]_vars
    /\ WF_vars(CallStep /\ UNCHANGED <<task, late>>)
    /\ \A s \in Streams : WF_vars(TaskStep(s) /\ UNCHANGED <<server, late>>)
    /\ WF_vars(Clock)

-----------------------------------------------------------------------------
(* Why the two invariants below hold: where the shell is at each step,     *)
(* what the tasks have seen, and what a reply stands for.                  *)
Phases ==
    /\ pc = "start" => shell = "none" /\ background = {}
    /\ pc = "wait" => shell \in {"running", "zombie"}
    /\ pc = "kill" => shell = "zombie"
    /\ pc = "join" => shell = "reaped"

Drained(s) == task[s] = "end" => pc # "start" /\ PipeEnded(s)

(* The call returns only when its shell is gone and reaped, also when a    *)
(* read failed; only an error that says that the wait or the kill failed   *)
(* leaves it behind.                                                       *)
CannotReap == {"wait", "kill"}
ReapedAtReturn ==
    pc = "return" /\ (reply.ok \/ reply.error \notin CannotReap) =>
        shell \in {"none", "reaped"}

Verdict == pc = "return" /\ reply.ok => TasksAtEnd

IInv ==
    /\ TypeOK /\ Phases /\ Verdict /\ ReapedAtReturn
    /\ \A s \in Streams : Drained(s)

(* The reply has all output of the command, also of the processes the      *)
(* shell left behind: nobody can write any more and nothing is unread.     *)
AllOutputRead ==
    pc = "return" /\ reply.ok => Writers = {} /\ \A s \in Streams : pipe[s] = <<>>

(* Every call ends, by its reply or with its connection, however much the  *)
(* command writes and whether or not it stops by itself: only a process    *)
(* that the shell left behind and that never ends can hold it up.          *)
Ended == pc \in {"return", "dropped"}
EveryExecEnds == <>Ended \/ <>[](background # {})

(* The call ends once its timeout is over, whatever the command left       *)
(* behind.                                                                 *)
TimeoutEndsCall == late ~> Ended

=============================================================================
