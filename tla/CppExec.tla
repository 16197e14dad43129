------------------------------- MODULE CppExec -------------------------------
(***************************************************************************)
(* One exec call of the C++ server: execute_command of                     *)
(* src/common/exec_utils.cpp (the POSIX branch) and the reply its handler  *)
(* makes of it.  The loop polls, reads both pipes until they are empty,    *)
(* looks whether the shell ended, then looks at the clock.                 *)
(***************************************************************************)
EXTENDS ExecCommand, Integers

CONSTANTS
    ReadSize,       \* what one read() takes
    NoReply,
    ReadFaults      \* whether read() may fail

Codes   == OwnCodes \cup {-1, 124, 137}
Replies == [ok : {FALSE}] \cup [ok : {TRUE}, timed_out : BOOLEAN, exit_code : Codes]

ASSUME CppExecAssumption ==
    /\ ReadSize \in Nat \ {0} /\ ReadFaults \in BOOLEAN
    /\ NoReply \notin Replies

VARIABLES
    pc,             \* the next step, named for what it looks at
    finished,       \* child_finished
    late,           \* the clock passed effective_timeout_ms
    result,         \* timed_out and exit_code
    reply

server == <<pc, finished, result, reply>>
vars   == <<command, server, late>>

NoResult == [timed_out |-> FALSE, exit_code |-> -1]

TypeOK ==
    /\ CommandTypeOK
    /\ pc \in {"start", "stdout", "stderr", "wait", "clock", "reap", "catch", "return"}
    /\ finished \in BOOLEAN /\ late \in BOOLEAN
    /\ result \in [timed_out : BOOLEAN, exit_code : Codes]
    /\ reply \in Replies \cup {NoReply}
    /\ pc = "return" <=> reply # NoReply

Init ==
    /\ CommandInit
    /\ pc = "start" /\ finished = FALSE /\ late = FALSE
    /\ result = NoResult /\ reply = NoReply

-----------------------------------------------------------------------------
CodeOf(st) == IF st = Signalled THEN 137 ELSE st     \* 128 + SIGKILL for all signals

Return(r) ==
    /\ pc' = "return"
    /\ reply' = r

(* The handler makes a reply of the result, or of an exception.            *)
ReturnResult == Return([ok |-> TRUE, timed_out |-> result.timed_out,
                        exit_code |-> result.exit_code])
ReturnError  == Return([ok |-> FALSE])

(* Bad token, empty command, working directory outside --root; no pipe, no *)
(* flags, no process.                                                      *)
Refuse ==
    /\ pc = "start"
    /\ ReturnError
    /\ UNCHANGED <<command, finished, result>>

Start ==
    /\ pc = "start"
    /\ Spawned
    /\ pc' = "stdout"
    /\ UNCHANGED <<finished, result, reply>>

(* append_from_fd: read until the pipe is empty.  The text is not followed *)
(* further; it is cut to effective_max_output when the call returns.       *)
Shorter(m, n) == IF m < n THEN m ELSE n

ReadSome(s) ==
    /\ pc = s /\ pipe[s] # <<>>
    /\ Taken(s, Shorter(Len(pipe[s]), ReadSize))
    /\ UNCHANGED <<pc, finished, result, reply>>

StdoutRead ==
    /\ pc = "stdout" /\ pipe["stdout"] = <<>>
    /\ pc' = "stderr"
    /\ UNCHANGED <<command, finished, result, reply>>

StderrRead ==
    /\ pc = "stderr" /\ pipe["stderr"] = <<>>
    /\ IF finished THEN ReturnResult ELSE pc' = "wait" /\ UNCHANGED reply
    /\ UNCHANGED <<command, finished, result>>

(* waitpid(WNOHANG).  A slip: to return at once when the shell has ended.  *)
Finish(code) ==
    /\ Reaped
    /\ result' = [result EXCEPT !.exit_code = code]
    /\ finished' = TRUE
    /\ pc' = "stdout"
    /\ UNCHANGED reply

ReturnAtOnce ==
    /\ pc = "wait" /\ shell = "zombie"
    /\ Reaped
    /\ Return([ok |-> TRUE, timed_out |-> FALSE, exit_code |-> CodeOf(status)])
    /\ UNCHANGED <<finished, result>>

ShellFinished ==
    /\ pc = "wait" /\ shell = "zombie"
    /\ Finish(CodeOf(status))

ShellRuns ==
    /\ pc = "wait" /\ shell = "running"
    /\ pc' = "clock"
    /\ UNCHANGED <<command, finished, result, reply>>

InTime ==
    /\ pc = "clock" /\ ~late
    /\ pc' = "stdout"
    /\ UNCHANGED <<command, finished, result, reply>>

(* The timeout: kill, wait, exit code 124.  A slip: to wait for nobody.    *)
TimeOut ==
    /\ pc = "clock" /\ late
    /\ Killed
    /\ result' = [result EXCEPT !.timed_out = TRUE]
    /\ pc' = "reap"
    /\ UNCHANGED <<finished, reply>>

LeaveZombie ==
    /\ pc = "reap"
    /\ result' = [result EXCEPT !.exit_code = 124]
    /\ finished' = TRUE
    /\ pc' = "stdout"
    /\ UNCHANGED <<command, reply>>

CodeOfKilled ==
    /\ pc = "reap" /\ shell = "zombie"
    /\ Finish(CodeOf(status))

KilledFinished ==
    /\ pc = "reap" /\ shell = "zombie"
    /\ Finish(124)

(* The catch block kills and waits too, whether or not the child is there. *)
ReadFails(s) ==
    /\ ReadFaults
    /\ pc = s
    /\ Killed
    /\ pc' = "catch"
    /\ UNCHANGED <<finished, result, reply>>

CatchWait ==
    /\ pc = "catch" /\ shell \in {"zombie", "reaped"}
    /\ Reaped
    /\ ReturnError
    /\ UNCHANGED <<finished, result>>

ServerStep ==
    \/ Refuse \/ Start
    \/ \E s \in Streams : ReadSome(s) \/ ReadFails(s)
    \/ StdoutRead \/ StderrRead
    \/ ShellFinished \/ ShellRuns
    \/ InTime \/ TimeOut \/ KilledFinished
    \/ CatchWait

Clock == ~late /\ pc # "start" /\ late' = TRUE /\ UNCHANGED <<command, server>>

Next ==
    \/ ServerStep /\ UNCHANGED late
    \/ pc # "return" /\ CommandStep /\ UNCHANGED <<server, late>>
    \/ Clock

(* The server thread is scheduled, and time passes.  Nothing is assumed of *)
(* the command.                                                            *)
Spec ==
    /\ Init /\ [][Next]_vars
    /\ WF_vars(ServerStep /\ UNCHANGED late)
    /\ WF_vars(Clock)

-----------------------------------------------------------------------------
(* The call returns only when its shell is gone: no running shell and no   *)
(* zombie is left, whatever the call returned.                             *)
ReapedAtReturn == pc = "return" => shell \in {"none", "reaped"}

(* The reply has what the shell wrote before it ended: nothing of it is    *)
(* left in a pipe, however the end, the reads and the timeout interleave.  *)
ShellOutputRead ==
    pc = "return" /\ reply.ok =>
        \A s \in Streams : \A i \in 1 .. Len(pipe[s]) : pipe[s][i] # Shell

(* What holds between the steps and makes the above true: how far the shell *)
(* is at each step of the loop, what the result says once the shell is     *)
(* reaped, and which pipe the last reads have emptied of its output.       *)
Phases ==
    /\ pc = "start" => shell = "none"
    /\ pc \in {"stdout", "stderr"} =>
           IF finished THEN shell = "reaped" ELSE shell \in {"running", "zombie"}
    /\ pc \in {"wait", "clock"} => ~finished /\ shell \in {"running", "zombie"}
    /\ pc = "reap" => ~finished /\ shell = "zombie"
    /\ pc = "catch" => shell \in {"zombie", "reaped"}
    /\ pc = "return" => shell \in {"none", "reaped"}

Verdict ==
    /\ result.timed_out => late
    /\ result.timed_out => finished \/ pc \in {"reap", "catch", "return"}
    /\ pc = "reap" => result.timed_out
    /\ finished => shell = "reaped"
    /\ finished => result.exit_code = IF result.timed_out THEN 124 ELSE CodeOf(status)

ShellUnread(s) == \E i \in 1 .. Len(pipe[s]) : pipe[s][i] = Shell

LastReads ==
    /\ pc = "stderr" /\ finished => ~ShellUnread("stdout")
    /\ pc = "return" /\ reply.ok => \A s \in Streams : ~ShellUnread(s)
    /\ pc = "return" /\ reply.ok => shell = "reaped"

IInv == TypeOK /\ Phases /\ Verdict /\ LastReads

(* execute_command keeps the promise of ExecPromise: one reply with the    *)
(* own code of a command that ended or with timed_out and 124 after the    *)
(* timeout, and it comes.                                                  *)
P == INSTANCE ExecPromise WITH
        OwnCodes <- OwnCodes \cup {137},
        ended <- IF status = Running THEN Running ELSE CodeOf(status)
Promise == P!Spec

=============================================================================
