----------------------------- MODULE ExecCommand -----------------------------
(***************************************************************************)
(* What the servers' exec runs: a shell, the processes it starts and may   *)
(* leave behind, and the two pipes they all write to.  A process blocks on *)
(* a full pipe.  A unit in a pipe is the name of the process that wrote    *)
(* it; a pipe is held open by every process that is still running.         *)
(***************************************************************************)
EXTENDS Naturals, Sequences

CONSTANTS
    Shell,
    Background,     \* processes the shell may start
    OwnCodes,       \* codes the shell may exit with
    Signalled,      \* "code" of a shell that died of a signal
    Running,        \* status of a shell that has not ended
    PipeSize,       \* room in a pipe
    MaxWrites       \* bound on all writes; 0: no bound, the command never tires

Streams   == {"stdout", "stderr"}
Processes == {Shell} \cup Background

ASSUME CommandAssumption ==
    /\ OwnCodes \subseteq Nat /\ PipeSize \in Nat /\ MaxWrites \in Nat
    /\ Shell \notin Background
    /\ Signalled \notin Nat /\ Running \notin Nat /\ Running # Signalled

VARIABLES
    shell,          \* "none", "running", "zombie" or "reaped"
    status,         \* how the shell ended
    background,     \* the started processes that still run
    started,        \* the processes started so far
    pipe,           \* stream -> what was written and not yet read
    writes

command == <<shell, status, background, started, pipe, writes>>

CommandTypeOK ==
    /\ shell \in {"none", "running", "zombie", "reaped"}
    /\ status \in OwnCodes \cup {Signalled, Running}
    /\ background \subseteq started /\ started \subseteq Background
    /\ pipe \in [Streams -> Seq(Processes)]
    /\ writes \in 0 .. MaxWrites
    /\ shell \in {"zombie", "reaped"} <=> status # Running

CommandInit ==
    /\ shell = "none" /\ status = Running
    /\ background = {} /\ started = {}
    /\ pipe = [s \in Streams |-> <<>>] /\ writes = 0

Writers == background \cup (IF shell = "running" THEN {Shell} ELSE {})

-----------------------------------------------------------------------------
(* What the command may do by itself.                                      *)

Write(p, s) ==
    /\ p \in Writers
    /\ Len(pipe[s]) < PipeSize
    /\ pipe' = [pipe EXCEPT ![s] = Append(@, p)]
    /\ \/ MaxWrites = 0 /\ UNCHANGED writes
       \/ writes < MaxWrites /\ writes' = writes + 1
    /\ UNCHANGED <<shell, status, background, started>>

StartProcess(b) ==
    /\ shell = "running" /\ b \notin started
    /\ started' = started \cup {b} /\ background' = background \cup {b}
    /\ UNCHANGED <<shell, status, pipe, writes>>

ProcessEnds(b) ==
    /\ b \in background
    /\ background' = background \ {b}
    /\ UNCHANGED <<shell, status, started, pipe, writes>>

ShellEnds ==
    /\ shell = "running"
    /\ shell' = "zombie"
    /\ status' \in OwnCodes \cup {Signalled}
    /\ UNCHANGED <<background, started, pipe, writes>>

CommandStep ==
    \/ \E p \in Processes, s \in Streams : Write(p, s)
    \/ \E b \in Background : StartProcess(b) \/ ProcessEnds(b)
    \/ ShellEnds

-----------------------------------------------------------------------------
(* What the server does to it.                                             *)

Spawned == shell' = "running" /\ UNCHANGED <<status, background, started, pipe, writes>>

(* SIGKILL reaches the shell alone, and a zombie no more.                  *)
Killed ==
    /\ IF shell = "running" THEN shell' = "zombie" /\ status' = Signalled
                            ELSE UNCHANGED <<shell, status>>
    /\ UNCHANGED <<background, started, pipe, writes>>

Reaped == shell' = "reaped" /\ UNCHANGED <<status, background, started, pipe, writes>>

Taken(s, n) ==
    /\ pipe' = [pipe EXCEPT ![s] = SubSeq(@, n + 1, Len(@))]
    /\ UNCHANGED <<shell, status, background, started, writes>>

=============================================================================
