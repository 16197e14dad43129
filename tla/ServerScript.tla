---------------------------- MODULE ServerScript ----------------------------
(***************************************************************************)
(* run_server.sh: start, stop, restart and status of a background server,  *)
(* known to later invocations only through its pid file.  Each action is   *)
(* one command of the script that touches the pid file or a process, so    *)
(* that servers end, the machine is rebooted and other invocations run     *)
(* between any two of them.                                                *)
(*                                                                         *)
(* What the script writes or removes may fail: set -e then ends it, except *)
(* in is_running, which is called as a condition.  A signal to the script  *)
(* between the launch and the pid file leaves what a failed write leaves.  *)
(*                                                                         *)
(* Not modelled: --foreground (no pid file), a second user, whose          *)
(* processes kill -0 cannot see and whose pid file cat cannot read, and an *)
(* interrupted stop.                                                       *)
(***************************************************************************)
EXTENDS Naturals, FiniteSets

CONSTANTS
    Scripts,            \* invocations of the script
    Pids, NoPid,        \* process ids; NoPid is the empty string
    Missing,            \* there is no pid file
    WaitRounds,         \* rounds of stop_server's loop (30 in the code)
    DiskFaults          \* whether the pid file's writes and removals may fail

ASSUME PidsAssumption == NoPid \notin Pids /\ Missing \notin Pids \cup {NoPid}
ASSUME RoundsAssumption == WaitRounds \in Nat
ASSUME FaultsAssumption == DiskFaults \in BOOLEAN

VARIABLES
    pidFile,    \* the content of $PID_FILE
    proc,       \* pid -> what runs under it
    pc, action, \* script -> its next command, and what it was called for
    pid,        \* script -> the shell variable pid
    round,      \* script -> rounds of stop_server's loop so far
    overlapped, \* history: invocations have run at the same time
    unrecorded  \* history: servers whose start failed to write the pid file

locals  == <<pc, action, pid, round>>
history == <<overlapped, unrecorded>>
vars    == <<pidFile, proc, locals, history>>

Labels  == {"idle", "read", "probe", "unlink", "launch", "truncate", "write",
            "verify", "giveup", "reread", "term", "wait", "kill", "clean"}
Actions == {"start", "stop", "restart", "status"}

(* What a pid stands for: nothing, a server, one that got SIGTERM (and may *)
(* be frozen and not react), a process that got SIGKILL, or a process that *)
(* is not the server.                                                      *)
Kinds == {"free", "server", "termed", "killed", "other"}

TypeOK ==
    /\ pidFile \in Pids \cup {NoPid, Missing}
    /\ proc \in [Pids -> Kinds]
    /\ pc \in [Scripts -> Labels]
    /\ action \in [Scripts -> Actions]
    /\ pid \in [Scripts -> Pids \cup {NoPid}]
    /\ round \in [Scripts -> 0 .. WaitRounds]
    /\ overlapped \in BOOLEAN
    /\ unrecorded \subseteq Pids

Init ==
    /\ pidFile = Missing
    /\ proc \in [Pids -> {"free", "other"}]
    /\ pc = [s \in Scripts |-> "idle"]
    /\ action = [s \in Scripts |-> "status"]
    /\ pid = [s \in Scripts |-> NoPid]
    /\ round = [s \in Scripts |-> 0]
    /\ overlapped = FALSE
    /\ unrecorded = {}

Alive(p)   == p \in Pids /\ proc[p] # "free"        \* kill -0 "$pid"
Serving(p) == proc[p] \in {"server", "termed"}
Idle       == \A s \in Scripts : pc[s] = "idle"

-----------------------------------------------------------------------------
(* Control flow of the script.                                             *)

Move(s, label) == pc' = [pc EXCEPT ![s] = label]
Goto(s, label) == Move(s, label) /\ UNCHANGED <<action, pid, round>>

(* A function is entered or left: its local variables are gone.            *)
Enter(s, act, label) ==
    /\ Move(s, label)
    /\ action' = [action EXCEPT ![s] = act]
    /\ pid' = [pid EXCEPT ![s] = NoPid]
    /\ round' = [round EXCEPT ![s] = 0]

Exit(s) == Enter(s, "status", "idle")

(* stop_server returns; restart goes on with start_server.                 *)
StopReturns(s) == IF action[s] = "restart" THEN Enter(s, "start", "read") ELSE Exit(s)

(* is_running has returned 1 in the function that called it.               *)
NotRunning(s) ==
    CASE action[s] = "start"               -> Enter(s, "start", "launch")
      [] action[s] \in {"stop", "restart"} -> StopReturns(s)
      [] action[s] = "status"              -> Exit(s)

Invoke(s, a) ==
    /\ pc[s] = "idle"
    /\ Enter(s, a, "read")
    /\ overlapped' = (overlapped \/ ~Idle)
    /\ UNCHANGED <<pidFile, proc, unrecorded>>

(* is_running: -f and cat, then kill -0, then rm -f.  A file that goes     *)
(* away between -f and cat reads as empty.                                 *)
ReadPid(s) ==
    /\ pc[s] = "read"
    /\ pidFile \in Pids
    /\ pid' = [pid EXCEPT ![s] = pidFile]
    /\ Move(s, "probe")
    /\ UNCHANGED <<action, pidFile, proc, round, history>>

ReadNothing(s) ==
    /\ pc[s] = "read"
    /\ pidFile \notin Pids
    /\ NotRunning(s)
    /\ UNCHANGED <<pidFile, proc, history>>

(* is_running has returned 0: only stop_server goes on.                    *)
ProbeAlive(s) ==
    /\ pc[s] = "probe"
    /\ Alive(pid[s])
    /\ IF action[s] \in {"stop", "restart"}
       THEN Enter(s, action[s], "reread") ELSE Exit(s)
    /\ UNCHANGED <<pidFile, proc, history>>

(* Slips of the kind the checks look for stand next to what they resemble: *)
(* here, a pid file that is removed whether or not the process lives.      *)
ProbeSkipped(s) ==
    /\ pc[s] = "probe"
    /\ Goto(s, "unlink")
    /\ UNCHANGED <<pidFile, proc, history>>

ProbeDead(s) ==
    /\ pc[s] = "probe"
    /\ ~Alive(pid[s])
    /\ Goto(s, "unlink")
    /\ UNCHANGED <<pidFile, proc, history>>

UnlinkStale(s) ==
    /\ pc[s] = "unlink"
    /\ pidFile' = Missing
    /\ NotRunning(s)
    /\ UNCHANGED <<proc, history>>

UnlinkStaleFails(s) ==
    /\ DiskFaults /\ pc[s] = "unlink"
    /\ NotRunning(s)
    /\ UNCHANGED <<pidFile, proc, history>>

-----------------------------------------------------------------------------
(* start_server after is_running.                                          *)

LaunchRefused(s) ==     \* no binary, no root, no log directory
    /\ pc[s] = "launch"
    /\ Exit(s)
    /\ UNCHANGED <<pidFile, proc, history>>

Launch(s) ==
    /\ pc[s] = "launch"
    /\ \E p \in Pids :
           /\ proc[p] = "free"
           /\ proc' = [proc EXCEPT ![p] = "server"]
           /\ pid' = [pid EXCEPT ![s] = p]
    /\ Move(s, "truncate")
    /\ UNCHANGED <<action, pidFile, round, history>>

(* echo "$pid" >"$PID_FILE": the shell empties the file, then echo writes. *)
TruncateFile(s) ==
    /\ pc[s] = "truncate"
    /\ pidFile' = NoPid
    /\ Goto(s, "write")
    /\ UNCHANGED <<proc, history>>

(* What is written to a file another invocation removed is lost.           *)
WritePid(s) ==
    /\ pc[s] = "write"
    /\ pidFile' = IF pidFile = Missing THEN Missing ELSE pid[s]
    /\ Goto(s, "verify")
    /\ UNCHANGED <<proc, history>>

(* The script ends and the server it launched runs on, unrecorded: the     *)
(* redirection cannot open the file, or echo cannot write it.              *)
LeaveUnrecorded(s) ==
    /\ unrecorded' = unrecorded \cup {p \in Pids : p = pid[s] /\ Serving(p)}
    /\ Exit(s)
    /\ UNCHANGED <<pidFile, proc, overlapped>>

TruncateFails(s) == DiskFaults /\ pc[s] = "truncate" /\ LeaveUnrecorded(s)
WriteFails(s)    == DiskFaults /\ pc[s] = "write" /\ LeaveUnrecorded(s)

VerifyAlive(s) ==
    /\ pc[s] = "verify"
    /\ Alive(pid[s])
    /\ Exit(s)
    /\ UNCHANGED <<pidFile, proc, history>>

VerifySkipped(s) ==
    /\ pc[s] = "verify"
    /\ Goto(s, "giveup")
    /\ UNCHANGED <<pidFile, proc, history>>

VerifyDead(s) ==
    /\ pc[s] = "verify"
    /\ ~Alive(pid[s])
    /\ Goto(s, "giveup")
    /\ UNCHANGED <<pidFile, proc, history>>

GiveUp(s) ==
    /\ pc[s] = "giveup"
    /\ pidFile' = Missing
    /\ Exit(s)
    /\ UNCHANGED <<proc, history>>

GiveUpFails(s) ==
    /\ DiskFaults /\ pc[s] = "giveup"
    /\ Exit(s)
    /\ UNCHANGED <<pidFile, proc, history>>

-----------------------------------------------------------------------------
(* stop_server after is_running.                                           *)

RereadPid(s) ==
    /\ pc[s] = "reread"
    /\ pidFile # Missing
    /\ pid' = [pid EXCEPT ![s] = pidFile]
    /\ Move(s, "term")
    /\ UNCHANGED <<action, pidFile, proc, round, history>>

RereadFails(s) ==       \* cat fails and set -e ends the script
    /\ pc[s] = "reread"
    /\ pidFile = Missing
    /\ Exit(s)
    /\ UNCHANGED <<pidFile, proc, history>>

(* What becomes of a process of a kind that is sent a signal.              *)
Signalled(kind, signal) ==
    CASE signal = "killed" -> "killed"
      [] signal = "termed" /\ kind = "server" -> "termed"
      [] OTHER -> kind

Signal(s, signal) ==
    proc' = IF Alive(pid[s])
            THEN [proc EXCEPT ![pid[s]] = Signalled(@, signal)] ELSE proc

SendTerm(s) ==
    /\ pc[s] = "term"
    /\ Signal(s, "termed")
    /\ Goto(s, "wait")
    /\ UNCHANGED <<pidFile, history>>

WaitDead(s) ==
    /\ pc[s] = "wait"
    /\ round[s] < WaitRounds
    /\ ~Alive(pid[s])
    /\ Goto(s, "clean")
    /\ UNCHANGED <<pidFile, proc, history>>

WaitUncounted(s) ==
    /\ pc[s] = "wait"
    /\ Alive(pid[s])
    /\ UNCHANGED <<pidFile, proc, locals, history>>

WaitAlive(s) ==
    /\ pc[s] = "wait"
    /\ round[s] < WaitRounds
    /\ Alive(pid[s])
    /\ round' = [round EXCEPT ![s] = @ + 1]
    /\ UNCHANGED <<pidFile, proc, pc, action, pid, history>>

WaitGivesUp(s) ==
    /\ pc[s] = "wait"
    /\ round[s] = WaitRounds
    /\ Goto(s, "clean")
    /\ UNCHANGED <<pidFile, proc, history>>

WaitOver(s) ==
    /\ pc[s] = "wait"
    /\ round[s] = WaitRounds
    /\ Goto(s, "kill")
    /\ UNCHANGED <<pidFile, proc, history>>

SendTermAgain(s) ==
    /\ pc[s] = "kill"
    /\ Signal(s, "termed")
    /\ Goto(s, "clean")
    /\ UNCHANGED <<pidFile, history>>

SendKill(s) ==
    /\ pc[s] = "kill"
    /\ Signal(s, "killed")
    /\ Goto(s, "clean")
    /\ UNCHANGED <<pidFile, history>>

Clean(s) ==
    /\ pc[s] = "clean"
    /\ pidFile' = Missing
    /\ StopReturns(s)
    /\ UNCHANGED <<proc, history>>

CleanFails(s) ==        \* restart does not go on to start
    /\ DiskFaults /\ pc[s] = "clean"
    /\ Exit(s)
    /\ UNCHANGED <<pidFile, proc, history>>

-----------------------------------------------------------------------------
(* Processes and the machine.                                              *)

Become(p, kind) ==
    /\ proc' = [proc EXCEPT ![p] = kind]
    /\ unrecorded' = unrecorded \ {p}
    /\ UNCHANGED <<pidFile, locals, overlapped>>

(* A server ends: of itself, for lack of its port, or by the signal.       *)
ServerEnds(p)  == Serving(p) /\ Become(p, "free")
KilledEnds(p)  == proc[p] = "killed" /\ Become(p, "free")
OtherStarts(p) == proc[p] = "free" /\ Become(p, "other")
OtherEnds(p)   == proc[p] = "other" /\ Become(p, "free")

(* The pid file survives a reboot, processes and invocations do not.       *)
Reboot ==
    /\ proc' = [p \in Pids |-> "free"]
    /\ pc' = [s \in Scripts |-> "idle"]
    /\ action' = [s \in Scripts |-> "status"]
    /\ pid' = [s \in Scripts |-> NoPid]
    /\ round' = [s \in Scripts |-> 0]
    /\ unrecorded' = {}
    /\ UNCHANGED <<pidFile, overlapped>>

is_running(s) ==
    \/ ReadPid(s) \/ ReadNothing(s) \/ ProbeAlive(s) \/ ProbeDead(s)
    \/ UnlinkStale(s) \/ UnlinkStaleFails(s)

start_server(s) ==
    \/ LaunchRefused(s) \/ Launch(s) \/ TruncateFile(s) \/ TruncateFails(s)
    \/ WritePid(s) \/ WriteFails(s)
    \/ VerifyAlive(s) \/ VerifyDead(s) \/ GiveUp(s) \/ GiveUpFails(s)

stop_server(s) ==
    \/ RereadPid(s) \/ RereadFails(s) \/ SendTerm(s)
    \/ WaitDead(s) \/ WaitAlive(s) \/ WaitOver(s) \/ SendKill(s)
    \/ Clean(s) \/ CleanFails(s)

Command(s) == is_running(s) \/ start_server(s) \/ stop_server(s)

Process(p) ==
    ServerEnds(p) \/ KilledEnds(p) \/ OtherStarts(p) \/ OtherEnds(p)

Next ==
    \/ \E s \in Scripts : (\E a \in Actions : Invoke(s, a)) \/ Command(s)
    \/ \E p \in Pids : Process(p)
    \/ Reboot

(* The shell goes on with its commands, and the kernel carries SIGKILL out.*)
Fairness ==
    /\ \A s \in Scripts : WF_vars(Command(s))
    /\ \A p \in Pids : WF_vars(KilledEnds(p))

Spec == Init /\ [][Next]_vars
LiveSpec == Spec /\ Fairness

-----------------------------------------------------------------------------
(* Properties.                                                             *)

(* The servers that a start recorded, or may still record.                 *)
Kept(p) == Serving(p) /\ p \notin unrecorded

(* No server gets lost but one whose start was told that its pid file      *)
(* could not be written: between invocations that did not overlap, any     *)
(* other server that runs is the one the pid file names, so that status    *)
(* and stop find it, whatever ended in between and after a reboot too.     *)
NoLostServer ==
    ~overlapped /\ Idle => \A p \in Pids : Kept(p) => pidFile = p

(* start and restart never leave two servers running, but for those whose  *)
(* start failed to record them: unless invocations overlap, a server is    *)
(* launched only when no other is left, or what is left got SIGKILL.       *)
OneServer ==
    ~overlapped => Cardinality({p \in Pids : Kept(p)}) <= 1

(* When stop returns and invocations did not overlap, no server runs but   *)
(* one that was never recorded.                                            *)
StopLeavesNone ==
    [][\A s \in Scripts :
          (action[s] = "stop" /\ pc[s] # "idle" /\ pc'[s] = "idle" /\ ~overlapped)
              => \A p \in Pids : ~Kept(p)']_vars

(* stop_server gets rid of the server it signals, also of one that does    *)
(* not react to SIGTERM, and also when invocations overlap.                *)
StopTakesEffect ==
    \A p \in Pids :
        (Serving(p) /\ \E s \in Scripts : pc[s] = "term" /\ pid[s] = p) ~> ~Serving(p)

(* Every invocation ends.                                                  *)
ScriptsEnd == \A s \in Scripts : pc[s] # "idle" ~> pc[s] = "idle"

=============================================================================
