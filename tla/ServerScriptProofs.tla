------------------------- MODULE ServerScriptProofs -------------------------
(***************************************************************************)
(* Proofs about run_server.sh: as long as invocations do not overlap, no   *)
(* server is lost but one whose start failed to write the pid file, stop   *)
(* leaves no other, and never do two others run, for any number of process *)
(* ids and of rounds.                                                      *)
(***************************************************************************)
EXTENDS ServerScript, FiniteSetTheorems, TLAPS

(* What the commands of one invocation know about the pid file and the     *)
(* processes.                                                              *)
Handles(s) ==
    /\ pc[s] \in {"probe", "term", "wait", "kill", "unlink", "verify"} => pid[s] = pidFile
    /\ pc[s] \in {"reread", "term", "wait", "kill"} => pidFile # Missing
    /\ pc[s] = "write" => pidFile = NoPid
    /\ pc[s] \in {"unlink", "launch", "giveup", "clean"} => \A p \in Pids : ~Kept(p)
    /\ pc[s] \in {"truncate", "write"} => \A p \in Pids : Kept(p) => pid[s] = p
    /\ pc[s] \in {"launch", "truncate", "write", "verify", "giveup"} => action[s] = "start"
    /\ pc[s] \in {"reread", "term", "wait", "kill", "clean"} => action[s] \in {"stop", "restart"}

(* Unless a start has yet to record its server, the pid file names every   *)
(* server there is, but those whose start failed to record them.           *)
Launching == \E s \in Scripts : pc[s] \in {"truncate", "write"}
Named == \A p \in Pids : Kept(p) => pidFile = p
Known == ~Launching => Named

Alone == \A s, t \in Scripts : pc[s] # "idle" /\ pc[t] # "idle" => s = t

Serial == Alone /\ Known /\ \A s \in Scripts : Handles(s)
IInv == TypeOK /\ (~overlapped => Serial)

-----------------------------------------------------------------------------
(* Where a script goes when is_running returned 1, by what it was called   *)
(* for.                                                                    *)
LEMMA AfterNotRunning ==
    ASSUME TypeOK, NEW s \in Scripts, NotRunning(s)
    PROVE  \/ action[s] = "start" /\ Enter(s, "start", "launch")
           \/ action[s] = "restart" /\ Enter(s, "start", "read")
           \/ action[s] \in {"stop", "status"} /\ Exit(s)
<1>1. action[s] \in {"start", "stop", "restart", "status"}
  BY DEF TypeOK, Actions
<1>2. CASE action[s] = "start"
  BY <1>2 DEF NotRunning
<1>3. CASE action[s] = "stop"
  BY <1>3 DEF NotRunning, StopReturns
<1>4. CASE action[s] = "restart"
  BY <1>4 DEF NotRunning, StopReturns
<1>5. CASE action[s] = "status"
  BY <1>5 DEF NotRunning
<1> QED BY <1>1, <1>2, <1>3, <1>4, <1>5

(* The state stays in its types.                                           *)
THEOREM ScriptTypes == Spec => []TypeOK
<1> USE PidsAssumption, RoundsAssumption DEF TypeOK, Labels, Actions, Kinds, history
<1>1. Init => TypeOK
  <2> SUFFICES ASSUME Init PROVE TypeOK
    OBVIOUS
  <2>1. proc \in [Pids -> Kinds]
    BY DEF Init
  <2>2. round \in [Scripts -> 0 .. WaitRounds]
    BY DEF Init
  <2>3. pc \in [Scripts -> Labels] /\ action \in [Scripts -> Actions]
    BY DEF Init
  <2> QED BY <2>1, <2>2, <2>3 DEF Init
<1>2. TypeOK /\ [Next]_vars => TypeOK'
  <2> SUFFICES ASSUME TypeOK, [Next]_vars PROVE TypeOK'
    OBVIOUS
  <2>1. CASE UNCHANGED vars
    BY <2>1 DEF vars, locals, history
  <2>2. ASSUME NEW s \in Scripts, NEW a \in Actions, Invoke(s, a) PROVE TypeOK'
    BY <2>2 DEF Invoke, Enter, Move
  <2>3. ASSUME NEW s \in Scripts, is_running(s) PROVE TypeOK'
    <3> USE DEF Enter, Exit, Goto, Move
    <3>1. CASE ReadPid(s)
      BY <3>1 DEF ReadPid
    <3>2. CASE ReadNothing(s)
      BY <3>2, AfterNotRunning DEF ReadNothing
    <3>3. CASE ProbeAlive(s)
      BY <3>3 DEF ProbeAlive
    <3>4. CASE ProbeDead(s)
      BY <3>4 DEF ProbeDead
    <3>5. CASE UnlinkStale(s)
      BY <3>5, AfterNotRunning DEF UnlinkStale, UnlinkStaleFails
    <3>6. CASE UnlinkStaleFails(s)
      BY <3>6, AfterNotRunning DEF UnlinkStaleFails
    <3> QED BY <2>3, <3>1, <3>2, <3>3, <3>4, <3>5, <3>6 DEF is_running
  <2>4. ASSUME NEW s \in Scripts, start_server(s) PROVE TypeOK'
    <3> USE DEF Enter, Exit, Goto, Move
    <3>1. CASE LaunchRefused(s)
      BY <3>1 DEF LaunchRefused
    <3>2. CASE Launch(s)
      BY <3>2 DEF Launch
    <3>3. CASE TruncateFile(s)
      BY <3>3 DEF TruncateFile
    <3>4. CASE WritePid(s)
      BY <3>4 DEF WritePid
    <3>5. CASE VerifyAlive(s)
      BY <3>5 DEF VerifyAlive
    <3>6. CASE VerifyDead(s)
      BY <3>6 DEF VerifyDead
    <3>7. CASE GiveUp(s)
      BY <3>7 DEF GiveUp
    <3>8. CASE TruncateFails(s) \/ WriteFails(s)
      BY <3>8 DEF TruncateFails, WriteFails, LeaveUnrecorded
    <3>9. CASE GiveUpFails(s)
      BY <3>9 DEF GiveUpFails
    <3> QED BY <2>4, <3>1, <3>2, <3>3, <3>4, <3>5, <3>6, <3>7, <3>8, <3>9
    DEF start_server
  <2>5. ASSUME NEW s \in Scripts, stop_server(s) PROVE TypeOK'
    <3> USE DEF Enter, Exit, Goto, Move, StopReturns, Signal, Signalled
    <3>1. CASE RereadPid(s)
      BY <3>1 DEF RereadPid
    <3>2. CASE RereadFails(s)
      BY <3>2 DEF RereadFails
    <3>3. CASE SendTerm(s)
      BY <3>3 DEF SendTerm
    <3>4. CASE WaitDead(s)
      BY <3>4 DEF WaitDead
    <3>5. CASE WaitAlive(s)
      BY <3>5 DEF WaitAlive
    <3>6. CASE WaitOver(s)
      BY <3>6 DEF WaitOver
    <3>7. CASE SendKill(s)
      BY <3>7 DEF SendKill
    <3>8. CASE Clean(s)
      BY <3>8 DEF Clean
    <3>9. CASE CleanFails(s)
      BY <3>9 DEF CleanFails
    <3> QED BY <2>5, <3>1, <3>2, <3>3, <3>4, <3>5, <3>6, <3>7, <3>8, <3>9
    DEF stop_server
  <2>6. ASSUME NEW p \in Pids, Process(p) PROVE TypeOK'
    BY <2>6 DEF Process, ServerEnds, KilledEnds, OtherStarts, OtherEnds, Become, locals
  <2>7. CASE Reboot
    BY <2>7 DEF Reboot
  <2> QED BY <2>1, <2>2, <2>3, <2>4, <2>5, <2>6, <2>7 DEF Next, Command
<1> QED BY <1>1, <1>2, PTL DEF Spec

-----------------------------------------------------------------------------
(* While one invocation runs, the invariant is a matter of that invocation.*)
LEMMA OneSteps ==
    ASSUME TypeOK, Alone, NEW s \in Scripts, pc[s] # "idle",
           NEW label \in Labels, Move(s, label), Handles(s)',
           label \notin {"truncate", "write"} => Named'
    PROVE  Serial'
<1>1. \A t \in Scripts : pc'[t] = IF t = s THEN label ELSE pc[t]
  BY DEF Move, TypeOK
<1>2. \A t \in Scripts : t # s => pc[t] = "idle"
  BY DEF Alone
<1>3. Alone'
  BY <1>1, <1>2 DEF Alone
<1>4. Known'
  BY <1>1 DEF Known, Launching
<1>5. ASSUME NEW t \in Scripts PROVE Handles(t)'
  BY <1>1, <1>2 DEF Handles
<1> QED BY <1>3, <1>4, <1>5 DEF Serial

(* What a step of the only invocation starts from.                         *)
LEMMA OneKnows ==
    ASSUME Serial, NEW s \in Scripts, pc[s] # "idle"
    PROVE  Handles(s) /\ (pc[s] \notin {"truncate", "write"} => Named)
BY DEF Serial, Alone, Known, Launching

(* A command is one of an invocation that runs, and starts no other.       *)
LEMMA CommandRuns ==
    ASSUME NEW s \in Scripts, Command(s)
    PROVE  pc[s] # "idle" /\ overlapped' = overlapped
<1> USE DEF history
<1>1. CASE is_running(s)
  BY <1>1 DEF is_running, ReadPid, ReadNothing, ProbeAlive, ProbeDead, UnlinkStale,
              UnlinkStaleFails
<1>2. CASE start_server(s)
  BY <1>2 DEF start_server, LaunchRefused, Launch, TruncateFile, TruncateFails,
      WritePid,
              WriteFails, LeaveUnrecorded, VerifyAlive, VerifyDead, GiveUp, GiveUpFails
<1>3. CASE stop_server(s)
  BY <1>3 DEF stop_server, RereadPid, RereadFails, SendTerm, WaitDead, WaitAlive,
              WaitOver, SendKill, Clean, CleanFails
<1> QED BY <1>1, <1>2, <1>3 DEF Command

LEMMA IsRunningKeeps ==
    ASSUME TypeOK, Serial, NEW s \in Scripts, is_running(s)
    PROVE  Serial'
<1> USE DEF Labels, history
<1>0. pc[s] # "idle" /\ Alone
  BY CommandRuns DEF Serial, Command
<1>1. Handles(s) /\ Named
  BY <1>0, OneKnows DEF is_running, ReadPid, ReadNothing, ProbeAlive, ProbeDead,
      UnlinkStale, UnlinkStaleFails
<1>2. CASE ReadPid(s)
  <2>1. Move(s, "probe") /\ Handles(s)' /\ Named'
    BY <1>1, <1>2 DEF ReadPid, Move, Handles, Named, Kept, Serving, TypeOK
  <2> QED BY <1>0, <2>1, OneSteps
<1>3. CASE ReadNothing(s)
  <2>1. \A p \in Pids : ~Kept(p)
    BY <1>1, <1>3 DEF ReadNothing, Named
  <2>2. CASE action[s] = "start" /\ Enter(s, "start", "launch")
    <3>1. Move(s, "launch") /\ Handles(s)' /\ Named'
      BY <1>1, <1>3, <2>1, <2>2 DEF ReadNothing, Enter, Move, Handles, Named, Kept,
          Serving, TypeOK
    <3> QED BY <1>0, <3>1, OneSteps
  <2>3. CASE action[s] = "restart" /\ Enter(s, "start", "read")
    <3>1. Move(s, "read") /\ Handles(s)' /\ Named'
      BY <1>1, <1>3, <2>1, <2>3 DEF ReadNothing, Enter, Move, Handles, Named, Kept,
          Serving, TypeOK
    <3> QED BY <1>0, <3>1, OneSteps
  <2>4. CASE action[s] \in {"stop", "status"} /\ Exit(s)
    <3>1. Move(s, "idle") /\ Handles(s)' /\ Named'
      BY <1>1, <1>3, <2>1, <2>4 DEF ReadNothing, Exit, Enter, Move, Handles, Named,
          Kept, Serving, TypeOK
    <3> QED BY <1>0, <3>1, OneSteps
  <2> QED BY <1>3, <2>2, <2>3, <2>4, AfterNotRunning DEF ReadNothing
<1>4. CASE ProbeAlive(s)
  <2>1. CASE action[s] \in {"stop", "restart"} /\ Enter(s, action[s], "reread")
    <3>1. Move(s, "reread") /\ Handles(s)' /\ Named'
      BY <1>1, <1>4, <2>1, PidsAssumption
      DEF ProbeAlive, Alive, Enter, Move, Handles, Named, Kept, Serving, TypeOK
    <3> QED BY <1>0, <3>1, OneSteps
  <2>2. CASE Exit(s)
    <3>1. Move(s, "idle") /\ Handles(s)' /\ Named'
      BY <1>1, <1>4, <2>2 DEF ProbeAlive, Exit, Enter, Move, Handles, Named, Kept,
          Serving, TypeOK
    <3> QED BY <1>0, <3>1, OneSteps
  <2> QED BY <1>4, <2>1, <2>2 DEF ProbeAlive
<1>5. CASE ProbeDead(s)
  <2>1. \A p \in Pids : ~Kept(p)
    BY <1>1, <1>5 DEF ProbeDead, Alive, Named, Handles, Kept, Serving
  <2>2. Move(s, "unlink") /\ Handles(s)' /\ Named'
    BY <1>1, <1>5, <2>1 DEF ProbeDead, Goto, Move, Handles, Named, Kept, Serving, TypeOK
  <2> QED BY <1>0, <2>2, OneSteps
<1>6. CASE UnlinkStale(s) \/ UnlinkStaleFails(s)
  <2>1. \A p \in Pids : ~Kept(p)
    BY <1>1, <1>6 DEF UnlinkStale, UnlinkStaleFails, Handles
  <2>2. CASE action[s] = "start" /\ Enter(s, "start", "launch")
    <3>1. Move(s, "launch") /\ Handles(s)' /\ Named'
      BY <1>1, <1>6, <2>1, <2>2 DEF UnlinkStale, UnlinkStaleFails, Enter, Move,
          Handles, Named, Kept, Serving, TypeOK
    <3> QED BY <1>0, <3>1, OneSteps
  <2>3. CASE action[s] = "restart" /\ Enter(s, "start", "read")
    <3>1. Move(s, "read") /\ Handles(s)' /\ Named'
      BY <1>1, <1>6, <2>1, <2>3 DEF UnlinkStale, UnlinkStaleFails, Enter, Move,
          Handles, Named, Kept, Serving, TypeOK
    <3> QED BY <1>0, <3>1, OneSteps
  <2>4. CASE action[s] \in {"stop", "status"} /\ Exit(s)
    <3>1. Move(s, "idle") /\ Handles(s)' /\ Named'
      BY <1>1, <1>6, <2>1, <2>4 DEF UnlinkStale, UnlinkStaleFails, Exit, Enter, Move,
          Handles, Named, Kept, Serving, TypeOK
    <3> QED BY <1>0, <3>1, OneSteps
  <2> QED BY <1>6, <2>2, <2>3, <2>4, AfterNotRunning DEF UnlinkStale, UnlinkStaleFails
<1> QED BY <1>2, <1>3, <1>4, <1>5, <1>6 DEF is_running

LEMMA StartKeeps ==
    ASSUME TypeOK, Serial, NEW s \in Scripts, start_server(s)
    PROVE  Serial'
<1> USE DEF Labels, history
<1>0. pc[s] # "idle" /\ Alone
  BY CommandRuns DEF Serial, Command
<1>1. Handles(s) /\ (pc[s] \notin {"truncate", "write"} => Named)
  BY <1>0, OneKnows
<1>2. CASE LaunchRefused(s)
  <2>1. Move(s, "idle") /\ Handles(s)' /\ Named'
    BY <1>1, <1>2 DEF LaunchRefused, Exit, Enter, Move, Handles, Named, Kept,
        Serving, TypeOK
  <2> QED BY <1>0, <2>1, OneSteps
<1>3. CASE Launch(s)
  <2>1. Move(s, "truncate") /\ Handles(s)'
    BY <1>1, <1>3 DEF Launch, Move, Handles, Kept, Serving, TypeOK
  <2> QED BY <1>0, <2>1, OneSteps
<1>4. CASE TruncateFile(s)
  <2>1. Move(s, "write") /\ Handles(s)'
    BY <1>1, <1>4 DEF TruncateFile, Goto, Move, Handles, Kept, Serving, TypeOK
  <2> QED BY <1>0, <2>1, OneSteps
<1>5. CASE WritePid(s)
  <2>1. pidFile' = pid[s]
    BY <1>1, <1>5, PidsAssumption DEF WritePid, Handles
  <2>2. Move(s, "verify") /\ Handles(s)' /\ Named'
    BY <1>1, <1>5, <2>1 DEF WritePid, Goto, Move, Handles, Named, Kept, Serving, TypeOK
  <2> QED BY <1>0, <2>2, OneSteps
<1>6. CASE VerifyAlive(s)
  <2>1. Move(s, "idle") /\ Handles(s)' /\ Named'
    BY <1>1, <1>6 DEF VerifyAlive, Exit, Enter, Move, Handles, Named, Kept, Serving,
        TypeOK
  <2> QED BY <1>0, <2>1, OneSteps
<1>7. CASE VerifyDead(s)
  <2>1. \A p \in Pids : ~Kept(p)
    BY <1>1, <1>7 DEF VerifyDead, Alive, Named, Handles, Kept, Serving
  <2>2. Move(s, "giveup") /\ Handles(s)' /\ Named'
    BY <1>1, <1>7, <2>1 DEF VerifyDead, Goto, Move, Handles, Named, Kept, Serving,
        TypeOK
  <2> QED BY <1>0, <2>2, OneSteps
<1>8. CASE GiveUp(s)
  <2>1. Move(s, "idle") /\ Handles(s)' /\ Named'
    BY <1>1, <1>8 DEF GiveUp, Exit, Enter, Move, Handles, Named, Kept, Serving, TypeOK
  <2> QED BY <1>0, <2>1, OneSteps
<1>9. CASE TruncateFails(s) \/ WriteFails(s)
  <2>1. \A p \in Pids : ~Kept(p)'
    BY <1>1, <1>9 DEF TruncateFails, WriteFails, LeaveUnrecorded, Handles, Kept, Serving
  <2>2. Move(s, "idle") /\ Handles(s)' /\ Named'
    BY <1>9, <2>1 DEF TruncateFails, WriteFails, LeaveUnrecorded, Exit, Enter, Move,
                      Handles, Named, TypeOK
  <2> QED BY <1>0, <2>2, OneSteps
<1>10. CASE GiveUpFails(s)
  <2>1. Move(s, "idle") /\ Handles(s)' /\ Named'
    BY <1>1, <1>10 DEF GiveUpFails, Exit, Enter, Move, Handles, Named, Kept, Serving,
        TypeOK
  <2> QED BY <1>0, <2>1, OneSteps
<1> QED BY <1>2, <1>3, <1>4, <1>5, <1>6, <1>7, <1>8, <1>9, <1>10 DEF start_server

(* A signal makes no server, and after SIGKILL its target is none.         *)
LEMMA SignalServes ==
    ASSUME TypeOK, NEW s \in Scripts, NEW signal \in {"termed", "killed"},
           Signal(s, signal), UNCHANGED unrecorded
    PROVE  \A p \in Pids : Kept(p)' => Kept(p) /\ (signal = "killed" => pid[s] # p)
BY DEF Signal, Signalled, Alive, Kept, Serving, TypeOK, Kinds

LEMMA StopKeeps ==
    ASSUME TypeOK, Serial, NEW s \in Scripts, stop_server(s)
    PROVE  Serial'
<1> USE DEF Labels, history
<1>0. pc[s] # "idle" /\ Alone
  BY CommandRuns DEF Serial, Command
<1>1. Handles(s) /\ Named
  BY <1>0, OneKnows
  DEF stop_server, RereadPid, RereadFails, SendTerm, WaitDead, WaitAlive,
      WaitOver, SendKill, Clean, CleanFails
<1>2. CASE RereadPid(s)
  <2>1. Move(s, "term") /\ Handles(s)' /\ Named'
    BY <1>1, <1>2 DEF RereadPid, Move, Handles, Named, Kept, Serving, TypeOK
  <2> QED BY <1>0, <2>1, OneSteps
<1>3. CASE RereadFails(s)
  <2>1. Move(s, "idle") /\ Handles(s)' /\ Named'
    BY <1>1, <1>3 DEF RereadFails, Exit, Enter, Move, Handles, Named, Kept, Serving,
        TypeOK
  <2> QED BY <1>0, <2>1, OneSteps
<1>4. CASE SendTerm(s)
  <2>1. Named'
    BY <1>1, <1>4, SignalServes DEF SendTerm, Named
  <2>2. Move(s, "wait") /\ Handles(s)'
    BY <1>1, <1>4 DEF SendTerm, Goto, Move, Handles, TypeOK
  <2> QED BY <1>0, <2>1, <2>2, OneSteps
<1>5. CASE WaitDead(s)
  <2>1. \A p \in Pids : ~Kept(p)
    BY <1>1, <1>5 DEF WaitDead, Alive, Named, Handles, Kept, Serving
  <2>2. Move(s, "clean") /\ Handles(s)' /\ Named'
    BY <1>1, <1>5, <2>1 DEF WaitDead, Goto, Move, Handles, Named, Kept, Serving, TypeOK
  <2> QED BY <1>0, <2>2, OneSteps
<1>6. CASE WaitAlive(s)
  <2>1. Move(s, "wait") /\ Handles(s)' /\ Named'
    BY <1>1, <1>6 DEF WaitAlive, Move, Handles, Named, Kept, Serving, TypeOK
  <2> QED BY <1>0, <2>1, OneSteps
<1>7. CASE WaitOver(s)
  <2>1. Move(s, "kill") /\ Handles(s)' /\ Named'
    BY <1>1, <1>7 DEF WaitOver, Goto, Move, Handles, Named, Kept, Serving, TypeOK
  <2> QED BY <1>0, <2>1, OneSteps
<1>8. CASE SendKill(s)
  <2>1. \A p \in Pids : ~Kept(p)'
    BY <1>1, <1>8, SignalServes DEF SendKill, Named, Handles
  <2>2. Move(s, "clean") /\ Handles(s)' /\ Named'
    BY <1>1, <1>8, <2>1 DEF SendKill, Goto, Move, Handles, Named, TypeOK
  <2> QED BY <1>0, <2>2, OneSteps
<1>9. CASE Clean(s)
  <2>1. \A p \in Pids : ~Kept(p)
    BY <1>1, <1>9 DEF Clean, Handles
  <2>2. CASE Enter(s, "start", "read")
    <3>1. Move(s, "read") /\ Handles(s)' /\ Named'
      BY <1>9, <2>1, <2>2 DEF Clean, Enter, Move, Handles, Named, Kept, Serving, TypeOK
    <3> QED BY <1>0, <3>1, OneSteps
  <2>3. CASE Exit(s)
    <3>1. Move(s, "idle") /\ Handles(s)' /\ Named'
      BY <1>9, <2>1, <2>3 DEF Clean, Exit, Enter, Move, Handles, Named, Kept,
          Serving, TypeOK
    <3> QED BY <1>0, <3>1, OneSteps
  <2> QED BY <1>9, <2>2, <2>3 DEF Clean, StopReturns
<1>10. CASE CleanFails(s)
  <2>1. Move(s, "idle") /\ Handles(s)' /\ Named'
    BY <1>1, <1>10 DEF CleanFails, Exit, Enter, Move, Handles, Named, Kept, Serving,
        TypeOK
  <2> QED BY <1>0, <2>1, OneSteps
<1> QED BY <1>2, <1>3, <1>4, <1>5, <1>6, <1>7, <1>8, <1>9, <1>10 DEF stop_server

(* Processes that come and go make no server.                              *)
LEMMA ProcessKeeps ==
    ASSUME TypeOK, Serial, NEW q \in Pids, Process(q)
    PROVE  Serial'
<1>1. \A p \in Pids : Kept(p)' => Kept(p)
  BY DEF Process, ServerEnds, KilledEnds, OtherStarts, OtherEnds, Become, Kept,
      Serving, TypeOK
<1>2. UNCHANGED <<pidFile, pc, action, pid>>
  BY DEF Process, ServerEnds, KilledEnds, OtherStarts, OtherEnds, Become, locals
<1>3. Alone'
  BY <1>2 DEF Serial, Alone
<1>4. Known'
  BY <1>1, <1>2 DEF Serial, Known, Launching, Named
<1>5. ASSUME NEW s \in Scripts PROVE Handles(s)'
  BY <1>1, <1>2 DEF Serial, Handles
<1> QED BY <1>3, <1>4, <1>5 DEF Serial

(* IInv is inductive.                                                      *)
THEOREM ScriptInvariant == Spec => []IInv
<1>1. Init => Serial /\ ~overlapped
  <2> SUFFICES ASSUME Init PROVE Serial
    BY DEF Init
  <2>1. \A p \in Pids : ~Kept(p)
    BY DEF Init, Kept, Serving
  <2> QED BY <2>1 DEF Init, Serial, Alone, Known, Named, Handles
<1>2. TypeOK /\ (~overlapped => Serial) /\ [Next]_vars => (~overlapped => Serial)'
  <2> SUFFICES ASSUME TypeOK, ~overlapped => Serial, [Next]_vars, ~overlapped'
               PROVE  Serial'
    OBVIOUS
  <2>1. CASE UNCHANGED vars
    BY <2>1 DEF vars, locals, history, Serial, Alone, Known, Launching, Named, Handles,
                Kept, Serving
  <2>2. ASSUME NEW s \in Scripts, NEW a \in Actions, Invoke(s, a) PROVE Serial'
    <3>1. Idle /\ Serial
      BY <2>2 DEF Invoke
    <3>2. pc' = [pc EXCEPT ![s] = "read"] /\ UNCHANGED <<pidFile, proc, unrecorded>>
      BY <2>2 DEF Invoke, Enter, Move
    <3>3. \A t \in Scripts : pc'[t] = IF t = s THEN "read" ELSE "idle"
      BY <3>1, <3>2 DEF Idle, TypeOK
    <3>4. Named
      BY <3>1 DEF Serial, Known, Launching, Idle
    <3>5. Alone' /\ Known'
      BY <3>2, <3>3, <3>4 DEF Alone, Known, Named, Kept, Serving
    <3>6. ASSUME NEW t \in Scripts PROVE Handles(t)'
      BY <3>3 DEF Handles
    <3> QED BY <3>5, <3>6 DEF Serial
  <2>3. ASSUME NEW s \in Scripts, Command(s) PROVE Serial'
    <3>1. overlapped' = overlapped
      BY <2>3, CommandRuns
    <3> QED BY <2>3, <3>1, IsRunningKeeps, StartKeeps, StopKeeps DEF Command
  <2>4. ASSUME NEW p \in Pids, Process(p) PROVE Serial'
    <3>1. overlapped' = overlapped
      BY <2>4 DEF Process, ServerEnds, KilledEnds, OtherStarts, OtherEnds, Become
    <3> QED BY <2>4, <3>1, ProcessKeeps
  <2>5. CASE Reboot
    <3>1. \A p \in Pids : ~Kept(p)'
      BY <2>5 DEF Reboot, Kept, Serving
    <3> QED BY <2>5, <3>1 DEF Reboot, Serial, Alone, Known, Named, Handles
  <2> QED BY <2>1, <2>2, <2>3, <2>4, <2>5 DEF Next
<1> QED BY <1>1, <1>2, ScriptTypes, PTL DEF Spec, IInv

(* Between invocations that did not overlap, every server that runs is the *)
(* one the pid file names, but for those whose start was told that it      *)
(* could not be written.                                                   *)
THEOREM NoServerIsLost == Spec => []NoLostServer
<1>1. IInv => NoLostServer
  BY DEF IInv, Serial, Known, Launching, Named, NoLostServer, Idle
<1> QED BY <1>1, ScriptInvariant, PTL

(* Unless invocations overlap, there are never two servers, but for those  *)
(* whose start failed to record them.                                      *)
THEOREM NeverTwoServers == Spec => []OneServer
<1>1. IInv => OneServer
  <2> SUFFICES ASSUME Serial PROVE Cardinality({p \in Pids : Kept(p)}) <= 1
    BY DEF IInv, OneServer
  <2> DEFINE S == {p \in Pids : Kept(p)}
  <2>1. \A p, q \in S : p = q
    BY DEF Serial, Known, Launching, Named, Handles
  <2>2. CASE S = {}
    BY <2>2, FS_EmptySet
  <2>3. CASE S # {}
    <3>1. PICK p \in S : TRUE
      BY <2>3
    <3>2. S = {p}
      BY <2>1, <3>1
    <3>3. Cardinality({p}) = 1
      BY FS_Singleton
    <3> QED BY <3>2, <3>3
  <2> QED BY <2>2, <2>3
<1> QED BY <1>1, ScriptInvariant, PTL

(* When a stop that did not overlap another invocation returns, no server  *)
(* runs but one that was never recorded.                                   *)
THEOREM StopStops == Spec => StopLeavesNone
<1> DEFINE Stopped == \A s \in Scripts :
        (action[s] = "stop" /\ pc[s] # "idle" /\ pc'[s] = "idle" /\ ~overlapped)
            => \A p \in Pids : ~Kept(p)'
<1>1. IInv /\ [Next]_vars => [Stopped]_vars
  <2> SUFFICES ASSUME TypeOK, Serial, Next, NEW s \in Scripts,
                      action[s] = "stop", pc[s] # "idle", pc'[s] = "idle"
               PROVE  \A p \in Pids : ~Kept(p)'
    BY DEF IInv
  <2>1. Alone /\ Handles(s) /\ (pc[s] \notin {"truncate", "write"} => Named)
    BY OneKnows DEF Serial
  <2>2. CASE Reboot
    BY <2>2 DEF Reboot, Kept, Serving
  <2>3. ASSUME NEW p \in Pids, Process(p) PROVE FALSE
    BY <2>3 DEF Process, ServerEnds, KilledEnds, OtherStarts, OtherEnds, Become, locals
  <2>4. ASSUME NEW t \in Scripts, NEW a \in Actions, Invoke(t, a) PROVE FALSE
    BY <2>4 DEF Invoke, Enter, Move, TypeOK
  <2>5. ASSUME NEW t \in Scripts, Command(t) PROVE t = s
    <3>1. pc[t] # "idle"
      BY <2>5, CommandRuns
    <3> QED BY <2>1, <3>1 DEF Alone
  <2>6. CASE is_running(s)
    BY <2>1, <2>6, AfterNotRunning
    DEF history, is_running, ReadPid, ReadNothing, ProbeAlive, ProbeDead,
        UnlinkStale, UnlinkStaleFails,
        Enter, Goto, Move, Handles, Named, Kept, Serving, TypeOK
  <2>7. CASE start_server(s)
    BY <2>1, <2>7 DEF start_server, LaunchRefused, Launch, TruncateFile, TruncateFails,
                      WritePid, WriteFails, VerifyAlive, VerifyDead, GiveUp,
                      GiveUpFails,
                      Handles
  <2>8. CASE stop_server(s)
    BY <2>1, <2>8 DEF stop_server, RereadPid, RereadFails, SendTerm, WaitDead,
        WaitAlive,
                      WaitOver, SendKill, Clean, CleanFails, history, Goto, Move,
                      Handles,
                      Named, Kept, Serving, TypeOK
  <2> QED BY <2>2, <2>3, <2>4, <2>5, <2>6, <2>7, <2>8 DEF Next, Command
<1> QED BY <1>1, ScriptInvariant, PTL DEF Spec, StopLeavesNone

=============================================================================
