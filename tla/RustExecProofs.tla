--------------------------- MODULE RustExecProofs ---------------------------
(***************************************************************************)
(* Proofs about RustExec: whatever the command does, whenever the timer    *)
(* fires, whatever fails and whether or not the client stays, a call that  *)
(* replies has its shell reaped unless it tells that it could not be, and  *)
(* one that replies ok has all output read.                                *)
(***************************************************************************)
EXTENDS RustExec, SequenceTheorems, TLAPS

(* A step of the command keeps its types, ends the shell at most, and      *)
(* opens no pipe again that nobody holds open.                             *)
LEMMA CommandStepKeeps ==
    ASSUME CommandTypeOK, CommandStep
    PROVE  /\ CommandTypeOK'
           /\ \/ UNCHANGED <<shell, status>>
              \/ shell = "running" /\ shell' = "zombie" /\ status = Running
           /\ shell = "running" \/ background' \subseteq background
           /\ \A s \in Streams : PipeEnded(s) => PipeEnded(s)'
<1> USE CommandAssumption
<1>1. ASSUME NEW p \in Processes, NEW s \in Streams, Write(p, s)
      PROVE  /\ CommandTypeOK' /\ UNCHANGED <<shell, status, background>>
             /\ Writers # {}
  <2>1. pipe[s] \in Seq(Processes)
    BY DEF CommandTypeOK
  <2>2. Append(pipe[s], p) \in Seq(Processes)
    BY <2>1, AppendProperties
  <2>3. pipe' = [pipe EXCEPT ![s] = Append(pipe[s], p)]
    BY <1>1 DEF Write
  <2>4. CommandTypeOK'
    BY <1>1, <2>2, <2>3 DEF CommandTypeOK, Write
  <2>5. QED BY <1>1, <2>4 DEF Write
<1>2. ASSUME NEW b \in Background, StartProcess(b)
      PROVE  /\ CommandTypeOK' /\ UNCHANGED <<shell, status, pipe>>
             /\ shell = "running"
  BY <1>2 DEF StartProcess, CommandTypeOK
<1>3. ASSUME NEW b \in Background, ProcessEnds(b)
      PROVE  /\ CommandTypeOK' /\ UNCHANGED <<shell, status, pipe>>
             /\ background' \subseteq background
  BY <1>3 DEF ProcessEnds, CommandTypeOK
<1>4. ASSUME ShellEnds
      PROVE  /\ CommandTypeOK' /\ UNCHANGED <<pipe, background>>
             /\ shell = "running" /\ shell' = "zombie" /\ status = Running
  BY <1>4 DEF ShellEnds, CommandTypeOK
<1>5. CASE \E p \in Processes, s \in Streams : Write(p, s)
  BY <1>1, <1>5 DEF PipeEnded
<1>6. CASE \E b \in Background : StartProcess(b) \/ ProcessEnds(b)
  BY <1>2, <1>3, <1>6 DEF PipeEnded, Writers
<1>7. CASE ShellEnds
  BY <1>4, <1>7 DEF PipeEnded, Writers
<1>8. QED BY <1>5, <1>6, <1>7 DEF CommandStep

(* A task takes all there is and leaves an ended pipe as it is.            *)
LEMMA ReadSomeKeeps ==
    ASSUME CommandTypeOK, NEW s \in Streams, ReadSome(s)
    PROVE  /\ CommandTypeOK' /\ UNCHANGED <<shell, status, background, task>>
           /\ \A t \in Streams : PipeEnded(t) => PipeEnded(t)'
<1>1. pipe[s] \in Seq(Processes) /\ Len(pipe[s]) \in Nat
  BY LenProperties DEF CommandTypeOK
<1> DEFINE rest == SubSeq(pipe[s], Len(pipe[s]) + 1, Len(pipe[s]))
<1>2. rest \in Seq(Processes)
  BY <1>1, SubSeqProperties
<1>3. pipe' = [pipe EXCEPT ![s] = rest] /\ UNCHANGED <<shell, status, background, started, writes>>
  BY DEF ReadSome, Taken
<1> HIDE DEF rest
<1>4. CommandTypeOK'
  BY <1>2, <1>3 DEF CommandTypeOK
<1>5. \A t \in Streams : PipeEnded(t) => PipeEnded(t)'
  BY <1>3 DEF ReadSome, PipeEnded, Writers, CommandTypeOK
<1>6. QED BY <1>3, <1>4, <1>5 DEF ReadSome

-----------------------------------------------------------------------------
LEMMA Typed ==
    /\ \A e \in Errors : [ok |-> FALSE, error |-> e] \in Replies
    /\ \A b \in BOOLEAN, c \in Codes :
           [ok |-> TRUE, timed_out |-> b, exit_code |-> c] \in Replies
    /\ {1, 124} \subseteq Codes /\ OwnCodes \subseteq Codes
BY DEF Replies, Codes

LEMMA Initially == Init => IInv
<1> SUFFICES ASSUME Init PROVE IInv
  OBVIOUS
<1>1. CommandTypeOK
  BY CommandAssumption, EmptySeq DEF Init, CommandInit, CommandTypeOK
<1>2. result \in [timed_out : BOOLEAN, exit_code : Codes]
  BY DEF Init, NoResult, Codes
<1>3. /\ pc = "start" /\ reply = NoReply /\ late \in BOOLEAN
      /\ task = [s \in Streams |-> "reading"]
  BY DEF Init
<1>4. TypeOK
  BY <1>1, <1>2, <1>3 DEF TypeOK
<1>5. Phases /\ Verdict /\ ReapedAtReturn
  BY <1>3 DEF Init, CommandInit, Phases, Verdict, ReapedAtReturn
<1>6. \A s \in Streams : Drained(s)
  BY <1>3 DEF Drained
<1>7. QED BY <1>4, <1>5, <1>6 DEF IInv

(* The shell is reaped and its code put into the result.                   *)
LEMMA JoinKeeps ==
    ASSUME IInv, NEW timedOut \in BOOLEAN, NEW default \in {1, 124},
           pc \in {"wait", "kill"}, shell = "zombie",
           Join(timedOut, CodeOr(default)), UNCHANGED <<task, late>>
    PROVE  IInv'
<1> USE CommandAssumption, RustExecAssumption
<1>0. /\ TypeOK /\ CommandTypeOK /\ Phases /\ Verdict /\ ReapedAtReturn
      /\ \A s \in Streams : Drained(s)
  BY DEF IInv, TypeOK
<1>1. /\ shell' = "reaped" /\ pc' = "join"
      /\ UNCHANGED <<status, background, started, pipe, writes, reply>>
      /\ result' = [timed_out |-> timedOut, exit_code |-> CodeOr(default)]
  BY DEF Join, Reaped
<1>2. status \in OwnCodes \cup {Signalled} /\ CodeOr(default) \in Codes
  BY <1>0, Typed DEF CommandTypeOK, CodeOr
<1>3. TypeOK'
  BY <1>0, <1>1, <1>2 DEF TypeOK, CommandTypeOK
<1>4. Phases'
  BY <1>1 DEF Phases
<1>5. Verdict' /\ ReapedAtReturn'
  BY <1>1 DEF Verdict, ReapedAtReturn
<1>6. \A s \in Streams : Drained(s)'
  BY <1>0, <1>1 DEF Drained, PipeEnded, Writers
<1>7. QED BY <1>3, <1>4, <1>5, <1>6 DEF IInv

LEMMA ReturnKeeps ==
    ASSUME IInv, NEW r \in Replies, Return(r), pc # "return",
           r.ok => TasksAtEnd,
           r.ok \/ r.error \notin CannotReap => pc \in {"start", "join"},
           UNCHANGED <<command, result, task, late>>
    PROVE  IInv'
<1> USE RustExecAssumption
<1>0. /\ TypeOK /\ CommandTypeOK /\ Phases /\ Verdict /\ ReapedAtReturn
      /\ \A s \in Streams : Drained(s)
  BY DEF IInv, TypeOK
<1>1. reply' = r /\ pc' = "return" /\ r # NoReply
  BY DEF Return
<1>2. TypeOK'
  BY <1>0, <1>1 DEF TypeOK, CommandTypeOK, command
<1>3. Phases' /\ Verdict' /\ ReapedAtReturn'
  BY <1>0, <1>1 DEF Phases, Verdict, ReapedAtReturn, TasksAtEnd, command
<1>4. \A s \in Streams : Drained(s)'
  BY <1>0, <1>1 DEF Drained, PipeEnded, Writers, command
<1>5. QED BY <1>2, <1>3, <1>4 DEF IInv

LEMMA FailureKeeps ==
    ASSUME IInv, NEW e \in Errors, ReturnError(e), pc # "return",
           e \notin CannotReap => pc \in {"start", "join"},
           UNCHANGED <<command, result, task, late>>
    PROVE  IInv'
<1> DEFINE failed == [ok |-> FALSE, error |-> e]
<1>1. failed \in Replies /\ ~failed.ok /\ failed.error = e
  BY Typed
<1>2. Return(failed)
  BY DEF ReturnError
<1> HIDE DEF failed
<1>3. QED BY <1>1, <1>2, ReturnKeeps

LEMMA CallStepKeeps ==
    ASSUME IInv, CallStep, UNCHANGED <<task, late>>
    PROVE  IInv'
<1> USE CommandAssumption, RustExecAssumption
<1>0. /\ TypeOK /\ CommandTypeOK /\ Phases /\ Verdict /\ ReapedAtReturn
      /\ \A s \in Streams : Drained(s)
  BY DEF IInv, TypeOK
<1>1. CASE Refuse
  BY <1>1, FailureKeeps DEF Refuse, Errors
<1>2. CASE Start
  <2>1. /\ shell' = "running" /\ pc = "start" /\ pc' = "wait"
        /\ UNCHANGED <<status, background, started, pipe, writes, result, reply>>
    BY <1>2 DEF Start, Spawned
  <2>2. TypeOK' /\ Phases' /\ Verdict' /\ ReapedAtReturn'
    BY <1>0, <2>1 DEF TypeOK, CommandTypeOK, Phases, Verdict, ReapedAtReturn
  <2>3. \A s \in Streams : Drained(s)'
    BY <1>0, <2>1 DEF Drained
  <2>4. QED BY <2>2, <2>3 DEF IInv
<1>3. CASE ShellFinished
  BY <1>3, JoinKeeps DEF ShellFinished
<1>4. CASE TimeOut
  <2>1. /\ pc = "wait" /\ pc' = "kill"
        /\ UNCHANGED <<background, started, pipe, writes, result, reply>>
        /\ \/ shell = "running" /\ shell' = "zombie" /\ status' = Signalled
           \/ shell = "zombie" /\ UNCHANGED <<shell, status>>
    BY <1>0, <1>4 DEF TimeOut, Killed, Phases
  <2>2. TypeOK' /\ Phases' /\ Verdict' /\ ReapedAtReturn'
    BY <1>0, <2>1 DEF TypeOK, CommandTypeOK, Phases, Verdict, ReapedAtReturn
  <2>3. \A s \in Streams : Drained(s)'
    BY <1>0, <2>1 DEF Drained, PipeEnded, Writers
  <2>4. QED BY <2>2, <2>3 DEF IInv
<1>5. CASE KilledFinished
  BY <1>5, JoinKeeps DEF KilledFinished
<1>6. CASE Answer
  <2> DEFINE done == [ok |-> TRUE, timed_out |-> result.timed_out, exit_code |-> result.exit_code]
  <2>1. result.timed_out \in BOOLEAN /\ result.exit_code \in Codes
    BY <1>0 DEF TypeOK
  <2>2. done \in Replies
    BY <2>1, Typed
  <2>3. pc = "join" /\ TasksAtEnd /\ Return(done) /\ UNCHANGED <<command, result>>
    BY <1>6 DEF Answer
  <2> HIDE DEF done
  <2>4. QED BY <2>2, <2>3, ReturnKeeps
<1>7. CASE AnswerError
  BY <1>7, FailureKeeps DEF AnswerError, Errors
<1>8. QED BY <1>1, <1>2, <1>3, <1>4, <1>5, <1>6, <1>7 DEF CallStep

LEMMA CallFailsKeeps ==
    ASSUME IInv, CallFails, UNCHANGED <<task, late>>
    PROVE  IInv'
BY FailureKeeps DEF CallFails, WaitFails, KillFails, KilledUnwaited, Errors, CannotReap

LEMMA StepKeeps == IInv /\ [Next]_vars => IInv'
<1> SUFFICES ASSUME IInv, [Next]_vars PROVE IInv'
  OBVIOUS
<1> USE CommandAssumption, RustExecAssumption
<1>0. /\ TypeOK /\ CommandTypeOK /\ Phases /\ Verdict /\ ReapedAtReturn
      /\ \A s \in Streams : Drained(s)
  BY DEF IInv, TypeOK
<1>1. CASE (CallStep \/ CallFails) /\ UNCHANGED <<task, late>>
  BY <1>1, CallStepKeeps, CallFailsKeeps
<1>2. CASE Disconnect
  BY <1>0, <1>2 DEF Disconnect, IInv, TypeOK, CommandTypeOK, Phases, Verdict,
      ReapedAtReturn, Drained,
     PipeEnded, Writers, command
<1>3. ASSUME NEW s \in Streams, ReadSome(s), UNCHANGED <<server, late>>
      PROVE  IInv'
  <2>1. /\ CommandTypeOK' /\ UNCHANGED <<shell, status, background, task>>
        /\ \A t \in Streams : PipeEnded(t) => PipeEnded(t)'
    BY <1>0, <1>3, ReadSomeKeeps
  <2>2. TypeOK' /\ Phases' /\ Verdict' /\ ReapedAtReturn'
    BY <1>0, <1>3, <2>1 DEF TypeOK, Phases, Verdict, ReapedAtReturn, TasksAtEnd, server
  <2>3. \A t \in Streams : Drained(t)'
    BY <1>0, <1>3, <2>1 DEF Drained, server
  <2>4. QED BY <2>2, <2>3 DEF IInv
<1>4. ASSUME NEW s \in Streams, ReadEnd(s), UNCHANGED <<server, late>>
      PROVE  IInv'
  <2>1. /\ task' = [task EXCEPT ![s] = "end"] /\ pc # "start" /\ PipeEnded(s)
        /\ UNCHANGED <<command, pc, result, reply, late>>
    BY <1>4 DEF ReadEnd, server
  <2>2. TypeOK' /\ Phases'
    BY <1>0, <2>1 DEF TypeOK, CommandTypeOK, Phases, command
  <2>3. Verdict' /\ ReapedAtReturn'
    BY <1>0, <2>1 DEF Verdict, ReapedAtReturn, TasksAtEnd, TypeOK, command
  <2>4. \A t \in Streams : Drained(t)'
    BY <1>0, <2>1 DEF Drained, PipeEnded, Writers, TypeOK, command
  <2>5. QED BY <2>2, <2>3, <2>4 DEF IInv
<1>5. CASE CommandStep /\ UNCHANGED <<server, task, late>>
  <2>1. /\ CommandTypeOK'
        /\ \/ UNCHANGED <<shell, status>>
           \/ shell = "running" /\ shell' = "zombie" /\ status = Running
        /\ shell = "running" \/ background' \subseteq background
        /\ \A s \in Streams : PipeEnded(s) => PipeEnded(s)'
    BY <1>0, <1>5, CommandStepKeeps
  <2>2. TypeOK'
    BY <1>0, <1>5, <2>1 DEF TypeOK, server
  <2>3. Phases' /\ Verdict' /\ ReapedAtReturn'
    BY <1>0, <1>5, <2>1 DEF Phases, Verdict, ReapedAtReturn, TasksAtEnd, server
  <2>4. \A s \in Streams : Drained(s)'
    BY <1>0, <1>5, <2>1 DEF Drained, server
  <2>5. QED BY <2>2, <2>3, <2>4 DEF IInv
<1>6. CASE Clock
  BY <1>0, <1>6 DEF Clock, IInv, TypeOK, CommandTypeOK, Phases, Verdict,
      ReapedAtReturn, TasksAtEnd, Drained,
     PipeEnded, Writers, command, server
<1>7. CASE UNCHANGED vars
  BY <1>0, <1>7 DEF IInv, TypeOK, CommandTypeOK, Phases, Verdict, ReapedAtReturn,
      TasksAtEnd, Drained,
     PipeEnded, Writers, vars, command, server
<1>8. ASSUME NEW s \in Streams, ReadFails(s), UNCHANGED <<server, late>>
      PROVE  IInv'
  <2>1. /\ task' = [task EXCEPT ![s] = "failed"] /\ task[s] = "reading"
        /\ UNCHANGED <<command, pc, result, reply, late>>
    BY <1>8 DEF ReadFails, server
  <2>2. TypeOK' /\ Phases' /\ ReapedAtReturn'
    BY <1>0, <2>1 DEF TypeOK, CommandTypeOK, Phases, ReapedAtReturn, command
  <2>3. Verdict'
    BY <1>0, <2>1 DEF Verdict, TasksAtEnd, TypeOK, command
  <2>4. \A t \in Streams : Drained(t)'
    BY <1>0, <2>1 DEF Drained, PipeEnded, Writers, TypeOK, command
  <2>5. QED BY <2>2, <2>3, <2>4 DEF IInv
<1>9. QED BY <1>1, <1>2, <1>3, <1>4, <1>5, <1>6, <1>7, <1>8 DEF Next, TaskStep

LEMMA Invariance == Spec => []IInv
BY Initially, StepKeeps, PTL DEF Spec

-----------------------------------------------------------------------------
(* A call that replies has no process of its own left over: its shell was  *)
(* never started or is reaped, for any command, any timeout and failing    *)
(* reads, unless the reply tells that the wait or the kill failed.         *)
THEOREM RustShellIsReaped == Spec => []ReapedAtReturn
<1>1. IInv => ReapedAtReturn
  BY DEF IInv
<1>2. QED BY Invariance, <1>1, PTL

(* A reply comes after the last byte of the command: both tasks saw the    *)
(* end of their pipe, which cannot be written to again.                    *)
THEOREM RustReadsAll == Spec => []AllOutputRead
<1>1. IInv => AllOutputRead
  BY DEF IInv, Verdict, TasksAtEnd, Drained, PipeEnded, AllOutputRead, Streams
<1>2. QED BY Invariance, <1>1, PTL

=============================================================================
