---------------------------- MODULE CppExecProofs ----------------------------
(***************************************************************************)
(* Proofs about CppExec: whatever the command does and whenever the        *)
(* timeout comes, a call returns with its shell reaped, with all that the  *)
(* shell wrote read, and with the reply that ExecPromise allows.           *)
(***************************************************************************)
EXTENDS CppExec, SequenceTheorems, TLAPS

(* A step of the command keeps its types, ends the shell at most, and      *)
(* writes for the shell only while it runs.                                *)
LEMMA CommandStepKeeps ==
    ASSUME CommandTypeOK, CommandStep
    PROVE  /\ CommandTypeOK'
           /\ \/ UNCHANGED <<shell, status>>
              \/ shell = "running" /\ shell' = "zombie" /\ status = Running
           /\ shell # "running" =>
                  \A s \in Streams : ~ShellUnread(s) => ~ShellUnread(s)'
<1> USE CommandAssumption
<1>1. ASSUME NEW p \in Processes, NEW s \in Streams, Write(p, s)
      PROVE  /\ CommandTypeOK' /\ UNCHANGED <<shell, status>>
             /\ shell # "running" => \A t \in Streams : ~ShellUnread(t) => ~ShellUnread(t)'
  <2>1. pipe[s] \in Seq(Processes)
    BY DEF CommandTypeOK
  <2>2. /\ Append(pipe[s], p) \in Seq(Processes)
        /\ Len(Append(pipe[s], p)) = Len(pipe[s]) + 1
        /\ \A i \in 1 .. Len(pipe[s]) : Append(pipe[s], p)[i] = pipe[s][i]
        /\ Append(pipe[s], p)[Len(pipe[s]) + 1] = p
        /\ Len(pipe[s]) \in Nat
    BY <2>1, AppendProperties
  <2>3. pipe' = [pipe EXCEPT ![s] = Append(pipe[s], p)]
    BY <1>1 DEF Write
  <2>4. CommandTypeOK'
    BY <1>1, <2>2, <2>3 DEF CommandTypeOK, Write
  <2>5. ASSUME shell # "running", NEW t \in Streams, ~ShellUnread(t)
        PROVE  ~ShellUnread(t)'
    <3>1. p # Shell
      BY <1>1, <2>5 DEF Write, Writers, CommandTypeOK
    <3>2. CASE t = s
      BY <2>2, <2>3, <2>5, <3>1, <3>2 DEF ShellUnread, CommandTypeOK
    <3>3. CASE t # s
      BY <2>3, <2>5, <3>3 DEF ShellUnread, CommandTypeOK
    <3>4. QED BY <3>2, <3>3
  <2>6. QED BY <1>1, <2>4, <2>5 DEF Write
<1>2. ASSUME NEW b \in Background, StartProcess(b) \/ ProcessEnds(b)
      PROVE  /\ CommandTypeOK' /\ UNCHANGED <<shell, status, pipe>>
  BY <1>2 DEF StartProcess, ProcessEnds, CommandTypeOK
<1>3. ASSUME ShellEnds
      PROVE  /\ CommandTypeOK' /\ UNCHANGED pipe
             /\ shell = "running" /\ shell' = "zombie" /\ status = Running
  BY <1>3 DEF ShellEnds, CommandTypeOK
<1>4. QED BY <1>1, <1>2, <1>3 DEF CommandStep, ShellUnread

LEMMA TakenKeeps ==
    ASSUME CommandTypeOK, NEW s \in Streams, NEW n \in Nat, n <= Len(pipe[s]), Taken(s, n)
    PROVE  /\ CommandTypeOK'
           /\ \A t \in Streams : ~ShellUnread(t) => ~ShellUnread(t)'
<1>1. pipe[s] \in Seq(Processes) /\ Len(pipe[s]) \in Nat
  BY DEF CommandTypeOK
<1> DEFINE rest == SubSeq(pipe[s], n + 1, Len(pipe[s]))
<1>2. /\ rest \in Seq(Processes)
      /\ Len(rest) = IF n + 1 <= Len(pipe[s]) THEN Len(pipe[s]) - (n + 1) + 1 ELSE 0
      /\ \A i \in 1 .. Len(pipe[s]) - (n + 1) + 1 : rest[i] = pipe[s][n + 1 + i - 1]
  BY <1>1, SubSeqProperties
<1>3. pipe' = [pipe EXCEPT ![s] = rest]
  BY DEF Taken
<1> HIDE DEF rest
<1>4. \A i \in 1 .. Len(rest) : \E j \in 1 .. Len(pipe[s]) : rest[i] = pipe[s][j]
  <2> TAKE i \in 1 .. Len(rest)
  <2>1. n + i \in 1 .. Len(pipe[s]) /\ i \in 1 .. Len(pipe[s]) - (n + 1) + 1
    BY <1>1, <1>2
  <2>2. rest[i] = pipe[s][n + i]
    BY <1>1, <1>2, <2>1
  <2>3. QED BY <2>1, <2>2
<1>5. CommandTypeOK'
  BY <1>2, <1>3 DEF CommandTypeOK, Taken
<1>6. ASSUME NEW t \in Streams, ~ShellUnread(t)
      PROVE  ~ShellUnread(t)'
  <2>1. CASE t = s
    BY <1>3, <1>4, <1>6, <2>1 DEF ShellUnread, CommandTypeOK
  <2>2. CASE t # s
    BY <1>3, <1>6, <2>2 DEF ShellUnread, CommandTypeOK
  <2>3. QED BY <2>1, <2>2
<1>7. QED BY <1>5, <1>6

-----------------------------------------------------------------------------
(* Replies are replies, and codes codes.                                   *)
LEMMA RepliesTyped ==
    /\ [ok |-> FALSE] \in Replies
    /\ \A b \in BOOLEAN, c \in Codes :
           [ok |-> TRUE, timed_out |-> b, exit_code |-> c] \in Replies
    /\ \A st \in OwnCodes \cup {Signalled} : CodeOf(st) \in Codes
    /\ 124 \in Codes /\ -1 \in Codes
<1>1. [ok |-> FALSE] \in Replies
  BY DEF Replies
<1>2. \A b \in BOOLEAN, c \in Codes : [ok |-> TRUE, timed_out |-> b, exit_code |-> c] \in Replies
  BY DEF Replies
<1>3. \A st \in OwnCodes \cup {Signalled} : CodeOf(st) \in Codes
  BY DEF CodeOf, Codes
<1>4. QED BY <1>1, <1>2, <1>3 DEF Codes

LEMMA Initially == Init => IInv
<1> SUFFICES ASSUME Init PROVE IInv
  OBVIOUS
<1>0. CommandTypeOK
  BY CommandAssumption, EmptySeq DEF Init, CommandInit, CommandTypeOK
<1>1. TypeOK
  <2>1. result \in [timed_out : BOOLEAN, exit_code : Codes]
    BY DEF Init, NoResult, Codes
  <2>2. pc = "start" /\ reply = NoReply /\ finished \in BOOLEAN /\ late \in BOOLEAN
    BY DEF Init
  <2>3. QED BY <1>0, <2>1, <2>2 DEF TypeOK
<1>2. Phases /\ Verdict /\ LastReads
  BY DEF Init, CommandInit, NoResult, Phases, Verdict, LastReads
<1>3. QED BY <1>1, <1>2 DEF IInv

LEMMA StepKeeps == IInv /\ [Next]_vars => IInv'
<1> SUFFICES ASSUME IInv, [Next]_vars PROVE IInv'
  OBVIOUS
<1> USE CommandAssumption, CppExecAssumption
<1>0. CommandTypeOK /\ TypeOK /\ Phases /\ Verdict /\ LastReads
  BY DEF IInv, TypeOK
<1> DEFINE failed == [ok |-> FALSE]
           done   == [ok |-> TRUE, timed_out |-> result.timed_out, exit_code |-> result.exit_code]
<1>a. /\ failed \in Replies /\ failed # NoReply /\ ~failed.ok
      /\ done \in Replies /\ done # NoReply
  BY <1>0, RepliesTyped DEF TypeOK
<1> HIDE DEF failed, done
<1>1. CASE ServerStep /\ UNCHANGED late
  <2>1. CASE Refuse
    <3>1. /\ reply' = failed /\ pc' = "return" /\ pc = "start"
          /\ UNCHANGED <<command, finished, result, late>>
      BY <1>1, <2>1 DEF Refuse, ReturnError, Return, failed
    <3>2. TypeOK'
      BY <1>0, <1>a, <3>1 DEF TypeOK, CommandTypeOK, command
    <3>3. Phases' /\ Verdict' /\ LastReads'
      BY <1>0, <1>a, <3>1 DEF Phases, Verdict, LastReads, CodeOf, command
    <3>4. QED BY <3>2, <3>3 DEF IInv
  <2>2. CASE Start
    BY <1>0, <1>1, <2>2 DEF Start, Spawned, IInv, TypeOK, CommandTypeOK, Phases,
       Verdict, LastReads, ShellUnread, CodeOf
  <2>3. ASSUME NEW s \in Streams, ReadSome(s)
        PROVE  IInv'
    <3> DEFINE n == Shorter(Len(pipe[s]), ReadSize)
    <3>1. n \in Nat /\ n <= Len(pipe[s]) /\ Taken(s, n)
      <4>1. Len(pipe[s]) \in Nat
        BY <1>0, LenProperties DEF CommandTypeOK
      <4>2. QED BY <2>3, <4>1 DEF ReadSome, Shorter
    <3> HIDE DEF n
    <3>2. CommandTypeOK' /\ \A t \in Streams : ~ShellUnread(t) => ~ShellUnread(t)'
      BY <1>0, <3>1, TakenKeeps
    <3>3. TypeOK'
      BY <1>0, <1>1, <2>3, <3>2 DEF ReadSome, TypeOK
    <3>4. pc' = pc /\ pc \in Streams /\ UNCHANGED <<shell, status, finished, result, reply, late>>
      BY <1>1, <2>3, <3>1 DEF ReadSome, Taken, Streams
    <3>5. Phases' /\ Verdict'
      BY <1>0, <3>4 DEF Phases, Verdict, CodeOf
    <3>6. LastReads'
      BY <1>0, <3>2, <3>4 DEF LastReads, Streams
    <3>7. QED BY <3>3, <3>5, <3>6 DEF IInv
  <2>4. ASSUME NEW s \in Streams, ReadFails(s)
        PROVE  IInv'
    BY <1>0, <1>1, <2>4 DEF ReadFails, Killed, IInv, TypeOK, CommandTypeOK, Phases,
       Verdict, LastReads, ShellUnread, CodeOf, Streams
  <2>5. CASE StdoutRead
    BY <1>0, <1>1, <2>5 DEF StdoutRead, IInv, TypeOK, CommandTypeOK, Phases,
       Verdict, LastReads, ShellUnread, CodeOf, command
  <2>6. CASE StderrRead
    <3>1. CASE finished
      <4>0. /\ reply' = done /\ pc' = "return" /\ pc = "stderr"
            /\ UNCHANGED <<command, finished, result, late>>
        BY <1>1, <2>6, <3>1 DEF StderrRead, ReturnResult, Return, done
      <4>1. TypeOK'
        BY <1>0, <1>a, <4>0 DEF TypeOK, CommandTypeOK, command
      <4>2. Phases' /\ Verdict'
        BY <1>0, <3>1, <4>0 DEF Phases, Verdict, CodeOf, command
      <4>3. LastReads'
        BY <1>0, <1>1, <2>6, <3>1 DEF StderrRead, ReturnResult, Return, Phases, LastReads,
           ShellUnread, Streams, command
      <4>4. QED BY <4>1, <4>2, <4>3 DEF IInv
    <3>2. CASE ~finished
      BY <1>0, <1>1, <2>6, <3>2 DEF StderrRead, IInv, TypeOK, CommandTypeOK,
         Phases, Verdict, LastReads, ShellUnread, CodeOf, command
    <3>3. QED BY <3>1, <3>2
  <2>7. CASE ShellFinished
    BY <1>0, <1>1, <2>7 DEF ShellFinished, Finish, Reaped, IInv, TypeOK, CommandTypeOK,
       Phases, Verdict, LastReads, ShellUnread, CodeOf, Codes
  <2>8. CASE ShellRuns
    BY <1>0, <1>1, <2>8 DEF ShellRuns, IInv, TypeOK, CommandTypeOK,
       Phases, Verdict, LastReads, ShellUnread, CodeOf, command
  <2>9. CASE InTime
    BY <1>0, <1>1, <2>9 DEF InTime, IInv, TypeOK, CommandTypeOK,
       Phases, Verdict, LastReads, ShellUnread, CodeOf, command
  <2>10. CASE TimeOut
    BY <1>0, <1>1, <2>10 DEF TimeOut, Killed, IInv, TypeOK, CommandTypeOK,
       Phases, Verdict, LastReads, ShellUnread, CodeOf
  <2>11. CASE KilledFinished
    <3>1. /\ result' = [result EXCEPT !.exit_code = 124] /\ finished' = TRUE
          /\ pc = "reap" /\ pc' = "stdout" /\ shell' = "reaped" /\ shell = "zombie"
          /\ UNCHANGED <<status, background, started, pipe, writes, reply, late>>
      BY <1>1, <2>11 DEF KilledFinished, Finish, Reaped
    <3>2. TypeOK'
      BY <1>0, <3>1, RepliesTyped DEF TypeOK, CommandTypeOK
    <3>3. Phases' /\ LastReads'
      BY <1>0, <3>1 DEF Phases, LastReads
    <3>4. Verdict'
      BY <1>0, <3>1 DEF Verdict, TypeOK, Phases, CodeOf
    <3>5. QED BY <3>2, <3>3, <3>4 DEF IInv
  <2>12. CASE CatchWait
    <3>1. /\ reply' = failed /\ pc' = "return" /\ pc = "catch" /\ shell' = "reaped"
          /\ shell \in {"zombie", "reaped"}
          /\ UNCHANGED <<status, background, started, pipe, writes, finished, result, late>>
      BY <1>1, <2>12 DEF CatchWait, Reaped, ReturnError, Return, failed
    <3>2. TypeOK'
      BY <1>0, <1>a, <3>1 DEF TypeOK, CommandTypeOK
    <3>3. Phases' /\ Verdict' /\ LastReads'
      BY <1>0, <1>a, <3>1 DEF Phases, Verdict, LastReads, CodeOf
    <3>4. QED BY <3>2, <3>3 DEF IInv
  <2>13. QED
    BY <1>1, <2>1, <2>2, <2>3, <2>4, <2>5, <2>6, <2>7, <2>8, <2>9, <2>10, <2>11, <2>12
    DEF ServerStep
<1>2. CASE pc # "return" /\ CommandStep /\ UNCHANGED <<server, late>>
  <2>1. /\ CommandTypeOK'
        /\ \/ UNCHANGED <<shell, status>>
           \/ shell = "running" /\ shell' = "zombie" /\ status = Running
        /\ shell # "running" => \A s \in Streams : ~ShellUnread(s) => ~ShellUnread(s)'
    BY <1>0, <1>2, CommandStepKeeps
  <2>2. TypeOK'
    BY <1>0, <1>2, <2>1 DEF TypeOK, server
  <2>3. Phases' /\ Verdict'
    BY <1>0, <1>2, <2>1 DEF Phases, Verdict, server, CodeOf
  <2>4. LastReads'
    BY <1>0, <1>2, <2>1 DEF LastReads, Phases, Verdict, server, Streams
  <2>5. QED BY <2>2, <2>3, <2>4 DEF IInv
<1>3. CASE Clock
  BY <1>0, <1>3 DEF Clock, IInv, TypeOK, CommandTypeOK, Phases, Verdict, LastReads,
     ShellUnread, CodeOf, command, server
<1>4. CASE UNCHANGED vars
  BY <1>0, <1>4 DEF IInv, TypeOK, CommandTypeOK, Phases, Verdict, LastReads,
     ShellUnread, CodeOf, vars, command, server
<1>5. QED BY <1>1, <1>2, <1>3, <1>4 DEF Next

LEMMA Invariance == Spec => []IInv
BY Initially, StepKeeps, PTL DEF Spec

-----------------------------------------------------------------------------
(* A call returns only when its shell is gone and reaped, for any command, *)
(* any timeout and failing reads.                                          *)
THEOREM ShellIsReaped == Spec => []ReapedAtReturn
<1>1. IInv => ReapedAtReturn
  BY DEF IInv, Phases, ReapedAtReturn
<1>2. QED BY Invariance, <1>1, PTL

(* What the shell wrote before it ended is read before the call returns,   *)
(* however much it wrote and whatever other processes hold the pipes.      *)
THEOREM NothingUnread == Spec => []ShellOutputRead
<1>1. IInv => ShellOutputRead
  BY DEF IInv, LastReads, ShellOutputRead, ShellUnread
<1>2. QED BY Invariance, <1>1, PTL

(* Every step of execute_command is a step ExecPromise allows or changes   *)
(* nothing it sees: its reply is the only one, has the command's own code, *)
(* or says timed_out with 124 and comes after the timeout.  This is the    *)
(* safety part of Promise.                                                 *)
THEOREM KeepsPromise == Spec => P!Init /\ [][P!Next]_(P!promise)
<1> USE CommandAssumption, CppExecAssumption
<1>1. Init => P!Init
  BY DEF Init, CommandInit, P!Init
<1>2. ASSUME IInv, [Next]_vars
      PROVE  [P!Next]_(P!promise)
  <2>0. CommandTypeOK /\ TypeOK /\ Phases /\ Verdict
    BY <1>2 DEF IInv, TypeOK
  <2>1. CASE ServerStep /\ UNCHANGED late
    <3>1. CASE Refuse \/ CatchWait
      BY <2>0, <2>1, <3>1 DEF Refuse, CatchWait, Reaped, ReturnError, Return, TypeOK, command,
         P!Next, P!Refuse, P!Failed, CodeOf
    <3>2. CASE StderrRead /\ finished
      BY <2>0, <2>1, <3>2 DEF StderrRead, ReturnResult, Return, TypeOK, CommandTypeOK, Phases,
         Verdict, command, P!Next, P!Answer, P!Done, P!TimeoutCode, CodeOf
    <3>3. CASE (\E s \in Streams : ReadFails(s)) \/ TimeOut
      BY <2>0, <2>1, <3>3 DEF ReadFails, TimeOut, Killed, CommandTypeOK,
         P!Next, P!CommandEnds, P!promise, CodeOf
    <3>4. CASE (StderrRead /\ ~finished) \/ Start \/ StdoutRead \/ ShellFinished \/ ShellRuns
                 \/ InTime \/ KilledFinished \/ \E s \in Streams : ReadSome(s)
      BY <2>1, <3>4 DEF StderrRead, Start, StdoutRead, ShellFinished, ShellRuns, InTime,
         KilledFinished, ReadSome, Taken, Spawned, Finish, Reaped, command, P!promise, CodeOf
    <3>5. QED BY <2>1, <3>1, <3>2, <3>3, <3>4 DEF ServerStep
  <2>2. CASE CommandStep /\ UNCHANGED <<server, late>>
    BY <2>0, <2>2 DEF CommandStep, Write, StartProcess, ProcessEnds, ShellEnds, CommandTypeOK,
       server, P!Next, P!CommandEnds, P!promise, CodeOf
  <2>3. CASE Clock
    BY <2>3 DEF Clock, command, server, P!Next, P!TimeoutHit, CodeOf
  <2>4. CASE UNCHANGED vars
    BY <2>4 DEF vars, command, server, P!promise, CodeOf
  <2>5. QED BY <1>2, <2>1, <2>2, <2>3, <2>4 DEF Next
<1>3. QED BY Invariance, <1>1, <1>2, PTL DEF Spec
=============================================================================
