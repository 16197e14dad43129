-------------------------- MODULE CppUploadProofs --------------------------
(***************************************************************************)
(* Proofs about CppUploadServer: its type invariant, and, for careful      *)
(* callers and a disk that does not fail, that a session's file holds what *)
(* was acknowledged, that only whole files are installed, and that the     *)
(* server implements UploadStore: each action of a handler is one step of  *)
(* the store or changes nothing the store sees.  For serial callers it     *)
(* replaces a file only when asked, leaves no .part file behind, and keeps *)
(* what was there and its permissions.                                     *)
(***************************************************************************)
EXTENDS CppUploadInvariant, SequenceTheorems, TLAPS

(* The steps of a handler fall into kinds by what they change.  Every      *)
(* early return and exception is of the first kind, every check of the     *)
(* commit path that only moves on is of the second.                        *)
Fails(h) ==
    /\ pc[h] \notin {"clear", "create", "register", "erase"}
    /\ pc[h] = "count" => ~Live(req[h].id)
    /\ pc[h] = "rename" => part[req[h].id] = NoFile \/ DiskFaults
    /\ pc[h] = "permissions" => ~Exists(ses[h].target) \/ DiskFaults
    /\ Reply(h)
    /\ UNCHANGED <<uploads, disk, crashes, opened, issued, accepted>>
    /\ \/ pc[h] \in {"discard", "unlink"} /\ UploadAbortDiscardFails(h)
       \/ pc[h] \notin {"discard", "unlink"} /\ UNCHANGED undeleted

CommitAdvances(h) ==
    /\ pc[h] \in {"temp", "exists"}
    /\ pc[h] = "temp" => part[req[h].id] # NoFile
    /\ \E l \in {"exists", "status", "rename"} :
           /\ Goto(h, l)
           /\ l = "exists" <=> pc[h] = "temp"
           /\ l = "status" => ses[h].overwrite
           /\ l = "rename" => ~Exists(ses[h].target)
    /\ UNCHANGED <<uploads, disk, newId, ses, fd, saved, crashes, history>>

LEMMA StepKinds ==
    ASSUME NEW h \in Handlers, Step(h)
    PROVE  \/ Fails(h) \/ CommitAdvances(h)
           \/ UploadInitCreate(h) \/ UploadInitRegister(h)
           \/ UploadChunkAccept(h) \/ UploadChunkOpen(h) \/ UploadChunkRecreate(h)
           \/ UploadChunkAppend(h) \/ UploadChunkAppendFails(h)
           \/ UploadChunkCloseFails(h) \/ UploadChunkCount(h)
           \/ UploadCommitCopy(h) \/ ReplaceStatus(h) \/ ReplaceRemove(h)
           \/ ReplaceRename(h) \/ ReplacePermissions(h) \/ UploadCommitErase(h)
           \/ UploadAbortErase(h) \/ UploadAbortDiscard(h)
<1>1. CASE Unauthorized(h) \/ UploadInit(h)
  BY <1>1 DEF Unauthorized, UploadInit, UploadInitReject, Fails, At, history
<1>2. CASE UploadChunk(h)
  BY <1>2 DEF UploadChunk, UploadChunkReject, UploadChunkOpenFails,
              UploadChunkGone, Fails, At, history
<1>3. CASE UploadCommit(h)
  <2>1. CASE replace_file(h)
    BY <2>1 DEF replace_file, ReplaceRefuse, ReplaceVacant, ReplaceOccupied,
                ReplaceRenameFails, ReplacePermissionsFail, Fails, CommitAdvances, history
  <2>2. CASE ~replace_file(h)
    BY <1>3, <2>2 DEF UploadCommit, UploadCommitReject, UploadCommitTempMissing,
                      UploadCommitTempExists, UploadCommitFails, Fails, CommitAdvances, At,
                      history
  <2>3. QED BY <2>1, <2>2
<1>4. CASE UploadAbort(h)
  BY <1>4 DEF UploadAbort, UploadAbortReject, UploadAbortDiscardFails, Fails, At, history
<1>5. QED BY <1>1, <1>2, <1>3, <1>4 DEF Step

-----------------------------------------------------------------------------
(* Requests are told apart by their op.                                    *)
LEMMA RequestKinds ==
    ASSUME NEW r \in Requests
    PROVE  /\ r.op = "init" => r \in InitRequest
           /\ r.op = "chunk" => r \in ChunkRequest
           /\ r.op \in {"commit", "abort"} => r \in ControlRequest
           /\ r.op \in ById => r.id \in Uploads
           /\ r # NoRequest
BY DEF Requests, InitRequest, ChunkRequest, ControlRequest, ById, NoRequest

LEMMA CountedSession ==
    ASSUME NEW s \in Session, NEW n \in Nat
    PROVE  /\ [s EXCEPT !.received = @ + n] \in Session
           /\ [s EXCEPT !.received = @ + n].received = s.received + n
           /\ [s EXCEPT !.received = @ + n].expected = s.expected
           /\ [s EXCEPT !.received = @ + n].target = s.target
           /\ [s EXCEPT !.received = @ + n].overwrite = s.overwrite
           /\ [s EXCEPT !.received = @ + n] # NoSession
BY NoSessionAssumption DEF Session

(* What was appended last is what is found at the old end.                 *)
LEMMA SuffixOfConcat ==
    ASSUME NEW S, NEW s \in Seq(S), NEW t \in Seq(S)
    PROVE  SubSeq(s \o t, Len(s) + 1, Len(s) + Len(t)) = t
<1> DEFINE w == SubSeq(s \o t, Len(s) + 1, Len(s) + Len(t))
<1>1. Len(s) \in Nat /\ Len(t) \in Nat
  BY LenProperties
<1>2. w \in Seq(S) /\ Len(w) = Len(t)
  BY <1>1, ConcatProperties, SubSeqProperties
<1>3. \A i \in 1 .. Len(t) : w[i] = t[i]
  BY <1>1, <1>2, ConcatProperties
<1>4. QED BY <1>2, <1>3, SeqEqual

LEMMA FreshChoices ==
    /\ FreeIds # {} => NewId \in Uploads /\ NewId \notin issued
    /\ FreeInodes # {} => NewInode \in Inodes /\ NewInode \notin InUse
BY DEF FreeIds, FreeInodes, NewId, NewInode

-----------------------------------------------------------------------------
(* Layer 1.                                                                *)

LEMMA TypeInvInit == Init => TypeInv
<1> SUFFICES ASSUME Init PROVE TypeInv
  OBVIOUS
<1>1. TypeOK
  BY ChunksAssumption, FilesAssumption, SizesAssumption
  DEF Init, TypeOK, Perms, Labels, Existing
<1>2. ASSUME NEW h \in Handlers PROVE Shape(h)
  BY <1>2 DEF Init, Shape, ChunkLabels, CommitLabels, LateLabels
<1>3. QED BY <1>1, <1>2 DEF TypeInv

(* A handler that returns drops its locals; nothing else is disturbed.     *)
LEMMA ReplyKeepsLocals ==
    ASSUME TypeInv, NEW h \in Handlers, Reply(h)
    PROVE  /\ pc' \in [Handlers -> Labels]
           /\ req' \in [Handlers -> Requests \cup {NoRequest}]
           /\ newId' \in [Handlers -> Uploads \cup {NoId}]
           /\ ses' \in [Handlers -> Session \cup {NoSession}]
           /\ fd' \in [Handlers -> Inodes \cup {NoFile}]
           /\ saved' \in [Handlers -> Perms \cup {NoPerms}]
           /\ \A g \in Handlers : Shape(g)'
<1> USE DEF TypeInv, TypeOK
<1>1. pc' \in [Handlers -> Labels] /\ req' \in [Handlers -> Requests \cup {NoRequest}]
  BY DEF Reply, CloseStream, Labels
<1>2. /\ newId' \in [Handlers -> Uploads \cup {NoId}]
      /\ ses' \in [Handlers -> Session \cup {NoSession}]
      /\ fd' \in [Handlers -> Inodes \cup {NoFile}]
      /\ saved' \in [Handlers -> Perms \cup {NoPerms}]
  BY DEF Reply, CloseStream
<1>3. ASSUME NEW g \in Handlers PROVE Shape(g)'
  BY <1>3, RequestKinds DEF Reply, CloseStream, Shape, ChunkLabels, CommitLabels, LateLabels
<1>4. QED BY <1>1, <1>2, <1>3

LEMMA TypeInvStep == TypeInv /\ [Next]_vars => TypeInv'
<1> SUFFICES ASSUME TypeInv, [Next]_vars PROVE TypeInv'
  OBVIOUS
<1> USE DEF TypeInv, TypeOK, Labels
<1>1. ASSUME NEW h \in Handlers, NEW r \in Requests, Receive(h, r)
      PROVE  TypeInv'
  <2>1. TypeOK'
    BY <1>1 DEF Receive, disk, history
  <2>2. ASSUME NEW g \in Handlers PROVE Shape(g)'
    BY <1>1, <2>2, RequestKinds DEF Receive, Shape, ChunkLabels, CommitLabels, LateLabels
  <2>3. QED BY <2>1, <2>2
<1>2. ASSUME NEW h \in Handlers, Step(h)
      PROVE  TypeInv'
  <2>1. CASE Fails(h)
    <3>1. undeleted' \in SUBSET Uploads
      <4>1. pc[h] \in {"discard", "unlink"} => req[h].id \in Uploads
        BY DEF Shape, ControlRequest
      <4>2. QED BY <2>1, <4>1 DEF Fails, UploadAbortDiscardFails
    <3>2. QED BY <2>1, <3>1, ReplyKeepsLocals DEF Fails, disk
  <2>2. CASE CommitAdvances(h)
    <3>1. TypeOK'
      BY <2>2 DEF CommitAdvances, Goto, disk, history
    <3>2. ASSUME NEW g \in Handlers PROVE Shape(g)'
      BY <2>2, <3>2 DEF CommitAdvances, Goto, Shape, ChunkLabels, CommitLabels, LateLabels
    <3>3. QED BY <3>1, <3>2
  <2>3. CASE UploadInitCreate(h)
    <3>1. TypeOK'
      BY FreshChoices, NoneAssumption, RequestKinds, <2>3 DEF UploadInitCreate, Goto, Perms, At, history
    <3>2. ASSUME NEW g \in Handlers PROVE Shape(g)'
      BY FreshChoices, NoneAssumption, RequestKinds, <2>3, <3>2 DEF UploadInitCreate, Goto, At, Shape, ChunkLabels, CommitLabels, LateLabels
    <3>3. QED BY <3>1, <3>2
  <2>4. CASE UploadChunkAccept(h)
    <3>1. TypeOK'
      BY RequestKinds, <2>4 DEF UploadChunkAccept, Goto, disk, history
    <3>2. ASSUME NEW g \in Handlers PROVE Shape(g)'
      BY RequestKinds, <2>4, <3>2 DEF UploadChunkAccept, Goto, At, Shape, ChunkLabels, CommitLabels, LateLabels
    <3>3. QED BY <3>1, <3>2
  <2>5. CASE UploadChunkOpen(h)
    <3>1. TypeOK'
      BY <2>5 DEF UploadChunkOpen, Goto, disk, history, Shape, ChunkLabels, ChunkRequest
    <3>2. ASSUME NEW g \in Handlers PROVE Shape(g)'
      BY <2>5, <3>2 DEF UploadChunkOpen, Goto, ChunkRequest, Shape, ChunkLabels, CommitLabels, LateLabels
    <3>3. QED BY <3>1, <3>2
  <2>6. CASE UploadChunkRecreate(h)
    <3>1. TypeOK'
      <4>1. NewInode \in Inodes
        BY <2>6, FreshChoices DEF UploadChunkRecreate
      <4>2. /\ part' \in [Uploads -> Inodes \cup {NoFile}]
            /\ fd' \in [Handlers -> Inodes \cup {NoFile}]
            /\ perm' \in [Inodes -> Perms]
        BY <2>6, <4>1 DEF UploadChunkRecreate, Perms
      <4>3. data' \in [Inodes -> Seq(Blocks)]
        BY <2>6, <4>1 DEF UploadChunkRecreate
      <4>4. QED BY <2>6, <4>2, <4>3 DEF UploadChunkRecreate, Goto, history
    <3>2. ASSUME NEW g \in Handlers PROVE Shape(g)'
      BY FreshChoices, NoneAssumption, <2>6, <3>2 DEF UploadChunkRecreate, Goto, Shape, ChunkLabels, CommitLabels, LateLabels
    <3>3. QED BY <3>1, <3>2
  <2>7. CASE UploadCommitCopy(h)
    <3>1. TypeOK'
      <4>1. req[h].id \in Uploads
        BY <2>7, RequestKinds DEF UploadCommitCopy, At, Shape, ControlRequest
      <4>2. ses' \in [Handlers -> Session \cup {NoSession}]
        BY <2>7, <4>1 DEF UploadCommitCopy
      <4>3. QED BY <2>7, <4>2 DEF UploadCommitCopy, Goto, disk, history
    <3>2. ASSUME NEW g \in Handlers PROVE Shape(g)'
      BY RequestKinds, <2>7, <3>2 DEF UploadCommitCopy, Goto, Complete, Live, At, ControlRequest, Shape, ChunkLabels, CommitLabels, LateLabels
    <3>3. QED BY <3>1, <3>2
  <2>8. CASE ReplaceStatus(h)
    <3>1. TypeOK'
      BY NoneAssumption, <2>8 DEF ReplaceStatus, Goto, disk, history, Exists, Perms, Shape, CommitLabels, Session
    <3>2. ASSUME NEW g \in Handlers PROVE Shape(g)'
      BY NoneAssumption, <2>8, <3>2 DEF ReplaceStatus, Goto, Exists, Perms, Session, Shape, ChunkLabels, CommitLabels, LateLabels
    <3>3. QED BY <3>1, <3>2
  <2>9. CASE ReplaceRemove(h)
    <3>1. TypeOK'
      BY <2>9 DEF ReplaceRemove, Goto, history
    <3>2. ASSUME NEW g \in Handlers PROVE Shape(g)'
      BY <2>9, <3>2 DEF ReplaceRemove, Goto, Shape, ChunkLabels, CommitLabels, LateLabels
    <3>3. QED BY <3>1, <3>2
  <2>10. CASE ReplaceRename(h)
    <3>1. TypeOK'
      BY <2>10 DEF ReplaceRename, Goto, AfterRename, history, Shape, CommitLabels, ControlRequest
    <3>2. ASSUME NEW g \in Handlers PROVE Shape(g)'
      BY <2>10, <3>2 DEF ReplaceRename, Goto, AfterRename, Shape, ChunkLabels, CommitLabels, LateLabels
    <3>3. QED BY <3>1, <3>2
  <2>11. CASE ReplacePermissions(h)
    <3>1. TypeOK'
      BY <2>11 DEF ReplacePermissions, Goto, history, Shape
    <3>2. ASSUME NEW g \in Handlers PROVE Shape(g)'
      BY <2>11, <3>2 DEF ReplacePermissions, Goto, Shape, ChunkLabels, CommitLabels, LateLabels
    <3>3. QED BY <3>1, <3>2
  <2>12. CASE UploadAbortErase(h)
    <3>1. TypeOK'
      BY RequestKinds, <2>12 DEF UploadAbortErase, Goto, disk, history
    <3>2. ASSUME NEW g \in Handlers PROVE Shape(g)'
      BY RequestKinds, <2>12, <3>2 DEF UploadAbortErase, Goto, At, Shape, ChunkLabels, CommitLabels, LateLabels
    <3>3. QED BY <3>1, <3>2
  <2>13. CASE UploadInitRegister(h)
    <3>1. Reply(h)
      BY <2>13 DEF UploadInitRegister
    <3>2. QED BY SizesAssumption, NoneAssumption, <2>13, <3>1, ReplyKeepsLocals DEF UploadInitRegister, NewSession, Session, InitRequest, InitRefused, Shape, disk, history
  <2>14. CASE UploadChunkCount(h)
    <3>1. Reply(h)
      BY <2>14 DEF UploadChunkCount
    <3>2. req[h].id \in Uploads /\ req[h].content \in Seq(Blocks)
      BY <2>14, ChunksAssumption DEF UploadChunkCount, Shape, ChunkLabels, ChunkRequest
    <3>3. uploads[req[h].id] \in Session
      BY <2>14, <3>2 DEF UploadChunkCount, Live
    <3>4. uploads' \in [Uploads -> Session \cup {NoSession}]
      <4>1. /\ Len(req[h].content) \in Nat
            /\ uploads' = [uploads EXCEPT ![req[h].id] =
                 [uploads[req[h].id] EXCEPT !.received = @ + Len(req[h].content)]]
        BY <2>14, <3>2 DEF UploadChunkCount
      <4>2. QED BY <3>2, <3>3, <4>1, CountedSession
    <3>5. accepted' \in [Uploads -> Seq(Blocks)]
      BY <2>14, <3>2 DEF UploadChunkCount
    <3>6. QED BY <2>14, <3>1, <3>4, <3>5, ReplyKeepsLocals DEF UploadChunkCount, disk
  <2>15. CASE UploadCommitErase(h)
    <3>1. Reply(h)
      BY <2>15 DEF UploadCommitErase
    <3>2. QED BY <2>15, <3>1, ReplyKeepsLocals DEF UploadCommitErase, disk, history
  <2>16. CASE UploadAbortDiscard(h)
    <3>1. Reply(h)
      BY <2>16 DEF UploadAbortDiscard
    <3>2. QED BY <2>16, <3>1, ReplyKeepsLocals DEF UploadAbortDiscard, history
  <2>17. CASE UploadChunkAppend(h) \/ UploadChunkAppendFails(h) \/ UploadChunkCloseFails(h)
    <3>1. req[h] \in ChunkRequest /\ req[h].content \in Seq(Blocks)
      BY <2>17, ChunksAssumption DEF UploadChunkAppend, UploadChunkAppendFails,
         UploadChunkCloseFails, WriteFails, Shape, ChunkLabels, ChunkRequest
    <3>2. ASSUME NEW bytes \in Seq(Blocks), WriteOut(h, bytes)
          PROVE  data' \in [Inodes -> Seq(Blocks)]
      <4>1. CASE fd[h] \in Inodes
        <5>1. data[fd[h]] \o bytes \in Seq(Blocks)
          BY <4>1, ConcatProperties
        <5>2. QED BY <3>2, <5>1 DEF WriteOut
      <4>2. CASE fd[h] \notin Inodes
        BY <3>2, <4>2 DEF WriteOut
      <4>3. QED BY <4>1, <4>2
    <3>3. \A k \in 0 .. Len(req[h].content) - 1 :
              SubSeq(req[h].content, 1, k) \in Seq(Blocks)
      BY <3>1
    <3>4. data' \in [Inodes -> Seq(Blocks)]
      BY <2>17, <3>1, <3>2, <3>3 DEF UploadChunkAppend, UploadChunkAppendFails,
         UploadChunkCloseFails, WriteFails
    <3>5. CASE UploadChunkAppendFails(h)
      <4>1. Reply(h)
        BY <3>5 DEF UploadChunkAppendFails
      <4>2. QED BY <3>5, <4>1, <3>4, ReplyKeepsLocals DEF UploadChunkAppendFails, history
    <3>6. CASE UploadChunkAppend(h) \/ UploadChunkCloseFails(h)
      <4>1. pc[h] = "append" /\ Goto(h, "count")
            /\ UNCHANGED <<uploads, part, target, perm, newId, ses, fd, saved, crashes, history>>
        BY <3>6 DEF UploadChunkAppend, UploadChunkCloseFails, WriteFails
      <4>2. TypeOK'
        BY <4>1, <3>4 DEF Goto, history
      <4>3. ASSUME NEW g \in Handlers PROVE Shape(g)'
        BY <4>1, <4>3 DEF Goto, Shape, ChunkLabels, CommitLabels, LateLabels
      <4>4. QED BY <4>2, <4>3
    <3>7. QED BY <2>17, <3>5, <3>6
  <2>18. QED
    BY <1>2, StepKinds, <2>1, <2>2, <2>3, <2>4, <2>5, <2>6, <2>7, <2>8, <2>9, <2>10, <2>11, <2>12, <2>13, <2>14, <2>15, <2>16, <2>17
<1>3. CASE Crash
  <2>1. TypeOK'
    BY <1>3, SizesAssumption DEF Crash, disk, history
  <2>2. ASSUME NEW g \in Handlers PROVE Shape(g)'
    BY <1>3, <2>2 DEF Crash, Shape, ChunkLabels, CommitLabels, LateLabels
  <2>3. QED BY <2>1, <2>2
<1>4. CASE UNCHANGED vars
  BY <1>4 DEF vars, disk, local, history, Shape
<1>5. QED BY <1>1, <1>2, <1>3, <1>4 DEF Next

(* Every reachable state is well typed, whatever the callers and the disk  *)
(* do.                                                                     *)
THEOREM TypeCorrect == Spec => []TypeOK
<1>1. TypeInv => TypeOK
  BY DEF TypeInv
<1>2. QED BY TypeInvInit, TypeInvStep, <1>1, PTL DEF Spec

-----------------------------------------------------------------------------
(* Layer 2.                                                                *)

LEMMA IdsInvInit == Init => IdsInv
BY DEF Init, IdsInv, OneWriter, Live, ById, NoRequest

(* Dropping sessions, requests and new ids keeps the layer.                *)
LEMMA IdsWeaken ==
    ASSUME TypeInv, IdsInv,
           UNCHANGED <<opened, issued, accepted>>,
           \A u \in Uploads : uploads'[u] \in {uploads[u], NoSession},
           \A h \in Handlers : req'[h] \in {req[h], NoRequest},
           \A h \in Handlers : newId'[h] \in {newId[h], NoId}
    PROVE  IdsInv'
<1>1. \A h \in Handlers : req'[h].op \in ById => req'[h] = req[h]
  BY DEF NoRequest, ById
<1>2. OneWriter'
  BY <1>1 DEF IdsInv, OneWriter, ById
<1>3. QED BY <1>1, <1>2 DEF IdsInv, Live

LEMMA ReplyWeakens ==
    ASSUME TypeInv, NEW h \in Handlers, Reply(h)
    PROVE  /\ \A g \in Handlers : req'[g] \in {req[g], NoRequest}
           /\ \A g \in Handlers : newId'[g] \in {newId[g], NoId}
           /\ \A g \in Handlers : fd'[g] \in {fd[g], NoFile}
           /\ \A g \in Handlers : g # h => /\ req'[g] = req[g] /\ newId'[g] = newId[g]
                                          /\ fd'[g] = fd[g] /\ pc'[g] = pc[g]
           /\ pc'[h] = "idle" /\ newId'[h] = NoId /\ fd'[h] = NoFile
BY DEF Reply, CloseStream, TypeInv, TypeOK

LEMMA ReplyKeepsRequests ==
    ASSUME TypeInv, IdsInv, NEW h \in Handlers, Reply(h)
    PROVE  /\ OneWriter'
           /\ \A g \in Handlers : req'[g].op \in ById => req'[g] = req[g]
<1>1. \A g \in Handlers : req'[g].op \in ById => req'[g] = req[g]
  BY ReplyWeakens DEF NoRequest, ById
<1>2. OneWriter'
  BY <1>1 DEF IdsInv, OneWriter, ById
<1>3. QED BY <1>1, <1>2

(* A careful caller starts a chunk or a commit only when none is in flight *)
(* for the session.                                                        *)
LEMMA ReceiveAlone ==
    ASSUME Callers # "any", NEW h \in Handlers, NEW r \in Requests, Receive(h, r),
           r.op \in {"chunk", "commit"}, NEW g \in Handlers,
           req[g].op \in {"chunk", "commit"}
    PROVE  req[g].id # r.id
BY EnvironmentAssumption DEF Receive, CallerAllowed, InFlight

LEMMA IdsInvStep ==
    ASSUME Callers # "any" \/ OneWriter'
    PROVE  TypeInv /\ IdsInv /\ [Next]_vars => IdsInv'
<1> SUFFICES ASSUME TypeInv, IdsInv, [Next]_vars PROVE IdsInv'
  OBVIOUS
<1> USE DEF TypeInv, TypeOK
<1>1. ASSUME NEW h \in Handlers, NEW r \in Requests, Receive(h, r)
      PROVE  IdsInv'
  <2>1. OneWriter'
    <3>1. req' = [req EXCEPT ![h] = r] /\ OneWriter
      BY <1>1 DEF Receive, IdsInv
    <3>2. ASSUME NEW f \in Handlers, NEW g \in Handlers, f # g,
                 req'[f].op \in {"chunk", "commit"}, req'[g].op \in {"chunk", "commit"}
          PROVE  req'[f].id # req'[g].id
      <4>1. CASE f = h /\ Callers # "any"
        BY <1>1, <3>1, <3>2, <4>1, ReceiveAlone
      <4>2. CASE g = h /\ Callers # "any"
        BY <1>1, <3>1, <3>2, <4>2, ReceiveAlone
      <4>3. CASE f # h /\ g # h
        BY <3>1, <3>2, <4>3 DEF OneWriter
      <4>4. CASE OneWriter'
        BY <3>2, <4>4 DEF OneWriter
      <4>5. QED BY <4>1, <4>2, <4>3, <4>4
    <3>3. QED BY <3>2 DEF OneWriter
  <2>2. r.op \in ById => opened[r.id] # NoSession
    BY <1>1 DEF Receive, CallerAllowed, ById
  <2>3. QED
    BY <1>1, <2>1, <2>2 DEF IdsInv, Receive, history, Live
<1>2. ASSUME NEW h \in Handlers, Step(h)
      PROVE  IdsInv'
  <2>1. CASE Fails(h) \/ UploadChunkAppendFails(h) \/ UploadCommitErase(h)
             \/ UploadAbortDiscard(h)
    <3>1. Reply(h) /\ UNCHANGED <<opened, issued, accepted>>
      BY <2>1 DEF Fails, UploadChunkAppendFails, UploadCommitErase,
                  UploadAbortDiscard, history
    <3>2. \A u \in Uploads : uploads'[u] \in {uploads[u], NoSession}
      BY <2>1 DEF Fails, UploadChunkAppendFails, UploadCommitErase, UploadAbortDiscard
    <3>3. QED BY <3>1, <3>2, ReplyWeakens, IdsWeaken
  <2>2. CASE \/ CommitAdvances(h) \/ UploadChunkAccept(h) \/ UploadChunkOpen(h)
             \/ UploadChunkRecreate(h) \/ UploadChunkAppend(h)
             \/ UploadChunkCloseFails(h) \/ UploadCommitCopy(h) \/ ReplaceStatus(h)
             \/ ReplaceRemove(h) \/ ReplaceRename(h) \/ ReplacePermissions(h)
    <3>1. UNCHANGED <<uploads, opened, issued, accepted, req, newId>>
      BY <2>2 DEF CommitAdvances, UploadChunkAccept, UploadChunkOpen,
         UploadChunkRecreate, UploadChunkAppend, UploadChunkCloseFails,
         UploadCommitCopy, ReplaceStatus, ReplaceRemove, ReplaceRename,
         ReplacePermissions, Goto, history
    <3>2. QED BY <3>1, IdsWeaken
  <2>3. CASE UploadAbortErase(h)
    <3>1. UNCHANGED <<opened, issued, accepted, req, newId>>
      BY <2>3 DEF UploadAbortErase, Goto, history
    <3>2. \A u \in Uploads : uploads'[u] \in {uploads[u], NoSession}
      BY <2>3 DEF UploadAbortErase
    <3>3. QED BY <3>1, <3>2, IdsWeaken
  <2>4. CASE UploadInitCreate(h)
    <3>1. /\ NewId \in Uploads /\ NewId \notin issued
          /\ issued' = issued \cup {NewId}
          /\ newId' = [newId EXCEPT ![h] = NewId]
          /\ UNCHANGED <<uploads, opened, accepted, req>>
      BY <2>4, FreshChoices DEF UploadInitCreate, Goto
    <3>2. QED BY <3>1, NoneAssumption DEF IdsInv, OneWriter, Live
  <2>5. CASE UploadInitRegister(h)
    <3>1. newId[h] \in Uploads /\ opened[newId[h]] = NoSession /\ newId[h] \in issued
      BY <2>5, NoneAssumption DEF UploadInitRegister, Shape, IdsInv
    <3>2. NewSession(req[h]) # NoSession
      BY <2>5, NoSessionAssumption, SizesAssumption
      DEF UploadInitRegister, NewSession, Session, InitRequest, InitRefused, Shape
    <3>3. /\ uploads' = [uploads EXCEPT ![newId[h]] = NewSession(req[h])]
          /\ opened' = [opened EXCEPT ![newId[h]] = NewSession(req[h])]
          /\ Reply(h) /\ UNCHANGED <<issued, accepted>>
      BY <2>5 DEF UploadInitRegister
    <3>4. OneWriter'
      BY <3>3, ReplyKeepsRequests
    <3>5. \A g \in Handlers : newId'[g] # NoId =>
              newId'[g] \in issued' /\ opened'[newId'[g]] = NoSession
      BY <3>1, <3>3, ReplyWeakens DEF IdsInv
    <3>6. \A g \in Handlers : req'[g].op \in ById => opened'[req'[g].id] # NoSession
      BY <3>1, <3>2, <3>3, ReplyKeepsRequests DEF IdsInv
    <3>7. \A u \in Uploads : opened'[u] # NoSession => u \in issued'
      BY <3>1, <3>3 DEF IdsInv
    <3>8. \A u \in Uploads : Live(u)' =>
              opened'[u] # NoSession /\ opened'[u].expected = uploads'[u].expected
      BY <3>1, <3>2, <3>3 DEF IdsInv, Live
    <3>9. \A u \in Uploads : opened'[u] = NoSession => accepted'[u] = <<>>
      BY <3>1, <3>2, <3>3 DEF IdsInv
    <3>10. \A f, g \in Handlers : newId'[g] # NoId /\ newId'[f] = newId'[g] => f = g
      BY <3>3, ReplyWeakens DEF IdsInv
    <3>11. QED
      BY <3>4, <3>5, <3>6, <3>7, <3>8, <3>9, <3>10 DEF IdsInv
  <2>6. CASE UploadChunkCount(h)
    <3>1. /\ req[h].id \in Uploads /\ req[h].content \in Seq(Blocks)
          /\ uploads[req[h].id] \in Session
      BY <2>6, ChunksAssumption DEF UploadChunkCount, Shape, ChunkLabels, ChunkRequest, Live
    <3>2. /\ Reply(h) /\ UNCHANGED <<opened, issued>>
          /\ accepted' = [accepted EXCEPT ![req[h].id] = @ \o req[h].content]
          /\ Len(req[h].content) \in Nat
          /\ uploads' = [uploads EXCEPT ![req[h].id] =
                 [uploads[req[h].id] EXCEPT !.received = @ + Len(req[h].content)]]
      BY <2>6, <3>1 DEF UploadChunkCount
    <3>3. \A u \in Uploads : Live(u)' <=> Live(u)
      <4>1. [uploads[req[h].id] EXCEPT !.received = @ + Len(req[h].content)] # NoSession
        BY <3>1, <3>2, CountedSession
      <4>2. uploads[req[h].id] # NoSession
        BY <2>6 DEF UploadChunkCount, Live
      <4>3. QED BY <3>1, <3>2, <4>1, <4>2 DEF Live
    <3>4. \A u \in Uploads : Live(u) => uploads'[u].expected = uploads[u].expected
      BY <3>1, <3>2, CountedSession DEF Live
    <3>5. \A u \in Uploads : opened[u] = NoSession => accepted'[u] = <<>>
      BY <2>6, <3>1, <3>2 DEF IdsInv, UploadChunkCount
    <3>6. OneWriter'
      BY <3>2, ReplyKeepsRequests
    <3>7. \A g \in Handlers : req'[g].op \in ById => opened'[req'[g].id] # NoSession
      BY <3>2, ReplyKeepsRequests DEF IdsInv
    <3>8. QED
      BY <3>2, <3>3, <3>4, <3>5, <3>6, <3>7, ReplyWeakens DEF IdsInv
  <2>7. QED
    BY <1>2, StepKinds, <2>1, <2>2, <2>3, <2>4, <2>5, <2>6
<1>3. CASE Crash
  <2>1. QED BY <1>3, IdsWeaken DEF Crash, history
<1>4. CASE UNCHANGED vars
  BY <1>4, IdsWeaken DEF vars, history, local
<1>5. QED BY <1>1, <1>2, <1>3, <1>4 DEF Next

-----------------------------------------------------------------------------
(* Layer 3.                                                                *)

LEMMA FilesInvInit == Init => FilesInv
BY DEF Init, FilesInv, NoWriteToTarget

(* Unlinking and closing files keeps the layer.                            *)
LEMMA FilesWeaken ==
    ASSUME TypeInv, FilesInv,
           \A u \in Uploads : part'[u] \in {part[u], NoFile},
           \A t \in Targets : target'[t] \in {target[t], NoFile},
           \A h \in Handlers : fd'[h] \in {fd[h], NoFile},
           \A h \in Handlers : fd'[h] # NoFile => req'[h] = req[h]
    PROVE  FilesInv'
BY DEF FilesInv, NoWriteToTarget

LEMMA FilesInvStep == TypeInv /\ OneWriter /\ FilesInv /\ [Next]_vars => FilesInv'
<1> SUFFICES ASSUME TypeInv, OneWriter, FilesInv, [Next]_vars PROVE FilesInv'
  OBVIOUS
<1> USE DEF TypeInv, TypeOK
<1>1. ASSUME NEW h \in Handlers, NEW r \in Requests, Receive(h, r)
      PROVE  FilesInv'
  <2>1. fd[h] = NoFile
    BY <1>1 DEF Receive, Shape
  <2>2. QED BY <1>1, <2>1, FilesWeaken DEF Receive, disk
<1>2. ASSUME NEW h \in Handlers, Step(h)
      PROVE  FilesInv'
  <2>1. CASE Fails(h) \/ UploadChunkAppendFails(h) \/ UploadInitRegister(h)
             \/ UploadChunkCount(h) \/ UploadCommitErase(h) \/ UploadAbortDiscard(h)
    <3>1. /\ Reply(h) /\ UNCHANGED target
          /\ \A u \in Uploads : part'[u] \in {part[u], NoFile}
      BY <2>1 DEF Fails, UploadChunkAppendFails, UploadInitRegister, UploadChunkCount,
                  UploadCommitErase, UploadAbortDiscard, disk
    <3>2. QED BY <3>1, ReplyWeakens, FilesWeaken
  <2>2. CASE \/ CommitAdvances(h) \/ UploadChunkAccept(h) \/ UploadChunkAppend(h)
             \/ UploadChunkCloseFails(h) \/ UploadCommitCopy(h) \/ ReplaceStatus(h)
             \/ ReplaceRemove(h) \/ ReplacePermissions(h) \/ UploadAbortErase(h)
    <3>1. /\ UNCHANGED <<part, fd, req>>
          /\ \A t \in Targets : target'[t] \in {target[t], NoFile}
      BY <2>2 DEF CommitAdvances, UploadChunkAccept, UploadChunkAppend,
         UploadChunkCloseFails, UploadCommitCopy, ReplaceStatus, ReplaceRemove,
         ReplacePermissions, UploadAbortErase, Goto, disk
    <3>2. QED BY <3>1, FilesWeaken
  <2>3. CASE UploadInitCreate(h)
    <3>1. /\ NewInode \in Inodes /\ NewInode \notin InUse
          /\ part' = [part EXCEPT ![NewId] = NewInode]
          /\ UNCHANGED <<target, fd, req>>
      BY <2>3, FreshChoices DEF UploadInitCreate, Goto
    <3>2. QED BY <3>1 DEF FilesInv, NoWriteToTarget, InUse
  <2>4. CASE UploadChunkRecreate(h)
    <3>1. /\ NewInode \in Inodes /\ NewInode \notin InUse
          /\ part' = [part EXCEPT ![req[h].id] = NewInode]
          /\ fd' = [fd EXCEPT ![h] = NewInode]
          /\ UNCHANGED <<target, req>>
      BY <2>4, FreshChoices DEF UploadChunkRecreate, Goto
    <3>2. QED BY <3>1 DEF FilesInv, NoWriteToTarget, InUse
  <2>5. CASE UploadChunkOpen(h)
    <3>1. /\ req[h].id \in Uploads /\ part[req[h].id] # NoFile
          /\ fd' = [fd EXCEPT ![h] = part[req[h].id]]
          /\ UNCHANGED <<part, target, req>>
      BY <2>5 DEF UploadChunkOpen, Goto, disk, Shape, ChunkLabels, ChunkRequest
    <3>2. QED BY <3>1 DEF FilesInv, NoWriteToTarget
  <2>6. CASE ReplaceRename(h)
    <3>1. /\ req[h].id \in Uploads /\ part[req[h].id] # NoFile
          /\ target' = [target EXCEPT ![ses[h].target] = part[req[h].id]]
          /\ part' = [part EXCEPT ![req[h].id] = NoFile]
          /\ UNCHANGED <<fd, req>>
      BY <2>6 DEF ReplaceRename, Goto, Shape, CommitLabels, ControlRequest
    <3>2. ASSUME NEW g \in Handlers, fd[g] # NoFile PROVE fd[g] # part[req[h].id]
      <4>1. SUFFICES ASSUME fd[g] = part[req[h].id] PROVE FALSE
        OBVIOUS
      <4>2. req[h].id = req[g].id
        BY <3>1, <3>2, <4>1 DEF FilesInv
      <4>3. req[g].op = "chunk" /\ req[h].op = "commit"
        BY <2>6, <3>2 DEF Shape, ChunkLabels, ChunkRequest, ReplaceRename, CommitLabels
      <4>4. QED BY <4>2, <4>3 DEF OneWriter
    <3>3. NoWriteToTarget'
      BY <3>1, <3>2 DEF NoWriteToTarget, FilesInv
    <3>4. QED BY <3>1, <3>3 DEF FilesInv
  <2>7. QED
    BY <1>2, StepKinds, <2>1, <2>2, <2>3, <2>4, <2>5, <2>6
<1>3. CASE Crash
  BY <1>3, FilesWeaken DEF Crash, disk
<1>4. CASE UNCHANGED vars
  BY <1>4, FilesWeaken DEF vars, disk, local
<1>5. QED BY <1>1, <1>2, <1>3, <1>4 DEF Next

(* For careful and for serial callers, on any disk: no installed file is   *)
(* ever written to through a stream that UploadChunk still has open.       *)
THEOREM InstalledFilesAreClosed ==
    ASSUME Callers # "any"
    PROVE  Spec => []NoWriteToTarget
<1>1. Init => TypeInv /\ IdsInv /\ FilesInv
  BY TypeInvInit, IdsInvInit, FilesInvInit
<1>2. TypeInv /\ IdsInv /\ FilesInv /\ [Next]_vars => (TypeInv /\ IdsInv /\ FilesInv)'
  BY TypeInvStep, IdsInvStep, FilesInvStep DEF IdsInv
<1>3. FilesInv => NoWriteToTarget
  BY DEF FilesInv
<1>4. QED BY <1>1, <1>2, <1>3, PTL DEF Spec

-----------------------------------------------------------------------------
(* Layer 4.                                                                *)

LEMMA BytesInvInit == Init => BytesInv
BY ChunksAssumption, FilesAssumption, NoneAssumption
DEF Init, BytesInv, NewPart, ChunkFits, CommitWhole, Discarding, Counted, Live,
    TargetsWhole, Whole, Existing, Exists, ChunkLabels, CommitLabels

Working == ChunkLabels \cup CommitLabels \cup {"discard"}

(* What the lower layers say of handlers at work: their requests name      *)
(* sessions that were opened, no two write for the same session, and none  *)
(* touches an id that is still being made.                                 *)
LEMMA Workers ==
    ASSUME TypeInv, IdsInv
    PROVE  /\ \A h \in Handlers : pc[h] \in Working =>
                  req[h].id \in Uploads /\ opened[req[h].id] # NoSession
           /\ \A h \in Handlers : pc[h] \in ChunkLabels =>
                  /\ req[h].content \in Seq(Blocks)
                  /\ Len(req[h].content) \in Nat \ {0}
           /\ \A g, h \in Handlers :
                  /\ pc[g] \in ChunkLabels \cup CommitLabels
                  /\ pc[h] \in ChunkLabels \cup CommitLabels
                  /\ req[g].id = req[h].id
                  => g = h
           /\ \A g, h \in Handlers : newId[g] # NoId /\ pc[h] \in Working =>
                  newId[g] # req[h].id
<1> USE DEF TypeInv, TypeOK
<1>1. ASSUME NEW h \in Handlers, pc[h] \in ChunkLabels
      PROVE  /\ req[h].op = "chunk" /\ req[h].id \in Uploads
             /\ req[h].content \in Seq(Blocks) /\ Len(req[h].content) \in Nat \ {0}
  <2>1. req[h] \in ChunkRequest
    BY <1>1 DEF Shape
  <2>2. req[h].content \in Seq(Blocks) /\ req[h].content # <<>>
    BY <2>1, ChunksAssumption DEF ChunkRequest
  <2>3. QED BY <2>1, <2>2, EmptySeq DEF ChunkRequest
<1>2. ASSUME NEW h \in Handlers, pc[h] \in CommitLabels
      PROVE  req[h].op = "commit" /\ req[h].id \in Uploads
  BY <1>2 DEF Shape, ControlRequest
<1>3. ASSUME NEW h \in Handlers, pc[h] = "discard"
      PROVE  req[h].op = "abort" /\ req[h].id \in Uploads
  BY <1>3 DEF Shape, ControlRequest
<1>4. \A h \in Handlers : pc[h] \in Working =>
          req[h].id \in Uploads /\ opened[req[h].id] # NoSession
  BY <1>1, <1>2, <1>3 DEF Working, IdsInv, ById
<1>5. \A g, h \in Handlers :
          /\ pc[g] \in ChunkLabels \cup CommitLabels
          /\ pc[h] \in ChunkLabels \cup CommitLabels
          /\ req[g].id = req[h].id
          => g = h
  BY <1>1, <1>2 DEF IdsInv, OneWriter
<1>6. \A g, h \in Handlers : newId[g] # NoId /\ pc[h] \in Working => newId[g] # req[h].id
  BY <1>4 DEF IdsInv
<1>7. QED BY <1>1, <1>4, <1>5, <1>6

(* Steps that leave the bytes, the names of the .part files and the        *)
(* acknowledged contents alone, and at most end calls or drop sessions.    *)
LEMMA BytesWeaken ==
    ASSUME TypeInv, BytesInv,
           UNCHANGED <<data, part, opened, accepted>>,
           \A t \in Targets : target'[t] \in {target[t], NoFile},
           \A u \in Uploads : uploads'[u] \in {uploads[u], NoSession},
           \A h \in Handlers : pc'[h] = "register" =>
               pc[h] = "register" /\ newId'[h] = newId[h],
           \A h \in Handlers : pc'[h] \in ChunkLabels =>
               pc'[h] = pc[h] /\ req'[h] = req[h] /\ fd'[h] = fd[h],
           \A h \in Handlers : pc'[h] \in CommitLabels =>
               pc[h] \in CommitLabels /\ req'[h] = req[h],
           \A h \in Handlers : pc'[h] = "discard" =>
               pc[h] = "discard" /\ req'[h] = req[h],
           \A h \in Handlers : pc[h] = "count" =>
               \/ pc'[h] = "count" /\ req'[h] = req[h]
               \/ uploads'[req[h].id] = NoSession,
           \A h \in Handlers : pc'[h] \in Working => req'[h].id \in Uploads
    PROVE  BytesInv'
<1> USE DEF TypeInv, TypeOK
<1>1. ASSUME NEW h \in Handlers PROVE NewPart(h)'
  BY <1>1 DEF BytesInv, NewPart
<1>2. ASSUME NEW h \in Handlers PROVE ChunkFits(h)'
  <2>1. SUFFICES ASSUME pc'[h] \in ChunkLabels, uploads'[req'[h].id] # NoSession
                 PROVE  ChunkFits(h)'
    BY DEF ChunkFits, Live
  <2>2. pc'[h] = pc[h] /\ req'[h] = req[h] /\ fd'[h] = fd[h]
    BY <1>2, <2>1
  <2>3. req[h].id \in Uploads /\ uploads'[req[h].id] = uploads[req[h].id]
    BY <1>2, <2>1, <2>2 DEF Working
  <2>4. ChunkFits(h) /\ UNCHANGED <<data, part, accepted>>
    BY <1>2 DEF BytesInv
  <2>5. QED BY <2>1, <2>2, <2>3, <2>4 DEF ChunkFits, Live
<1>3. ASSUME NEW h \in Handlers PROVE CommitWhole(h)'
  BY <1>3 DEF BytesInv, CommitWhole
<1>4. ASSUME NEW h \in Handlers PROVE Discarding(h)'
  BY <1>4 DEF BytesInv, Discarding, Live, Working
<1>5. ASSUME NEW u \in Uploads PROVE Counted(u)'
  <2>1. SUFFICES ASSUME uploads'[u] # NoSession PROVE Counted(u)'
    BY DEF Counted, Live
  <2>2. uploads'[u] = uploads[u] /\ Counted(u) /\ UNCHANGED <<data, part, accepted>>
    BY <1>5, <2>1 DEF BytesInv
  <2>3. Settled(u)' => Settled(u)
    <3>1. ASSUME NEW h \in Handlers, pc[h] = "count", req[h].id = u
          PROVE  pc'[h] = "count" /\ req'[h].id = u
      <4>1. uploads'[req[h].id] # NoSession
        BY <2>1, <3>1
      <4>2. QED BY <3>1, <4>1
    <3>2. QED BY <3>1 DEF Settled
  <2>4. QED BY <2>1, <2>2, <2>3 DEF Counted, Live
<1>6. TargetsWhole'
  BY DEF BytesInv, TargetsWhole, Whole, Exists
<1>7. QED BY <1>1, <1>2, <1>3, <1>4, <1>5, <1>6 DEF BytesInv

(* The steps that do more, one lemma each. *)
LEMMA IdsFromInv ==
    ASSUME TypeInv, IdsInv, NEW h \in Handlers, pc[h] \in Working
    PROVE  req[h].id \in Uploads
BY Workers

LEMMA CreateKeepsBytes ==
    ASSUME TypeInv, IdsInv, FilesInv, BytesInv, NEW h \in Handlers, UploadInitCreate(h)
    PROVE  BytesInv'
<1> USE DEF TypeInv, TypeOK
<1>1. /\ NewId \in Uploads /\ NewId \notin issued
      /\ NewInode \in Inodes /\ NewInode \notin InUse
      /\ part' = [part EXCEPT ![NewId] = NewInode]
      /\ data' = [data EXCEPT ![NewInode] = <<>>]
      /\ newId' = [newId EXCEPT ![h] = NewId]
      /\ pc' = [pc EXCEPT ![h] = "register"]
      /\ UNCHANGED <<uploads, target, req, fd, opened, accepted>>
  BY FreshChoices DEF UploadInitCreate, Goto
<1>2. \A v \in Uploads : opened[v] # NoSession => v # NewId
  BY <1>1 DEF IdsInv
<1>3. \A v \in Uploads : v # NewId =>
          part'[v] = part[v] /\ (part[v] # NoFile => data'[part[v]] = data[part[v]])
  BY <1>1 DEF InUse
<1>4. \A g \in Handlers : pc'[g] \in Working =>
          pc'[g] = pc[g] /\ req[g].id \in Uploads /\ req[g].id # NewId
  BY <1>1, <1>2, Workers DEF Working, ChunkLabels, CommitLabels
<1>new. ASSUME NEW g \in Handlers PROVE NewPart(g)'
  BY <1>1, <1>3, <1>new, NoneAssumption DEF BytesInv, NewPart, IdsInv
<1>fits. ASSUME NEW g \in Handlers PROVE ChunkFits(g)'
  <2>1. SUFFICES ASSUME pc'[g] \in ChunkLabels, Live(req[g].id) PROVE ChunkFits(g)'
    BY <1>1 DEF ChunkFits, Live
  <2>2. pc'[g] = pc[g] /\ req[g].id \in Uploads /\ req[g].id # NewId
    BY <1>4, <1>fits, <2>1 DEF Working
  <2>3. pc[g] \in {"append", "count"} => fd[g] # NoFile
    BY <1>fits DEF Shape
  <2>4. QED BY <1>1, <1>3, <1>fits, <2>1, <2>2, <2>3 DEF BytesInv, ChunkFits, Live
<1>whole. ASSUME NEW g \in Handlers PROVE CommitWhole(g)'
  BY <1>1, <1>3, <1>4, <1>whole DEF BytesInv, CommitWhole, Working
<1>gone. ASSUME NEW g \in Handlers PROVE Discarding(g)'
  BY <1>1, <1>4, <1>gone DEF BytesInv, Discarding, Working, Live
<1>counted. ASSUME NEW v \in Uploads PROVE Counted(v)'
  <2>1. SUFFICES ASSUME Live(v) PROVE Counted(v)'
    BY <1>1 DEF Counted, Live
  <2>2. v # NewId
    BY <1>2, <1>counted, <2>1 DEF IdsInv
  <2>3. Settled(v)' => Settled(v)
    BY <1>1 DEF Settled, UploadInitCreate, At
  <2>4. QED BY <1>1, <1>3, <1>counted, <2>2, <2>3 DEF BytesInv, Counted, Live
<1>targets. TargetsWhole'
  BY <1>1 DEF BytesInv, TargetsWhole, Whole, Exists, InUse
<1> QED BY <1>new, <1>fits, <1>whole, <1>gone, <1>counted, <1>targets DEF BytesInv

LEMMA RegisterKeepsBytes ==
    ASSUME TypeInv, IdsInv, FilesInv, BytesInv, NEW h \in Handlers, UploadInitRegister(h)
    PROVE  BytesInv'
<1> USE DEF TypeInv, TypeOK
<1> DEFINE u == newId[h]
<1>1. /\ u \in Uploads /\ opened[u] = NoSession /\ accepted[u] = <<>>
      /\ part[u] # NoFile /\ data[part[u]] = <<>>
  BY NoneAssumption DEF UploadInitRegister, Shape, IdsInv, BytesInv, NewPart
<1>2. req[h].size \in Nat
  BY SizesAssumption DEF UploadInitRegister, Shape, InitRequest
<1>3. /\ uploads' = [uploads EXCEPT ![u] = NewSession(req[h])]
      /\ opened' = [opened EXCEPT ![u] = NewSession(req[h])]
      /\ Reply(h) /\ UNCHANGED <<part, target, data, accepted>>
  BY DEF UploadInitRegister, disk
<1>4. /\ pc' = [pc EXCEPT ![h] = "idle"]
      /\ req' = [req EXCEPT ![h] = NoRequest]
      /\ newId' = [newId EXCEPT ![h] = NoId]
      /\ fd' = [fd EXCEPT ![h] = NoFile]
  BY <1>3 DEF Reply, CloseStream
<1>5. \A g \in Handlers : pc'[g] \in Working =>
          /\ g # h /\ pc'[g] = pc[g] /\ req'[g] = req[g] /\ fd'[g] = fd[g]
          /\ req[g].id \in Uploads /\ req[g].id # u
  BY <1>1, <1>4, Workers DEF Working, ChunkLabels, CommitLabels
<1> HIDE DEF u
<1>new. ASSUME NEW g \in Handlers PROVE NewPart(g)'
  BY <1>3, <1>4, <1>new DEF BytesInv, NewPart
<1>fits. ASSUME NEW g \in Handlers PROVE ChunkFits(g)'
  <2>1. SUFFICES ASSUME pc'[g] \in ChunkLabels PROVE ChunkFits(g)'
    BY DEF ChunkFits
  <2>2. /\ pc'[g] = pc[g] /\ req'[g] = req[g] /\ fd'[g] = fd[g]
        /\ req[g].id \in Uploads /\ req[g].id # u
    BY <1>5, <1>fits, <2>1 DEF Working
  <2>3. QED BY <1>3, <1>fits, <2>1, <2>2 DEF BytesInv, ChunkFits, Live
<1>whole. ASSUME NEW g \in Handlers PROVE CommitWhole(g)'
  BY <1>3, <1>5, <1>whole DEF BytesInv, CommitWhole, Working
<1>gone. ASSUME NEW g \in Handlers PROVE Discarding(g)'
  BY <1>3, <1>5, <1>gone DEF BytesInv, Discarding, Working, Live
<1>counted. ASSUME NEW v \in Uploads PROVE Counted(v)'
  <2>1. CASE v = u
    BY <1>1, <1>2, <1>3, <2>1, EmptySeq DEF Counted, NewSession
  <2>2. CASE v # u
    <3>1. Settled(v)' => Settled(v)
      BY <1>4 DEF Settled, UploadInitRegister
    <3>2. QED BY <1>3, <1>counted, <2>2, <3>1 DEF BytesInv, Counted, Live
  <2>3. QED BY <2>1, <2>2
<1>targets. TargetsWhole'
  BY <1>1, <1>3 DEF BytesInv, TargetsWhole, Whole, Exists
<1> QED BY <1>new, <1>fits, <1>whole, <1>gone, <1>counted, <1>targets DEF BytesInv

LEMMA AcceptKeepsBytes ==
    ASSUME TypeInv, IdsInv, FilesInv, BytesInv, NEW h \in Handlers, UploadChunkAccept(h)
    PROVE  BytesInv'
<1> USE DEF TypeInv, TypeOK
<1> DEFINE u == req[h].id
<1>1. /\ Live(u) /\ OffsetExpected(h) /\ Fits(h)
      /\ pc' = [pc EXCEPT ![h] = "open"] /\ pc[h] = "received"
      /\ UNCHANGED <<uploads, part, target, data, req, newId, fd, opened, accepted>>
  BY DEF UploadChunkAccept, ChunkAcceptable, Goto, At, disk, history
<1>new. ASSUME NEW g \in Handlers PROVE NewPart(g)'
  BY <1>1, <1>new DEF BytesInv, NewPart
<1>fits. ASSUME NEW g \in Handlers PROVE ChunkFits(g)'
  <2>1. CASE g = h
    BY <1>1, <2>1 DEF ChunkFits, OffsetExpected, Fits
  <2>2. CASE g # h
    BY <1>1, <1>fits, <2>2 DEF BytesInv, ChunkFits, Live
  <2>3. QED BY <2>1, <2>2
<1>whole. ASSUME NEW g \in Handlers PROVE CommitWhole(g)'
  BY <1>1, <1>whole DEF BytesInv, CommitWhole, CommitLabels
<1>gone. ASSUME NEW g \in Handlers PROVE Discarding(g)'
  BY <1>1, <1>gone DEF BytesInv, Discarding, Live
<1>counted. ASSUME NEW v \in Uploads PROVE Counted(v)'
  <2>1. Settled(v)' => Settled(v)
    BY <1>1 DEF Settled
  <2>2. QED BY <1>1, <1>counted, <2>1 DEF BytesInv, Counted, Live
<1>targets. TargetsWhole'
  BY <1>1 DEF BytesInv, TargetsWhole, Whole, Exists
<1> QED BY <1>new, <1>fits, <1>whole, <1>gone, <1>counted, <1>targets DEF BytesInv

LEMMA OpenKeepsBytes ==
    ASSUME TypeInv, IdsInv, FilesInv, BytesInv, NEW h \in Handlers, UploadChunkOpen(h)
    PROVE  BytesInv'
<1> USE DEF TypeInv, TypeOK
<1> DEFINE u == req[h].id
<1>1. /\ pc[h] = "open" /\ pc' = [pc EXCEPT ![h] = "append"]
      /\ fd' = [fd EXCEPT ![h] = part[u]]
      /\ UNCHANGED <<uploads, part, target, data, req, newId, opened, accepted>>
  BY DEF UploadChunkOpen, Goto, disk, history
<1>new. ASSUME NEW g \in Handlers PROVE NewPart(g)'
  BY <1>1, <1>new DEF BytesInv, NewPart
<1>fits. ASSUME NEW g \in Handlers PROVE ChunkFits(g)'
  <2>1. CASE g = h
    BY <1>1, <1>fits, <2>1 DEF BytesInv, ChunkFits, Live, ChunkLabels
  <2>2. CASE g # h
    BY <1>1, <1>fits, <2>2 DEF BytesInv, ChunkFits, Live
  <2>3. QED BY <2>1, <2>2
<1>whole. ASSUME NEW g \in Handlers PROVE CommitWhole(g)'
  BY <1>1, <1>whole DEF BytesInv, CommitWhole, CommitLabels
<1>gone. ASSUME NEW g \in Handlers PROVE Discarding(g)'
  BY <1>1, <1>gone DEF BytesInv, Discarding, Live
<1>counted. ASSUME NEW v \in Uploads PROVE Counted(v)'
  <2>1. Settled(v)' => Settled(v)
    BY <1>1 DEF Settled
  <2>2. QED BY <1>1, <1>counted, <2>1 DEF BytesInv, Counted, Live
<1>targets. TargetsWhole'
  BY <1>1 DEF BytesInv, TargetsWhole, Whole, Exists
<1> QED BY <1>new, <1>fits, <1>whole, <1>gone, <1>counted, <1>targets DEF BytesInv

LEMMA RecreateKeepsBytes ==
    ASSUME TypeInv, IdsInv, FilesInv, BytesInv, NEW h \in Handlers, UploadChunkRecreate(h)
    PROVE  BytesInv'
<1> USE DEF TypeInv, TypeOK
<1> DEFINE u == req[h].id
<1>1. /\ NewInode \in Inodes /\ NewInode \notin InUse
      /\ pc[h] = "open" /\ part[u] = NoFile
      /\ pc' = [pc EXCEPT ![h] = "append"]
      /\ part' = [part EXCEPT ![u] = NewInode]
      /\ data' = [data EXCEPT ![NewInode] = <<>>]
      /\ fd' = [fd EXCEPT ![h] = NewInode]
      /\ UNCHANGED <<uploads, target, req, newId, opened, accepted>>
  BY FreshChoices DEF UploadChunkRecreate, Goto, history
<1>2. /\ u \in Uploads /\ opened[u] # NoSession
      /\ Len(req[h].content) \in Nat \ {0}
  BY <1>1, Workers DEF Working, ChunkLabels
<1>3. ~Live(u)
  <2>1. SUFFICES ASSUME Live(u) PROVE FALSE
    OBVIOUS
  <2>2. uploads[u].received + Len(req[h].content) <= uploads[u].expected
    BY <1>1, <2>1 DEF BytesInv, ChunkFits, ChunkLabels
  <2>3. uploads[u].received = uploads[u].expected /\ uploads[u] \in Session
    BY <1>1, <1>2, <2>1 DEF BytesInv, Counted, Live
  <2>4. QED BY <1>2, <2>2, <2>3 DEF Session
<1>4. \A v \in Uploads : v # u =>
          part'[v] = part[v] /\ (part[v] # NoFile => data'[part[v]] = data[part[v]])
  BY <1>1 DEF InUse
<1>5. \A g \in Handlers : g # h /\ pc[g] \in ChunkLabels \cup CommitLabels =>
          req[g].id \in Uploads /\ req[g].id # u
  BY <1>1, Workers DEF Working, ChunkLabels
<1>6. \A g \in Handlers : newId[g] # NoId => newId[g] # u
  BY <1>1, Workers DEF Working, ChunkLabels
<1> HIDE DEF u
<1>new. ASSUME NEW g \in Handlers PROVE NewPart(g)'
  BY <1>1, <1>4, <1>6, <1>new, NoneAssumption DEF BytesInv, NewPart
<1>fits. ASSUME NEW g \in Handlers PROVE ChunkFits(g)'
  <2>1. CASE g = h
    BY <1>1, <1>3, <2>1 DEF ChunkFits, Live, u
  <2>2. CASE g # h
    <3>1. pc[g] \in {"append", "count"} => fd[g] # NoFile
      BY <1>fits DEF Shape
    <3>2. SUFFICES ASSUME pc[g] \in ChunkLabels, Live(req[g].id) PROVE ChunkFits(g)'
      BY <1>1, <2>2 DEF ChunkFits, Live
    <3>3. req[g].id \in Uploads /\ req[g].id # u
      BY <1>5, <1>fits, <2>2, <3>2
    <3>4. QED BY <1>1, <1>4, <1>fits, <2>2, <3>1, <3>2, <3>3 DEF BytesInv, ChunkFits, Live
  <2>3. QED BY <2>1, <2>2
<1>whole. ASSUME NEW g \in Handlers PROVE CommitWhole(g)'
  BY <1>1, <1>4, <1>5, <1>whole DEF BytesInv, CommitWhole, CommitLabels
<1>gone. ASSUME NEW g \in Handlers PROVE Discarding(g)'
  BY <1>1, <1>gone DEF BytesInv, Discarding, Live
<1>counted. ASSUME NEW v \in Uploads PROVE Counted(v)'
  <2>1. Settled(v)' => Settled(v)
    BY <1>1 DEF Settled
  <2>2. QED BY <1>1, <1>3, <1>4, <1>counted, <2>1 DEF BytesInv, Counted, Live
<1>targets. TargetsWhole'
  BY <1>1 DEF BytesInv, TargetsWhole, Whole, Exists, InUse
<1> QED BY <1>new, <1>fits, <1>whole, <1>gone, <1>counted, <1>targets DEF BytesInv

LEMMA AppendKeepsBytes ==
    ASSUME TypeInv, IdsInv, FilesInv, BytesInv, NEW h \in Handlers, UploadChunkAppend(h)
    PROVE  BytesInv'
<1> USE DEF TypeInv, TypeOK
<1> DEFINE u == req[h].id
<1>1. /\ pc[h] = "append" /\ pc' = [pc EXCEPT ![h] = "count"]
      /\ data' = [data EXCEPT ![fd[h]] = @ \o req[h].content]
      /\ UNCHANGED <<uploads, part, target, req, newId, fd, opened, accepted>>
  BY DEF UploadChunkAppend, WriteOut, Goto, history
<1>2. u \in Uploads /\ fd[h] # NoFile /\ fd[h] \in Inodes
  BY <1>1, Workers DEF Working, ChunkLabels, Shape
<1>3. \A v \in Uploads : part[v] # NoFile /\ v # u => data'[part[v]] = data[part[v]]
  BY <1>1, <1>2 DEF FilesInv
<1>4. \A t \in Targets : Exists(t) => data'[target[t]] = data[target[t]]
  BY <1>1, <1>2 DEF FilesInv, NoWriteToTarget, Exists
<1>5. \A g \in Handlers : g # h /\ pc[g] \in ChunkLabels \cup CommitLabels =>
          req[g].id \in Uploads /\ req[g].id # u
  BY <1>1, Workers DEF Working, ChunkLabels
<1>6. \A g \in Handlers : newId[g] # NoId => newId[g] \in Uploads /\ newId[g] # u
  BY <1>1, Workers DEF Working, ChunkLabels
<1>7. Live(u) => fd[h] = part[u] /\ data[part[u]] = accepted[u]
  <2>1. Settled(u)
    BY <1>1, <1>5 DEF Settled, ChunkLabels
  <2>2. Live(u) => fd[h] = part[u]
    BY <1>1 DEF BytesInv, ChunkFits, ChunkLabels
  <2>3. QED BY <1>2, <2>1, <2>2 DEF BytesInv, Counted
<1> HIDE DEF u
<1>new. ASSUME NEW g \in Handlers PROVE NewPart(g)'
  BY <1>1, <1>3, <1>6, <1>new DEF BytesInv, NewPart, Shape
<1>fits. ASSUME NEW g \in Handlers PROVE ChunkFits(g)'
  <2>1. CASE g = h
    <3>1. ChunkFits(h)
      BY DEF BytesInv
    <3>2. Live(u) => data'[part[u]] = accepted[u] \o req[h].content
      BY <1>1, <1>2, <1>7
    <3>3. QED BY <1>1, <1>7, <2>1, <3>1, <3>2 DEF ChunkFits, Live, ChunkLabels, u
  <2>2. CASE g # h
    <3>1. pc[g] \in {"append", "count"} => fd[g] # NoFile
      BY <1>fits DEF Shape
    <3>2. SUFFICES ASSUME pc[g] \in ChunkLabels, Live(req[g].id) PROVE ChunkFits(g)'
      BY <1>1, <2>2 DEF ChunkFits, Live
    <3>3. req[g].id \in Uploads /\ req[g].id # u
      BY <1>5, <1>fits, <2>2, <3>2
    <3>4. QED BY <1>1, <1>3, <1>fits, <2>2, <3>1, <3>2, <3>3 DEF BytesInv, ChunkFits, Live
  <2>3. QED BY <2>1, <2>2
<1>whole. ASSUME NEW g \in Handlers PROVE CommitWhole(g)'
  BY <1>1, <1>3, <1>5, <1>whole DEF BytesInv, CommitWhole, CommitLabels
<1>gone. ASSUME NEW g \in Handlers PROVE Discarding(g)'
  BY <1>1, <1>gone DEF BytesInv, Discarding, Live
<1>counted. ASSUME NEW v \in Uploads PROVE Counted(v)'
  <2>1. CASE v = u
    <3>1. ~Settled(v)'
      BY <1>1, <2>1 DEF Settled, u
    <3>2. QED BY <1>1, <1>counted, <3>1 DEF BytesInv, Counted, Live
  <2>2. CASE v # u
    <3>1. Settled(v)' => Settled(v)
      BY <1>1 DEF Settled
    <3>2. QED BY <1>1, <1>3, <1>counted, <2>2, <3>1 DEF BytesInv, Counted, Live
  <2>3. QED BY <2>1, <2>2
<1>targets. TargetsWhole'
  <2>1. ASSUME NEW t \in Targets, Exists(t) PROVE Whole(target[t])'
    <3>1. Whole(target[t]) /\ data'[target[t]] = data[target[t]]
      BY <1>4, <2>1 DEF BytesInv, TargetsWhole
    <3>2. QED BY <1>1, <3>1 DEF Whole
  <2>2. QED BY <1>1, <2>1 DEF TargetsWhole, Exists
<1> QED BY <1>new, <1>fits, <1>whole, <1>gone, <1>counted, <1>targets DEF BytesInv

LEMMA CountKeepsBytes ==
    ASSUME TypeInv, IdsInv, FilesInv, BytesInv, NEW h \in Handlers, UploadChunkCount(h)
    PROVE  BytesInv'
<1> USE DEF TypeInv, TypeOK
<1> DEFINE u == req[h].id
<1>1. /\ u \in Uploads /\ uploads[u] \in Session /\ accepted[u] \in Seq(Blocks)
      /\ req[h].content \in Seq(Blocks) /\ Len(req[h].content) \in Nat \ {0}
      /\ opened[u] # NoSession
  BY Workers DEF UploadChunkCount, Working, ChunkLabels, Live
<1> DEFINE s == [uploads[u] EXCEPT !.received = @ + Len(req[h].content)]
<1>2. /\ pc[h] = "count" /\ Live(u)
      /\ uploads' = [uploads EXCEPT ![u] = s]
      /\ accepted' = [accepted EXCEPT ![u] = @ \o req[h].content]
      /\ Reply(h) /\ UNCHANGED <<part, target, data, opened>>
  BY DEF UploadChunkCount, disk
<1>3. /\ pc' = [pc EXCEPT ![h] = "idle"]
      /\ req' = [req EXCEPT ![h] = NoRequest]
      /\ newId' = [newId EXCEPT ![h] = NoId]
      /\ fd' = [fd EXCEPT ![h] = NoFile]
  BY <1>2 DEF Reply, CloseStream
<1>4. /\ uploads[u].received = Len(accepted[u])
      /\ uploads[u].received + Len(req[h].content) <= uploads[u].expected
      /\ fd[h] = part[u] /\ part[u] # NoFile
      /\ data[part[u]] = accepted[u] \o req[h].content
      /\ opened[u].expected = uploads[u].expected
  BY <1>1, <1>2 DEF BytesInv, ChunkFits, Counted, ChunkLabels, Shape, IdsInv
<1>5. /\ s.received = uploads[u].received + Len(req[h].content)
      /\ s.expected = uploads[u].expected
  BY <1>1, CountedSession
<1>6. \A g \in Handlers : pc'[g] \in Working =>
          /\ g # h /\ pc'[g] = pc[g] /\ req'[g] = req[g] /\ fd'[g] = fd[g]
          /\ req[g].id \in Uploads
          /\ pc[g] \in ChunkLabels \cup CommitLabels => req[g].id # u
  BY <1>2, <1>3, Workers DEF Working, ChunkLabels, CommitLabels
<1>7. /\ \A v \in Uploads : v # u =>
             uploads'[v] = uploads[v] /\ accepted'[v] = accepted[v]
      /\ uploads'[u] = s /\ accepted'[u] = accepted[u] \o req[h].content
  BY <1>1, <1>2
<1> HIDE DEF u, s
<1>new. ASSUME NEW g \in Handlers PROVE NewPart(g)'
  BY <1>2, <1>3, <1>new DEF BytesInv, NewPart
<1>fits. ASSUME NEW g \in Handlers PROVE ChunkFits(g)'
  <2>1. SUFFICES ASSUME pc'[g] \in ChunkLabels PROVE ChunkFits(g)'
    BY DEF ChunkFits
  <2>2. /\ pc'[g] = pc[g] /\ req'[g] = req[g] /\ fd'[g] = fd[g]
        /\ req[g].id \in Uploads /\ req[g].id # u
    BY <1>6, <1>fits, <2>1 DEF Working
  <2>3. /\ uploads'[req[g].id] = uploads[req[g].id]
        /\ accepted'[req[g].id] = accepted[req[g].id]
        /\ UNCHANGED <<part, data>> /\ ChunkFits(g)
    BY <1>2, <1>7, <1>fits, <2>2 DEF BytesInv
  <2>4. QED BY <2>1, <2>2, <2>3 DEF ChunkFits, Live
<1>whole. ASSUME NEW g \in Handlers PROVE CommitWhole(g)'
  <2>1. SUFFICES ASSUME pc'[g] \in CommitLabels PROVE CommitWhole(g)'
    BY DEF CommitWhole
  <2>2. /\ pc'[g] = pc[g] /\ req'[g] = req[g]
        /\ req[g].id \in Uploads /\ req[g].id # u
    BY <1>6, <1>whole, <2>1 DEF Working
  <2>3. QED BY <1>2, <1>7, <1>whole, <2>1, <2>2 DEF BytesInv, CommitWhole
<1>gone. ASSUME NEW g \in Handlers PROVE Discarding(g)'
  <2>1. SUFFICES ASSUME pc'[g] = "discard" PROVE Discarding(g)'
    BY DEF Discarding
  <2>2. pc'[g] = pc[g] /\ req'[g] = req[g] /\ req[g].id \in Uploads
    BY <1>6, <1>gone, <2>1 DEF Working
  <2>3. req[g].id # u
    BY <1>2, <1>gone, <2>1, <2>2 DEF BytesInv, Discarding
  <2>4. QED BY <1>7, <2>2, <2>3, <1>gone, <2>1 DEF BytesInv, Discarding, Live
<1>counted. ASSUME NEW v \in Uploads PROVE Counted(v)'
  <2>1. CASE v = u
    <3>1. Len(accepted[u] \o req[h].content) = Len(accepted[u]) + Len(req[h].content)
      BY <1>1
    <3>2. QED BY <1>2, <1>4, <1>5, <1>7, <2>1, <3>1 DEF Counted
  <2>2. CASE v # u
    <3>1. Settled(v)' => Settled(v)
      BY <1>2, <1>3, <2>2 DEF Settled, u
    <3>2. QED BY <1>2, <1>7, <1>counted, <2>2, <3>1 DEF BytesInv, Counted, Live
  <2>3. QED BY <2>1, <2>2
<1>targets. TargetsWhole'
  <2>1. Len(accepted[u]) # opened[u].expected
    BY <1>1, <1>4 DEF Session
  <2>2. ASSUME NEW t \in Targets, Exists(t) PROVE Whole(target[t])'
    <3>1. Whole(target[t])
      BY <2>2 DEF BytesInv, TargetsWhole
    <3>2. QED BY <1>2, <1>7, <2>1, <3>1 DEF Whole
  <2>3. QED BY <1>2, <2>2 DEF TargetsWhole, Exists
<1> QED BY <1>new, <1>fits, <1>whole, <1>gone, <1>counted, <1>targets DEF BytesInv

LEMMA CopyKeepsBytes ==
    ASSUME TypeInv, IdsInv, FilesInv, BytesInv, NEW h \in Handlers, UploadCommitCopy(h)
    PROVE  BytesInv'
<1> USE DEF TypeInv, TypeOK
<1> DEFINE u == req[h].id
<1>1. /\ pc[h] = "received" /\ pc' = [pc EXCEPT ![h] = "temp"] /\ Complete(u)
      /\ UNCHANGED <<uploads, part, target, data, req, newId, fd, opened, accepted>>
  BY DEF UploadCommitCopy, Goto, At, disk, history
<1>2. req[h].op = "commit" /\ u \in Uploads
  BY RequestKinds DEF UploadCommitCopy, At, Shape, ControlRequest
<1>3. Settled(u)
  <2>1. ASSUME NEW g \in Handlers, pc[g] = "count", req[g].id = u PROVE FALSE
    <3>1. req[g].op = "chunk"
      BY <2>1 DEF Shape, ChunkLabels, ChunkRequest
    <3>2. QED BY <1>2, <2>1, <3>1 DEF IdsInv, OneWriter
  <2>2. QED BY <2>1 DEF Settled
<1>4. CommitWhole(h)'
  BY <1>1, <1>2, <1>3 DEF CommitWhole, BytesInv, Counted, Complete, IdsInv
<1>new. ASSUME NEW g \in Handlers PROVE NewPart(g)'
  BY <1>1, <1>new DEF BytesInv, NewPart
<1>fits. ASSUME NEW g \in Handlers PROVE ChunkFits(g)'
  BY <1>1, <1>fits DEF BytesInv, ChunkFits, Live, ChunkLabels
<1>whole. ASSUME NEW g \in Handlers PROVE CommitWhole(g)'
  <2>1. CASE g # h
    BY <1>1, <1>whole, <2>1 DEF BytesInv, CommitWhole
  <2>2. QED BY <1>4, <2>1
<1>gone. ASSUME NEW g \in Handlers PROVE Discarding(g)'
  BY <1>1, <1>gone DEF BytesInv, Discarding, Live
<1>counted. ASSUME NEW v \in Uploads PROVE Counted(v)'
  <2>1. Settled(v)' => Settled(v)
    BY <1>1 DEF Settled
  <2>2. QED BY <1>1, <1>counted, <2>1 DEF BytesInv, Counted, Live
<1>targets. TargetsWhole'
  BY <1>1 DEF BytesInv, TargetsWhole, Whole, Exists
<1> QED BY <1>new, <1>fits, <1>whole, <1>gone, <1>counted, <1>targets DEF BytesInv

LEMMA RenameKeepsBytes ==
    ASSUME TypeInv, IdsInv, FilesInv, BytesInv, NEW h \in Handlers, ReplaceRename(h)
    PROVE  BytesInv'
<1> USE DEF TypeInv, TypeOK
<1> DEFINE u == req[h].id
<1>1. /\ pc[h] = "rename" /\ part[u] # NoFile
      /\ target' = [target EXCEPT ![ses[h].target] = part[u]]
      /\ part' = [part EXCEPT ![u] = NoFile]
      /\ pc' = [pc EXCEPT ![h] = AfterRename(h)]
      /\ AfterRename(h) \in LateLabels
      /\ UNCHANGED <<uploads, data, req, newId, fd, opened, accepted>>
  BY DEF ReplaceRename, Goto, history, AfterRename, LateLabels
<1>2. /\ u \in Uploads /\ opened[u] # NoSession
      /\ Len(accepted[u]) = opened[u].expected /\ data[part[u]] = accepted[u]
  BY <1>1, Workers DEF Working, CommitLabels, BytesInv, CommitWhole
<1>3. \A g \in Handlers : pc'[g] \in Working =>
          /\ g # h /\ pc'[g] = pc[g] /\ req[g].id \in Uploads
          /\ pc[g] \in ChunkLabels \cup CommitLabels => req[g].id # u
  BY <1>1, Workers DEF Working, ChunkLabels, CommitLabels, LateLabels
<1>4. \A g \in Handlers : newId[g] # NoId => newId[g] # u
  BY <1>1, Workers DEF Working, CommitLabels
<1>5. \A v \in Uploads : v # u => part'[v] = part[v]
  BY <1>1
<1> HIDE DEF u
<1>new. ASSUME NEW g \in Handlers PROVE NewPart(g)'
  BY <1>1, <1>3, <1>4, <1>5, <1>new DEF BytesInv, NewPart, Shape, LateLabels
<1>fits. ASSUME NEW g \in Handlers PROVE ChunkFits(g)'
  <2>1. SUFFICES ASSUME pc'[g] \in ChunkLabels PROVE ChunkFits(g)'
    BY DEF ChunkFits
  <2>2. pc'[g] = pc[g] /\ req[g].id \in Uploads /\ req[g].id # u
    BY <1>3, <1>fits, <2>1 DEF Working
  <2>3. QED BY <1>1, <1>5, <1>fits, <2>1, <2>2 DEF BytesInv, ChunkFits, Live
<1>whole. ASSUME NEW g \in Handlers PROVE CommitWhole(g)'
  <2>1. SUFFICES ASSUME pc'[g] \in CommitLabels PROVE CommitWhole(g)'
    BY DEF CommitWhole
  <2>2. pc'[g] = pc[g] /\ req[g].id \in Uploads /\ req[g].id # u
    BY <1>3, <1>whole, <2>1 DEF Working
  <2>3. QED BY <1>1, <1>5, <1>whole, <2>1, <2>2 DEF BytesInv, CommitWhole
<1>gone. ASSUME NEW g \in Handlers PROVE Discarding(g)'
  BY <1>1, <1>3, <1>gone DEF BytesInv, Discarding, Live, Working
<1>counted. ASSUME NEW v \in Uploads PROVE Counted(v)'
  <2>1. CASE v = u
    <3>1. Live(u) => uploads[u].received = uploads[u].expected
      BY <1>2 DEF BytesInv, Counted, IdsInv
    <3>2. QED BY <1>1, <1>2, <2>1, <3>1 DEF BytesInv, Counted, Live
  <2>2. CASE v # u
    <3>1. Settled(v)' => Settled(v)
      BY <1>1 DEF Settled
    <3>2. QED BY <1>1, <1>5, <1>counted, <2>2, <3>1 DEF BytesInv, Counted, Live
  <2>3. QED BY <2>1, <2>2
<1>targets. TargetsWhole'
  <2>1. ASSUME NEW t \in Targets, Exists(t)' PROVE Whole(target'[t])
    <3>1. CASE target'[t] = part[u]
      BY <1>2, <3>1 DEF Whole
    <3>2. CASE target'[t] = target[t]
      BY <2>1, <3>2 DEF BytesInv, TargetsWhole, Exists
    <3>3. QED BY <1>1, <2>1, <3>1, <3>2
  <2>2. QED BY <1>1, <2>1 DEF TargetsWhole, Whole, Exists
<1> QED BY <1>new, <1>fits, <1>whole, <1>gone, <1>counted, <1>targets DEF BytesInv

LEMMA EraseKeepsBytes ==
    ASSUME TypeInv, IdsInv, FilesInv, BytesInv, NEW h \in Handlers, UploadAbortErase(h)
    PROVE  BytesInv'
<1> USE DEF TypeInv, TypeOK
<1> DEFINE u == req[h].id
<1>1. /\ pc[h] = "received" /\ pc' = [pc EXCEPT ![h] = "discard"]
      /\ uploads' = [uploads EXCEPT ![u] = NoSession]
      /\ UNCHANGED <<part, target, data, req, newId, fd, opened, accepted>>
  BY DEF UploadAbortErase, Goto, At, disk, history
<1>2. u \in Uploads
  BY RequestKinds DEF UploadAbortErase, At, Shape, ControlRequest
<1>new. ASSUME NEW g \in Handlers PROVE NewPart(g)'
  BY <1>1, <1>new DEF BytesInv, NewPart
<1>fits. ASSUME NEW g \in Handlers PROVE ChunkFits(g)'
  <2>1. SUFFICES ASSUME pc'[g] \in ChunkLabels, Live(req[g].id)' PROVE ChunkFits(g)'
    BY <1>1 DEF ChunkFits
  <2>2. pc[g] = pc'[g] /\ req[g].id \in Uploads
    BY <1>1, <1>fits, <2>1, Workers DEF ChunkLabels, Working
  <2>3. uploads'[req[g].id] = uploads[req[g].id]
    BY <1>1, <1>2, <2>1, <2>2 DEF Live
  <2>4. QED BY <1>1, <1>fits, <2>1, <2>2, <2>3 DEF BytesInv, ChunkFits, Live
<1>whole. ASSUME NEW g \in Handlers PROVE CommitWhole(g)'
  BY <1>1, <1>whole DEF BytesInv, CommitWhole, CommitLabels
<1>gone. ASSUME NEW g \in Handlers PROVE Discarding(g)'
  <2>1. CASE g = h
    BY <1>1, <1>2, <2>1 DEF Discarding, Live
  <2>2. CASE g # h
    <3>1. SUFFICES ASSUME pc[g] = "discard" PROVE Discarding(g)'
      BY <1>1, <2>2 DEF Discarding
    <3>2. req[g].id \in Uploads /\ ~Live(req[g].id)
      BY <1>gone, <3>1, Workers DEF BytesInv, Discarding, Working
    <3>3. QED BY <1>1, <3>2 DEF Discarding, Live
  <2>3. QED BY <2>1, <2>2
<1>counted. ASSUME NEW v \in Uploads PROVE Counted(v)'
  <2>1. Settled(v)' => Settled(v)
    BY <1>1 DEF Settled
  <2>2. QED BY <1>1, <1>2, <1>counted, <2>1 DEF BytesInv, Counted, Live
<1>targets. TargetsWhole'
  BY <1>1 DEF BytesInv, TargetsWhole, Whole, Exists
<1> QED BY <1>new, <1>fits, <1>whole, <1>gone, <1>counted, <1>targets DEF BytesInv

LEMMA DiscardKeepsBytes ==
    ASSUME TypeInv, IdsInv, FilesInv, BytesInv, NEW h \in Handlers, UploadAbortDiscard(h)
    PROVE  BytesInv'
<1> USE DEF TypeInv, TypeOK
<1> DEFINE u == req[h].id
<1>1. /\ pc[h] = "discard" /\ part' = [part EXCEPT ![u] = NoFile]
      /\ Reply(h) /\ UNCHANGED <<uploads, target, data, opened, accepted>>
  BY DEF UploadAbortDiscard, history
<1>2. u \in Uploads /\ ~Live(u)
  BY <1>1, Workers DEF BytesInv, Discarding, Working
<1>3. /\ pc' = [pc EXCEPT ![h] = "idle"]
      /\ req' = [req EXCEPT ![h] = NoRequest]
      /\ newId' = [newId EXCEPT ![h] = NoId]
      /\ fd' = [fd EXCEPT ![h] = NoFile]
  BY <1>1 DEF Reply, CloseStream
<1>4. \A g \in Handlers : pc'[g] \in Working =>
          /\ g # h /\ pc'[g] = pc[g] /\ req'[g] = req[g] /\ fd'[g] = fd[g]
          /\ req[g].id \in Uploads
  BY <1>1, <1>3, Workers DEF Working, ChunkLabels, CommitLabels
<1>5. \A g \in Handlers : newId[g] # NoId => newId[g] # u
  BY <1>1, Workers DEF Working
<1>6. \A v \in Uploads : v # u => part'[v] = part[v]
  BY <1>1
<1> HIDE DEF u
<1>new. ASSUME NEW g \in Handlers PROVE NewPart(g)'
  BY <1>1, <1>3, <1>5, <1>6, <1>new DEF BytesInv, NewPart, Shape
<1>fits. ASSUME NEW g \in Handlers PROVE ChunkFits(g)'
  <2>1. SUFFICES ASSUME pc'[g] \in ChunkLabels, uploads'[req'[g].id] # NoSession
                 PROVE  ChunkFits(g)'
    BY DEF ChunkFits, Live
  <2>2. /\ pc'[g] = pc[g] /\ req'[g] = req[g] /\ fd'[g] = fd[g]
        /\ req[g].id \in Uploads
    BY <1>4, <1>fits, <2>1 DEF Working
  <2>3. Live(req[g].id) /\ req[g].id # u
    BY <1>1, <1>2, <2>1, <2>2 DEF Live
  <2>4. /\ uploads'[req[g].id] = uploads[req[g].id]
        /\ part'[req[g].id] = part[req[g].id]
        /\ UNCHANGED <<accepted, data>> /\ ChunkFits(g)
    BY <1>1, <1>6, <1>fits, <2>2, <2>3 DEF BytesInv
  <2>5. QED BY <2>1, <2>2, <2>3, <2>4 DEF ChunkFits, Live
<1>whole. ASSUME NEW g \in Handlers PROVE CommitWhole(g)'
  <2>1. SUFFICES ASSUME pc'[g] \in CommitLabels PROVE CommitWhole(g)'
    BY DEF CommitWhole
  <2>2. pc'[g] = pc[g] /\ req'[g] = req[g] /\ req[g].id \in Uploads
    BY <1>4, <1>whole, <2>1 DEF Working
  <2>3. part'[req[g].id] # NoFile => part'[req[g].id] = part[req[g].id]
    BY <1>1, <1>2, <1>6, <2>2
  <2>4. QED BY <1>1, <1>whole, <2>1, <2>2, <2>3 DEF BytesInv, CommitWhole
<1>gone. ASSUME NEW g \in Handlers PROVE Discarding(g)'
  BY <1>1, <1>4, <1>gone DEF BytesInv, Discarding, Working, Live
<1>counted. ASSUME NEW v \in Uploads PROVE Counted(v)'
  <2>1. CASE v = u
    BY <1>1, <1>2, <2>1 DEF Counted, Live
  <2>2. CASE v # u
    <3>1. Settled(v)' => Settled(v)
      BY <1>1, <1>3 DEF Settled
    <3>2. QED BY <1>1, <1>6, <1>counted, <2>2, <3>1 DEF BytesInv, Counted, Live
  <2>3. QED BY <2>1, <2>2
<1>targets. TargetsWhole'
  BY <1>1 DEF BytesInv, TargetsWhole, Whole, Exists
<1> QED BY <1>new, <1>fits, <1>whole, <1>gone, <1>counted, <1>targets DEF BytesInv

LEMMA BytesInvStep ==
    ASSUME DiskFaults = FALSE
    PROVE  TypeInv /\ IdsInv /\ FilesInv /\ BytesInv /\ [Next]_vars => BytesInv'
<1> SUFFICES ASSUME TypeInv, IdsInv, FilesInv, BytesInv, [Next]_vars PROVE BytesInv'
  OBVIOUS
<1> USE DEF TypeInv, TypeOK
<1>1. ASSUME NEW h \in Handlers, NEW r \in Requests, Receive(h, r)
      PROVE  BytesInv'
  <2>1. /\ pc' = [pc EXCEPT ![h] = "received"] /\ pc[h] = "idle"
        /\ req' = [req EXCEPT ![h] = r]
        /\ UNCHANGED <<data, part, target, uploads, newId, fd, opened, accepted>>
    BY <1>1 DEF Receive, disk, history
  <2>2. \A g \in Handlers : g # h => pc'[g] = pc[g] /\ req'[g] = req[g]
    BY <2>1
  <2>3. pc'[h] = "received"
    BY <2>1
  <2>4. \A g \in Handlers : pc'[g] \in Working => req'[g].id \in Uploads
    BY <2>2, <2>3, IdsFromInv DEF Working, ChunkLabels, CommitLabels
  <2>5. QED
    BY <2>1, <2>2, <2>3, <2>4, BytesWeaken DEF ChunkLabels, CommitLabels
<1>2. ASSUME NEW h \in Handlers, Step(h)
      PROVE  BytesInv'
  <2>1. CASE Fails(h) \/ UploadCommitErase(h)
    <3>1. /\ Reply(h) /\ UNCHANGED <<data, part, target, opened, accepted>>
          /\ pc[h] = "count" => ~Live(req[h].id) /\ UNCHANGED uploads
          /\ \A u \in Uploads : uploads'[u] \in {uploads[u], NoSession}
      BY <2>1 DEF Fails, UploadCommitErase, disk, history
    <3>2. \A g \in Handlers : g # h => /\ pc'[g] = pc[g] /\ req'[g] = req[g]
                                       /\ fd'[g] = fd[g] /\ newId'[g] = newId[g]
      BY <3>1, ReplyWeakens
    <3>3. pc'[h] = "idle" /\ \A g \in Handlers : newId'[g] \in {newId[g], NoId}
      BY <3>1, ReplyWeakens
    <3>4. \A g \in Handlers : pc'[g] \in Working => req'[g].id \in Uploads
      BY <3>2, <3>3, IdsFromInv DEF Working, ChunkLabels, CommitLabels
    <3>5. pc[h] = "count" => uploads'[req[h].id] = NoSession
      BY <3>1 DEF Live
    <3>6. QED
      BY <3>1, <3>2, <3>3, <3>4, <3>5, BytesWeaken DEF ChunkLabels, CommitLabels
  <2>2. CASE CommitAdvances(h) \/ ReplaceStatus(h) \/ ReplaceRemove(h)
             \/ ReplacePermissions(h)
    <3>1. /\ UNCHANGED <<data, part, uploads, opened, accepted, req, newId, fd>>
          /\ \A t \in Targets : target'[t] \in {target[t], NoFile}
      BY <2>2 DEF CommitAdvances, ReplaceStatus, ReplaceRemove, ReplacePermissions,
                  Goto, disk, history
    <3>2. /\ \A g \in Handlers : g # h => pc'[g] = pc[g]
          /\ \/ pc[h] \in CommitLabels /\ pc'[h] \in CommitLabels
             \/ pc[h] = "permissions" /\ pc'[h] = "erase"
      BY <2>2 DEF CommitAdvances, ReplaceStatus, ReplaceRemove, ReplacePermissions,
                  Goto, CommitLabels
    <3>3. \A g \in Handlers : pc'[g] \in Working => req'[g].id \in Uploads
      BY <3>1, <3>2, IdsFromInv DEF Working, ChunkLabels, CommitLabels
    <3>4. QED
      BY <3>1, <3>2, <3>3, BytesWeaken DEF ChunkLabels, CommitLabels
  <2>3. ~UploadChunkAppendFails(h) /\ ~UploadChunkCloseFails(h)
    BY DEF UploadChunkAppendFails, UploadChunkCloseFails, WriteFails
  <2>4. QED
    BY <1>2, StepKinds, <2>1, <2>2, <2>3, CreateKeepsBytes, RegisterKeepsBytes,
       AcceptKeepsBytes, OpenKeepsBytes, RecreateKeepsBytes, AppendKeepsBytes,
       CountKeepsBytes, CopyKeepsBytes, RenameKeepsBytes, EraseKeepsBytes,
       DiscardKeepsBytes
<1>3. CASE Crash
  <2>1. /\ UNCHANGED <<data, part, target, opened, accepted>>
        /\ \A u \in Uploads : uploads'[u] = NoSession
        /\ \A g \in Handlers : pc'[g] = "idle" /\ newId'[g] = NoId
    BY <1>3 DEF Crash, disk, history
  <2>2. \A g \in Handlers : pc[g] \in Working => req[g].id \in Uploads
    BY IdsFromInv
  <2>3. QED
    BY <2>1, <2>2, BytesWeaken DEF ChunkLabels, CommitLabels, Working
<1>4. CASE UNCHANGED vars
  <2>1. UNCHANGED <<data, part, target, uploads, opened, accepted, pc, req, newId, fd>>
    BY <1>4 DEF vars, disk, local, history
  <2>2. QED BY <2>1, IdsFromInv, BytesWeaken DEF Working
<1>5. QED BY <1>1, <1>2, <1>3, <1>4 DEF Next

-----------------------------------------------------------------------------
(* The whole invariant, and what follows from it.                          *)

LEMMA Inductive ==
    ASSUME Callers # "any", DiskFaults = FALSE
    PROVE  Spec => []IInv
<1>1. Init => IInv
  BY TypeInvInit, IdsInvInit, FilesInvInit, BytesInvInit DEF IInv
<1>2. IInv /\ [Next]_vars => IInv'
  BY TypeInvStep, IdsInvStep, FilesInvStep, BytesInvStep DEF IInv, IdsInv
<1>3. QED BY <1>1, <1>2, PTL DEF Spec

(* With careful callers and a disk that does not fail, only whole uploads  *)
(* are ever found at a target path, through any interleaving of chunks,    *)
(* commits, aborts and crashes.                                            *)
THEOREM WholeFilesOnly ==
    ASSUME Callers # "any", DiskFaults = FALSE
    PROVE  Spec => []TargetsWhole
<1>1. IInv => TargetsWhole
  BY DEF IInv, BytesInv
<1>2. QED BY <1>1, Inductive, PTL

(* Under the same assumptions, the .part file of a live session with no    *)
(* chunk being served holds what was acknowledged, and received_size       *)
(* counts it.                                                              *)
THEOREM PartsAsAcknowledged ==
    ASSUME Callers # "any", DiskFaults = FALSE
    PROVE  Spec => []StoredAsAccepted
<1>1. IInv => StoredAsAccepted
  <2> SUFFICES ASSUME IInv, NEW u \in Uploads, Live(u)
               PROVE  /\ uploads[u].received = Len(accepted[u])
                      /\ uploads[u].received <= uploads[u].expected
                      /\ part[u] # NoFile /\ InFlight(u, {"chunk"}) = {} =>
                             data[part[u]] = accepted[u]
    BY DEF StoredAsAccepted
  <2>1. InFlight(u, {"chunk"}) = {} => Settled(u)
    BY DEF IInv, TypeInv, Shape, ChunkLabels, ChunkRequest, InFlight, Settled
  <2>2. QED BY <2>1 DEF IInv, BytesInv, Counted
<1>2. QED BY <1>1, Inductive, PTL

(* Under the same assumptions, every chunk that is acknowledged lies in    *)
(* the file at the offset its request named.                               *)
THEOREM ChunksInPlace ==
    ASSUME Callers # "any", DiskFaults = FALSE
    PROVE  Spec => []ChunkAtOffset
<1>1. IInv => ChunkAtOffset
  <2> SUFFICES ASSUME IInv, NEW h \in Handlers, pc[h] = "count", Live(req[h].id)
               PROVE  SubSeq(data[fd[h]], req[h].offset + 1,
                             req[h].offset + Len(req[h].content)) = req[h].content
    BY DEF ChunkAtOffset
  <2>1. /\ req[h].id \in Uploads /\ req[h].content \in Seq(Blocks)
    BY Workers DEF IInv, Working, ChunkLabels
  <2>2. accepted[req[h].id] \in Seq(Blocks)
    BY <2>1 DEF IInv, TypeInv, TypeOK
  <2>3. /\ req[h].offset = Len(accepted[req[h].id])
        /\ data[fd[h]] = accepted[req[h].id] \o req[h].content
    BY <2>1 DEF IInv, BytesInv, ChunkFits, Counted, ChunkLabels
  <2>4. QED BY <2>1, <2>2, <2>3, SuffixOfConcat
<1>2. QED BY <1>1, Inductive, PTL

-----------------------------------------------------------------------------
(* Sessions keep their plans.                                              *)

LEMMA PlansInvInit == Init => PlansInv
BY DEF Init, PlansInv, Live, CommitLabels

(* Only one handler moves, and neither the table nor the copies change.    *)
LEMMA PlansWeaken ==
    ASSUME TypeInv, IdsInv, PlansInv, NEW h \in Handlers,
           UNCHANGED opened,
           \A u \in Uploads : Live(u)' => Live(u) /\ SamePlan(uploads'[u], u),
           \A g \in Handlers : pc'[g] \in CommitLabels =>
               pc[g] \in CommitLabels /\ ses'[g] = ses[g] /\ req'[g] = req[g],
           \A g \in Handlers : pc'[g] \in {"status", "remove"} =>
               pc[g] \in {"status", "remove"} \/ ses[g].overwrite
    PROVE  PlansInv'
BY DEF PlansInv, SamePlan, CommitLabels

LEMMA PlansInvStep == TypeInv /\ IdsInv /\ PlansInv /\ [Next]_vars => PlansInv'
<1> SUFFICES ASSUME TypeInv, IdsInv, PlansInv, [Next]_vars PROVE PlansInv'
  OBVIOUS
<1> USE DEF TypeInv, TypeOK
<1>0. \A u \in Uploads : Live(u) => SamePlan(uploads[u], u)
  BY DEF PlansInv
<1>1. ASSUME NEW h \in Handlers, NEW r \in Requests, Receive(h, r)
      PROVE  PlansInv'
  BY <1>1, <1>0, PlansWeaken DEF Receive, CommitLabels, Live, history
<1>2. ASSUME NEW h \in Handlers, Step(h)
      PROVE  PlansInv'
  <2>1. CASE Fails(h) \/ UploadChunkAppendFails(h) \/ UploadCommitErase(h)
             \/ UploadAbortDiscard(h) \/ UploadChunkCount(h)
    <3>1. /\ Reply(h) /\ UNCHANGED opened
          /\ \A u \in Uploads : Live(u)' => Live(u) /\ SamePlan(uploads'[u], u)
      <4>1. CASE UploadChunkCount(h)
        <5>1. /\ req[h].id \in Uploads /\ Len(req[h].content) \in Nat
          BY <4>1, Workers DEF UploadChunkCount, Working, ChunkLabels
        <5>2. uploads[req[h].id] \in Session
          BY <4>1, <5>1 DEF UploadChunkCount, Live
        <5>3. [uploads[req[h].id] EXCEPT !.received = @ + Len(req[h].content)].overwrite
                  = uploads[req[h].id].overwrite
          BY <5>2 DEF Session
        <5>4. QED
          BY <4>1, <5>1, <5>2, <5>3, <1>0, CountedSession DEF UploadChunkCount, Live, SamePlan
      <4>2. QED BY <2>1, <4>1, <1>0 DEF Fails, UploadChunkAppendFails, UploadCommitErase,
                    UploadAbortDiscard, history, Live
    <3>2. QED BY <3>1, PlansWeaken DEF Reply, CommitLabels
  <2>2. CASE \/ UploadInitCreate(h) \/ UploadChunkAccept(h) \/ UploadChunkOpen(h)
             \/ UploadChunkRecreate(h) \/ UploadChunkAppend(h) \/ UploadChunkCloseFails(h)
             \/ ReplaceRename(h) \/ ReplacePermissions(h) \/ UploadAbortErase(h)
             \/ CommitAdvances(h) \/ ReplaceStatus(h) \/ ReplaceRemove(h)
    <3>1. /\ UNCHANGED <<opened, req>>
          /\ \A g \in Handlers : g # h => pc'[g] = pc[g] /\ ses'[g] = ses[g]
          /\ \A u \in Uploads : uploads'[u] \in {uploads[u], NoSession}
      BY <2>2 DEF UploadInitCreate, UploadChunkAccept, UploadChunkOpen, UploadChunkRecreate,
         UploadChunkAppend, UploadChunkCloseFails, ReplaceRename, ReplacePermissions,
         UploadAbortErase, CommitAdvances, ReplaceStatus, ReplaceRemove, Goto, history
    <3>2. pc'[h] \in CommitLabels =>
              /\ pc[h] \in CommitLabels /\ ses'[h] = ses[h]
              /\ pc'[h] \in {"status", "remove"} =>
                     pc[h] \in {"status", "remove"} \/ ses[h].overwrite
      BY <2>2 DEF UploadInitCreate, UploadChunkAccept, UploadChunkOpen, UploadChunkRecreate,
         UploadChunkAppend, UploadChunkCloseFails, ReplaceRename, ReplacePermissions,
         UploadAbortErase, CommitAdvances, ReplaceStatus, ReplaceRemove, Goto, CommitLabels,
         AfterRename
    <3>3. \A u \in Uploads : Live(u)' => Live(u) /\ SamePlan(uploads'[u], u)
      BY <3>1, <1>0 DEF Live
    <3>4. QED BY <3>1, <3>2, <3>3, PlansWeaken DEF CommitLabels
  <2>3. CASE UploadInitRegister(h)
    <3>1. /\ newId[h] \in Uploads /\ opened[newId[h]] = NoSession
          /\ uploads' = [uploads EXCEPT ![newId[h]] = NewSession(req[h])]
          /\ opened' = [opened EXCEPT ![newId[h]] = NewSession(req[h])]
          /\ Reply(h)
      BY <2>3 DEF UploadInitRegister, Shape, IdsInv
    <3>2. ASSUME NEW g \in Handlers, pc'[g] \in CommitLabels
          PROVE  /\ pc[g] = pc'[g] /\ ses'[g] = ses[g] /\ req'[g] = req[g]
                 /\ req[g].id \in Uploads /\ req[g].id # newId[h]
      <4>1. g # h /\ pc[g] = pc'[g] /\ ses'[g] = ses[g] /\ req'[g] = req[g]
        BY <3>1, <3>2 DEF Reply, CommitLabels
      <4>2. QED BY <4>1, <3>1, <3>2, Workers DEF Working
    <3>3. \A u \in Uploads : Live(u)' => SamePlan(uploads[u], u)'
      BY <3>1, <1>0 DEF Live, SamePlan
    <3>4. QED BY <3>1, <3>2, <3>3 DEF PlansInv, SamePlan
  <2>4. CASE UploadCommitCopy(h)
    <3>1. /\ req[h].id \in Uploads /\ Live(req[h].id)
          /\ ses' = [ses EXCEPT ![h] = uploads[req[h].id]]
          /\ pc' = [pc EXCEPT ![h] = "temp"]
          /\ UNCHANGED <<uploads, opened, req>>
      BY <2>4, IdsFromInv, RequestKinds
      DEF UploadCommitCopy, Goto, At, Complete, history, Shape, ById
    <3>2. QED BY <3>1, <1>0 DEF PlansInv, SamePlan, Live
  <2>5. QED BY <1>2, StepKinds, <2>1, <2>2, <2>3, <2>4
<1>3. CASE Crash
  BY <1>3, PlansWeaken DEF Crash, Live, CommitLabels, history, PlansInv
<1>4. CASE UNCHANGED vars
  BY <1>4 DEF vars, local, history, PlansInv, SamePlan, Live
<1>5. QED BY <1>1, <1>2, <1>3, <1>4 DEF Next

-----------------------------------------------------------------------------
(* What the store sees of a step.                                          *)

LEMMA FilesKept ==
    ASSUME UNCHANGED target,
           \A t \in Targets : Exists(t) => data'[target[t]] = data[target[t]]
    PROVE  UNCHANGED Files
BY DEF Files, Exists

(* A step of handler h, and whether it is on its way to a rename before    *)
(* and after, say which commits are started.                               *)
LEMMA CommittingStep ==
    ASSUME TypeInv, IdsInv, NEW h \in Handlers,
           \A g \in Handlers : g # h =>
               pc'[g] = pc[g] /\ req'[g] = req[g] /\ ses'[g] = ses[g]
    PROVE  /\ ~InCommit(h) /\ ~InCommit(h)' => UNCHANGED Committing
           /\ InCommit(h) /\ InCommit(h)' /\ UNCHANGED req => UNCHANGED Committing
           /\ InCommit(h) /\ ~InCommit(h)' => Committing' = Committing \ {req[h].id}
           /\ ~InCommit(h) /\ InCommit(h)' /\ UNCHANGED req =>
                  Committing' = Committing \cup ({req[h].id} \cap Uploads)
<1>1. \A g \in Handlers : g # h => (InCommit(g)' <=> InCommit(g))
  BY DEF InCommit
<1>2. \A g \in Handlers : InCommit(g) /\ InCommit(h) /\ req[g].id = req[h].id => g = h
  <2>1. \A g \in Handlers : InCommit(g) => req[g].op = "commit"
    BY DEF InCommit, TypeInv, Shape
  <2>2. QED BY <2>1 DEF IdsInv, OneWriter
<1>3. QED BY <1>1, <1>2 DEF Committing

LEMMA CommitsAreShaped ==
    ASSUME TypeInv, NEW h \in Handlers
    PROVE  /\ InCommit(h) <=> pc[h] \in CommitLabels
           /\ InCommit(h) => req[h].id \in Uploads /\ ses[h] \in Session
BY DEF TypeInv, TypeOK, Shape, InCommit, CommitLabels, LateLabels, ControlRequest

(* A handler that returns, or goes on where no commit is.                  *)
LEMMA ReplyEndsCommit ==
    ASSUME TypeInv, IdsInv, NEW h \in Handlers, Reply(h)
    PROVE  /\ \A g \in Handlers : g # h =>
               pc'[g] = pc[g] /\ req'[g] = req[g] /\ ses'[g] = ses[g]
           /\ ~InCommit(h)'
           /\ ~InCommit(h) => UNCHANGED Committing
           /\ InCommit(h) => Committing' = Committing \ {req[h].id}
<1>1. /\ \A g \in Handlers : g # h =>
               pc'[g] = pc[g] /\ req'[g] = req[g] /\ ses'[g] = ses[g]
      /\ ~InCommit(h)'
  BY DEF Reply, TypeInv, TypeOK, InCommit
<1>2. QED BY <1>1, CommittingStep

LEMMA NewFileUnseen ==
    ASSUME TypeInv, NewInode \notin InUse, UNCHANGED target,
           data' = [data EXCEPT ![NewInode] = <<>>]
    PROVE  UNCHANGED Files
<1>1. \A t \in Targets : target[t] # NewInode
  BY DEF InUse
<1>2. QED BY <1>1, FilesKept, NoneAssumption DEF TypeInv, TypeOK, Exists

-----------------------------------------------------------------------------
(* Steps the store does not see.                                           *)

LEMMA UnseenSteps ==
    ASSUME IInv, NEW h \in Handlers,
           \/ UploadInitCreate(h) \/ UploadChunkAccept(h) \/ UploadChunkOpen(h)
           \/ UploadChunkRecreate(h) \/ UploadChunkAppend(h) \/ CommitAdvances(h)
           \/ ReplaceStatus(h) \/ ReplacePermissions(h)
    PROVE  UNCHANGED Store!store
<1> USE DEF IInv, TypeInv, TypeOK
<1>1. /\ UNCHANGED <<uploads, opened, accepted, target, req, ses>>
      /\ \A g \in Handlers : g # h => pc'[g] = pc[g]
      /\ \/ pc[h] \in CommitLabels /\ pc'[h] \in CommitLabels
         \/ pc[h] \in LateLabels /\ pc'[h] \in LateLabels
         \/ pc[h] \notin CommitLabels \cup LateLabels
  BY DEF UploadInitCreate, UploadChunkAccept, UploadChunkOpen, UploadChunkRecreate,
     UploadChunkAppend, CommitAdvances, ReplaceStatus, ReplacePermissions, Goto, At,
     CommitLabels, LateLabels, disk, history
<1>2. UNCHANGED Files
  <2>1. CASE UploadInitCreate(h) \/ UploadChunkRecreate(h)
    BY <2>1, <1>1, FreshChoices, NewFileUnseen DEF UploadInitCreate, UploadChunkRecreate
  <2>2. CASE UploadChunkAppend(h)
    <3>1. fd[h] # NoFile /\ \A t \in Targets : target[t] # fd[h]
      BY <2>2 DEF UploadChunkAppend, Shape, FilesInv, NoWriteToTarget
    <3>2. QED BY <2>2, <3>1, FilesKept DEF UploadChunkAppend, WriteOut, Exists
  <2>3. CASE ~UploadInitCreate(h) /\ ~UploadChunkRecreate(h) /\ ~UploadChunkAppend(h)
    <3>1. UNCHANGED <<data, target>>
      BY <2>3 DEF UploadChunkAccept, UploadChunkOpen, CommitAdvances, ReplaceStatus,
         ReplacePermissions, disk
    <3>2. QED BY <3>1, FilesKept
  <2>4. QED BY <2>1, <2>2, <2>3
<1>3. UNCHANGED Committing
  <2>1. InCommit(h) <=> InCommit(h)'
    BY <1>1, CommitsAreShaped DEF InCommit, Shape, CommitLabels, LateLabels
  <2>2. QED BY <1>1, <2>1, CommittingStep
<1>4. UNCHANGED Open
  BY <1>1 DEF Open, Live
<1>5. QED BY <1>1, <1>2, <1>3, <1>4 DEF Store!store

LEMMA FailingSteps ==
    ASSUME IInv, NEW h \in Handlers, Fails(h) \/ UploadAbortDiscard(h)
    PROVE  [Store!Next]_(Store!store)
<1> USE DEF IInv, TypeInv, TypeOK
<1>1. /\ Reply(h) /\ UNCHANGED <<uploads, data, target, opened, accepted>>
  BY DEF Fails, UploadAbortDiscard, disk, history
<1>2. UNCHANGED <<Files, Open>>
  BY <1>1, FilesKept DEF Open, Live
<1>3. CASE InCommit(h)
  <2>1. req[h].id \in Uploads /\ Committing' = Committing \ {req[h].id}
    BY <1>1, <1>3, ReplyEndsCommit, CommitsAreShaped
  <2>2. Store!GiveUp(req[h].id)
    BY <1>1, <1>2, <2>1 DEF Store!GiveUp
  <2>3. QED BY <2>1, <2>2 DEF Store!Next
<1>4. CASE ~InCommit(h)
  BY <1>1, <1>2, <1>4, ReplyEndsCommit DEF Store!store
<1>5. QED BY <1>3, <1>4

-----------------------------------------------------------------------------
(* Steps the store takes.                                                  *)

LEMMA RegisterBegins ==
    ASSUME IInv, NEW h \in Handlers, UploadInitRegister(h)
    PROVE  Store!Begin(newId[h]) /\ newId[h] \in Uploads
<1> USE DEF IInv, TypeInv, TypeOK
<1>1. /\ Reply(h) /\ pc[h] = "register"
      /\ newId[h] \in Uploads /\ opened[newId[h]] = NoSession
      /\ uploads' = [uploads EXCEPT ![newId[h]] = NewSession(req[h])]
      /\ opened' = [opened EXCEPT ![newId[h]] = NewSession(req[h])]
      /\ UNCHANGED <<data, target, accepted>>
  BY DEF UploadInitRegister, Shape, IdsInv, disk
<1>2. NewSession(req[h]) \in Session
  BY <1>1, SizesAssumption DEF Shape, InitRequest, InitRefused, NewSession, Session
<1>3. Open' = Open \cup {newId[h]}
  BY <1>1, <1>2, NoSessionAssumption DEF Open, Live
<1>4. UNCHANGED <<Files, Committing>>
  BY <1>1, FilesKept, ReplyEndsCommit, CommitsAreShaped DEF CommitLabels
<1>5. QED BY <1>1, <1>2, <1>3, <1>4 DEF Store!Begin

LEMMA CountGathers ==
    ASSUME IInv, NEW h \in Handlers, UploadChunkCount(h)
    PROVE  Store!Gather(req[h].id) /\ req[h].id \in Uploads
<1> USE DEF IInv, TypeInv, TypeOK
<1> DEFINE u == req[h].id
           n == Len(req[h].content)
<1>1. /\ Reply(h) /\ pc[h] = "count" /\ Live(u)
      /\ uploads' = [uploads EXCEPT ![u].received = @ + n]
      /\ accepted' = [accepted EXCEPT ![u] = @ \o req[h].content]
      /\ UNCHANGED <<data, target, opened>>
  BY DEF UploadChunkCount, disk
<1>2. u \in Uploads /\ req[h].content \in Chunks \cap Seq(Blocks) /\ n \in Nat
  BY <1>1, Workers DEF Working, ChunkLabels, Shape, ChunkRequest
<1>3. UNCHANGED Files
  BY <1>1, FilesKept
<1>4. UNCHANGED Committing
  BY <1>1, ReplyEndsCommit, CommitsAreShaped DEF CommitLabels
<1>5. UNCHANGED Open
  <2>1. uploads'[u] # NoSession
    BY <1>1, <1>2, CountedSession DEF Live
  <2>2. QED BY <1>1, <1>2, <2>1 DEF Open, Live
<1>6. Len(accepted'[u]) <= opened[u].expected
  <2>1. Len(accepted[u]) + n <= opened[u].expected
    BY <1>1, <1>2 DEF BytesInv, Counted, ChunkFits, ChunkLabels, IdsInv
  <2>2. accepted'[u] = accepted[u] \o req[h].content /\ accepted[u] \in Seq(Blocks)
    BY <1>1, <1>2
  <2>3. QED BY <1>2, <2>1, <2>2, ConcatProperties
<1>7. QED BY <1>1, <1>2, <1>3, <1>4, <1>5, <1>6 DEF Store!Gather, Open

LEMMA CopyStarts ==
    ASSUME IInv, NEW h \in Handlers, UploadCommitCopy(h)
    PROVE  Store!Start(req[h].id) /\ req[h].id \in Uploads
<1> USE DEF IInv, TypeInv, TypeOK
<1> DEFINE u == req[h].id
<1>1. /\ At(h, "commit", "received") /\ Complete(u) /\ u \in Uploads
      /\ pc' = [pc EXCEPT ![h] = "temp"]
      /\ UNCHANGED <<req, uploads, data, target, opened, accepted>>
  BY IdsFromInv, RequestKinds
  DEF UploadCommitCopy, Goto, At, disk, history, Shape, ById
<1>2. ~InCommit(h) /\ InCommit(h)' /\ \A g \in Handlers : g # h => ses'[g] = ses[g]
  BY <1>1, NoSessionAssumption
  DEF At, InCommit, Shape, CommitLabels, LateLabels, Complete, Live, UploadCommitCopy
<1>3. Committing' = Committing \cup {u}
  BY <1>1, <1>2, CommittingStep
<1>4. UNCHANGED <<Files, Open>>
  BY <1>1, FilesKept DEF Open, Live
<1>5. u \in Open /\ Len(accepted[u]) = opened[u].expected
  BY <1>1 DEF Complete, Open, BytesInv, Counted, IdsInv
<1>6. QED BY <1>1, <1>3, <1>4, <1>5 DEF Store!Start

LEMMA RemoveVacates ==
    ASSUME IInv, PlansInv, NEW h \in Handlers, ReplaceRemove(h)
    PROVE  Store!Vacate(req[h].id) /\ req[h].id \in Uploads
<1> USE DEF IInv, TypeInv, TypeOK
<1> DEFINE u == req[h].id
<1>1. /\ pc[h] = "remove" /\ pc' = [pc EXCEPT ![h] = "rename"]
      /\ target' = [target EXCEPT ![ses[h].target] = NoFile]
      /\ UNCHANGED <<req, ses, uploads, data, opened, accepted>>
  BY DEF ReplaceRemove, Goto, history
<1>2. InCommit(h) /\ InCommit(h)'
  BY <1>1, CommitsAreShaped DEF CommitLabels, InCommit
<1>3. /\ u \in Committing /\ u \in Uploads
      /\ opened[u].target = ses[h].target /\ ses[h].target \in Targets /\ opened[u].overwrite
  BY <1>1, <1>2, CommitsAreShaped DEF Committing, PlansInv, SamePlan, CommitLabels, Session
<1>4. UNCHANGED <<Committing, Open>>
  BY <1>1, <1>2, CommittingStep DEF Open, Live
<1>5. Files' = [Files EXCEPT ![opened[u].target] = NoFile]
  BY <1>1, <1>3 DEF Files, Exists
<1>6. QED BY <1>1, <1>3, <1>4, <1>5 DEF Store!Vacate

LEMMA RenameInstalls ==
    ASSUME IInv, PlansInv, NEW h \in Handlers, ReplaceRename(h)
    PROVE  Store!Install(req[h].id) /\ req[h].id \in Uploads
<1> USE DEF IInv, TypeInv, TypeOK
<1> DEFINE u == req[h].id
<1>1. /\ pc[h] = "rename" /\ part[u] # NoFile
      /\ target' = [target EXCEPT ![ses[h].target] = part[u]]
      /\ pc' = [pc EXCEPT ![h] = AfterRename(h)]
      /\ UNCHANGED <<req, ses, uploads, data, opened, accepted>>
  BY DEF ReplaceRename, Goto, history
<1>2. InCommit(h) /\ ~InCommit(h)'
  BY <1>1, CommitsAreShaped DEF CommitLabels, InCommit, AfterRename
<1>3. /\ u \in Committing /\ u \in Uploads
      /\ opened[u].target = ses[h].target /\ ses[h].target \in Targets
  BY <1>1, <1>2, CommitsAreShaped DEF Committing, PlansInv, SamePlan, CommitLabels, Session
<1>4. Committing' = Committing \ {u} /\ UNCHANGED Open
  BY <1>1, <1>2, CommittingStep DEF Open, Live
<1>5. data[part[u]] = accepted[u]
  BY <1>1 DEF BytesInv, CommitWhole, CommitLabels
<1>6. Files' = [Files EXCEPT ![opened[u].target] = accepted[u]]
  BY <1>1, <1>3, <1>5 DEF Files, Exists
<1>7. QED BY <1>1, <1>3, <1>4, <1>6 DEF Store!Install

LEMMA EraseCloses ==
    ASSUME IInv, NEW h \in Handlers, UploadCommitErase(h) \/ UploadAbortErase(h)
    PROVE  Store!Close(req[h].id) /\ req[h].id \in Uploads
<1> USE DEF IInv, TypeInv, TypeOK
<1> DEFINE u == req[h].id
<1>1. /\ u \in Uploads
      /\ uploads' = [uploads EXCEPT ![u] = NoSession]
      /\ UNCHANGED <<data, target, opened, accepted>>
  BY RequestKinds, IdsFromInv
  DEF UploadCommitErase, UploadAbortErase, At, disk, history, Shape, LateLabels, ById,
      ControlRequest
<1>2. UNCHANGED Committing
  <2>1. CASE UploadCommitErase(h)
    BY <2>1, ReplyEndsCommit, CommitsAreShaped DEF UploadCommitErase, CommitLabels
  <2>2. CASE UploadAbortErase(h)
    BY <2>2, CommittingStep DEF UploadAbortErase, Goto, At, InCommit
  <2>3. QED BY <2>1, <2>2
<1>3. UNCHANGED Files
  BY <1>1, FilesKept
<1>4. Open' = Open \ {u}
  BY <1>1 DEF Open, Live
<1>5. QED BY <1>1, <1>2, <1>3, <1>4 DEF Store!Close

-----------------------------------------------------------------------------
(* The whole: for any handlers, uploads, targets, sizes and crashes, every *)
(* behaviour of the C++ server under careful callers on a disk that does   *)
(* not fail is a behaviour of the store.                                   *)
THEOREM StoreImplemented ==
    ASSUME Callers # "any", DiskFaults = FALSE
    PROVE  Spec => ImplementsStore
<1>1. Init => Store!Init
  BY FilesAssumption, NoneAssumption
  DEF Init, Store!Init, Files, Open, Live, Committing, InCommit, Existing, Exists
<1>2. ASSUME IInv, PlansInv, [Next]_vars
      PROVE  [Store!Next]_(Store!store)
  <2>1. ASSUME NEW h \in Handlers, NEW r \in Requests, Receive(h, r)
        PROVE  [Store!Next]_(Store!store)
    <3>1. /\ UNCHANGED <<uploads, data, target, opened, accepted>>
          /\ \A g \in Handlers : g # h =>
               pc'[g] = pc[g] /\ req'[g] = req[g] /\ ses'[g] = ses[g]
          /\ ~InCommit(h) /\ ~InCommit(h)'
      BY <1>2, <2>1 DEF Receive, disk, history, InCommit, IInv, TypeInv, TypeOK, Shape, CommitLabels,
         LateLabels
    <3>2. UNCHANGED <<Files, Open, Committing>>
      BY <1>2, <3>1, FilesKept, CommittingStep DEF Open, Live, IInv
    <3>3. QED BY <3>1, <3>2 DEF Store!store
  <2>2. ASSUME NEW h \in Handlers, Step(h)
        PROVE  [Store!Next]_(Store!store)
    <3>1. ~UploadChunkAppendFails(h) /\ ~UploadChunkCloseFails(h)
      BY DEF UploadChunkAppendFails, UploadChunkCloseFails, WriteFails
    <3>2. CASE UploadInitRegister(h)
      BY <1>2, <3>2, RegisterBegins DEF Store!Next
    <3>3. CASE UploadChunkCount(h)
      BY <1>2, <3>3, CountGathers DEF Store!Next
    <3>4. CASE UploadCommitCopy(h)
      BY <1>2, <3>4, CopyStarts DEF Store!Next
    <3>5. CASE ReplaceRemove(h)
      BY <1>2, <3>5, RemoveVacates DEF Store!Next
    <3>6. CASE ReplaceRename(h)
      BY <1>2, <3>6, RenameInstalls DEF Store!Next
    <3>7. CASE UploadCommitErase(h) \/ UploadAbortErase(h)
      BY <1>2, <3>7, EraseCloses DEF Store!Next
    <3>8. QED
      BY <1>2, <2>2, StepKinds, <3>1, <3>2, <3>3, <3>4, <3>5, <3>6, <3>7,
         UnseenSteps, FailingSteps
  <2>3. CASE Crash
    <3>1. /\ UNCHANGED <<data, target, opened, accepted>>
          /\ \A u \in Uploads : uploads'[u] = NoSession
          /\ \A g \in Handlers : ses'[g] = NoSession
      BY <2>3 DEF Crash, disk, history
    <3>2. Open' = {} /\ Committing' = {} /\ UNCHANGED Files
      BY <3>1, FilesKept DEF Open, Live, Committing, InCommit
    <3>3. Store!Restart
      BY <3>1, <3>2 DEF Store!Restart
    <3>4. QED BY <3>3 DEF Store!Next
  <2>4. CASE UNCHANGED vars
    <3>1. UNCHANGED <<uploads, data, target, opened, accepted, pc, req, ses>>
      BY <2>4 DEF vars, disk, local, history
    <3>2. QED
      BY <3>1, FilesKept DEF Store!store, Open, Live, Committing, InCommit
  <2>5. QED BY <1>2, <2>1, <2>2, <2>3, <2>4 DEF Next
<1>3. Init => PlansInv
  BY PlansInvInit
<1>4. IInv /\ PlansInv /\ [Next]_vars => PlansInv'
  BY PlansInvStep DEF IInv
<1>5. QED BY <1>1, <1>2, <1>3, <1>4, Inductive, PTL DEF Spec, ImplementsStore, Store!Spec

-----------------------------------------------------------------------------
(* Serial callers: one call of an upload, one commit of a target.          *)

LEMMA SerialInvInit == Init => SerialInv
BY DEF Init, SerialInv, OneCall, OneCommit, LateLabels, NoRequest, ById

(* Calls end, but none starts, and only a rename lets a commit past it.    *)
LEMMA SerialWeaken ==
    ASSUME TypeInv, SerialInv,
           \A g \in Handlers : req'[g].op \in ById =>
               req'[g] = req[g] /\ opened'[req[g].id] = opened[req[g].id],
           \A g \in Handlers : pc'[g] \in LateLabels =>
               /\ pc[g] \in LateLabels \/ (pc[g] = "rename" /\ SamePlan(ses[g], req[g].id))
               /\ ses'[g] = ses[g] /\ req'[g] = req[g],
           \A g \in Handlers : pc'[g] = "rename" =>
               ses'[g] = ses[g] /\ target'[ses[g].target] = NoFile
    PROVE  SerialInv'
<1>1. OneCall'
  BY DEF SerialInv, OneCall
<1>2. OneCommit'
  <2>1. \A g \in Handlers : req'[g].op = "commit" =>
            req'[g] = req[g] /\ opened'[req[g].id] = opened[req[g].id]
    BY DEF ById
  <2>2. QED BY <2>1 DEF SerialInv, OneCommit
<1>3. ASSUME NEW g \in Handlers, pc'[g] \in LateLabels
      PROVE  SamePlan(ses[g], req[g].id)'
  <2>1. req[g].op \in ById
    BY <1>3 DEF TypeInv, Shape, LateLabels, CommitLabels, ById
  <2>2. SamePlan(ses[g], req[g].id)
    BY <1>3 DEF SerialInv
  <2>3. QED BY <1>3, <2>1, <2>2 DEF SamePlan
<1>4. QED BY <1>1, <1>2, <1>3 DEF SerialInv, Exists

(* A serial caller starts a call of an upload only when none is in flight, *)
(* and a commit only when none of the same target is.                      *)
LEMMA ReceiveSerially ==
    ASSUME Callers = "serial", NEW h \in Handlers, NEW r \in Requests, Receive(h, r),
           NEW g \in Handlers
    PROVE  /\ r.op \in ById /\ req[g].op \in ById => req[g].id # r.id
           /\ r.op = "commit" /\ req[g].op = "commit" =>
                  opened[req[g].id].target # opened[r.id].target
BY DEF Receive, CallerAllowed, InFlight, CommitsInFlight, ById

LEMMA SerialInvStep ==
    ASSUME Callers = "serial"
    PROVE  TypeInv /\ IdsInv /\ PlansInv /\ SerialInv /\ [Next]_vars => SerialInv'
<1> SUFFICES ASSUME TypeInv, IdsInv, PlansInv, SerialInv, [Next]_vars PROVE SerialInv'
  OBVIOUS
<1>0. /\ pc \in [Handlers -> Labels] /\ ses \in [Handlers -> Session \cup {NoSession}]
      /\ target \in [Targets -> Inodes \cup {NoFile}]
  BY DEF TypeInv, TypeOK
<1>1. ASSUME NEW h \in Handlers, NEW r \in Requests, Receive(h, r)
      PROVE  SerialInv'
  <2>1. /\ pc' = [pc EXCEPT ![h] = "received"]
        /\ req' = [req EXCEPT ![h] = r]
        /\ UNCHANGED <<target, ses, opened>>
        /\ req \in [Handlers -> Requests \cup {NoRequest}]
        /\ pc \in [Handlers -> Labels]
    BY <1>1 DEF Receive, disk, history, TypeInv, TypeOK
  <2>2. OneCall'
    BY <1>1, <2>1, ReceiveSerially DEF SerialInv, OneCall
  <2>3. OneCommit'
    BY <1>1, <2>1, ReceiveSerially DEF SerialInv, OneCommit
  <2>4. ASSUME NEW g \in Handlers, g # h PROVE pc'[g] = pc[g] /\ req'[g] = req[g]
    BY <2>1, <2>4
  <2>5. pc'[h] \notin LateLabels \cup {"rename"}
    BY <2>1 DEF LateLabels
  <2>6. QED BY <2>1, <2>2, <2>3, <2>4, <2>5 DEF SerialInv, SamePlan, Exists
<1>2. ASSUME NEW h \in Handlers, Step(h)
      PROVE  SerialInv'
  <2>1. CASE Fails(h) \/ UploadChunkAppendFails(h) \/ UploadInitRegister(h)
             \/ UploadChunkCount(h) \/ UploadCommitErase(h) \/ UploadAbortDiscard(h)
    <3>1. Reply(h) /\ UNCHANGED target
      BY <2>1 DEF Fails, UploadChunkAppendFails, UploadInitRegister, UploadChunkCount,
         UploadCommitErase, UploadAbortDiscard, disk
    <3>2. \A g \in Handlers : req[g].op \in ById => opened'[req[g].id] = opened[req[g].id]
      <4>1. CASE UploadInitRegister(h)
        <5>1. /\ opened' = [opened EXCEPT ![newId[h]] = NewSession(req[h])]
              /\ newId[h] \in Uploads /\ opened[newId[h]] = NoSession
              /\ opened \in [Uploads -> Session \cup {NoSession}]
          BY <4>1 DEF UploadInitRegister, TypeInv, TypeOK, Shape, IdsInv
        <5>2. QED BY <5>1 DEF IdsInv
      <4>2. CASE ~UploadInitRegister(h)
        BY <2>1, <4>2 DEF Fails, UploadChunkAppendFails, UploadChunkCount,
           UploadCommitErase, UploadAbortDiscard, history
      <4>3. QED BY <4>1, <4>2
    <3>3. /\ \A g \in Handlers : g # h =>
               pc'[g] = pc[g] /\ req'[g] = req[g] /\ ses'[g] = ses[g]
          /\ pc'[h] = "idle" /\ req'[h] = NoRequest
      BY <3>1 DEF Reply, TypeInv, TypeOK
    <3>4. QED
      BY <3>1, <3>2, <3>3, SerialWeaken DEF SerialInv, LateLabels, Exists, NoRequest, ById
  <2>2. CASE \/ UploadInitCreate(h) \/ UploadChunkAccept(h) \/ UploadChunkOpen(h)
             \/ UploadChunkRecreate(h) \/ UploadChunkAppend(h) \/ UploadChunkCloseFails(h)
             \/ UploadCommitCopy(h) \/ CommitAdvances(h) \/ ReplaceStatus(h)
             \/ ReplacePermissions(h) \/ UploadAbortErase(h)
    <3>1. /\ UNCHANGED <<req, opened, target>>
          /\ \A g \in Handlers : g # h => pc'[g] = pc[g] /\ ses'[g] = ses[g]
      BY <1>0, <2>2 DEF UploadInitCreate, UploadChunkAccept, UploadChunkOpen,
         UploadChunkRecreate, UploadChunkAppend, UploadChunkCloseFails, UploadCommitCopy,
         CommitAdvances, ReplaceStatus, ReplacePermissions, UploadAbortErase, Goto,
         disk, history
    <3>2. /\ pc'[h] = "rename" => ses'[h] = ses[h] /\ ~Exists(ses[h].target)
          /\ pc'[h] \in LateLabels => pc[h] \in LateLabels /\ ses'[h] = ses[h]
      BY <1>0, <2>2 DEF UploadInitCreate, UploadChunkAccept, UploadChunkOpen,
         UploadChunkRecreate, UploadChunkAppend, UploadChunkCloseFails, UploadCommitCopy,
         CommitAdvances, ReplaceStatus, ReplacePermissions, UploadAbortErase, Goto,
         LateLabels
    <3>3. QED BY <3>1, <3>2, SerialWeaken DEF SerialInv, Exists
  <2>3. CASE ReplaceRemove(h) \/ ReplaceRename(h)
    <3>1. /\ UNCHANGED <<req, ses, opened>>
          /\ pc[h] \in {"remove", "rename"}
          /\ pc' = [pc EXCEPT ![h] = IF pc[h] = "remove" THEN "rename" ELSE AfterRename(h)]
          /\ \E i \in Inodes \cup {NoFile} : /\ target' = [target EXCEPT ![ses[h].target] = i]
                                             /\ pc[h] = "remove" => i = NoFile
          /\ req[h].op = "commit" /\ SamePlan(ses[h], req[h].id)
          /\ ses[h].target \in Targets
      <4>1. /\ req[h].op = "commit" /\ req[h].id \in Uploads /\ SamePlan(ses[h], req[h].id)
            /\ ses[h].target \in Targets
        BY <2>3 DEF ReplaceRemove, ReplaceRename, TypeInv, TypeOK, Shape, CommitLabels,
           ControlRequest, Session, PlansInv
      <4>2. part[req[h].id] \in Inodes \cup {NoFile}
        BY <4>1 DEF TypeInv, TypeOK
      <4>3. CASE ReplaceRemove(h)
        BY <4>1, <4>3 DEF ReplaceRemove, Goto, history
      <4>4. CASE ReplaceRename(h)
        BY <4>1, <4>2, <4>4 DEF ReplaceRename, Goto, history
      <4>5. QED BY <2>3, <4>3, <4>4
    <3>2. ASSUME NEW g \in Handlers, g # h, pc[g] = "rename"
          PROVE  ses[g].target # ses[h].target
      <4>1. req[g].op = "commit" /\ SamePlan(ses[g], req[g].id)
        BY <3>2 DEF TypeInv, Shape, CommitLabels, PlansInv
      <4>2. QED BY <3>1, <3>2, <4>1 DEF SerialInv, OneCommit, SamePlan
    <3>3. ASSUME NEW g \in Handlers, pc'[g] = "rename"
          PROVE  target'[ses[g].target] = NoFile
      <4>1. CASE g = h
        BY <3>1, <3>3, <4>1 DEF AfterRename, TypeInv, TypeOK
      <4>2. CASE g # h
        <5>1. /\ pc[g] = "rename" /\ ses[g].target # ses[h].target
              /\ target'[ses[g].target] = target[ses[g].target]
          BY <3>1, <3>2, <3>3, <4>2 DEF TypeInv, TypeOK
        <5>2. QED BY <5>1 DEF SerialInv, Exists
      <4>3. QED BY <4>1, <4>2
    <3>4. \A g \in Handlers : pc'[g] \in LateLabels =>
              pc[g] \in LateLabels \/ (pc[g] = "rename" /\ SamePlan(ses[g], req[g].id))
      BY <1>0, <3>1 DEF LateLabels
    <3>5. QED BY <3>1, <3>3, <3>4, SerialWeaken
  <2>4. QED BY <1>2, StepKinds, <2>1, <2>2, <2>3
<1>3. CASE Crash
  BY <1>3, SerialWeaken DEF Crash, LateLabels, NoRequest, ById
<1>4. CASE UNCHANGED vars
  BY <1>4 DEF vars, local, disk, history, SerialInv, OneCall, OneCommit, SamePlan, Exists
<1>5. QED BY <1>1, <1>2, <1>3, <1>4 DEF Next

-----------------------------------------------------------------------------
(* For serial callers, on any disk and through any crashes: a step that    *)
(* takes a target away or puts another file there is made by a commit that *)
(* asked for overwriting.                                                  *)
THEOREM ReplacesOnlyWhenAsked ==
    ASSUME Callers = "serial"
    PROVE  Spec => NoSilentReplace
<1> DEFINE Inv == TypeInv /\ IdsInv /\ PlansInv /\ SerialInv
           Asked == \A t \in Targets : Exists(t) /\ target'[t] # target[t] =>
                        \E h \in Handlers : /\ pc[h] # pc'[h]
                                            /\ ses[h] # NoSession
                                            /\ ses[h].target = t /\ ses[h].overwrite
<1>1. Init => Inv
  BY TypeInvInit, IdsInvInit, PlansInvInit, SerialInvInit
<1>2. Inv /\ [Next]_vars => Inv'
  BY TypeInvStep, IdsInvStep, PlansInvStep, SerialInvStep
<1>3. Inv /\ [Next]_vars => [Asked]_vars
  <2> SUFFICES ASSUME Inv, [Next]_vars PROVE Asked
    OBVIOUS
  <2>1. SUFFICES ASSUME NEW h \in Handlers, ReplaceRemove(h) \/ ReplaceRename(h) PROVE Asked
    <3>1. UNCHANGED target \/ \E h \in Handlers : ReplaceRemove(h) \/ ReplaceRename(h)
      <4>1. ASSUME NEW h \in Handlers, Step(h), ~ReplaceRemove(h), ~ReplaceRename(h)
            PROVE  UNCHANGED target
        BY <4>1, StepKinds DEF Fails, CommitAdvances, UploadInitCreate,
           UploadInitRegister, UploadChunkAccept, UploadChunkOpen, UploadChunkRecreate,
           UploadChunkAppend, UploadChunkAppendFails, UploadChunkCloseFails,
           UploadChunkCount, UploadCommitCopy, ReplaceStatus, ReplacePermissions,
           UploadCommitErase, UploadAbortErase, UploadAbortDiscard, disk
      <4>2. QED BY <4>1 DEF Next, Receive, Crash, vars, disk
    <3>2. QED BY <2>1, <3>1
  <2>2. /\ pc[h] \in {"remove", "rename"} /\ pc'[h] # pc[h]
        /\ ses[h] # NoSession /\ ses[h].target \in Targets
        /\ \A t \in Targets : t # ses[h].target => target'[t] = target[t]
    BY <2>1 DEF ReplaceRemove, ReplaceRename, Goto, AfterRename, TypeInv, TypeOK,
       Shape, CommitLabels, Session
  <2>3. pc[h] = "remove" => ses[h].overwrite
    BY <2>2 DEF PlansInv, CommitLabels
  <2>4. pc[h] = "rename" => ~Exists(ses[h].target)
    BY <2>2 DEF SerialInv
  <2>5. QED BY <2>2, <2>3, <2>4
<1>4. QED BY <1>1, <1>2, <1>3, PTL DEF Spec, NoSilentReplace

-----------------------------------------------------------------------------
(* Serial callers and no crashes: no file is left behind.                  *)

LEMMA PartsInvInit == Init => PartsInv
BY DEF Init, PartsInv, ChunkLabels, CommitLabels, LateLabels

InSession == ChunkLabels \cup CommitLabels \cup LateLabels
Serving   == InSession \cup {"discard"}

(* A handler at work has its upload for itself.                            *)
LEMMA Servants ==
    ASSUME TypeInv, IdsInv, SerialInv
    PROVE  /\ \A g \in Handlers : pc[g] \in Serving =>
                  /\ req[g].op \in ById /\ req[g].id \in Uploads
                  /\ opened[req[g].id] # NoSession
           /\ \A g, h \in Handlers :
                  pc[g] \in Serving /\ req[h].op \in ById /\ req[g].id = req[h].id => g = h
           /\ \A g \in Handlers : newId[g] # NoId =>
                  newId[g] \in Uploads /\ opened[newId[g]] = NoSession
           /\ \A g \in Handlers :
                  pc[g] \notin {"clear", "create", "register"} => newId[g] = NoId
<1>1. ASSUME NEW g \in Handlers, pc[g] \in Serving
      PROVE  req[g].op \in ById /\ req[g].id \in Uploads
  BY <1>1 DEF TypeInv, Shape, Serving, InSession, ChunkLabels, CommitLabels, LateLabels,
     ById, ChunkRequest, ControlRequest
<1>2. \A g \in Handlers : newId[g] # NoId => newId[g] \in Uploads
  BY DEF TypeInv, TypeOK
<1>3. QED BY <1>1, <1>2 DEF IdsInv, SerialInv, OneCall, TypeInv, Shape

(* A step of a handler leaves the others where they are.                   *)
LEMMA OthersStay ==
    ASSUME TypeInv, NEW h \in Handlers, Step(h), NEW g \in Handlers, g # h
    PROVE  /\ pc'[g] = pc[g] /\ req'[g] = req[g] /\ newId'[g] = newId[g]
           /\ ses'[g] = ses[g] /\ saved'[g] = saved[g]
<1>0. /\ pc \in [Handlers -> Labels] /\ req \in [Handlers -> Requests \cup {NoRequest}]
      /\ newId \in [Handlers -> Uploads \cup {NoId}]
      /\ ses \in [Handlers -> Session \cup {NoSession}]
      /\ saved \in [Handlers -> Perms \cup {NoPerms}]
  BY DEF TypeInv, TypeOK
<1>1. CASE Reply(h)
  BY <1>0, <1>1 DEF Reply
<1>2. ASSUME ~Reply(h)
      PROVE  /\ \E l \in Labels : Goto(h, l)
             /\ UNCHANGED newId \/ newId' = [newId EXCEPT ![h] = NewId]
             /\ UNCHANGED ses \/ ses' = [ses EXCEPT ![h] = uploads[req[h].id]]
             /\ UNCHANGED saved \/ \E p : saved' = [saved EXCEPT ![h] = p]
  BY <1>2, StepKinds DEF Fails, CommitAdvances, UploadInitCreate,
     UploadInitRegister, UploadChunkAccept, UploadChunkOpen, UploadChunkRecreate,
     UploadChunkAppend, UploadChunkAppendFails, UploadChunkCloseFails,
     UploadChunkCount, UploadCommitCopy, ReplaceStatus, ReplaceRemove, ReplaceRename,
     AfterRename, ReplacePermissions, UploadCommitErase, UploadAbortErase,
     UploadAbortDiscard, Labels
<1>3. QED BY <1>0, <1>1, <1>2 DEF Goto

(* What a step of handler h has to leave behind.                           *)
LEMMA PartsWeaken ==
    ASSUME PartsInv, NEW h \in Handlers,
           \A g \in Handlers : g # h =>
               pc'[g] = pc[g] /\ req'[g] = req[g] /\ newId'[g] = newId[g],
           \A g \in Handlers : g # h /\ pc[g] \in InSession =>
               /\ uploads[req[g].id] # NoSession => uploads'[req[g].id] # NoSession
               /\ part'[req[g].id] = part[req[g].id],
           pc'[h] \in InSession => uploads'[req'[h].id] # NoSession,
           pc'[h] \in LateLabels => part'[req'[h].id] = NoFile,
           \A u \in Uploads : part'[u] # NoFile =>
               \/ uploads'[u] # NoSession \/ Discarded(u)' \/ Created(u)' \/ u \in undeleted'
    PROVE  PartsInv'
BY DEF PartsInv, Live, InSession

(* A file that another handler accounts for still is accounted for.        *)
LEMMA OwnerStays ==
    ASSUME PartsInv, undeleted \subseteq undeleted',
           NEW h \in Handlers, NEW v \in Uploads, part[v] # NoFile,
           \A g \in Handlers : g # h =>
               pc'[g] = pc[g] /\ req'[g] = req[g] /\ newId'[g] = newId[g],
           newId[h] # v, ~(pc[h] = "discard" /\ req[h].id = v)
    PROVE  uploads[v] # NoSession \/ Discarded(v)' \/ Created(v)' \/ v \in undeleted'
<1>1. CASE Discarded(v)
  BY <1>1 DEF Discarded
<1>2. CASE Created(v)
  BY <1>2 DEF Created
<1>3. QED BY <1>1, <1>2 DEF PartsInv, Live

LEMMA UndeletedGrows == [Next]_vars => undeleted \subseteq undeleted'
<1>1. ASSUME NEW h \in Handlers, Step(h) PROVE undeleted \subseteq undeleted'
  BY <1>1, StepKinds DEF Fails, UploadAbortDiscardFails, CommitAdvances, UploadInitCreate,
     UploadInitRegister, UploadChunkAccept, UploadChunkOpen, UploadChunkRecreate,
     UploadChunkAppend, UploadChunkAppendFails, UploadChunkCloseFails,
     UploadChunkCount, UploadCommitCopy, ReplaceStatus, ReplaceRemove, ReplaceRename,
     ReplacePermissions, UploadCommitErase, UploadAbortErase, UploadAbortDiscard, history
<1>2. QED BY <1>1 DEF Next, Receive, Crash, vars, history

LEMMA PartsInvStep ==
    ASSUME Callers = "serial", MaxCrashes = 0
    PROVE  TypeInv /\ IdsInv /\ SerialInv /\ PartsInv /\ [Next]_vars => PartsInv'
<1> SUFFICES ASSUME TypeInv, IdsInv, SerialInv, PartsInv, [Next]_vars PROVE PartsInv'
  OBVIOUS
<1>0. /\ pc \in [Handlers -> Labels] /\ req \in [Handlers -> Requests \cup {NoRequest}]
      /\ newId \in [Handlers -> Uploads \cup {NoId}]
      /\ uploads \in [Uploads -> Session \cup {NoSession}]
      /\ part \in [Uploads -> Inodes \cup {NoFile}]
  BY DEF TypeInv, TypeOK
<1>f. \A u \in Uploads : part[u] # NoFile =>
          \/ uploads[u] # NoSession
          \/ \E g \in Handlers : pc[g] = "discard" /\ req[g].id = u
          \/ \E g \in Handlers : newId[g] = u
          \/ u \in undeleted
  BY DEF PartsInv, Live, Discarded, Created
<1>u. undeleted \subseteq undeleted'
  BY UndeletedGrows
<1>1. ASSUME NEW h \in Handlers, NEW r \in Requests, Receive(h, r)
      PROVE  PartsInv'
  <2>1. /\ pc[h] = "idle" /\ pc' = [pc EXCEPT ![h] = "received"]
        /\ req' = [req EXCEPT ![h] = r]
        /\ UNCHANGED <<uploads, part, newId>>
    BY <1>1 DEF Receive, disk
  <2>2. \A g \in Handlers : g # h => pc'[g] = pc[g] /\ req'[g] = req[g]
    BY <1>0, <2>1
  <2>3. pc'[h] \notin InSession
    BY <1>0, <2>1 DEF InSession, ChunkLabels, CommitLabels, LateLabels
  <2>4. \A u \in Uploads : part'[u] # NoFile =>
            \/ uploads'[u] # NoSession \/ Discarded(u)' \/ Created(u)' \/ u \in undeleted'
    BY <1>f, <1>u, <2>1, <2>2 DEF Discarded, Created
  <2>5. QED BY <2>1, <2>2, <2>3, <2>4, PartsWeaken DEF InSession
<1>2. ASSUME NEW h \in Handlers, Step(h)
      PROVE  PartsInv'
  <2> DEFINE u == req[h].id
  <2>0. \A g \in Handlers : g # h =>
            pc'[g] = pc[g] /\ req'[g] = req[g] /\ newId'[g] = newId[g]
    BY <1>0, <1>2, OthersStay
  <2>1. CASE Fails(h) \/ UploadChunkAppendFails(h)
    <3>1. /\ pc[h] \notin {"clear", "create", "register"} /\ UNCHANGED <<uploads, part>>
          /\ pc[h] = "discard" /\ u \in Uploads /\ part[u] # NoFile => u \in undeleted'
          /\ pc'[h] = "idle"
      BY <1>0, <2>1 DEF Fails, UploadChunkAppendFails, UploadAbortDiscardFails,
         WriteFails, Reply, disk
    <3>2. \A v \in Uploads : part'[v] # NoFile =>
              \/ uploads'[v] # NoSession \/ Discarded(v)' \/ Created(v)' \/ v \in undeleted'
      BY <1>f, <1>u, <2>0, <3>1, Servants, NoneAssumption DEF Discarded, Created
    <3>3. QED
      BY <2>0, <3>1, <3>2, PartsWeaken DEF InSession, ChunkLabels, CommitLabels, LateLabels
  <2>2. CASE \/ CommitAdvances(h) \/ UploadChunkAccept(h) \/ UploadChunkOpen(h)
             \/ UploadChunkAppend(h) \/ UploadChunkCloseFails(h) \/ UploadCommitCopy(h)
             \/ ReplaceStatus(h) \/ ReplaceRemove(h) \/ ReplacePermissions(h)
    <3>1. /\ pc[h] \notin {"clear", "create", "register", "discard"} /\ UNCHANGED <<uploads, part, req>>
          /\ pc[h] \in InSession \/ Live(u)
          /\ pc'[h] \in LateLabels => pc[h] \in LateLabels
      BY <1>0, <2>2 DEF CommitAdvances, UploadChunkAccept, ChunkAcceptable, UploadChunkOpen,
         UploadChunkAppend, UploadChunkCloseFails, WriteFails, UploadCommitCopy, Complete,
         ReplaceStatus, ReplaceRemove, ReplacePermissions, Goto, At, disk, InSession,
         ChunkLabels, CommitLabels, LateLabels
    <3>2. \A v \in Uploads : part'[v] # NoFile =>
              \/ uploads'[v] # NoSession \/ Discarded(v)' \/ Created(v)' \/ v \in undeleted'
      BY <1>f, <1>u, <2>0, <3>1, Servants, NoneAssumption DEF Discarded, Created
    <3>3. uploads[u] # NoSession /\ (pc[h] \in LateLabels => part[u] = NoFile)
      BY <3>1 DEF PartsInv, Live, InSession
    <3>4. QED BY <2>0, <3>1, <3>2, <3>3, PartsWeaken
  <2>3. CASE UploadInitCreate(h)
    <3>1. PICK n \in Uploads :
              /\ n \notin issued
              /\ part' = [part EXCEPT ![n] = NewInode]
              /\ newId' = [newId EXCEPT ![h] = n]
              /\ pc'[h] = "register" /\ UNCHANGED <<uploads, req>> /\ pc[h] = "received"
      BY <1>0, <2>3, FreshChoices DEF UploadInitCreate, Goto, At
    <3>2. \A g \in Handlers : pc[g] \in InSession => req[g].id # n
      BY <3>1, Servants DEF IdsInv, Serving
    <3>3. \A v \in Uploads : part'[v] # NoFile =>
              \/ uploads'[v] # NoSession \/ Discarded(v)' \/ Created(v)' \/ v \in undeleted'
      <4>1. Created(n)'
        BY <1>0, <3>1 DEF Created
      <4>2. ASSUME NEW v \in Uploads, v # n, part'[v] # NoFile
            PROVE  uploads'[v] # NoSession \/ Discarded(v)' \/ Created(v)' \/ v \in undeleted'
        <5>1. part[v] # NoFile /\ uploads'[v] = uploads[v] /\ newId[h] = NoId
          BY <1>0, <3>1, <4>2, Servants
        <5>2. newId[h] # v /\ ~(pc[h] = "discard" /\ req[h].id = v)
          BY <3>1, <5>1, NoneAssumption
        <5>3. QED BY <1>u, <2>0, <5>1, <5>2, OwnerStays
      <4>3. QED BY <4>1, <4>2
    <3>4. \A g \in Handlers : g # h /\ pc[g] \in InSession =>
              part'[req[g].id] = part[req[g].id]
      BY <1>0, <3>1, <3>2, Servants DEF Serving
    <3>5. pc'[h] \notin InSession
      BY <3>1 DEF InSession, ChunkLabels, CommitLabels, LateLabels
    <3>6. QED BY <2>0, <3>1, <3>3, <3>4, <3>5, PartsWeaken DEF InSession
  <2>4. CASE UploadInitRegister(h) \/ UploadChunkCount(h)
    <3>1. /\ \A v \in Uploads : uploads[v] # NoSession => uploads'[v] # NoSession
          /\ UNCHANGED part /\ pc'[h] = "idle" /\ pc[h] # "discard"
          /\ newId[h] # NoId => uploads'[newId[h]] # NoSession
      <4>1. CASE UploadInitRegister(h)
        <5>0. req[h] \in InitRequest /\ req[h].path # BadPath
          BY <4>1 DEF UploadInitRegister, InitRefused, TypeInv, Shape
        <5>1. NewSession(req[h]) # NoSession
          <6>1. NewSession(req[h]) \in Session
            BY <5>0, SizesAssumption DEF NewSession, Session, InitRequest
          <6>2. QED BY <6>1, NoSessionAssumption
        <5>2. newId[h] \in Uploads /\ Reply(h)
          BY <4>1, Servants DEF UploadInitRegister, TypeInv, Shape
        <5>3. QED BY <1>0, <4>1, <5>1, <5>2 DEF UploadInitRegister, Reply, disk
      <4>2. CASE UploadChunkCount(h)
        <5>1. u \in Uploads /\ Len(req[h].content) \in Nat
          BY <4>2, Workers DEF UploadChunkCount, Working, ChunkLabels
        <5>2. uploads[u] \in Session
          BY <1>0, <4>2, <5>1 DEF UploadChunkCount, Live
        <5>3. [uploads[u] EXCEPT !.received = @ + Len(req[h].content)] # NoSession
          BY <5>1, <5>2, CountedSession
        <5>4. newId[h] = NoId
          BY <4>2, Servants DEF UploadChunkCount
        <5>5. QED BY <1>0, <4>2, <5>1, <5>3, <5>4 DEF UploadChunkCount, Reply, disk
      <4>3. QED BY <2>4, <4>1, <4>2
    <3>2. \A v \in Uploads : part'[v] # NoFile =>
              \/ uploads'[v] # NoSession \/ Discarded(v)' \/ Created(v)' \/ v \in undeleted'
      BY <1>f, <1>u, <2>0, <3>1, NoneAssumption DEF Discarded, Created
    <3>3. pc'[h] \notin InSession
      BY <3>1 DEF InSession, ChunkLabels, CommitLabels, LateLabels
    <3>4. \A g \in Handlers : pc[g] \in InSession => req[g].id \in Uploads
      BY Servants DEF Serving
    <3>5. QED BY <2>0, <3>1, <3>2, <3>3, <3>4, PartsWeaken DEF InSession
  <2>5. CASE UploadChunkRecreate(h) \/ ReplaceRename(h)
    <3>1. /\ pc[h] \in InSession /\ UNCHANGED <<uploads, req, newId>>
          /\ pc'[h] \in InSession
          /\ \E i \in Inodes \cup {NoFile} : /\ part' = [part EXCEPT ![u] = i]
                                             /\ pc'[h] \in LateLabels => i = NoFile
      BY <1>0, <2>5, FreshChoices DEF UploadChunkRecreate, ReplaceRename, AfterRename, Goto,
         InSession, ChunkLabels, CommitLabels, LateLabels
    <3>2. u \in Uploads /\ uploads[u] # NoSession /\ newId[h] = NoId
      BY <3>1, Servants DEF Serving, PartsInv, Live, InSession, ChunkLabels, CommitLabels,
         LateLabels
    <3>3. \A g \in Handlers : g # h /\ pc[g] \in InSession =>
              part'[req[g].id] = part[req[g].id]
      BY <1>0, <3>1, <3>2, Servants DEF Serving
    <3>4. \A v \in Uploads : part'[v] # NoFile =>
              \/ uploads'[v] # NoSession \/ Discarded(v)' \/ Created(v)' \/ v \in undeleted'
      <4>1. ASSUME NEW v \in Uploads, v # u, part'[v] # NoFile
            PROVE  uploads'[v] # NoSession \/ Discarded(v)' \/ Created(v)' \/ v \in undeleted'
        <5>1. part[v] # NoFile /\ uploads'[v] = uploads[v]
          BY <1>0, <3>1, <4>1
        <5>2. pc[h] # "discard"
          BY <3>1 DEF InSession, ChunkLabels, CommitLabels, LateLabels
        <5>3. QED BY <1>f, <1>u, <2>0, <3>1, <4>1, <5>1, <5>2 DEF Discarded, Created
      <4>2. QED BY <3>1, <3>2, <4>1
    <3>5. QED BY <1>0, <2>0, <3>1, <3>2, <3>3, <3>4, PartsWeaken
  <2>6. CASE UploadCommitErase(h) \/ UploadAbortErase(h) \/ UploadAbortDiscard(h)
    <3>1. /\ u \in Uploads /\ req[h].op \in ById /\ newId[h] = NoId
          /\ pc[h] = "erase" => part[u] = NoFile
      <4>1. CASE pc[h] \in Serving
        BY <4>1, Servants
        DEF PartsInv, Serving, InSession, ChunkLabels, CommitLabels, LateLabels
      <4>2. CASE UploadAbortErase(h)
        BY <4>2, Servants, RequestKinds
        DEF UploadAbortErase, At, TypeInv, Shape, ControlRequest, ById
      <4>3. QED
        BY <2>6, <4>1, <4>2
        DEF UploadCommitErase, UploadAbortDiscard, Serving, InSession, LateLabels
    <3>2. /\ uploads' = [uploads EXCEPT ![u] = NoSession] \/ UNCHANGED uploads
          /\ part' = [part EXCEPT ![u] = NoFile] \/ UNCHANGED part
          /\ \/ pc[h] = "erase" /\ UNCHANGED part /\ pc'[h] = "idle"
             \/ pc[h] = "received" /\ UNCHANGED <<part, req>> /\ pc'[h] = "discard"
             \/ pc[h] = "discard" /\ part'[u] = NoFile /\ pc'[h] = "idle"
      BY <1>0, <2>6, <3>1
      DEF UploadCommitErase, UploadAbortErase, UploadAbortDiscard, Reply, Goto, At, disk
    <3>3. \A g \in Handlers : g # h /\ pc[g] \in InSession =>
              req[g].id # u /\ req[g].id \in Uploads
      BY <3>1, Servants DEF Serving
    <3>4. pc'[h] \notin InSession
      BY <3>2 DEF InSession, ChunkLabels, CommitLabels, LateLabels
    <3>5. \A g \in Handlers : g # h /\ pc[g] \in InSession =>
              /\ uploads'[req[g].id] = uploads[req[g].id]
              /\ part'[req[g].id] = part[req[g].id]
      BY <1>0, <3>2, <3>3
    <3>6. ASSUME NEW v \in Uploads, v = u, part'[v] # NoFile
          PROVE  Discarded(v)'
      <4>1. pc'[h] = "discard" /\ req' = req
        BY <3>1, <3>2, <3>6
      <4>2. QED BY <3>6, <4>1 DEF Discarded
    <3>7. ASSUME NEW v \in Uploads, v # u, part'[v] # NoFile
          PROVE  uploads'[v] # NoSession \/ Discarded(v)' \/ Created(v)' \/ v \in undeleted'
      <4>1. part[v] # NoFile /\ uploads'[v] = uploads[v]
        BY <1>0, <3>2, <3>7
      <4>2. newId[h] # v /\ ~(pc[h] = "discard" /\ req[h].id = v)
        BY <3>1, <3>7, NoneAssumption
      <4>3. QED BY <1>u, <2>0, <4>1, <4>2, OwnerStays
    <3>8. \A v \in Uploads : part'[v] # NoFile =>
              \/ uploads'[v] # NoSession \/ Discarded(v)' \/ Created(v)' \/ v \in undeleted'
      BY <3>6, <3>7
    <3>9. QED BY <2>0, <3>4, <3>5, <3>8, PartsWeaken DEF InSession, LateLabels
  <2>7. QED BY <1>2, StepKinds, <2>1, <2>2, <2>3, <2>4, <2>5, <2>6
<1>3. ~Crash
  BY DEF Crash, TypeInv, TypeOK
<1>4. CASE UNCHANGED vars
  BY <1>4 DEF vars, local, disk, history, PartsInv, Live, Discarded, Created
<1>5. QED BY <1>1, <1>2, <1>3, <1>4 DEF Next

(* For serial callers and no crashes, on a disk that may fail at any call: *)
(* every .part file belongs to a live session or to a call in progress,    *)
(* but for those that an abort tried and failed to unlink.                 *)
THEOREM NoPartIsLeft ==
    ASSUME Callers = "serial", MaxCrashes = 0
    PROVE  Spec => []NoOrphanPart
<1> DEFINE Inv == TypeInv /\ IdsInv /\ PlansInv /\ SerialInv /\ PartsInv
<1>1. Init => Inv
  BY TypeInvInit, IdsInvInit, PlansInvInit, SerialInvInit, PartsInvInit
<1>2. Inv /\ [Next]_vars => Inv'
  BY TypeInvStep, IdsInvStep, PlansInvStep, SerialInvStep, PartsInvStep
<1>3. Inv => NoOrphanPart
  <2>1. ASSUME Inv, NEW u \in Uploads, Discarded(u)
        PROVE  InFlight(u, {"chunk", "commit", "abort"}) # {}
    BY <2>1 DEF Discarded, InFlight, TypeInv, Shape
  <2>2. QED BY <2>1 DEF NoOrphanPart, PartsInv, Created
<1>4. QED BY <1>1, <1>2, <1>3, PTL DEF Spec

-----------------------------------------------------------------------------
(* Serial callers, no crashes and no disk faults: what was there stays.    *)

LEMMA KeptInvInit == Init => KeptInv
BY FilesAssumption, NoneAssumption DEF Init, KeptInv, Existing, Exists, Intact

(* A commit has its target for itself.                                     *)
LEMMA Committers ==
    ASSUME TypeInv, PlansInv, SerialInv
    PROVE  /\ \A g \in Handlers : pc[g] \in CommitLabels \cup LateLabels =>
                  /\ req[g].op = "commit" /\ req[g].id \in Uploads
                  /\ ses[g] \in Session /\ ses[g].target \in Targets
                  /\ opened[req[g].id].target = ses[g].target
           /\ \A g, h \in Handlers :
                  /\ pc[g] \in CommitLabels \cup LateLabels
                  /\ pc[h] \in CommitLabels \cup LateLabels
                  /\ ses[g].target = ses[h].target
                  => g = h
<1>1. \A g \in Handlers : pc[g] \in CommitLabels \cup LateLabels =>
          /\ req[g].op = "commit" /\ req[g].id \in Uploads
          /\ ses[g] \in Session /\ ses[g].target \in Targets
  BY DEF TypeInv, TypeOK, Shape, ControlRequest, Session
<1>2. \A g \in Handlers : pc[g] \in CommitLabels \cup LateLabels =>
          opened[req[g].id].target = ses[g].target
  BY DEF PlansInv, SerialInv, SamePlan
<1>3. QED BY <1>1, <1>2 DEF SerialInv, OneCommit

NearRename == {"exists", "status", "remove", "rename"}

(* A step of a handler that is not in the middle of replacing, and touches *)
(* neither the targets nor the files at them.                              *)
LEMMA KeptWeaken ==
    ASSUME KeptInv, NEW h \in Handlers, UNCHANGED target,
           \A g \in Handlers : g # h =>
               /\ pc'[g] = pc[g] /\ req'[g] = req[g]
               /\ ses'[g] = ses[g] /\ saved'[g] = saved[g],
           \A t \in Targets : target[t] # NoFile => perm'[target[t]] = perm[target[t]],
           \A g \in Handlers : g # h /\ pc[g] \in NearRename => part'[req[g].id] # NoFile,
           pc'[h] \in NearRename => part'[req'[h].id] # NoFile,
           pc'[h] \in {"remove", "permissions"} /\ ses'[h].target \in Existing =>
               saved'[h] = "own",
           pc[h] # "rename", pc[h] = "permissions" => target[ses[h].target] = NoFile
    PROVE  KeptInv'
<1>1. ASSUME NEW g \in Handlers
      PROVE  /\ pc'[g] \in NearRename => part'[req'[g].id] # NoFile
             /\ pc'[g] \in {"remove", "permissions"} /\ ses'[g].target \in Existing =>
                    saved'[g] = "own"
  <2>1. CASE g = h
    BY <2>1
  <2>2. CASE g # h
    <3>1. pc[g] \in {"remove", "permissions"} /\ ses[g].target \in Existing =>
              saved[g] = "own"
      BY DEF KeptInv
    <3>2. QED BY <2>2, <3>1
  <2>3. QED BY <2>1, <2>2
<1>2. ASSUME NEW t \in Existing
      PROVE  Intact(t)' \/ Replacing(t)'
  <2>1. t \in Targets
    BY <1>2, FilesAssumption
  <2>2. CASE Intact(t)
    BY <2>1, <2>2 DEF Intact, Exists
  <2>3. CASE Replacing(t)
    BY <2>3 DEF Replacing, Exists
  <2>4. QED BY <1>2, <2>2, <2>3 DEF KeptInv
<1>3. \A s, t \in Targets : target'[s] # NoFile /\ target'[s] = target'[t] => s = t
  BY DEF KeptInv, Exists
<1>4. QED BY <1>1, <1>2, <1>3 DEF KeptInv, Exists, NearRename

LEMMA KeptByOtherSteps ==
    ASSUME DiskFaults = FALSE, TypeInv, IdsInv, PlansInv, SerialInv, KeptInv,
           NEW h \in Handlers, Step(h),
           ~ReplaceRemove(h), ~ReplaceRename(h), ~ReplacePermissions(h)
    PROVE  KeptInv'
<1>0. /\ pc \in [Handlers -> Labels] /\ target \in [Targets -> Inodes \cup {NoFile}]
      /\ part \in [Uploads -> Inodes \cup {NoFile}] /\ perm \in [Inodes -> Perms]
      /\ ses \in [Handlers -> Session \cup {NoSession}]
      /\ saved \in [Handlers -> Perms \cup {NoPerms}]
  BY DEF TypeInv, TypeOK
<1>1. \A g \in Handlers : pc[g] \in NearRename =>
          /\ req[g].op \in ById /\ req[g].id \in Uploads /\ part[req[g].id] # NoFile
  BY Committers DEF NearRename, CommitLabels, KeptInv, ById
<1>2. ~UploadChunkAppendFails(h) /\ ~UploadChunkCloseFails(h)
  BY DEF UploadChunkAppendFails, UploadChunkCloseFails, WriteFails
<1>3. /\ UNCHANGED target
      /\ \A t \in Targets : target[t] # NoFile => perm'[target[t]] = perm[target[t]]
  <2>1. CASE UploadInitCreate(h) \/ UploadChunkRecreate(h)
    <3>1. /\ NewInode \notin InUse /\ UNCHANGED target
          /\ perm' = [perm EXCEPT ![NewInode] = "umask"]
      BY <2>1, FreshChoices DEF UploadInitCreate, UploadChunkRecreate
    <3>2. \A t \in Targets : target[t] # NewInode
      BY <3>1 DEF InUse
    <3>3. QED BY <1>0, <3>1, <3>2
  <2>2. CASE ~UploadInitCreate(h) /\ ~UploadChunkRecreate(h)
    BY <1>2, <2>2, StepKinds DEF Fails, CommitAdvances, UploadInitRegister,
       UploadChunkAccept, UploadChunkOpen, UploadChunkAppend, UploadChunkCount,
       UploadCommitCopy, ReplaceStatus, UploadCommitErase, UploadAbortErase,
       UploadAbortDiscard, disk
  <2>3. QED BY <2>1, <2>2
<1>4. ASSUME NEW g \in Handlers, pc[g] \in NearRename, g # h
      PROVE  part'[req[g].id] # NoFile
  <2>1. CASE UploadInitCreate(h) \/ UploadChunkRecreate(h)
    <3>1. NewInode # NoFile /\ \E u : part' = [part EXCEPT ![u] = NewInode]
      BY <2>1, FreshChoices, NoneAssumption DEF UploadInitCreate, UploadChunkRecreate
    <3>2. QED BY <1>0, <1>1, <1>4, <3>1
  <2>2. CASE UploadAbortDiscard(h)
    <3>1. pc[h] \in Serving /\ part' = [part EXCEPT ![req[h].id] = NoFile]
      BY <2>2 DEF UploadAbortDiscard, Serving
    <3>2. req[g].id # req[h].id
      BY <1>1, <1>4, <3>1, Servants
    <3>3. QED BY <1>0, <1>1, <1>4, <3>1, <3>2
  <2>3. CASE ~UploadInitCreate(h) /\ ~UploadChunkRecreate(h) /\ ~UploadAbortDiscard(h)
    <3>1. UNCHANGED part
      BY <1>2, <2>3, StepKinds DEF Fails, CommitAdvances, UploadInitRegister,
         UploadChunkAccept, UploadChunkOpen, UploadChunkAppend, UploadChunkCount,
         UploadCommitCopy, ReplaceStatus, UploadCommitErase, UploadAbortErase, disk
    <3>2. QED BY <1>1, <1>4, <3>1
  <2>4. QED BY <2>1, <2>2, <2>3
<1>5. ASSUME pc'[h] \in NearRename
      PROVE  part'[req'[h].id] # NoFile
  <2>1. (CommitAdvances(h) \/ ReplaceStatus(h)) /\ UNCHANGED <<part, req>>
    <3>1. CASE Reply(h)
      BY <1>0, <1>5, <3>1 DEF Reply, NearRename
    <3>2. CASE ~Reply(h)
      BY <1>0, <1>2, <1>5, <3>2, StepKinds DEF Fails, CommitAdvances, UploadInitCreate,
         UploadInitRegister, UploadChunkAccept, UploadChunkOpen, UploadChunkRecreate,
         UploadChunkAppend, UploadChunkCount, UploadCommitCopy, ReplaceStatus,
         UploadCommitErase, UploadAbortErase, UploadAbortDiscard, Goto, disk, NearRename
    <3>3. QED BY <3>1, <3>2
  <2>2. part[req[h].id] # NoFile
    BY <1>1, <2>1 DEF CommitAdvances, ReplaceStatus, NearRename
  <2>3. QED BY <2>1, <2>2
<1>6. ASSUME pc'[h] \in {"remove", "permissions"}, ses'[h].target \in Existing
      PROVE  saved'[h] = "own"
  <2>1. ReplaceStatus(h)
    <3>1. CASE Reply(h)
      BY <1>0, <1>6, <3>1 DEF Reply
    <3>2. CASE ~Reply(h)
      BY <1>0, <1>2, <1>6, <3>2, StepKinds DEF Fails, CommitAdvances, UploadInitCreate,
         UploadInitRegister, UploadChunkAccept, UploadChunkOpen, UploadChunkRecreate,
         UploadChunkAppend, UploadChunkCount, UploadCommitCopy,
         UploadCommitErase, UploadAbortErase, UploadAbortDiscard, Goto
    <3>3. QED BY <3>1, <3>2
  <2>2. /\ pc[h] = "status" /\ ses' = ses
        /\ saved'[h] = IF Exists(ses[h].target) THEN perm[target[ses[h].target]] ELSE "all"
    BY <1>0, <2>1 DEF ReplaceStatus
  <2>3. ~Replacing(ses[h].target)
    BY <2>2, Committers DEF Replacing, CommitLabels, LateLabels
  <2>4. Intact(ses[h].target)
    BY <1>6, <2>2, <2>3 DEF KeptInv
  <2>5. QED BY <2>2, <2>4 DEF Intact
<1>7. pc[h] # "rename" /\ (pc[h] = "permissions" => target[ses[h].target] = NoFile)
  <2>1. CASE Fails(h)
    BY <1>1, <2>1 DEF Fails, NearRename, Exists
  <2>2. CASE ~Fails(h)
    BY <1>2, <2>2, StepKinds DEF CommitAdvances, UploadInitCreate,
       UploadInitRegister, UploadChunkAccept, UploadChunkOpen, UploadChunkRecreate,
       UploadChunkAppend, UploadChunkCount, UploadCommitCopy, ReplaceStatus,
       UploadCommitErase, UploadAbortErase, UploadAbortDiscard, At
  <2>3. QED BY <2>1, <2>2
<1>8. QED BY <1>3, <1>4, <1>5, <1>6, <1>7, OthersStay, KeptWeaken

LEMMA KeptByReplacing ==
    ASSUME TypeInv, IdsInv, FilesInv, PlansInv, SerialInv, KeptInv, NEW h \in Handlers,
           ReplaceRemove(h) \/ ReplaceRename(h) \/ ReplacePermissions(h)
    PROVE  KeptInv'
<1>0. /\ pc \in [Handlers -> Labels] /\ target \in [Targets -> Inodes \cup {NoFile}]
      /\ part \in [Uploads -> Inodes \cup {NoFile}] /\ perm \in [Inodes -> Perms]
      /\ Existing \subseteq Targets
  BY FilesAssumption DEF TypeInv, TypeOK
<1>1. PICK d \in Targets :
          /\ ses[h].target = d /\ ses[h] # NoSession
          /\ req[h].op = "commit" /\ req[h].id \in Uploads
  <2>1. pc[h] \in CommitLabels \cup LateLabels
    BY DEF ReplaceRemove, ReplaceRename, ReplacePermissions, CommitLabels, LateLabels
  <2>2. QED BY <2>1, Committers, NoSessionAssumption
<1>2. \A g \in Handlers : g # h =>
          /\ pc'[g] = pc[g] /\ req'[g] = req[g] /\ ses'[g] = ses[g] /\ saved'[g] = saved[g]
          /\ pc[g] \in CommitLabels \cup LateLabels => ses[g].target # d
  <2>1. pc[h] \in CommitLabels \cup LateLabels
    BY DEF ReplaceRemove, ReplaceRename, ReplacePermissions, CommitLabels, LateLabels
  <2>2. UNCHANGED <<req, ses, saved>> /\ \E l : pc' = [pc EXCEPT ![h] = l]
    BY DEF ReplaceRemove, ReplaceRename, ReplacePermissions, Goto
  <2>3. QED BY <1>0, <1>1, <2>1, <2>2, Committers
<1>3. UNCHANGED <<req, ses, saved>>
  BY DEF ReplaceRemove, ReplaceRename, ReplacePermissions, Goto
<1>4. \A t \in Targets : t # d => target'[t] = target[t]
  BY <1>0, <1>1 DEF ReplaceRemove, ReplaceRename, ReplacePermissions
<1>5. \A t \in Targets : t # d /\ target[t] # NoFile => perm'[target[t]] = perm[target[t]]
  <2>1. CASE ReplacePermissions(h)
    <3>1. \A t \in Targets : t # d /\ target[t] # NoFile => target[t] # target[d]
      BY DEF KeptInv, Exists
    <3>2. perm' = [perm EXCEPT ![target[d]] = saved[h]]
      BY <1>1, <2>1 DEF ReplacePermissions
    <3>3. QED BY <1>0, <3>1, <3>2
  <2>2. CASE ~ReplacePermissions(h)
    BY <2>2 DEF ReplaceRemove, ReplaceRename
  <2>3. QED BY <2>1, <2>2
<1>injective. ASSUME NEW s \in Targets, NEW t \in Targets, target'[s] # NoFile,
                     target'[s] = target'[t]
              PROVE  s = t
  <2>1. \A v \in Targets : v # d => target[v] # target'[d] \/ target'[d] = NoFile
    <3>1. CASE ReplaceRename(h)
      <4>1. target'[d] = part[req[h].id] /\ part[req[h].id] # NoFile
        BY <1>0, <1>1, <3>1 DEF ReplaceRename
      <4>2. QED BY <1>1, <4>1 DEF FilesInv
    <3>2. CASE ~ReplaceRename(h)
      BY <1>0, <1>1, <3>2 DEF ReplaceRemove, ReplacePermissions, KeptInv, Exists
    <3>3. QED BY <3>1, <3>2
  <2>2. QED BY <1>4, <1>injective, <2>1 DEF KeptInv, Exists
<1>near. ASSUME NEW g \in Handlers, pc'[g] \in NearRename
         PROVE  part'[req'[g].id] # NoFile
  <2>1. CASE g = h
    <3>1. ReplaceRemove(h)
      BY <1>0, <1>near, <2>1
      DEF ReplaceRename, AfterRename, ReplacePermissions, Goto, NearRename
    <3>2. QED BY <2>1, <3>1 DEF ReplaceRemove, KeptInv, Goto
  <2>2. CASE g # h
    <3>1. /\ pc[g] \in NearRename /\ req'[g] = req[g] /\ part[req[g].id] # NoFile
          /\ req[g].op = "commit" /\ req[g].id \in Uploads
      BY <1>2, <1>near, <2>2, Committers DEF NearRename, CommitLabels, KeptInv
    <3>2. req[g].id # req[h].id
      BY <1>1, <2>2, <3>1 DEF SerialInv, OneCall, ById
    <3>3. part'[req[g].id] = part[req[g].id]
      BY <1>0, <3>1, <3>2 DEF ReplaceRemove, ReplaceRename, ReplacePermissions
    <3>4. QED BY <3>1, <3>3
  <2>3. QED BY <2>1, <2>2
<1>replaced. CASE d \notin Existing
  <2>1. ASSUME NEW t \in Existing
        PROVE  Intact(t)' \/ Replacing(t)'
    <3>1. t # d /\ t \in Targets
      BY <1>0, <1>replaced, <2>1
    <3>2. CASE Intact(t)
      BY <1>4, <1>5, <3>1, <3>2 DEF Intact, Exists
    <3>3. CASE Replacing(t)
      BY <1>1, <1>2, <1>4, <3>1, <3>3 DEF Replacing, Exists
    <3>4. QED BY <2>1, <3>2, <3>3 DEF KeptInv
  <2>2. ASSUME NEW g \in Handlers, pc'[g] \in {"remove", "permissions"},
               ses'[g].target \in Existing
        PROVE  saved'[g] = "own"
    <3>1. g # h
      BY <1>1, <1>3, <1>replaced, <2>2
    <3>2. QED BY <1>2, <2>2, <3>1 DEF KeptInv
  <2>3. QED BY <1>injective, <1>near, <2>1, <2>2 DEF KeptInv, Exists, NearRename
<1>existing. CASE d \in Existing
  <2>1. ASSUME Replacing(d) PROVE saved[h] = "own"
    BY <1>2, <2>1 DEF Replacing, CommitLabels, LateLabels
  <2>2. ASSUME NEW t \in Existing, t # d
        PROVE  Intact(t)' \/ Replacing(t)'
    <3>1. t \in Targets
      BY <1>0, <2>2
    <3>2. CASE Intact(t)
      BY <1>4, <1>5, <2>2, <3>1, <3>2 DEF Intact, Exists
    <3>3. CASE Replacing(t)
      BY <1>1, <1>2, <1>4, <2>2, <3>1, <3>3 DEF Replacing, Exists
    <3>4. QED BY <2>2, <3>2, <3>3 DEF KeptInv
  <2>3. ASSUME NEW g \in Handlers, g # h, pc'[g] \in {"remove", "permissions"},
               ses'[g].target \in Existing
        PROVE  saved'[g] = "own"
    BY <1>2, <2>3 DEF KeptInv
  <2>4. /\ Intact(d)' \/ Replacing(d)'
        /\ pc'[h] \in {"remove", "permissions"} => saved'[h] = "own"
    <3>1. CASE ReplaceRemove(h)
      <4>1. saved[h] = "own" /\ pc'[h] = "rename"
        BY <1>0, <1>1, <1>existing, <3>1 DEF ReplaceRemove, Goto, KeptInv
      <4>2. QED BY <1>1, <1>3, <4>1 DEF Replacing
    <3>2. CASE ReplaceRename(h)
      <4>1. ~Exists(d) /\ pc[h] = "rename"
        BY <1>1, <3>2 DEF ReplaceRename, SerialInv
      <4>2. saved[h] = "own"
        BY <1>existing, <2>1, <4>1 DEF KeptInv, Intact
      <4>3. pc'[h] = "permissions" /\ target'[d] # NoFile
        BY <1>0, <1>1, <3>2, <4>2, NoneAssumption DEF ReplaceRename, Goto, AfterRename, Perms
      <4>4. QED BY <1>1, <1>3, <4>2, <4>3 DEF Replacing, Exists
    <3>3. CASE ReplacePermissions(h)
      <4>1. saved[h] = "own" /\ pc'[h] = "erase"
        BY <1>0, <1>1, <1>existing, <3>3 DEF ReplacePermissions, Goto, KeptInv
      <4>2. target'[d] # NoFile /\ perm'[target'[d]] = "own"
        BY <1>0, <1>1, <3>3, <4>1 DEF ReplacePermissions, Exists
      <4>3. QED BY <4>1, <4>2 DEF Intact, Exists
    <3>4. QED BY <3>1, <3>2, <3>3
  <2>5. QED
    BY <1>injective, <1>near, <2>2, <2>3, <2>4 DEF KeptInv, Exists, NearRename
<1> QED BY <1>replaced, <1>existing

LEMMA KeptInvStep ==
    ASSUME DiskFaults = FALSE, MaxCrashes = 0
    PROVE  TypeInv /\ IdsInv /\ FilesInv /\ PlansInv /\ SerialInv /\ KeptInv /\ [Next]_vars
               => KeptInv'
<1> SUFFICES ASSUME TypeInv, IdsInv, FilesInv, PlansInv, SerialInv, KeptInv, [Next]_vars
             PROVE  KeptInv'
  OBVIOUS
<1>1. ASSUME NEW h \in Handlers, NEW r \in Requests, Receive(h, r)
      PROVE  KeptInv'
  <2>1. /\ pc[h] = "idle" /\ pc' = [pc EXCEPT ![h] = "received"]
        /\ req' = [req EXCEPT ![h] = r]
        /\ UNCHANGED <<part, target, perm, ses, saved>>
        /\ pc \in [Handlers -> Labels] /\ req \in [Handlers -> Requests \cup {NoRequest}]
    BY <1>1 DEF Receive, disk, TypeInv, TypeOK
  <2>2. \A g \in Handlers : g # h => pc'[g] = pc[g] /\ req'[g] = req[g]
    BY <2>1
  <2>3. \A g \in Handlers : pc[g] \in NearRename => part[req[g].id] # NoFile
    BY DEF KeptInv, NearRename
  <2>4. pc'[h] = "received"
    BY <2>1
  <2>5. QED BY <2>1, <2>2, <2>3, <2>4, KeptWeaken DEF NearRename
<1>2. ASSUME NEW h \in Handlers, Step(h)
      PROVE  KeptInv'
  BY <1>2, KeptByOtherSteps, KeptByReplacing
<1>3. ~Crash
  BY DEF Crash, TypeInv, TypeOK
<1>4. CASE UNCHANGED vars
  BY <1>4 DEF vars, local, disk, KeptInv, Exists, Intact, Replacing
<1>5. QED BY <1>1, <1>2, <1>3, <1>4 DEF Next

LEMMA KeptInductive ==
    ASSUME Callers = "serial", DiskFaults = FALSE, MaxCrashes = 0
    PROVE  Spec => [](TypeInv /\ IdsInv /\ FilesInv /\ PlansInv /\ SerialInv /\ KeptInv)
<1> DEFINE Inv == TypeInv /\ IdsInv /\ FilesInv /\ PlansInv /\ SerialInv /\ KeptInv
<1>1. Init => Inv
  BY TypeInvInit, IdsInvInit, FilesInvInit, PlansInvInit, SerialInvInit, KeptInvInit
<1>2. Inv /\ [Next]_vars => Inv'
  BY TypeInvStep, IdsInvStep, FilesInvStep, PlansInvStep, SerialInvStep, KeptInvStep
  DEF IdsInv
<1>3. QED BY <1>1, <1>2, PTL DEF Spec

(* While no commit of a path is in flight nothing is being replaced there. *)
LEMMA NothingReplaced ==
    ASSUME TypeInv, PlansInv, SerialInv, KeptInv, NEW t \in Existing,
           CommitsInFlight(t) = {}
    PROVE  Intact(t)
<1>1. ~Replacing(t)
  BY Committers DEF Replacing, CommitsInFlight, CommitLabels, LateLabels
<1>2. QED BY <1>1 DEF KeptInv

(* For serial callers, no crashes and a disk that does not fail: a file    *)
(* that was there from the start, or what has replaced it, has the         *)
(* permissions it had, unless a commit of its path is in flight.           *)
THEOREM PermissionsStay ==
    ASSUME Callers = "serial", DiskFaults = FALSE, MaxCrashes = 0
    PROVE  Spec => []PermissionsKept
<1>1. TypeInv /\ IdsInv /\ FilesInv /\ PlansInv /\ SerialInv /\ KeptInv => PermissionsKept
  BY NothingReplaced DEF PermissionsKept, Intact
<1>2. QED BY <1>1, KeptInductive, PTL

(* Under the same assumptions, no commit, whether it succeeds or fails,    *)
(* costs a file that was there.                                            *)
THEOREM ExistingStay ==
    ASSUME Callers = "serial", DiskFaults = FALSE, MaxCrashes = 0
    PROVE  Spec => []ExistingKept
<1>1. TypeInv /\ IdsInv /\ FilesInv /\ PlansInv /\ SerialInv /\ KeptInv => ExistingKept
  BY NothingReplaced DEF ExistingKept, Intact
<1>2. QED BY <1>1, KeptInductive, PTL

=============================================================================
