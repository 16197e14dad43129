------------------------- MODULE RustUploadProofs -------------------------
(***************************************************************************)
(* Proofs about RustUploadServer.  Whatever its callers, its disk and its  *)
(* clock do, it orphans no .part file as long as it does not crash; and    *)
(* for careful callers, on a disk that may fail at any call, it installs   *)
(* whole files only, but for uploads that were told of a failed write and  *)
(* for paths of uploads that share an id.  The steps that it takes as the  *)
(* C++ server does need no proof of their own for the layers that the two  *)
(* invariants have in common.                                              *)
(***************************************************************************)
EXTENDS RustUploadInvariant, CppUploadProofs

(* The steps that CppUploadServer takes, too.                              *)
SharedStep(h) ==
    \/ Unauthorized(h) \/ UploadInitReject(h)
    \/ UploadChunkReject(h) \/ UploadChunkAccept(h) \/ UploadChunkOpen(h)
    \/ UploadChunkAppend(h) \/ UploadChunkAppendFails(h)
    \/ UploadChunkGone(h) \/ UploadChunkCount(h)
    \/ UploadCommitReject(h) \/ UploadCommitCopy(h)
    \/ UploadCommitTempMissing(h) \/ UploadCommitTempExists(h)
    \/ ReplaceRefuse(h) \/ ReplaceRename(h) \/ ReplaceRenameFails(h)
    \/ ReplacePermissions(h) \/ ReplacePermissionsFail(h) \/ UploadCommitErase(h)
    \/ UploadCommitFails(h)
    \/ UploadAbortReject(h) \/ UploadAbortErase(h) \/ UploadAbortDiscardFails(h)

LEMMA SharedIsCpp ==
    ASSUME NEW h \in Handlers, SharedStep(h)
    PROVE  Step(h)
BY DEF SharedStep, Step, UploadInit, UploadChunk, UploadCommit, UploadAbort, replace_file

(* The steps of a handler by what they change.  RustFails is every error   *)
(* reply, RustMoves every check that only moves on.                        *)
RustFails(h) ==
    /\ pc[h] \notin {"register", "erase"}
    /\ pc[h] = "count" => ~Live(req[h].id)
    /\ pc[h] = "clear" => part[newId[h]] = NoFile \/ DiskFaults
    /\ \/ pc[h] \in {"discard", "unlink"} /\ UploadAbortDiscardFails(h)
       \/ UNCHANGED undeleted
    /\ pc[h] \in {"discard", "unlink"} =>
           part[req[h].id] = NoFile \/ UploadAbortDiscardFails(h)
    /\ pc[h] = "rename" => part[req[h].id] = NoFile \/ DiskFaults
    /\ Reply(h)
    /\ UNCHANGED <<uploads, disk, crashes, opened, issued, accepted, told>>

Checks == {<<"temp", "exists">>, <<"exists", "status">>, <<"exists", "again">>,
           <<"exists", "rename">>, <<"again", "remove">>, <<"again", "rename">>,
           <<"discard", "unlink">>}

RustMoves(h) ==
    /\ pc[h] = "temp" => part[req[h].id] # NoFile
    /\ \E l \in Labels :
           /\ <<pc[h], l>> \in Checks
           /\ Goto(h, l)
           /\ pc[h] = "exists" /\ l # "rename" => ses[h].overwrite
    /\ UNCHANGED <<uploads, disk, newId, ses, fd, saved, crashes, history, told>>

LEMMA RustKinds ==
    ASSUME NEW h \in Handlers, RustStep(h)
    PROVE  \/ RustFails(h) \/ RustMoves(h)
           \/ upload_init_allocate(h) \/ upload_init_register(h)
           \/ upload_chunk_write_fails(h)
           \/ /\ \/ upload_init_clear(h) \/ upload_init_create(h)
                 \/ UploadChunkAccept(h) \/ UploadChunkOpen(h)
                 \/ UploadChunkAppend(h) \/ UploadChunkCount(h)
                 \/ UploadCommitCopy(h) \/ replace_file_metadata(h)
                 \/ replace_file_remove(h) \/ ReplaceRename(h)
                 \/ ReplacePermissions(h) \/ UploadCommitErase(h)
                 \/ UploadAbortErase(h) \/ upload_abort_unlink(h)
              /\ UNCHANGED told
<1>1. CASE Unauthorized(h) /\ UNCHANGED told
  BY <1>1 DEF Unauthorized, RustFails, history
<1>2. CASE upload_init(h)
  BY <1>2 DEF upload_init, UploadInitReject, upload_init_clear_fails,
              upload_init_create_fails, RustFails, At, history
<1>3. CASE upload_chunk(h)
  BY <1>3 DEF upload_chunk, UploadChunkReject, upload_chunk_open_fails,
              UploadChunkGone, RustFails, At, history
<1>4. CASE upload_commit(h)
  <2>1. CASE rust_replace_file(h)
    <3>1. CASE \/ ReplaceRefuse(h) \/ replace_file_vanished(h)
               \/ ReplaceRenameFails(h) \/ ReplacePermissionsFail(h) \/ UploadCommitFails(h)
      BY <1>4, <3>1 DEF upload_commit, ReplaceRefuse, replace_file_vanished,
         ReplaceRenameFails, ReplacePermissionsFail, UploadCommitFails, RustFails, history
    <3>2. CASE replace_file_vacant(h) \/ replace_file_occupied(h) \/ replace_file_again(h)
      BY <1>4, <3>2 DEF upload_commit, replace_file_vacant, replace_file_occupied,
         replace_file_again, RustMoves, Checks, Labels
    <3>3. QED BY <1>4, <2>1, <3>1, <3>2 DEF upload_commit, rust_replace_file
  <2>2. CASE ~rust_replace_file(h)
    BY <1>4, <2>2 DEF upload_commit, UploadCommitReject, UploadCommitTempMissing,
       UploadCommitTempExists, RustFails, RustMoves, Checks, Labels, At, history
  <2>3. QED BY <2>1, <2>2
<1>5. CASE upload_abort(h)
  BY <1>5 DEF upload_abort, UploadAbortReject, upload_abort_missing, upload_abort_exists,
              UploadAbortDiscardFails, RustFails, RustMoves, Checks, Labels, At, history
<1>6. QED BY <1>1, <1>2, <1>3, <1>4, <1>5 DEF RustStep

-----------------------------------------------------------------------------
(* What a handler holds.                                                   *)

LEMMA RustTypeStep == TypeInv /\ [RustNext]_rustVars => TypeInv'
<1> SUFFICES ASSUME TypeInv, [RustNext]_rustVars PROVE TypeInv'
  OBVIOUS
<1>0. /\ TypeOK /\ pc \in [Handlers -> Labels]
      /\ \A g \in Handlers : Shape(g)
  BY DEF TypeInv, TypeOK
<1>1. CASE \/ \E h \in Handlers, r \in Requests : Receive(h, r)
           \/ \E h \in Handlers : SharedStep(h)
           \/ Crash \/ UNCHANGED vars
  BY <1>1, SharedIsCpp, TypeInvStep DEF Next
<1>2. ASSUME NEW h \in Handlers, RustStep(h)
      PROVE  TypeInv'
  <2>1. CASE RustFails(h)
    <3>1. undeleted' \in SUBSET Uploads
      <4>1. pc[h] \in {"discard", "unlink"} => req[h].id \in Uploads
        BY <1>0 DEF Shape, ControlRequest
      <4>2. QED BY <1>0, <2>1, <4>1 DEF RustFails, UploadAbortDiscardFails, TypeOK
    <3>2. QED BY <1>0, <2>1, <3>1, ReplyKeepsLocals DEF RustFails, disk, TypeInv, TypeOK
  <2>2. CASE RustMoves(h)
    <3>1. TypeOK'
      BY <1>0, <2>2 DEF RustMoves, Goto, disk, history, TypeOK
    <3>2. ASSUME NEW g \in Handlers PROVE Shape(g)'
      <4>1. g # h => UNCHANGED <<pc[g], req[g], newId[g], ses[g], fd[g], saved[g]>>
        BY <1>0, <2>2 DEF RustMoves, Goto
      <4>2. UNCHANGED <<req[g], newId[g], ses[g], fd[g], saved[g]>>
        BY <2>2 DEF RustMoves, Goto
      <4>3. g = h => <<pc[g], pc'[g]>> \in Checks
        BY <1>0, <2>2 DEF RustMoves, Goto
      <4>4. QED BY <1>0, <4>1, <4>2, <4>3 DEF Shape, Checks, ChunkLabels, CommitLabels, LateLabels
    <3>3. QED BY <3>1, <3>2 DEF TypeInv
  <2>3. CASE upload_init_allocate(h)
    <3>1. PICK u \in upload_ids :
              /\ newId' = [newId EXCEPT ![h] = u]
              /\ issued' = issued \cup {u}
              /\ Goto(h, AfterLook(u))
      BY <2>3 DEF upload_init_allocate
    <3>2. u \in Uploads /\ issued \subseteq Uploads
      BY <1>0, <3>1, FreshChoices DEF upload_ids, TypeOK
    <3>3. AfterLook(u) \in {"clear", "create"} /\ AfterLook(u) \in Labels
      BY DEF AfterLook, Labels
    <3>4. TypeOK'
      BY <1>0, <2>3, <3>1, <3>2, <3>3 DEF upload_init_allocate, Goto, disk, TypeOK
    <3>5. ASSUME NEW g \in Handlers PROVE Shape(g)'
      <4>1. CASE g = h
        <5>1. pc[h] = "received" /\ req[h].op = "init" /\ ~InitRefused(req[h])
          BY <2>3 DEF upload_init_allocate, At
        <5>2. req[h] \in InitRequest /\ req[h] \in Requests
          BY <1>0, <5>1, RequestKinds DEF Shape
        <5>3. /\ pc'[h] \in {"clear", "create"} /\ newId'[h] = u /\ req' = req
              /\ UNCHANGED <<ses, fd>>
          BY <1>0, <2>3, <3>1, <3>3 DEF upload_init_allocate, Goto, TypeOK
        <5>4. InitRefused(req[h])' = InitRefused(req[h])
          BY <5>3 DEF InitRefused
        <5>5. QED
          BY <1>0, <3>2, <4>1, <5>1, <5>2, <5>3, <5>4, NoneAssumption
          DEF Shape, ChunkLabels, CommitLabels, LateLabels
      <4>2. CASE g # h
        BY <1>0, <2>3, <3>1, <4>2 DEF upload_init_allocate, Goto, TypeOK, Shape
      <4>3. QED BY <4>1, <4>2
    <3>6. QED BY <3>4, <3>5 DEF TypeInv
  <2>4. CASE upload_init_clear(h)
    <3>1. TypeOK'
      BY <1>0, <2>4 DEF upload_init_clear, Goto, history, TypeOK, Labels
    <3>2. ASSUME NEW g \in Handlers PROVE Shape(g)'
      BY <1>0, <2>4 DEF upload_init_clear, Goto, Shape, ChunkLabels, CommitLabels, LateLabels
    <3>3. QED BY <3>1, <3>2 DEF TypeInv
  <2>5. CASE upload_init_create(h)
    <3>1. PICK i \in {IF part[newId[h]] = NoFile THEN NewInode ELSE part[newId[h]]} :
              /\ part' = [part EXCEPT ![newId[h]] = i]
              /\ data' = [data EXCEPT ![i] = <<>>]
              /\ perm' = [perm EXCEPT ![i] = IF i \in InUse THEN @ ELSE "umask"]
      BY <2>5 DEF upload_init_create
    <3>2. newId[h] \in Uploads
      BY <1>0, <2>5 DEF upload_init_create, Shape, TypeOK
    <3>3. i \in Inodes
      BY <1>0, <2>5, <3>1, <3>2, FreshChoices DEF upload_init_create, TypeOK
    <3>4. TypeOK'
      <4>1. part' \in [Uploads -> Inodes \cup {NoFile}]
        BY <1>0, <3>1, <3>3 DEF TypeOK
      <4>2. data' \in [Inodes -> Seq(Blocks)]
        BY <1>0, <3>1, <3>3 DEF TypeOK
      <4>3. perm' \in [Inodes -> Perms]
        BY <1>0, <3>1, <3>3 DEF TypeOK, Perms
      <4>4. QED
        BY <1>0, <2>5, <4>1, <4>2, <4>3 DEF upload_init_create, Goto, history, TypeOK, Labels
    <3>5. ASSUME NEW g \in Handlers PROVE Shape(g)'
      BY <1>0, <2>5 DEF upload_init_create, Goto, Shape, ChunkLabels, CommitLabels, LateLabels
    <3>6. QED BY <3>4, <3>5 DEF TypeInv
  <2>6. CASE upload_init_register(h)
    <3>1. Reply(h) /\ pc[h] = "register"
      BY <2>6 DEF upload_init_register
    <3>2. req[h] \in InitRequest /\ ~InitRefused(req[h]) /\ newId[h] \in Uploads
      BY <1>0, <3>1 DEF Shape, TypeOK
    <3>3. NewSession(req[h]) \in Session
      BY <3>2, SizesAssumption DEF NewSession, Session, InitRequest, InitRefused
    <3>4. QED
      BY <1>0, <2>6, <3>1, <3>2, <3>3, ReplyKeepsLocals
      DEF upload_init_register, disk, TypeInv, TypeOK
  <2>7. CASE replace_file_metadata(h)
    <3>1. ses[h] \in Session /\ target[ses[h].target] \in Inodes
      BY <1>0, <2>7 DEF replace_file_metadata, Exists, Shape, CommitLabels, Session, TypeOK
    <3>2. perm[target[ses[h].target]] \in Perms
      BY <1>0, <3>1 DEF TypeOK
    <3>3. TypeOK'
      BY <1>0, <2>7, <3>2 DEF replace_file_metadata, Goto, disk, history, TypeOK, Labels
    <3>4. ASSUME NEW g \in Handlers PROVE Shape(g)'
      BY <1>0, <2>7, <3>2, NoneAssumption
      DEF replace_file_metadata, Goto, Shape, ChunkLabels, CommitLabels, LateLabels
    <3>5. QED BY <3>3, <3>4 DEF TypeInv
  <2>8. CASE replace_file_remove(h)
    <3>1. TypeOK'
      BY <1>0, <2>8 DEF replace_file_remove, Goto, history, TypeOK, Labels
    <3>2. ASSUME NEW g \in Handlers PROVE Shape(g)'
      BY <1>0, <2>8 DEF replace_file_remove, Goto, Shape, ChunkLabels, CommitLabels, LateLabels
    <3>3. QED BY <3>1, <3>2 DEF TypeInv
  <2>9. CASE upload_abort_unlink(h)
    <3>1. Reply(h)
      BY <2>9 DEF upload_abort_unlink
    <3>2. QED BY <1>0, <2>9, <3>1, ReplyKeepsLocals DEF upload_abort_unlink, history, TypeInv, TypeOK
  <2>10. QED
    BY <1>1, <1>2, RustKinds, <2>1, <2>2, <2>3, <2>4, <2>5, <2>6, <2>7, <2>8, <2>9
    DEF SharedStep, upload_chunk_write_fails
<1>3. QED BY <1>1, <1>2 DEF RustNext, rustVars

-----------------------------------------------------------------------------
(* What a step leaves alone.                                               *)

Registered(h) == [opened EXCEPT ![newId[h]] = NewSession(req[h])]

LEMMA RegisterBegun ==
    ASSUME TypeInv, NEW h \in Handlers, upload_init_register(h)
    PROVE  /\ newId[h] \in Uploads /\ NewSession(req[h]) \in Session
           /\ req[h].path \in Targets /\ req[h].size \in Nat
           /\ Begun' = Begun \cup {newId[h]}
<1>1. /\ opened \in [Uploads -> Session \cup {NoSession}]
      /\ newId[h] \in Uploads /\ req[h] \in InitRequest /\ ~InitRefused(req[h])
  BY DEF upload_init_register, TypeInv, TypeOK, Shape
<1>2. /\ NewSession(req[h]) \in Session /\ req[h].path \in Targets
      /\ req[h].size \in Nat
  BY <1>1, SizesAssumption DEF NewSession, Session, InitRequest, InitRefused
<1>3. opened' = Registered(h)
  BY DEF upload_init_register, Registered
<1>4. QED BY <1>1, <1>2, <1>3, NoSessionAssumption DEF Begun, Registered

LEMMA RustEffects ==
    ASSUME TypeInv, NEW h \in Handlers, RustStep(h)
    PROVE  /\ \A g \in Handlers : g # h =>
                  /\ pc'[g] = pc[g] /\ req'[g] = req[g] /\ newId'[g] = newId[g]
                  /\ ses'[g] = ses[g] /\ fd'[g] = fd[g]
           /\ req'[h] \in {req[h], NoRequest}
           /\ \/ upload_init_allocate(h)
              \/ newId'[h] \in {newId[h], NoId} /\ UNCHANGED <<issued, tied>>
           /\ upload_init_register(h) \/ UNCHANGED opened
           /\ upload_init_allocate(h) \/ upload_init_register(h) \/ UNCHANGED shared
           /\ upload_chunk_write_fails(h) \/ UNCHANGED torn
           /\ Begun \subseteq Begun' /\ issued \subseteq issued' /\ tied \subseteq tied'
           /\ shared \subseteq shared' /\ torn \subseteq torn' /\ crashes' = crashes
<1>0. /\ pc \in [Handlers -> Labels] /\ req \in [Handlers -> Requests \cup {NoRequest}]
      /\ newId \in [Handlers -> Uploads \cup {NoId}]
      /\ ses \in [Handlers -> Session \cup {NoSession}]
      /\ fd \in [Handlers -> Inodes \cup {NoFile}]
  BY DEF TypeInv, TypeOK
<1>1. CASE upload_init_allocate(h)
  <2>1. PICK u \in upload_ids : newId' = [newId EXCEPT ![h] = u] /\ Goto(h, AfterLook(u))
    BY <1>1 DEF upload_init_allocate
  <2>2. QED BY <1>0, <1>1, <2>1 DEF upload_init_allocate, Goto, Begun
<1>2. CASE upload_init_register(h)
  <2>1. Reply(h) /\ Begun' = Begun \cup {newId[h]}
    BY <1>2, RegisterBegun DEF upload_init_register
  <2>2. QED BY <1>0, <1>2, <2>1 DEF upload_init_register, Reply, CloseStream
<1>3. CASE \/ RustFails(h) \/ upload_chunk_write_fails(h)
           \/ /\ UploadChunkCount(h) \/ UploadCommitErase(h) \/ upload_abort_unlink(h)
              /\ UNCHANGED told
  <2>1. /\ Reply(h) /\ UNCHANGED <<opened, issued, crashes, tied, shared>>
        /\ torn \subseteq torn'
        /\ upload_chunk_write_fails(h) \/ UNCHANGED torn
    BY <1>3 DEF RustFails, upload_chunk_write_fails, UploadChunkAppendFails,
       UploadChunkCount, UploadCommitErase, upload_abort_unlink, history, told
  <2>2. QED BY <1>0, <2>1 DEF Reply, CloseStream, Begun
<1>4. CASE \/ RustMoves(h)
           \/ /\ \/ upload_init_clear(h) \/ upload_init_create(h)
                 \/ UploadChunkAccept(h) \/ UploadChunkOpen(h) \/ UploadChunkAppend(h)
                 \/ UploadCommitCopy(h) \/ replace_file_metadata(h)
                 \/ replace_file_remove(h) \/ ReplaceRename(h) \/ ReplacePermissions(h)
                 \/ UploadAbortErase(h)
              /\ UNCHANGED told
  <2>1. /\ \E l : Goto(h, l)
        /\ UNCHANGED <<newId, opened, issued, crashes, tied, shared, torn>>
        /\ UNCHANGED ses \/ ses' = [ses EXCEPT ![h] = uploads[req[h].id]]
        /\ UNCHANGED fd \/ fd' = [fd EXCEPT ![h] = part[req[h].id]]
    BY <1>4 DEF RustMoves, upload_init_clear, upload_init_create, UploadChunkAccept,
       UploadChunkOpen, UploadChunkAppend, UploadCommitCopy, replace_file_metadata,
       replace_file_remove, ReplaceRename, ReplacePermissions, UploadAbortErase,
       history, told
  <2>2. QED BY <1>0, <2>1 DEF Goto, Begun
<1>5. QED BY RustKinds, <1>1, <1>2, <1>3, <1>4

LEMMA UndeletedStays ==
    ASSUME NEW h \in Handlers, RustStep(h)
    PROVE  undeleted \subseteq undeleted'
BY RustKinds DEF RustFails, UploadAbortDiscardFails, RustMoves, upload_init_allocate,
   upload_init_register, upload_chunk_write_fails, UploadChunkAppendFails,
   upload_init_clear, upload_init_create, UploadChunkAccept, UploadChunkOpen,
   UploadChunkAppend, UploadChunkCount, UploadCommitCopy, replace_file_metadata,
   replace_file_remove, ReplaceRename, ReplacePermissions, UploadCommitErase,
   UploadAbortErase, upload_abort_unlink, history

(* Only a commit that was asked to overwrite gets as far as removing.      *)
LEMMA OverwriteStep ==
    ASSUME TypeInv, NEW h \in Handlers, RustStep(h),
           pc'[h] \in {"status", "again", "remove"}
    PROVE  /\ ses'[h] = ses[h]
           /\ pc[h] \in {"status", "again", "remove"} \/ ses[h].overwrite
<1>0. pc \in [Handlers -> Labels]
  BY DEF TypeInv, TypeOK
<1>1. ~Reply(h)
  BY <1>0 DEF Reply
<1>2. CASE RustMoves(h)
  BY <1>0, <1>2 DEF RustMoves, Goto, Checks
<1>3. CASE replace_file_metadata(h)
  BY <1>3 DEF replace_file_metadata
<1>4. ~RustMoves(h) /\ ~replace_file_metadata(h) => FALSE
  BY <1>0, <1>1, RustKinds DEF RustFails, upload_init_allocate, AfterLook,
     upload_init_register, upload_chunk_write_fails, UploadChunkAppendFails,
     upload_init_clear, upload_init_create, UploadChunkAccept, UploadChunkOpen,
     UploadChunkAppend, UploadChunkCount, UploadCommitCopy, replace_file_remove,
     ReplaceRename, AfterRename, ReplacePermissions, UploadCommitErase, UploadAbortErase,
     upload_abort_unlink, Goto
<1>5. QED BY <1>2, <1>3, <1>4

LEMMA ToldInvStep == TypeInv /\ ToldInv /\ [RustNext]_rustVars => ToldInv'
<1> SUFFICES ASSUME TypeInv, ToldInv, [RustNext]_rustVars PROVE ToldInv'
  OBVIOUS
<1>0. /\ pc \in [Handlers -> Labels] /\ req \in [Handlers -> Requests \cup {NoRequest}]
      /\ newId \in [Handlers -> Uploads \cup {NoId}]
      /\ opened \in [Uploads -> Session \cup {NoSession}]
      /\ issued \subseteq Uploads
  BY DEF TypeInv, TypeOK
<1>1. ASSUME NEW h \in Handlers, NEW r \in Requests, Receive(h, r), UNCHANGED told
      PROVE  ToldInv'
  <2>1. r.op \in ById => r.id \in Begun
    BY <1>1, RequestKinds DEF Receive, CallerAllowed, ById, Begun
  <2>2. QED BY <1>0, <1>1, <2>1 DEF Receive, history, told, ToldInv, Begun
<1>2. ASSUME NEW h \in Handlers, RustStep(h)
      PROVE  ToldInv'
  <2>1. tied' \subseteq issued' /\ (newId'[h] # NoId => newId'[h] \in issued')
    <3>1. CASE upload_init_allocate(h)
      <4>1. PICK u \in upload_ids : /\ newId' = [newId EXCEPT ![h] = u]
                                    /\ issued' = issued \cup {u}
                                    /\ tied' = tied \cup ({u} \cap issued)
        BY <3>1 DEF upload_init_allocate
      <4>2. QED BY <1>0, <4>1 DEF ToldInv
    <3>2. CASE ~upload_init_allocate(h)
      BY <1>2, <3>2, RustEffects DEF ToldInv
    <3>3. QED BY <3>1, <3>2
  <2>2. shared' \subseteq Targets
    <3>1. CASE upload_init_allocate(h)
      <4>1. PICK u \in upload_ids :
                shared' = shared \cup {s.target : s \in {opened[v] : v \in {u} \cap Begun}}
        BY <3>1 DEF upload_init_allocate
      <4>2. \A v \in Begun : opened[v].target \in Targets
        BY <1>0 DEF Begun, Session
      <4>3. QED BY <4>1, <4>2 DEF ToldInv
    <3>2. CASE upload_init_register(h)
      BY <3>2, RegisterBegun DEF upload_init_register, ToldInv
    <3>3. QED BY <1>2, <3>1, <3>2, RustEffects DEF ToldInv
  <2>3. torn' \subseteq Uploads
    <3>1. CASE upload_chunk_write_fails(h)
      <4>1. pc[h] = "append" /\ torn' = torn \cup {req[h].id}
        BY <3>1 DEF upload_chunk_write_fails, UploadChunkAppendFails, WriteFails
      <4>2. req[h].id \in Uploads
        BY <4>1 DEF TypeInv, Shape, ChunkLabels, ChunkRequest
      <4>3. QED BY <4>1, <4>2 DEF ToldInv
    <3>2. QED BY <1>2, <3>1, RustEffects DEF ToldInv
  <2>4. \A g \in Handlers : req'[g].op \in ById => req'[g].id \in Begun'
    <3>1. \A g \in Handlers : req'[g] \in {req[g], NoRequest}
      BY <1>2, RustEffects
    <3>2. Begun \subseteq Begun'
      BY <1>2, RustEffects
    <3>3. NoRequest.op \notin ById
      BY DEF NoRequest, ById
    <3>4. QED BY <3>1, <3>2, <3>3 DEF ToldInv
  <2>5. \A g \in Handlers : newId'[g] # NoId => newId'[g] \in issued'
    <3>1. /\ \A g \in Handlers : g # h => newId'[g] = newId[g]
          /\ issued \subseteq issued'
      BY <1>2, RustEffects
    <3>2. QED BY <2>1, <3>1 DEF ToldInv
  <2>6. \A g \in Handlers : pc'[g] \in {"status", "again", "remove"} => ses'[g].overwrite
    <3>1. \A g \in Handlers : g # h => pc'[g] = pc[g] /\ ses'[g] = ses[g]
      BY <1>2, RustEffects
    <3>2. QED BY <1>2, <3>1, OverwriteStep DEF ToldInv
  <2>7. QED BY <2>1, <2>2, <2>3, <2>4, <2>5, <2>6 DEF ToldInv
<1>3. CASE Crash /\ UNCHANGED told
  BY <1>3, NoneAssumption DEF Crash, history, told, ToldInv, Begun, NoRequest, ById
<1>4. CASE UNCHANGED rustVars
  BY <1>4 DEF rustVars, vars, history, local, told, ToldInv, Begun
<1>5. QED BY <1>1, <1>2, <1>3, <1>4 DEF RustNext

(* The uploads that a handler has to do with.                              *)
Own(h, u) == newId[h] = u \/ (req[h].op \in ById /\ req[h].id = u)

LEMMA Labelled ==
    ASSUME TypeInv, NEW h \in Handlers
    PROVE  /\ pc[h] \in ChunkLabels =>
                  /\ req[h].op = "chunk" /\ req[h].id \in Uploads
                  /\ req[h].content \in Seq(Blocks) /\ Len(req[h].content) \in Nat \ {0}
           /\ pc[h] \in CommitLabels \cup LateLabels =>
                  req[h].op = "commit" /\ req[h].id \in Uploads /\ ses[h] \in Session
           /\ pc[h] \in {"discard", "unlink"} =>
                  req[h].op = "abort" /\ req[h].id \in Uploads
           /\ pc[h] \in {"clear", "create", "register"} =>
                  newId[h] \in Uploads /\ req[h].op = "init"
           /\ pc[h] \notin {"clear", "create", "register"} => newId[h] = NoId
           /\ req[h].op \in ById => req[h].id \in Uploads
<1>0. Shape(h) /\ TypeOK
  BY DEF TypeInv
<1>1. ASSUME pc[h] \in ChunkLabels
      PROVE  /\ req[h].op = "chunk" /\ req[h].id \in Uploads
             /\ req[h].content \in Seq(Blocks) /\ Len(req[h].content) \in Nat \ {0}
  <2>1. req[h] \in ChunkRequest
    BY <1>0, <1>1 DEF Shape
  <2>2. req[h].content \in Seq(Blocks) /\ req[h].content # <<>>
    BY <2>1, ChunksAssumption DEF ChunkRequest
  <2>3. QED BY <2>1, <2>2, EmptySeq DEF ChunkRequest
<1>2. req[h].op \in ById => req[h].id \in Uploads
  BY <1>0, RequestKinds DEF TypeOK, NoRequest, ById
<1>3. QED BY <1>0, <1>1, <1>2 DEF Shape, TypeOK, InitRequest, ControlRequest

LEMMA Elsewhere ==
    ASSUME TypeInv, NEW h \in Handlers, RustStep(h), NEW u \in Uploads, ~Own(h, u)
    PROVE  /\ uploads'[u] = uploads[u] /\ part'[u] = part[u]
           /\ opened'[u] = opened[u] /\ accepted'[u] = accepted[u]
           /\ newId'[h] # u => ~Own(h, u)'
<1>0. /\ uploads \in [Uploads -> Session \cup {NoSession}]
      /\ part \in [Uploads -> Inodes \cup {NoFile}]
      /\ opened \in [Uploads -> Session \cup {NoSession}]
      /\ accepted \in [Uploads -> Seq(Blocks)]
  BY DEF TypeInv, TypeOK
<1>1. /\ newId[h] # u
      /\ pc[h] \in ChunkLabels \cup CommitLabels \cup LateLabels \cup {"discard", "unlink"}
             => req[h].id # u
  BY Labelled DEF Own, ById
<1>2. newId'[h] # u => ~Own(h, u)'
  <2>1. req'[h] \in {req[h], NoRequest}
    BY RustEffects
  <2>2. QED BY <2>1 DEF Own, NoRequest, ById
<1>3. CASE upload_init_register(h)
  BY <1>0, <1>1, <1>2, <1>3 DEF upload_init_register, disk
<1>4. CASE upload_init_clear(h) \/ upload_init_create(h)
  BY <1>0, <1>1, <1>2, <1>4 DEF upload_init_clear, upload_init_create, history
<1>5. CASE UploadChunkCount(h) \/ ReplaceRename(h) \/ UploadCommitErase(h)
           \/ upload_abort_unlink(h)
  BY <1>0, <1>1, <1>2, <1>5 DEF UploadChunkCount, ReplaceRename, UploadCommitErase,
     upload_abort_unlink, ChunkLabels, CommitLabels, LateLabels, disk, history
<1>6. CASE UploadAbortErase(h)
  BY <1>0, <1>2, <1>6 DEF UploadAbortErase, At, Own, ById, disk, history
<1>7. CASE \/ RustFails(h) \/ RustMoves(h) \/ upload_init_allocate(h)
           \/ upload_chunk_write_fails(h) \/ UploadChunkAccept(h) \/ UploadChunkOpen(h)
           \/ UploadChunkAppend(h) \/ UploadCommitCopy(h) \/ replace_file_metadata(h)
           \/ replace_file_remove(h) \/ ReplacePermissions(h)
  <2>1. UNCHANGED <<uploads, part, opened, accepted>>
    BY <1>7 DEF RustFails, RustMoves, upload_init_allocate, upload_chunk_write_fails,
       UploadChunkAppendFails, UploadChunkAccept, UploadChunkOpen, UploadChunkAppend,
       UploadCommitCopy, replace_file_metadata, replace_file_remove, ReplacePermissions,
       disk, history
  <2>2. QED BY <1>2, <2>1
<1>8. QED BY RustKinds, <1>3, <1>4, <1>5, <1>6, <1>7

-----------------------------------------------------------------------------
(* Tidy: ids, sessions and files of an upload that has its id for itself.  *)

LEMMA TidyElsewhere ==
    ASSUME TypeInv, TypeInv', NEW h \in Handlers, RustStep(h), NEW u \in Uploads,
           ~Own(h, u), newId'[h] # u, Tidy(u)
    PROVE  Tidy(u)'
<1>1. /\ uploads'[u] = uploads[u] /\ part'[u] = part[u]
      /\ opened'[u] = opened[u] /\ accepted'[u] = accepted[u]
      /\ ~Own(h, u)'
  BY Elsewhere
<1>2. /\ \A g \in Handlers : g # h =>
             /\ pc'[g] = pc[g] /\ req'[g] = req[g] /\ newId'[g] = newId[g]
             /\ ses'[g] = ses[g]
      /\ issued \subseteq issued' /\ crashes' = crashes
  BY RustEffects
<1>3. /\ ses'[h] # NoSession \/ pc'[h] \in LateLabels \cup {"discard", "unlink"}
             => req'[h].id # u
      /\ newId'[h] # u
  <2>1. Shape(h)'
    BY DEF TypeInv
  <2>2. QED BY <1>1, <2>1 DEF Shape, Own, ById
<1>4. pc[h] \in {"discard", "unlink"} => req[h].id # u
  BY Labelled DEF Own, ById
<1>5. (u \in Begun)' <=> u \in Begun
  BY <1>1 DEF Begun
<1>6. IdOf(u)'
  BY <1>1, <1>2, <1>3, <1>5 DEF Tidy, IdOf
<1>7. Unlinking(u)' <=> Unlinking(u)
  BY <1>2, <1>3, <1>4 DEF Unlinking
<1>8. Live(u)' <=> Live(u)
  BY <1>1 DEF Live
<1>9. SessionOf(u)'
  BY <1>1, <1>2, <1>3, <1>5, <1>7, <1>8 DEF Tidy, SessionOf, SamePlan
<1>10. Created(u)' <=> Created(u)
  BY <1>2, <1>3 DEF Created, Own
<1>11. PartOf(u)'
  BY <1>1, <1>2, <1>3, <1>7, <1>8, <1>10, UndeletedStays DEF Tidy, PartOf
<1>12. QED BY <1>6, <1>9, <1>11 DEF Tidy

(* A step of a call by id, as its upload sees it.                          *)
LEMMA ByIdEffects ==
    ASSUME TypeInv, NEW h \in Handlers, RustStep(h), NEW u \in Uploads,
           req[h].op \in ById, req[h].id = u
    PROVE  /\ ~upload_init_register(h) /\ ~upload_init_allocate(h)
           /\ Live(u)' => /\ Live(u) /\ uploads'[u].target = uploads[u].target
                          /\ uploads'[u].overwrite = uploads[u].overwrite
                          /\ uploads'[u].expected = uploads[u].expected
           /\ part'[u] \in {part[u], NoFile}
           /\ ses'[h] \in {ses[h], NoSession, uploads[u]}
           /\ pc'[h] \in LateLabels => pc[h] \in LateLabels \/ part'[u] = NoFile
           /\ pc'[h] \in {"discard", "unlink"} =>
                  ~Live(u)' \/ (pc[h] = "discard" /\ uploads'[u] = uploads[u])
           /\ part'[u] # NoFile /\ Live(u) /\ ~Live(u)' =>
                  pc[h] = "erase" \/ (pc'[h] = "discard" /\ req'[h] = req[h])
           /\ part'[u] # NoFile /\ pc[h] \in {"discard", "unlink"} =>
                  \/ pc'[h] \in {"discard", "unlink"} /\ req'[h] = req[h]
                  \/ u \in undeleted'
<1>0. /\ uploads \in [Uploads -> Session \cup {NoSession}]
      /\ part \in [Uploads -> Inodes \cup {NoFile}]
      /\ ses \in [Handlers -> Session \cup {NoSession}]
      /\ pc \in [Handlers -> Labels]
  BY DEF TypeInv, TypeOK
<1>1. /\ pc[h] \notin {"clear", "create", "register"} /\ req[h].op # "init"
      /\ pc[h] \in ChunkLabels => Len(req[h].content) \in Nat
  BY Labelled DEF ById
<1>2. /\ ~upload_init_register(h) /\ ~upload_init_allocate(h)
      /\ ~upload_init_clear(h) /\ ~upload_init_create(h)
  BY <1>1 DEF upload_init_register, upload_init_allocate, upload_init_clear,
     upload_init_create, At
<1>3. CASE RustFails(h) \/ upload_chunk_write_fails(h)
  <2>1. /\ UNCHANGED <<uploads, part>> /\ Reply(h)
        /\ pc[h] \in {"discard", "unlink"} => part[u] = NoFile \/ u \in undeleted'
    BY <1>3 DEF RustFails, UploadAbortDiscardFails, upload_chunk_write_fails, UploadChunkAppendFails, WriteFails, disk
  <2>2. pc'[h] = "idle" /\ ses'[h] = NoSession
    BY <1>0, <2>1 DEF Reply
  <2>3. QED BY <1>2, <2>1, <2>2 DEF Live, LateLabels
<1>4. CASE RustMoves(h)
  BY <1>0, <1>2, <1>4 DEF RustMoves, Goto, Checks, disk, Live, LateLabels
<1>5. CASE \/ UploadChunkAccept(h) \/ UploadChunkOpen(h) \/ UploadChunkAppend(h)
           \/ replace_file_metadata(h) \/ replace_file_remove(h) \/ ReplacePermissions(h)
  <2>1. /\ UNCHANGED <<uploads, part, ses>>
        /\ \E l : Goto(h, l) /\ l \in {"open", "append", "count", "again", "rename", "erase"}
        /\ pc[h] \notin {"discard", "unlink"}
        /\ pc'[h] \in LateLabels => pc[h] \in LateLabels
    BY <1>0, <1>5 DEF UploadChunkAccept, UploadChunkOpen, UploadChunkAppend,
       replace_file_metadata, replace_file_remove, ReplacePermissions, Goto, At, disk,
       LateLabels
  <2>2. QED BY <1>0, <1>2, <2>1 DEF Goto, Live, LateLabels
<1>6. CASE UploadCommitCopy(h)
  BY <1>0, <1>2, <1>6 DEF UploadCommitCopy, Goto, At, disk, Live, LateLabels
<1>7. CASE ReplaceRename(h)
  BY <1>0, <1>2, <1>7 DEF ReplaceRename, AfterRename, Goto, Live, LateLabels
<1>8. CASE UploadChunkCount(h)
  <2>1. /\ Reply(h) /\ part' = part /\ Live(u) /\ pc[h] = "count"
        /\ uploads' = [uploads EXCEPT ![u] =
                          [uploads[u] EXCEPT !.received = @ + Len(req[h].content)]]
    BY <1>8 DEF UploadChunkCount, disk
  <2>2. uploads[u] \in Session /\ Len(req[h].content) \in Nat
    BY <1>0, <1>1, <2>1 DEF Live, ChunkLabels
  <2>3. pc'[h] = "idle" /\ ses'[h] = NoSession
    BY <1>0, <2>1 DEF Reply
  <2>4. /\ uploads'[u].target = uploads[u].target
        /\ uploads'[u].overwrite = uploads[u].overwrite
        /\ uploads'[u].expected = uploads[u].expected
        /\ uploads'[u] # NoSession
    BY <1>0, <2>1, <2>2, CountedSession
  <2>5. QED BY <1>2, <2>1, <2>3, <2>4 DEF Live, LateLabels
<1>9. CASE UploadCommitErase(h)
  <2>1. Reply(h) /\ pc'[h] = "idle" /\ ses'[h] = NoSession
    BY <1>0, <1>9 DEF UploadCommitErase, Reply
  <2>2. QED BY <1>0, <1>2, <1>9, <2>1 DEF UploadCommitErase, disk, Live, LateLabels
<1>10. CASE UploadAbortErase(h)
  <2>1. /\ pc[h] = "received" /\ pc' = [pc EXCEPT ![h] = "discard"]
        /\ uploads' = [uploads EXCEPT ![u] = NoSession]
        /\ part' = part /\ ses' = ses /\ req' = req
    BY <1>10 DEF UploadAbortErase, Goto, At, disk
  <2>2. pc'[h] = "discard" /\ uploads'[u] = NoSession
    BY <1>0, <2>1
  <2>3. QED BY <1>2, <2>1, <2>2 DEF Live, LateLabels
<1>11. CASE upload_abort_unlink(h)
  <2>1. Reply(h) /\ pc'[h] = "idle" /\ ses'[h] = NoSession
    BY <1>0, <1>11 DEF upload_abort_unlink, Reply
  <2>2. QED BY <1>0, <1>2, <1>11, <2>1 DEF upload_abort_unlink, Live, LateLabels
<1>12. QED
  BY <1>2, RustKinds, <1>3, <1>4, <1>5, <1>6, <1>7, <1>8, <1>9, <1>10, <1>11

LEMMA TidyById ==
    ASSUME TypeInv, TypeInv', ToldInv, NEW h \in Handlers, RustStep(h),
           NEW u \in Uploads, req[h].op \in ById, req[h].id = u, Tidy(u)
    PROVE  Tidy(u)'
<1>1. /\ \A g \in Handlers : g # h =>
             /\ pc'[g] = pc[g] /\ req'[g] = req[g] /\ newId'[g] = newId[g]
             /\ ses'[g] = ses[g]
      /\ issued \subseteq issued' /\ crashes' = crashes
      /\ req'[h] \in {req[h], NoRequest} /\ newId'[h] \in {newId[h], NoId}
      /\ opened' = opened
  BY RustEffects, ByIdEffects
<1>2. u \in Begun /\ u \in Begun' /\ (\A g \in Handlers : newId[g] # u)
  BY <1>1 DEF ToldInv, Tidy, IdOf, Begun
<1>3. \A g \in Handlers : newId'[g] # u
  BY <1>1, <1>2, NoneAssumption
<1>4. IdOf(u)'
  BY <1>1, <1>2, <1>3 DEF Tidy, IdOf
<1>5. \A g \in Handlers : ses'[g] # NoSession /\ req'[g].id = u => SamePlan(ses[g], u)'
  <2>1. CASE ses'[h] = uploads[u] /\ Live(u)
    BY <1>1, <2>1 DEF Tidy, SessionOf, SamePlan
  <2>2. CASE ses'[h] \in {ses[h], NoSession}
    BY <1>1, <2>2 DEF Tidy, SessionOf, SamePlan
  <2>3. QED BY ByIdEffects, <2>1, <2>2 DEF Live
<1>6. Unlinking(u)' => ~Live(u)'
  <2>1. ASSUME NEW g \in Handlers, pc'[g] \in {"discard", "unlink"}, req'[g].id = u
        PROVE  ~Live(u)'
    <3>1. CASE g = h
      <4>1. pc[h] = "discard" => ~Live(u)
        BY DEF Tidy, SessionOf, Unlinking
      <4>2. QED BY <2>1, <3>1, <4>1, ByIdEffects DEF Live
    <3>2. CASE g # h
      <4>1. ~Live(u)
        BY <1>1, <2>1, <3>2 DEF Tidy, SessionOf, Unlinking
      <4>2. QED BY <4>1, ByIdEffects
    <3>3. QED BY <3>1, <3>2
  <2>2. QED BY <2>1 DEF Unlinking
<1>7. SessionOf(u)'
  <2>1. Live(u)' => SamePlan(uploads[u], u) /\ opened[u].expected = uploads[u].expected
    BY ByIdEffects DEF Tidy, SessionOf
  <2>2. Live(u)' => SamePlan(uploads[u], u)'
    BY <1>1, <2>1, ByIdEffects DEF SamePlan
  <2>3. QED BY <1>1, <1>2, <1>5, <1>6, <2>1, <2>2, ByIdEffects DEF SessionOf
<1>8. \A g \in Handlers : pc'[g] \in LateLabels /\ req'[g].id = u => part'[u] = NoFile
  BY <1>1, ByIdEffects DEF Tidy, PartOf
<1>9. crashes' = 0 /\ part'[u] # NoFile => Live(u)' \/ Unlinking(u)' \/ u \in undeleted'
  <2>1. SUFFICES ASSUME crashes = 0, part'[u] # NoFile, ~Live(u)', u \notin undeleted'
                 PROVE  Unlinking(u)'
    BY <1>1
  <2>2. part[u] # NoFile /\ (pc[h] # "erase")
    BY <2>1, ByIdEffects DEF Tidy, PartOf, LateLabels
  <2>3. CASE Live(u)
    BY <2>1, <2>2, <2>3, ByIdEffects DEF Unlinking
  <2>4. CASE ~Live(u)
    <3>1. PICK g \in Handlers : pc[g] \in {"discard", "unlink"} /\ req[g].id = u
      BY <1>2, <2>1, <2>2, <2>4, UndeletedStays DEF Tidy, PartOf, Unlinking, Created
    <3>2. pc'[g] \in {"discard", "unlink"} /\ req'[g].id = u
      BY <1>1, <2>1, <3>1, ByIdEffects
    <3>3. QED BY <3>2 DEF Unlinking
  <2>5. QED BY <2>3, <2>4
<1>10. QED BY <1>4, <1>7, <1>8, <1>9 DEF Tidy, PartOf

(* While u is no session yet, no call by id is about it.                   *)
LEMMA NotBegun ==
    ASSUME TypeInv, ToldInv, NEW u \in Uploads, u \notin Begun, Tidy(u)
    PROVE  /\ ~Live(u) /\ ~Unlinking(u) /\ accepted[u] = <<>>
           /\ \A g \in Handlers : /\ ~(req[g].op \in ById /\ req[g].id = u)
                                  /\ ~(pc[g] \in LateLabels /\ req[g].id = u)
                                  /\ ~(ses[g] # NoSession /\ req[g].id = u)
<1>1. \A g \in Handlers : ~(req[g].op \in ById /\ req[g].id = u)
  BY DEF ToldInv
<1>2. \A g \in Handlers :
          /\ pc[g] \in LateLabels \cup {"discard", "unlink"} => req[g].id # u
          /\ ses[g] # NoSession => req[g].id # u
  <2>1. \A g \in Handlers : Shape(g)
    BY DEF TypeInv
  <2>2. QED BY <1>1, <2>1 DEF Shape, ById
<1>3. QED BY <1>1, <1>2 DEF Tidy, SessionOf, IdOf, Unlinking

LEMMA TidyInit ==
    ASSUME TypeInv, TypeInv', ToldInv, NEW h \in Handlers, RustStep(h),
           NEW u \in Uploads, newId[h] = u, Tidy(u)
    PROVE  Tidy(u)'
<1>0. /\ pc \in [Handlers -> Labels] /\ newId \in [Handlers -> Uploads \cup {NoId}]
      /\ part \in [Uploads -> Inodes \cup {NoFile}]
      /\ uploads \in [Uploads -> Session \cup {NoSession}]
      /\ opened \in [Uploads -> Session \cup {NoSession}]
  BY DEF TypeInv, TypeOK
<1>1. /\ u \notin Begun /\ u \in issued /\ req[h].op = "init"
      /\ pc[h] \in {"create", "register"} /\ (pc[h] = "create" => part[u] = NoFile)
      /\ \A g \in Handlers : newId[g] = u => g = h
  BY Labelled, NoneAssumption DEF Tidy, IdOf, ToldInv
<1>2. /\ ~Live(u) /\ ~Unlinking(u) /\ accepted[u] = <<>>
      /\ \A g \in Handlers : ~(pc[g] \in LateLabels /\ req[g].id = u)
                             /\ ~(ses[g] # NoSession /\ req[g].id = u)
  BY <1>1, NotBegun
<1>3. /\ \A g \in Handlers : g # h =>
             /\ pc'[g] = pc[g] /\ req'[g] = req[g] /\ newId'[g] = newId[g]
             /\ ses'[g] = ses[g]
      /\ issued \subseteq issued' /\ crashes' = crashes
  BY RustEffects
<1>4. ASSUME ses'[h] = NoSession, pc'[h] \notin LateLabels \cup {"discard", "unlink"}
      PROVE  /\ \A g \in Handlers : ~(pc'[g] \in LateLabels /\ req'[g].id = u)
                                    /\ ~(ses'[g] # NoSession /\ req'[g].id = u)
             /\ ~Unlinking(u)'
  BY <1>2, <1>3, <1>4 DEF Unlinking
<1>5. CASE RustFails(h)
  <2>1. /\ pc[h] = "create" /\ Reply(h) /\ UNCHANGED <<uploads, part, opened, accepted>>
    BY <1>1, <1>5 DEF RustFails, disk, history
  <2>2. /\ pc'[h] = "idle" /\ newId'[h] = NoId /\ ses'[h] = NoSession
    BY <2>1, ReplyWeakens DEF Reply, TypeInv, TypeOK
  <2>3. \A g \in Handlers : newId'[g] # u
    BY <1>1, <1>3, <2>2, NoneAssumption
  <2>4. part'[u] = NoFile /\ ~Live(u)' /\ u \notin Begun'
    BY <1>1, <1>2, <2>1 DEF Live, Begun
  <2>5. IdOf(u)'
    BY <1>2, <2>1, <2>3, <2>4 DEF IdOf
  <2>6. QED BY <1>4, <2>2, <2>4, <2>5 DEF Tidy, SessionOf, PartOf, LateLabels
<1>6. CASE upload_init_create(h)
  <2>1. /\ pc' = [pc EXCEPT ![h] = "register"] /\ req' = req
        /\ UNCHANGED <<uploads, opened, issued, accepted, newId, ses>>
    BY <1>6 DEF upload_init_create, Goto, history
  <2>2. pc'[h] = "register" /\ ses'[h] = NoSession
    <3>1. Shape(h)'
      BY DEF TypeInv
    <3>2. pc'[h] = "register"
      BY <1>0, <2>1
    <3>3. QED BY <3>1, <3>2 DEF Shape, CommitLabels, LateLabels
  <2>3. ~Live(u)' /\ u \notin Begun' /\ u \in issued' /\ Created(u)'
    BY <1>1, <1>2, <2>1 DEF Live, Begun, Created
  <2>4. IdOf(u)'
    BY <1>1, <1>2, <1>3, <2>1, <2>2, <2>3 DEF IdOf
  <2>5. QED BY <1>4, <2>2, <2>3, <2>4 DEF Tidy, SessionOf, PartOf, LateLabels
<1>7. CASE upload_init_register(h)
  <2>1. /\ NewSession(req[h]) \in Session /\ u \in Begun'
        /\ Reply(h)
        /\ uploads' = [uploads EXCEPT ![u] = NewSession(req[h])]
        /\ opened' = [opened EXCEPT ![u] = NewSession(req[h])]
    BY <1>7, RegisterBegun DEF upload_init_register
  <2>2. pc'[h] = "idle" /\ newId'[h] = NoId /\ ses'[h] = NoSession
    BY <2>1 DEF Reply, TypeInv, TypeOK
  <2>3. \A g \in Handlers : newId'[g] # u
    BY <1>1, <1>3, <2>2, NoneAssumption
  <2>4. uploads'[u] = NewSession(req[h]) /\ opened'[u] = NewSession(req[h])
    BY <1>0, <2>1
  <2>5. Live(u)' /\ SamePlan(uploads[u], u)'
    BY <2>1, <2>4, NoSessionAssumption DEF Live, SamePlan
  <2>6. IdOf(u)'
    BY <1>1, <1>3, <2>1, <2>3 DEF IdOf
  <2>7. SessionOf(u)'
    BY <1>4, <2>1, <2>2, <2>4, <2>5 DEF SessionOf, LateLabels
  <2>8. QED BY <1>4, <2>2, <2>5, <2>6, <2>7 DEF Tidy, PartOf, LateLabels
<1>8. QED
  <2>1. ~RustFails(h) /\ ~upload_init_create(h) /\ ~upload_init_register(h) => FALSE
    BY <1>0, <1>1, RustKinds DEF RustMoves, Checks, upload_init_allocate,
       upload_chunk_write_fails, UploadChunkAppendFails, WriteFails, upload_init_clear,
       UploadChunkAccept, UploadChunkOpen, UploadChunkAppend, UploadChunkCount,
       UploadCommitCopy, replace_file_metadata, replace_file_remove, ReplaceRename,
       ReplacePermissions, UploadCommitErase, UploadAbortErase, upload_abort_unlink, At
  <2>2. QED BY <1>5, <1>6, <1>7, <2>1

(* An init that takes an id nobody had finds nothing under it.             *)
LEMMA TidyAllocate ==
    ASSUME TypeInv, TypeInv', ToldInv, NEW h \in Handlers, upload_init_allocate(h),
           NEW u \in Uploads \ tied', newId'[h] = u, Tidy(u)
    PROVE  Tidy(u)'
<1>0. pc \in [Handlers -> Labels] /\ newId \in [Handlers -> Uploads \cup {NoId}]
  BY DEF TypeInv, TypeOK
<1>1. /\ newId' = [newId EXCEPT ![h] = u]
      /\ u \notin issued /\ issued' = issued \cup {u} /\ Goto(h, AfterLook(u))
      /\ pc[h] = "received"
      /\ UNCHANGED <<uploads, part, ses, crashes, opened, accepted, req>>
  BY <1>0 DEF upload_init_allocate, Goto, At, disk
<1>2. u \notin Begun /\ part[u] = NoFile
  BY <1>1 DEF Tidy, IdOf
<1>3. pc' = [pc EXCEPT ![h] = "create"]
  BY <1>1, <1>2 DEF AfterLook, Goto
<1>4. /\ ~Live(u)' /\ u \notin Begun' /\ part'[u] = NoFile /\ accepted'[u] = <<>>
      /\ \A g \in Handlers : ~(pc'[g] \in LateLabels /\ req'[g].id = u)
                             /\ ~(ses'[g] # NoSession /\ req'[g].id = u)
  BY <1>0, <1>1, <1>2, <1>3, NotBegun DEF Live, Begun, LateLabels
<1>5. ~Unlinking(u)'
  BY <1>0, <1>1, <1>2, <1>3, NotBegun DEF Unlinking
<1>6. \A g \in Handlers : newId'[g] = u => g = h
  BY <1>0, <1>1, NoneAssumption DEF ToldInv
<1>7. IdOf(u)'
  BY <1>0, <1>1, <1>3, <1>4, <1>6 DEF IdOf
<1>8. QED BY <1>4, <1>5, <1>7 DEF Tidy, SessionOf, PartOf

LEMMA TidyStep ==
    ASSUME TypeInv, TypeInv', ToldInv, [RustNext]_rustVars, NEW u \in Uploads \ tied',
           u \notin tied, Tidy(u)
    PROVE  Tidy(u)'
<1>0. /\ pc \in [Handlers -> Labels] /\ req \in [Handlers -> Requests \cup {NoRequest}]
      /\ newId \in [Handlers -> Uploads \cup {NoId}]
      /\ crashes \in 0 .. MaxCrashes
  BY DEF TypeInv, TypeOK
<1>1. ASSUME NEW h \in Handlers, NEW r \in Requests, Receive(h, r), UNCHANGED told
      PROVE  Tidy(u)'
  <2>1. /\ pc' = [pc EXCEPT ![h] = "received"] /\ req' = [req EXCEPT ![h] = r]
        /\ pc[h] = "idle"
        /\ UNCHANGED <<uploads, part, newId, ses, crashes, opened, issued, accepted>>
    BY <1>1 DEF Receive, disk, history
  <2>2. newId[h] = NoId /\ ses[h] = NoSession
    BY <2>1 DEF TypeInv, Shape, CommitLabels, LateLabels
  <2>3. /\ \A g \in Handlers : g # h => pc'[g] = pc[g] /\ req'[g] = req[g]
        /\ pc'[h] = "received"
    BY <1>0, <2>1
  <2>4. /\ (u \in Begun)' <=> u \in Begun
        /\ Live(u)' <=> Live(u)
        /\ Created(u)' <=> Created(u)
    BY <2>1 DEF Begun, Live, Created
  <2>5. Unlinking(u)' <=> Unlinking(u)
    BY <2>1, <2>3 DEF Unlinking
  <2>6. IdOf(u)'
    BY <2>1, <2>2, <2>3, <2>4, NoneAssumption DEF Tidy, IdOf
  <2>7. SessionOf(u)'
    BY <2>1, <2>2, <2>3, <2>4, <2>5 DEF Tidy, SessionOf, SamePlan
  <2>8. PartOf(u)'
    BY <1>1, <2>1, <2>3, <2>4, <2>5 DEF Tidy, PartOf, LateLabels, Receive, history
  <2>9. QED BY <2>6, <2>7, <2>8 DEF Tidy
<1>2. ASSUME NEW h \in Handlers, RustStep(h)
      PROVE  Tidy(u)'
  <2>1. CASE Own(h, u)
    BY <1>2, <2>1, TidyById, TidyInit DEF Own
  <2>2. CASE ~Own(h, u) /\ newId'[h] = u
    BY <1>2, <2>2, RustEffects, TidyAllocate, NoneAssumption DEF Own
  <2>3. CASE ~Own(h, u) /\ newId'[h] # u
    BY <1>2, <2>3, TidyElsewhere
  <2>4. QED BY <2>1, <2>2, <2>3
<1>3. CASE Crash /\ UNCHANGED told
  <2>1. crashes' # 0
    BY <1>0, <1>3 DEF Crash
  <2>2. /\ UNCHANGED <<part, opened, issued, accepted>>
        /\ \A g \in Handlers : /\ pc'[g] = "idle" /\ newId'[g] = NoId
                               /\ ses'[g] = NoSession
        /\ uploads'[u] = NoSession
    BY <1>3 DEF Crash, disk, history
  <2>3. ~Live(u)' /\ ((u \in Begun)' <=> u \in Begun) /\ ~Unlinking(u)'
    BY <2>2 DEF Live, Begun, Unlinking
  <2>4. QED
    BY <2>1, <2>2, <2>3, NoneAssumption
    DEF Tidy, IdOf, SessionOf, PartOf, LateLabels
<1>4. CASE UNCHANGED rustVars
  BY <1>4 DEF rustVars, vars, disk, local, history, Tidy, IdOf, SessionOf, PartOf, SamePlan,
     Begun, Live, Unlinking, Created
<1>5. QED BY <1>1, <1>2, <1>3, <1>4 DEF RustNext

LEMMA TidyInvInit == RustInit => TidyInv
<1> SUFFICES ASSUME RustInit PROVE TidyInv
  OBVIOUS
<1>1. TypeInv
  BY TypeInvInit DEF RustInit
<1>2. ToldInv
  BY DEF RustInit, Init, ToldInv, NoRequest, ById
<1>3. ASSUME NEW u \in Uploads PROVE Tidy(u)
  BY NoneAssumption DEF RustInit, Init, Tidy, IdOf, SessionOf, PartOf, Begun, Live,
     Unlinking, LateLabels
<1>4. QED BY <1>1, <1>2, <1>3 DEF TidyInv

LEMMA TidyInvStep == TidyInv /\ [RustNext]_rustVars => TidyInv'
<1> SUFFICES ASSUME TidyInv, [RustNext]_rustVars PROVE TidyInv'
  OBVIOUS
<1>1. TypeInv' /\ ToldInv'
  BY RustTypeStep, ToldInvStep DEF TidyInv
<1>2. tied \subseteq tied'
  BY RustEffects DEF TidyInv, RustNext, rustVars, told
<1>3. \A u \in Uploads \ tied' : Tidy(u)'
  BY <1>1, <1>2, TidyStep DEF TidyInv
<1>4. QED BY <1>1, <1>3 DEF TidyInv

(* NoOrphan holds in every reachable state, for any callers and any disk:  *)
(* until the server crashes, somebody who is there to take it away stands  *)
(* behind every .part file of an upload that has its id for itself, but    *)
(* for those that an abort tried and failed to unlink.                     *)
THEOREM NobodyIsOrphaned == RustSpec => []NoOrphan
<1>1. TidyInv => NoOrphan
  <2> SUFFICES ASSUME TidyInv, crashes = 0, NEW u \in Uploads \ (tied \cup undeleted),
                      part[u] # NoFile, ~Live(u)
               PROVE  \/ InFlight(u, {"chunk", "commit", "abort"}) # {}
                      \/ \E h \in Handlers : newId[h] = u
    BY DEF NoOrphan
  <2>1. Unlinking(u) \/ Created(u)
    BY DEF TidyInv, Tidy, PartOf
  <2>2. ASSUME NEW h \in Handlers, pc[h] \in {"discard", "unlink"}, req[h].id = u
        PROVE  h \in InFlight(u, {"chunk", "commit", "abort"})
    BY <2>2, Labelled DEF TidyInv, InFlight
  <2>3. QED BY <2>1, <2>2 DEF Unlinking, Created
<1>2. QED BY TidyInvInit, TidyInvStep, <1>1, PTL DEF RustSpec

-----------------------------------------------------------------------------
(* Careful callers: one writer of an upload, and whose file is whose.      *)

LEMMA OneWriterStep ==
    ASSUME Callers # "any"
    PROVE  TypeInv /\ OneWriter /\ [RustNext]_rustVars => OneWriter'
<1> SUFFICES ASSUME TypeInv, OneWriter, [RustNext]_rustVars PROVE OneWriter'
  OBVIOUS
<1>1. ASSUME NEW h \in Handlers, NEW r \in Requests, Receive(h, r)
      PROVE  OneWriter'
  <2>1. /\ req' = [req EXCEPT ![h] = r]
        /\ req \in [Handlers -> Requests \cup {NoRequest}]
    BY <1>1 DEF Receive, TypeInv, TypeOK
  <2>2. SUFFICES ASSUME NEW f \in Handlers, NEW g \in Handlers, f # g,
                        req'[f].op \in {"chunk", "commit"},
                        req'[g].op \in {"chunk", "commit"}
                 PROVE  req'[f].id # req'[g].id
    BY DEF OneWriter
  <2>3. CASE f = h
    BY <1>1, <2>1, <2>2, <2>3, ReceiveAlone
  <2>4. CASE g = h
    BY <1>1, <2>1, <2>2, <2>4, ReceiveAlone
  <2>5. CASE f # h /\ g # h
    BY <2>1, <2>2, <2>5 DEF OneWriter
  <2>6. QED BY <2>3, <2>4, <2>5
<1>2. ASSUME \A h \in Handlers : req'[h] \in {req[h], NoRequest}
      PROVE  OneWriter'
  BY <1>2 DEF OneWriter, NoRequest
<1>3. ASSUME NEW h \in Handlers, RustStep(h) PROVE OneWriter'
  BY <1>2, <1>3, RustEffects
<1>4. QED BY <1>1, <1>2, <1>3 DEF RustNext, rustVars, vars, local, Crash

LEMMA FilesStep ==
    TypeInv /\ OneWriter /\ FilesInv /\ [RustNext]_rustVars => FilesInv'
<1> SUFFICES ASSUME TypeInv, OneWriter, FilesInv, [RustNext]_rustVars PROVE FilesInv'
  OBVIOUS
<1>0. /\ part \in [Uploads -> Inodes \cup {NoFile}]
      /\ target \in [Targets -> Inodes \cup {NoFile}]
      /\ fd \in [Handlers -> Inodes \cup {NoFile}]
  BY DEF TypeInv, TypeOK
<1>1. CASE \/ \E h \in Handlers, r \in Requests : Receive(h, r)
           \/ \E h \in Handlers : SharedStep(h)
           \/ Crash \/ UNCHANGED vars
  BY <1>1, SharedIsCpp, FilesInvStep DEF Next
<1>2. ASSUME NEW h \in Handlers, RustStep(h)
      PROVE  FilesInv'
  <2>1. CASE RustFails(h) \/ upload_init_register(h) \/ upload_abort_unlink(h)
    <3>1. /\ Reply(h) /\ UNCHANGED target
          /\ \A u \in Uploads : part'[u] \in {part[u], NoFile}
      BY <1>0, <2>1 DEF RustFails, upload_init_register, upload_abort_unlink, disk
    <3>2. QED BY <3>1, ReplyWeakens, FilesWeaken
  <2>2. CASE RustMoves(h) \/ upload_init_allocate(h) \/ upload_init_clear(h)
             \/ replace_file_metadata(h) \/ replace_file_remove(h)
    <3>1. /\ UNCHANGED <<fd, req>>
          /\ \A u \in Uploads : part'[u] \in {part[u], NoFile}
          /\ \A t \in Targets : target'[t] \in {target[t], NoFile}
      BY <1>0, <2>2 DEF RustMoves, upload_init_allocate, upload_init_clear,
         replace_file_metadata, replace_file_remove, Goto, disk
    <3>2. QED BY <3>1, FilesWeaken
  <2>3. CASE upload_init_create(h)
    <3>1. newId[h] \in Uploads
      BY <2>3, Labelled DEF upload_init_create
    <3>2. CASE part[newId[h]] = NoFile
      <4>1. /\ NewInode \in Inodes /\ NewInode \notin InUse
            /\ part' = [part EXCEPT ![newId[h]] = NewInode]
            /\ UNCHANGED <<target, fd, req>>
        BY <2>3, <3>2, FreshChoices DEF upload_init_create, Goto
      <4>2. QED BY <1>0, <3>1, <3>2, <4>1 DEF FilesInv, NoWriteToTarget, InUse
    <3>3. CASE part[newId[h]] # NoFile
      <4>1. UNCHANGED <<part, target, fd, req>>
        BY <1>0, <2>3, <3>1, <3>3 DEF upload_init_create, Goto
      <4>2. QED BY <4>1, FilesWeaken
    <3>4. QED BY <3>2, <3>3
  <2>4. QED
    BY <1>1, <1>2, RustKinds, <2>1, <2>2, <2>3 DEF SharedStep, upload_chunk_write_fails
<1>3. QED BY <1>1, <1>2 DEF RustNext, rustVars

(* A handler changes the bytes of no file but its own.                     *)
LEMMA DataElsewhere ==
    ASSUME TypeInv, FilesInv, NEW h \in Handlers, RustStep(h)
    PROVE  /\ \A u \in Uploads : ~Own(h, u) /\ part[u] # NoFile =>
                  data'[part[u]] = data[part[u]]
           /\ \A t \in Targets : Exists(t) => data'[target[t]] = data[target[t]]
           /\ pc[h] \notin {"create", "append"} => data' = data
<1>0. /\ part \in [Uploads -> Inodes \cup {NoFile}]
      /\ target \in [Targets -> Inodes \cup {NoFile}]
      /\ data \in [Inodes -> Seq(Blocks)]
      /\ fd \in [Handlers -> Inodes \cup {NoFile}]
  BY DEF TypeInv, TypeOK
<1>1. CASE UploadChunkAppend(h) \/ upload_chunk_write_fails(h)
  <2>1. PICK bytes : pc[h] = "append" /\ data' = [data EXCEPT ![fd[h]] = @ \o bytes]
    BY <1>1 DEF UploadChunkAppend, upload_chunk_write_fails, UploadChunkAppendFails,
       WriteFails, WriteOut
  <2>2. fd[h] # NoFile /\ req[h].op = "chunk"
    BY <2>1, Labelled DEF TypeInv, Shape, ChunkLabels
  <2>3. /\ \A u \in Uploads : part[u] = fd[h] => req[h].id = u
        /\ \A t \in Targets : target[t] # fd[h]
    BY <2>2 DEF FilesInv, NoWriteToTarget
  <2>4. QED BY <1>0, <2>1, <2>2, <2>3 DEF Own, ById, Exists
<1>2. CASE upload_init_create(h)
  <2>1. newId[h] \in Uploads /\ pc[h] = "create"
    BY <1>2, Labelled DEF upload_init_create
  <2>2. PICK i : /\ i = (IF part[newId[h]] = NoFile THEN NewInode ELSE part[newId[h]])
                 /\ data' = [data EXCEPT ![i] = <<>>]
                 /\ FreeInodes # {}
    BY <1>2 DEF upload_init_create
  <2>3. /\ \A u \in Uploads : u # newId[h] /\ part[u] # NoFile => part[u] # i
        /\ \A t \in Targets : Exists(t) => target[t] # i
    BY <1>0, <2>1, <2>2, FreshChoices DEF FilesInv, InUse, Exists
  <2>4. QED BY <1>0, <2>1, <2>2, <2>3 DEF Own, Exists
<1>3. CASE /\ ~UploadChunkAppend(h) /\ ~upload_chunk_write_fails(h)
           /\ ~upload_init_create(h)
  <2>1. data' = data
    BY <1>3, RustKinds DEF RustFails, RustMoves, upload_init_allocate,
       upload_init_register, upload_init_clear, UploadChunkAccept, UploadChunkOpen,
       UploadChunkCount, UploadCommitCopy, replace_file_metadata, replace_file_remove,
       ReplaceRename, ReplacePermissions, UploadCommitErase, UploadAbortErase,
       upload_abort_unlink, disk
  <2>2. QED BY <2>1
<1>4. QED BY <1>1, <1>2, <1>3

-----------------------------------------------------------------------------
(* The bytes of an upload that has its id for itself.                      *)

(* Steps that leave u's bytes and what was acknowledged of them alone, or  *)
(* say that the bytes are torn, and at most end calls and the session.     *)
LEMMA BytesFrame ==
    ASSUME NEW u \in Uploads, BytesOf(u),
           u \in torn => u \in torn',
           opened'[u] = opened[u], accepted'[u] = accepted[u],
           uploads'[u] \in {uploads[u], NoSession},
           \/ part'[u] = part[u]
           \/ /\ part'[u] = NoFile
              /\ Live(u)' => uploads[u].received = uploads[u].expected,
           part[u] # NoFile => u \in torn' \/ data'[part[u]] = data[part[u]],
           \A g \in Handlers : pc'[g] = "register" /\ newId'[g] = u =>
               /\ pc[g] = "register" /\ newId[g] = u
               /\ part'[u] = part[u] /\ data'[part[u]] = data[part[u]],
           \A g \in Handlers : pc'[g] \in ChunkLabels /\ req'[g].id = u /\ Live(u)' =>
               /\ pc'[g] = pc[g] /\ req'[g] = req[g] /\ fd'[g] = fd[g]
               /\ part'[u] = part[u]
               /\ pc[g] = "count" => part[u] # NoFile,
           \A g \in Handlers : pc'[g] \in CommitLabels /\ req'[g].id = u =>
               pc[g] \in CommitLabels /\ req'[g] = req[g],
           \A g \in Handlers : pc[g] = "count" /\ req[g].id = u =>
               (pc'[g] = "count" /\ req'[g] = req[g]) \/ ~Live(u)'
    PROVE  BytesOf(u)'
<1>1. CountOf(u)'
  <2>1. SUFFICES ASSUME Live(u)' PROVE CountOf(u)'
    BY DEF CountOf
  <2>2. uploads'[u] = uploads[u] /\ Live(u)
    BY <2>1 DEF Live
  <2>3. Settled(u)' => Settled(u)
    BY <2>1 DEF Settled
  <2>4. QED BY <2>1, <2>2, <2>3 DEF BytesOf, CountOf, HoldsAccepted
<1>2. EmptyOf(u)'
  BY DEF BytesOf, EmptyOf
<1>3. ChunkOf(u)'
  <2>1. SUFFICES ASSUME NEW g \in Handlers, pc'[g] \in ChunkLabels, req'[g].id = u, Live(u)'
                 PROVE  /\ req'[g].offset = uploads'[u].received
                        /\ uploads'[u].received + Len(req'[g].content) <= uploads'[u].expected
                        /\ pc'[g] \in {"append", "count"} => fd'[g] = part'[u]
                        /\ pc'[g] = "count" =>
                              u \in torn' \/ data'[part'[u]] = accepted'[u] \o req'[g].content
    BY DEF ChunkOf
  <2>2. uploads'[u] = uploads[u] /\ Live(u)
    BY <2>1 DEF Live
  <2>3. /\ pc'[g] = pc[g] /\ req'[g] = req[g] /\ fd'[g] = fd[g] /\ part'[u] = part[u]
        /\ pc[g] = "count" => part[u] # NoFile
    BY <2>1
  <2>4. QED BY <2>1, <2>2, <2>3 DEF BytesOf, ChunkOf
<1>4. CommitOf(u)'
  BY DEF BytesOf, CommitOf, HoldsAccepted
<1>5. QED BY <1>1, <1>2, <1>3, <1>4 DEF BytesOf

LEMMA BytesElsewhere ==
    ASSUME TypeInv, TypeInv', FilesInv, NEW h \in Handlers, RustStep(h),
           NEW u \in Uploads, ~Own(h, u), newId'[h] # u, BytesOf(u)
    PROVE  BytesOf(u)'
<1>1. /\ uploads'[u] = uploads[u] /\ part'[u] = part[u]
      /\ opened'[u] = opened[u] /\ accepted'[u] = accepted[u]
      /\ ~Own(h, u)'
      /\ part[u] # NoFile => data'[part[u]] = data[part[u]]
  BY Elsewhere, DataElsewhere
<1>2. /\ \A g \in Handlers : g # h =>
             /\ pc'[g] = pc[g] /\ req'[g] = req[g] /\ newId'[g] = newId[g]
             /\ fd'[g] = fd[g]
      /\ torn \subseteq torn'
  BY RustEffects
<1>3. pc[h] \in ChunkLabels \cup CommitLabels => req[h].id # u
  BY Labelled DEF Own, ById
<1>4. pc'[h] \in ChunkLabels \cup CommitLabels => req'[h].id # u
  <2>1. Shape(h)'
    BY DEF TypeInv
  <2>2. QED BY <1>1, <2>1 DEF Shape, Own, ById, ChunkRequest
<1>5. \A g \in Handlers : pc[g] = "count" /\ req[g].id = u /\ Live(u) =>
          fd[g] = part[u] /\ part[u] # NoFile
  BY DEF BytesOf, ChunkOf, ChunkLabels, TypeInv, Shape
<1>6. Live(u)' <=> Live(u)
  BY <1>1 DEF Live
<1>7. \A g \in Handlers : pc'[g] = "register" /\ newId'[g] = u =>
          pc[g] = "register" /\ newId[g] = u /\ part[u] # NoFile
  BY <1>2 DEF BytesOf, EmptyOf
<1>8. \A g \in Handlers : pc[g] = "count" => pc[g] \in ChunkLabels
  BY DEF ChunkLabels
<1> QED BY <1>1, <1>2, <1>3, <1>4, <1>5, <1>6, <1>7, <1>8, BytesFrame

(* An upload with no session and no calls has no bytes to speak of.        *)
LEMMA BytesOfNobody ==
    ASSUME NEW u \in Uploads, ~Live(u), EmptyOf(u),
           \A g \in Handlers : ~(pc[g] \in CommitLabels /\ req[g].id = u)
    PROVE  BytesOf(u)
BY DEF BytesOf, CountOf, ChunkOf, CommitOf

LEMMA BytesInit ==
    ASSUME TypeInv, TypeInv', ToldInv, ToldInv', NEW h \in Handlers, RustStep(h),
           NEW u \in Uploads, u \notin Begun, newId[h] = u \/ newId'[h] = u,
           Tidy(u), Tidy(u)', BytesOf(u)
    PROVE  BytesOf(u)'
<1>0. /\ pc \in [Handlers -> Labels] /\ newId \in [Handlers -> Uploads \cup {NoId}]
      /\ part \in [Uploads -> Inodes \cup {NoFile}]
      /\ data \in [Inodes -> Seq(Blocks)]
      /\ uploads \in [Uploads -> Session \cup {NoSession}]
      /\ accepted \in [Uploads -> Seq(Blocks)]
  BY DEF TypeInv, TypeOK
<1>1. \A g \in Handlers : g # h =>
          /\ pc'[g] = pc[g] /\ req'[g] = req[g] /\ newId'[g] = newId[g]
  BY RustEffects
<1>2. \A g \in Handlers : newId'[g] = u => g = h
  <2>1. CASE newId'[h] = u
    BY <2>1 DEF Tidy, IdOf
  <2>2. CASE newId[h] = u
    BY <1>1, <2>2 DEF Tidy, IdOf
  <2>3. QED BY <2>1, <2>2
<1>3. CASE upload_init_register(h)
  <2>1. /\ newId[h] = u /\ pc[h] = "register" /\ Reply(h) /\ part' = part /\ data' = data
        /\ NewSession(req[h]) \in Session
        /\ uploads' = [uploads EXCEPT ![u] = NewSession(req[h])]
        /\ accepted' = [accepted EXCEPT ![u] = <<>>]
        /\ req[h].size \in Nat
    <3>1. newId'[h] = NoId /\ u # NoId
      BY <1>0, <1>3, NoneAssumption DEF upload_init_register, Reply
    <3>2. QED BY <1>3, <3>1, RegisterBegun DEF upload_init_register, disk
  <2>2. /\ part[u] # NoFile /\ data[part[u]] = <<>>
    BY <2>1 DEF BytesOf, EmptyOf
  <2>3. /\ uploads'[u] = NewSession(req[h]) /\ accepted'[u] = <<>> /\ Len(<<>>) = 0
    BY <1>0, <2>1
  <2>4. pc'[h] = "idle" /\ newId'[h] = NoId
    BY <2>1, ReplyWeakens
  <2>5. CountOf(u)'
    BY <2>1, <2>2, <2>3 DEF CountOf, HoldsAccepted, NewSession
  <2>6. \A g \in Handlers : newId'[g] # u
    BY <1>2, <2>4, NoneAssumption
  <2>7. \A g \in Handlers :
            ~(pc'[g] \in ChunkLabels \cup CommitLabels /\ req'[g].id = u)
    <3>1. \A g \in Handlers : pc[g] \in ChunkLabels \cup CommitLabels => req[g].id # u
      BY Labelled, NotBegun DEF ById
    <3>2. QED BY <1>1, <2>4, <3>1 DEF ChunkLabels, CommitLabels
  <2>8. QED BY <2>5, <2>6, <2>7 DEF BytesOf, EmptyOf, ChunkOf, CommitOf
<1>4. CASE ~upload_init_register(h)
  <2>1. opened' = opened /\ u \notin Begun'
    BY <1>4, RustEffects DEF Begun
  <2>2. /\ ~Live(u)'
        /\ \A g \in Handlers : ~(req'[g].op \in ById /\ req'[g].id = u)
    BY <2>1 DEF Tidy, SessionOf, ToldInv
  <2>3. \A g \in Handlers : ~(pc'[g] \in CommitLabels /\ req'[g].id = u)
    BY <2>2 DEF TypeInv, Shape, ById
  <2>4. EmptyOf(u)'
    <3>1. SUFFICES ASSUME pc'[h] = "register", newId'[h] = u
                   PROVE  part'[u] # NoFile /\ data'[part'[u]] = <<>>
      BY <1>2 DEF EmptyOf
    <3>2. upload_init_create(h)
      <4>1. ~Reply(h)
        BY <1>0, <3>1 DEF Reply
      <4>2. ~RustMoves(h)
        BY <1>0, <3>1 DEF RustMoves, Checks, Goto
      <4>3. ~upload_init_allocate(h)
        BY <1>0, <3>1 DEF upload_init_allocate, AfterLook, Goto
      <4>4. ASSUME NEW l, Goto(h, l) PROVE l = "register"
        BY <1>0, <3>1, <4>4 DEF Goto
      <4>5. QED
        BY <1>4, <4>1, <4>2, <4>3, <4>4, RustKinds DEF RustFails,
           upload_chunk_write_fails, UploadChunkAppendFails, upload_init_clear,
           UploadChunkAccept, UploadChunkOpen, UploadChunkAppend, UploadChunkCount,
           UploadCommitCopy, replace_file_metadata, replace_file_remove, ReplaceRename,
           AfterRename, ReplacePermissions, UploadCommitErase, UploadAbortErase,
           upload_abort_unlink
    <3>3. PICK i : /\ i = (IF part[newId[h]] = NoFile THEN NewInode ELSE part[newId[h]])
                   /\ part' = [part EXCEPT ![newId[h]] = i]
                   /\ data' = [data EXCEPT ![i] = <<>>]
                   /\ FreeInodes # {} /\ newId' = newId
      BY <3>2 DEF upload_init_create
    <3>4. i \in Inodes /\ i # NoFile
      BY <1>0, <3>1, <3>3, FreshChoices, NoneAssumption
    <3>5. QED BY <1>0, <3>1, <3>3, <3>4
  <2>5. QED BY <2>2, <2>3, <2>4, BytesOfNobody DEF BytesOf, CountOf, ChunkOf, CommitOf
<1>5. QED BY <1>3, <1>4

(* A chunk or a commit of u is the only one, and no init is about u.       *)
LEMMA Alone ==
    ASSUME TypeInv, ToldInv, OneWriter, NEW h \in Handlers, NEW u \in Uploads,
           req[h].op \in ById, req[h].id = u, Tidy(u)
    PROVE  /\ u \in Begun /\ (\A g \in Handlers : newId[g] # u)
           /\ req[h].op \in {"chunk", "commit"} =>
                  \A g \in Handlers : g # h =>
                      ~(pc[g] \in ChunkLabels \cup CommitLabels /\ req[g].id = u)
<1>1. u \in Begun /\ (\A g \in Handlers : newId[g] # u)
  BY DEF ToldInv, Tidy, IdOf
<1>2. \A g \in Handlers : pc[g] \in ChunkLabels \cup CommitLabels =>
          req[g].op \in {"chunk", "commit"}
  BY Labelled
<1>3. QED BY <1>1, <1>2 DEF OneWriter

(* A chunk on its way to be counted.                                       *)
LEMMA BytesChunk ==
    ASSUME TypeInv, TypeInv', ToldInv, OneWriter, FilesInv,
           NEW h \in Handlers, RustStep(h),
           UploadChunkAccept(h) \/ UploadChunkOpen(h) \/ UploadChunkAppend(h),
           NEW u \in Uploads, req[h].op = "chunk", req[h].id = u, Tidy(u), BytesOf(u)
    PROVE  BytesOf(u)'
<1>0. /\ pc \in [Handlers -> Labels]
      /\ fd \in [Handlers -> Inodes \cup {NoFile}]
      /\ part \in [Uploads -> Inodes \cup {NoFile}]
      /\ data \in [Inodes -> Seq(Blocks)]
  BY DEF TypeInv, TypeOK
<1>1. /\ \E l \in {"open", "append", "count"} : pc' = [pc EXCEPT ![h] = l]
      /\ UNCHANGED <<uploads, part, req, newId, opened, accepted>>
  BY DEF UploadChunkAccept, UploadChunkOpen, UploadChunkAppend, Goto, disk, history
<1>2. /\ pc'[h] \in ChunkLabels
      /\ \A g \in Handlers : g # h => pc'[g] = pc[g] /\ fd'[g] = fd[g]
      /\ torn \subseteq torn'
  BY <1>0, <1>1, RustEffects DEF ChunkLabels
<1>3. /\ \A g \in Handlers : newId[g] # u
      /\ \A g \in Handlers : g # h =>
             ~(pc[g] \in ChunkLabels \cup CommitLabels /\ req[g].id = u)
  BY Alone DEF ById
<1>4. /\ \A g \in Handlers : g # h =>
             ~(pc'[g] \in ChunkLabels \cup CommitLabels /\ req'[g].id = u)
      /\ pc'[h] \notin CommitLabels
  BY <1>1, <1>2, <1>3 DEF ChunkLabels, CommitLabels
<1>5. Live(u)' <=> Live(u)
  BY <1>1 DEF Live
<1>6. EmptyOf(u)' /\ CommitOf(u)'
  BY <1>1, <1>3, <1>4 DEF EmptyOf, CommitOf
<1>7. CASE UploadChunkAccept(h) \/ UploadChunkOpen(h)
  <2>1. /\ data' = data /\ pc[h] # "count" /\ pc'[h] # "count"
        /\ pc'[h] = "append" => fd'[h] = part[u]
    BY <1>0, <1>7 DEF UploadChunkAccept, UploadChunkOpen, Goto, At, disk
  <2>2. Live(u) => /\ req[h].offset = uploads[u].received
                   /\ uploads[u].received + Len(req[h].content) <= uploads[u].expected
    BY <1>7 DEF UploadChunkAccept, UploadChunkOpen, ChunkAcceptable, OffsetExpected, Fits,
       BytesOf, ChunkOf, ChunkLabels
  <2>3. Settled(u)' => Settled(u)
    BY <1>1, <1>2, <2>1 DEF Settled
  <2>4. CountOf(u)'
    BY <1>1, <1>2, <1>5, <2>1, <2>3 DEF BytesOf, CountOf, HoldsAccepted
  <2>5. ChunkOf(u)'
    BY <1>1, <1>4, <1>5, <2>1, <2>2 DEF ChunkOf
  <2>6. QED BY <1>6, <2>4, <2>5 DEF BytesOf
<1>8. CASE UploadChunkAppend(h)
  <2>1. /\ pc[h] = "append" /\ pc'[h] = "count" /\ fd' = fd
        /\ data' = [data EXCEPT ![fd[h]] = @ \o req[h].content]
    BY <1>0, <1>8 DEF UploadChunkAppend, Goto, WriteOut
  <2>2. ~Settled(u)'
    BY <1>1, <2>1 DEF Settled
  <2>3. CountOf(u)'
    BY <1>1, <1>5, <2>2 DEF BytesOf, CountOf
  <2>4. ASSUME Live(u)
        PROVE  /\ req[h].offset = uploads[u].received
               /\ uploads[u].received + Len(req[h].content) <= uploads[u].expected
               /\ fd[h] = part[u]
               /\ u \in torn \/ data[part[u]] = accepted[u]
    <3>1. /\ req[h].offset = uploads[u].received
          /\ uploads[u].received + Len(req[h].content) <= uploads[u].expected
          /\ fd[h] = part[u]
      BY <2>1, <2>4 DEF BytesOf, ChunkOf, ChunkLabels
    <3>2. fd[h] # NoFile
      BY <2>1 DEF TypeInv, Shape
    <3>3. Settled(u)
      BY <1>3, <2>1 DEF Settled, ChunkLabels
    <3>4. QED BY <2>4, <3>1, <3>2, <3>3 DEF BytesOf, CountOf, HoldsAccepted
  <2>5. Live(u) => u \in torn' \/ data'[part[u]] = accepted[u] \o req[h].content
    <3>1. fd[h] \in Inodes
      BY <1>0, <2>1 DEF TypeInv, Shape
    <3>2. QED BY <1>0, <1>2, <2>1, <2>4, <3>1
  <2>6. ChunkOf(u)'
    BY <1>1, <1>4, <1>5, <2>1, <2>4, <2>5 DEF ChunkOf
  <2>7. QED BY <1>6, <2>3, <2>6 DEF BytesOf
<1>9. QED BY <1>7, <1>8

LEMMA BytesCount ==
    ASSUME TypeInv, ToldInv, OneWriter, NEW h \in Handlers, RustStep(h),
           UploadChunkCount(h), NEW u \in Uploads, req[h].op = "chunk", req[h].id = u,
           Tidy(u), BytesOf(u)
    PROVE  BytesOf(u)'
<1>0. /\ uploads \in [Uploads -> Session \cup {NoSession}]
      /\ accepted \in [Uploads -> Seq(Blocks)]
  BY DEF TypeInv, TypeOK
<1>1. /\ pc[h] = "count" /\ Live(u) /\ Reply(h)
      /\ uploads' = [uploads EXCEPT ![u] =
                        [uploads[u] EXCEPT !.received = @ + Len(req[h].content)]]
      /\ accepted' = [accepted EXCEPT ![u] = @ \o req[h].content]
      /\ UNCHANGED <<part, data>>
  BY DEF UploadChunkCount, disk
<1>2. /\ req[h].content \in Seq(Blocks) /\ Len(req[h].content) \in Nat \ {0}
      /\ uploads[u] \in Session
  BY <1>0, <1>1, Labelled DEF ChunkLabels, Live
<1>3. /\ uploads'[u].received = uploads[u].received + Len(req[h].content)
      /\ uploads'[u].expected = uploads[u].expected
      /\ accepted'[u] = accepted[u] \o req[h].content
      /\ Len(accepted'[u]) = Len(accepted[u]) + Len(req[h].content)
  <2>1. accepted[u] \in Seq(Blocks)
    BY <1>0
  <2>2. QED BY <1>0, <1>1, <1>2, <2>1, CountedSession
<1>4. /\ uploads[u].received = Len(accepted[u])
      /\ uploads[u].received + Len(req[h].content) <= uploads[u].expected
      /\ fd[h] = part[u]
      /\ u \in torn \/ data[part[u]] = accepted[u] \o req[h].content
  BY <1>1 DEF BytesOf, CountOf, ChunkOf, ChunkLabels
<1>5. part[u] # NoFile
  BY <1>1, <1>4 DEF TypeInv, Shape
<1>6. torn \subseteq torn'
  BY RustEffects
<1>7. CountOf(u)'
  BY <1>1, <1>2, <1>3, <1>4, <1>5, <1>6 DEF CountOf, HoldsAccepted
<1>8. /\ \A g \in Handlers : newId'[g] # u
      /\ \A g \in Handlers : ~(pc'[g] \in ChunkLabels \cup CommitLabels /\ req'[g].id = u)
  <2>1. /\ \A g \in Handlers : newId[g] # u
        /\ \A g \in Handlers : g # h =>
               ~(pc[g] \in ChunkLabels \cup CommitLabels /\ req[g].id = u)
    BY Alone DEF ById
  <2>2. QED BY <1>1, <2>1, ReplyWeakens, NoneAssumption DEF ChunkLabels, CommitLabels
<1>9. QED BY <1>7, <1>8 DEF BytesOf, EmptyOf, ChunkOf, CommitOf

LEMMA BytesCopy ==
    ASSUME TypeInv, ToldInv, OneWriter, NEW h \in Handlers, RustStep(h),
           UploadCommitCopy(h), NEW u \in Uploads, req[h].op = "commit", req[h].id = u,
           Tidy(u), BytesOf(u)
    PROVE  BytesOf(u)'
<1>0. pc \in [Handlers -> Labels]
  BY DEF TypeInv, TypeOK
<1>1. /\ pc[h] = "received" /\ pc' = [pc EXCEPT ![h] = "temp"]
      /\ Complete(u)
      /\ UNCHANGED <<uploads, part, data, req, newId, fd, opened, accepted>>
  BY DEF UploadCommitCopy, At, Goto, disk, history
<1>2. /\ \A g \in Handlers : newId[g] # u
      /\ \A g \in Handlers : g # h =>
             ~(pc[g] \in ChunkLabels \cup CommitLabels /\ req[g].id = u)
  BY Alone DEF ById
<1>3. pc'[h] = "temp" /\ (\A g \in Handlers : g # h => pc'[g] = pc[g]) /\ torn \subseteq torn'
  BY <1>0, <1>1, RustEffects
<1>4. Settled(u)
  BY <1>1, <1>2 DEF Settled, ChunkLabels
<1>5. /\ Live(u) /\ uploads[u].received = uploads[u].expected
      /\ uploads[u].received = Len(accepted[u])
      /\ opened[u].expected = uploads[u].expected
      /\ part[u] # NoFile => u \in torn \/ HoldsAccepted(u)
  BY <1>1, <1>4 DEF Complete, BytesOf, CountOf, Tidy, SessionOf
<1>6. CountOf(u)'
  BY <1>1, <1>3, <1>5 DEF BytesOf, CountOf, HoldsAccepted
<1>7. CommitOf(u)'
  BY <1>1, <1>2, <1>3, <1>5 DEF CommitOf, HoldsAccepted
<1>8. EmptyOf(u)' /\ ChunkOf(u)'
  BY <1>1, <1>2, <1>3 DEF EmptyOf, ChunkOf, ChunkLabels
<1>9. QED BY <1>6, <1>7, <1>8 DEF BytesOf

LEMMA BytesById ==
    ASSUME TypeInv, TypeInv', ToldInv, OneWriter, FilesInv, NEW h \in Handlers,
           RustStep(h), NEW u \in Uploads, req[h].op \in ById, req[h].id = u,
           Tidy(u), BytesOf(u)
    PROVE  BytesOf(u)'
<1>0. /\ pc \in [Handlers -> Labels]
      /\ uploads \in [Uploads -> Session \cup {NoSession}]
      /\ part \in [Uploads -> Inodes \cup {NoFile}]
  BY DEF TypeInv, TypeOK
<1>1. /\ u \in Begun /\ (\A g \in Handlers : newId[g] # u)
      /\ req[h].op \in {"chunk", "commit"} => \A g \in Handlers : g # h =>
             ~(pc[g] \in ChunkLabels \cup CommitLabels /\ req[g].id = u)
  BY Alone
<1>2. /\ ~upload_init_register(h) /\ ~upload_init_allocate(h)
      /\ ~upload_init_clear(h) /\ ~upload_init_create(h) /\ pc[h] # "create"
  BY Labelled DEF ById, upload_init_register, upload_init_allocate, upload_init_clear,
     upload_init_create, At
<1>3. /\ \A g \in Handlers : g # h =>
             pc'[g] = pc[g] /\ req'[g] = req[g] /\ newId'[g] = newId[g] /\ fd'[g] = fd[g]
      /\ torn \subseteq torn' /\ opened'[u] = opened[u]
      /\ \A g \in Handlers : newId'[g] # u
  <2>1. newId'[h] \in {newId[h], NoId} /\ opened' = opened
    BY <1>2, RustEffects
  <2>2. QED BY <1>1, <2>1, RustEffects, NoneAssumption
<1>4. \A g \in Handlers : pc[g] = "count" /\ req[g].id = u /\ Live(u) => part[u] # NoFile
  BY DEF BytesOf, ChunkOf, ChunkLabels, TypeInv, Shape
<1>5. /\ pc[h] \in ChunkLabels \cup CommitLabels => req[h].op \in {"chunk", "commit"}
      /\ \A g \in Handlers : pc[g] = "count" => pc[g] \in ChunkLabels
  BY Labelled DEF ChunkLabels
<1>6. ASSUME part' = part, data' = data, accepted' = accepted,
             uploads'[u] \in {uploads[u], NoSession},
             pc'[h] \notin ChunkLabels,
             pc'[h] \in CommitLabels => pc[h] \in CommitLabels /\ req' = req,
             pc[h] = "count" => ~Live(u)'
      PROVE  BytesOf(u)'
  <2>1. Live(u)' => Live(u)
    BY <1>6 DEF Live
  <2>2. QED BY <1>3, <1>4, <1>6, <2>1, BytesFrame
<1>7. CASE RustFails(h)
  <2>1. /\ UNCHANGED <<uploads, part, data, accepted>> /\ Reply(h)
        /\ pc[h] = "count" => ~Live(u)
    BY <1>7 DEF RustFails, disk, history
  <2>2. pc'[h] = "idle" /\ (Live(u)' <=> Live(u))
    BY <2>1, ReplyWeakens DEF Live
  <2>3. QED BY <1>6, <2>1, <2>2 DEF ChunkLabels, CommitLabels
<1>8. CASE \/ RustMoves(h) \/ replace_file_metadata(h) \/ replace_file_remove(h)
           \/ ReplacePermissions(h)
  <2>1. /\ UNCHANGED <<uploads, part, data, accepted, req>> /\ pc[h] # "count"
        /\ pc'[h] \notin ChunkLabels
        /\ pc'[h] \in CommitLabels => pc[h] \in CommitLabels
    BY <1>0, <1>8 DEF RustMoves, Checks, replace_file_metadata, replace_file_remove,
       ReplacePermissions, Goto, ChunkLabels, CommitLabels, disk, history
  <2>2. QED BY <1>6, <2>1
<1>9. CASE UploadCommitErase(h) \/ UploadAbortErase(h)
  <2>1. /\ UNCHANGED <<part, data, accepted>> /\ pc[h] # "count"
        /\ uploads' = [uploads EXCEPT ![u] = NoSession]
        /\ Reply(h) \/ Goto(h, "discard")
    BY <1>9 DEF UploadCommitErase, UploadAbortErase, At, disk, history
  <2>2. pc'[h] \in {"idle", "discard"} /\ uploads'[u] = NoSession
    BY <1>0, <2>1, ReplyWeakens DEF Goto
  <2>3. QED BY <1>6, <2>1, <2>2 DEF ChunkLabels, CommitLabels
<1>10. CASE upload_abort_unlink(h)
  <2>1. /\ UNCHANGED <<uploads, data, accepted>> /\ pc[h] = "unlink" /\ Reply(h)
        /\ part' = [part EXCEPT ![u] = NoFile]
    BY <1>10 DEF upload_abort_unlink, history
  <2>2. pc'[h] = "idle" /\ part'[u] = NoFile
    BY <1>0, <2>1, ReplyWeakens
  <2>3. ~Live(u)'
    BY <2>1 DEF Tidy, SessionOf, Unlinking, Live
  <2>4. QED
    BY <1>3, <2>1, <2>2, <2>3, BytesFrame DEF ChunkLabels, CommitLabels
<1>11. CASE ReplaceRename(h)
  <2>1. /\ UNCHANGED <<uploads, data, accepted, req, fd>> /\ pc[h] = "rename"
        /\ part' = [part EXCEPT ![u] = NoFile] /\ Goto(h, AfterRename(h))
    BY <1>11 DEF ReplaceRename, Goto, history
  <2>2. pc'[h] \in LateLabels /\ part'[u] = NoFile
    BY <1>0, <2>1 DEF AfterRename, Goto, LateLabels
  <2>3. \A g \in Handlers : g # h =>
            ~(pc[g] \in ChunkLabels \cup CommitLabels /\ req[g].id = u)
    BY <1>1, <1>5, <2>1 DEF CommitLabels
  <2>4. Live(u) => uploads[u].received = uploads[u].expected
    BY <2>1 DEF BytesOf, CountOf, CommitOf, CommitLabels, Tidy, SessionOf
  <2>5. Live(u)' <=> Live(u)
    BY <2>1 DEF Live
  <2>6. QED
    BY <1>3, <1>5, <2>1, <2>2, <2>3, <2>4, <2>5, BytesFrame
    DEF ChunkLabels, CommitLabels, LateLabels
<1>12. CASE upload_chunk_write_fails(h)
  <2>1. /\ UNCHANGED <<uploads, part, accepted>> /\ pc[h] = "append" /\ Reply(h)
        /\ u \in torn'
    BY <1>12 DEF upload_chunk_write_fails, UploadChunkAppendFails, WriteFails, history
  <2>2. pc'[h] = "idle"
    BY <2>1, ReplyWeakens
  <2>3. \A g \in Handlers : g # h =>
            ~(pc[g] \in ChunkLabels \cup CommitLabels /\ req[g].id = u)
    BY <1>1, <1>5, <2>1 DEF ChunkLabels
  <2>4. QED
    BY <1>3, <1>5, <2>1, <2>2, <2>3, BytesFrame DEF ChunkLabels, CommitLabels
<1>13. CASE UploadChunkAccept(h) \/ UploadChunkOpen(h) \/ UploadChunkAppend(h)
            \/ UploadChunkCount(h)
  <2>1. req[h].op = "chunk"
    BY <1>13, Labelled DEF UploadChunkAccept, UploadChunkOpen, UploadChunkAppend,
       UploadChunkCount, At, ChunkLabels
  <2>2. QED BY <1>13, <2>1, BytesChunk, BytesCount
<1>14. CASE UploadCommitCopy(h)
  BY <1>14, BytesCopy DEF UploadCommitCopy, At
<1>15. QED
  BY <1>2, RustKinds, <1>7, <1>8, <1>9, <1>10, <1>11, <1>12, <1>13, <1>14

LEMMA BytesStep ==
    ASSUME TidyInv, TidyInv', OneWriter, FilesInv, [RustNext]_rustVars,
           NEW u \in Uploads \ tied', u \notin tied, BytesOf(u)
    PROVE  BytesOf(u)'
<1>0. /\ TypeInv /\ TypeInv' /\ ToldInv /\ ToldInv' /\ Tidy(u) /\ Tidy(u)'
      /\ pc \in [Handlers -> Labels] /\ req \in [Handlers -> Requests \cup {NoRequest}]
  BY DEF TidyInv, TypeInv, TypeOK
<1>1. \A g \in Handlers : pc[g] = "count" /\ req[g].id = u /\ Live(u) => part[u] # NoFile
  BY <1>0 DEF BytesOf, ChunkOf, ChunkLabels, TypeInv, Shape
<1>2. ASSUME NEW h \in Handlers, NEW r \in Requests, Receive(h, r), UNCHANGED told
      PROVE  BytesOf(u)'
  <2>1. /\ pc' = [pc EXCEPT ![h] = "received"] /\ req' = [req EXCEPT ![h] = r]
        /\ pc[h] = "idle"
        /\ UNCHANGED <<uploads, part, data, newId, fd, opened, accepted, torn>>
    BY <1>2 DEF Receive, disk, history, told
  <2>2. /\ \A g \in Handlers : g # h => pc'[g] = pc[g] /\ req'[g] = req[g]
        /\ pc'[h] = "received"
    BY <1>0, <2>1
  <2>3. Live(u)' <=> Live(u)
    BY <2>1 DEF Live
  <2>4. QED BY <1>1, <2>1, <2>2, <2>3, BytesFrame DEF ChunkLabels, CommitLabels
<1>3. ASSUME NEW h \in Handlers, RustStep(h)
      PROVE  BytesOf(u)'
  <2>1. CASE req[h].op \in ById /\ req[h].id = u
    BY <1>0, <1>3, <2>1, BytesById
  <2>2. CASE newId[h] = u \/ (newId'[h] = u /\ ~Own(h, u))
    <3>1. u \notin Begun
      <4>1. CASE newId[h] = u
        BY <1>0, <4>1 DEF Tidy, IdOf
      <4>2. CASE newId'[h] = u /\ newId[h] # u
        <5>1. upload_init_allocate(h)
          BY <1>0, <1>3, <4>2, RustEffects, NoneAssumption
        <5>2. u \notin Begun' /\ opened' = opened
          BY <1>0, <4>2, <5>1 DEF Tidy, IdOf, upload_init_allocate
        <5>3. QED BY <5>2 DEF Begun
      <4>3. QED BY <2>2, <4>1, <4>2
    <3>2. QED BY <1>0, <1>3, <2>2, <3>1, BytesInit
  <2>3. CASE ~Own(h, u) /\ newId'[h] # u
    BY <1>0, <1>3, <2>3, BytesElsewhere
  <2>4. QED BY <2>1, <2>2, <2>3 DEF Own
<1>4. CASE Crash /\ UNCHANGED told
  <2>1. /\ UNCHANGED <<part, data, opened, accepted, torn>>
        /\ uploads'[u] = NoSession
        /\ \A g \in Handlers : pc'[g] = "idle" /\ newId'[g] = NoId
    BY <1>4 DEF Crash, disk, history, told
  <2>2. QED BY <2>1, BytesFrame DEF ChunkLabels, CommitLabels, Live
<1>5. CASE UNCHANGED rustVars
  BY <1>1, <1>5, BytesFrame DEF rustVars, vars, disk, local, history, told, Live
<1>6. QED BY <1>2, <1>3, <1>4, <1>5 DEF RustNext

-----------------------------------------------------------------------------
(* The target paths.                                                       *)

(* A step changes at most the session of one upload, and at most one copy. *)
LEMMA SessionEffects ==
    ASSUME TypeInv, NEW h \in Handlers, RustStep(h)
    PROVE  /\ \A u \in Uploads : uploads'[u] # NoSession =>
                  \/ /\ uploads[u] # NoSession
                     /\ uploads'[u].target = uploads[u].target
                  \/ /\ upload_init_register(h) /\ newId[h] = u
                     /\ uploads'[u].target = req[h].path
           /\ ses'[h] \in {ses[h], NoSession}
                  \/ (req[h].id \in Uploads /\ Live(req[h].id)
                      /\ ses'[h] = uploads[req[h].id])
<1>0. /\ uploads \in [Uploads -> Session \cup {NoSession}]
      /\ ses \in [Handlers -> Session \cup {NoSession}]
  BY DEF TypeInv, TypeOK
<1>1. ASSUME UNCHANGED uploads \/ \E v : uploads' = [uploads EXCEPT ![v] = NoSession],
             Reply(h) \/ UNCHANGED ses
      PROVE  /\ \A u \in Uploads : uploads'[u] \in {uploads[u], NoSession}
             /\ ses'[h] \in {ses[h], NoSession}
  BY <1>0, <1>1 DEF Reply
<1>2. CASE upload_init_register(h)
  <2>1. /\ uploads' = [uploads EXCEPT ![newId[h]] = NewSession(req[h])]
        /\ Reply(h)
        /\ NewSession(req[h]).target = req[h].path
    BY <1>2 DEF upload_init_register, NewSession
  <2>2. ses'[h] = NoSession
    BY <1>0, <2>1 DEF Reply
  <2>3. QED BY <1>0, <1>2, <2>1, <2>2
<1>3. CASE UploadChunkCount(h)
  <2>1. /\ Reply(h) /\ Live(req[h].id) /\ pc[h] = "count"
        /\ uploads' = [uploads EXCEPT ![req[h].id] =
                          [uploads[req[h].id] EXCEPT !.received = @ + Len(req[h].content)]]
    BY <1>3 DEF UploadChunkCount
  <2>2. req[h].id \in Uploads /\ Len(req[h].content) \in Nat
    BY <2>1, Labelled DEF ChunkLabels
  <2>3. uploads[req[h].id] \in Session
    BY <1>0, <2>1, <2>2 DEF Live
  <2>4. \A u \in Uploads : uploads'[u] # NoSession =>
            uploads[u] # NoSession /\ uploads'[u].target = uploads[u].target
    BY <1>0, <2>1, <2>2, <2>3, CountedSession DEF Live
  <2>5. ses'[h] = NoSession
    BY <1>0, <2>1 DEF Reply
  <2>6. QED BY <2>4, <2>5
<1>4. CASE UploadCommitCopy(h)
  <2>1. /\ uploads' = uploads /\ ses' = [ses EXCEPT ![h] = uploads[req[h].id]]
        /\ Live(req[h].id) /\ req[h].op = "commit"
    BY <1>4 DEF UploadCommitCopy, Complete, At
  <2>2. req[h].id \in Uploads
    BY <2>1, Labelled DEF ById
  <2>3. QED BY <1>0, <2>1, <2>2
<1>5. CASE ~upload_init_register(h) /\ ~UploadChunkCount(h) /\ ~UploadCommitCopy(h)
  <2>1. /\ UNCHANGED uploads \/ \E v : uploads' = [uploads EXCEPT ![v] = NoSession]
        /\ Reply(h) \/ UNCHANGED ses
    <3>1. CASE \/ RustFails(h) \/ RustMoves(h) \/ upload_init_allocate(h)
               \/ upload_chunk_write_fails(h) \/ upload_init_clear(h)
               \/ upload_init_create(h) \/ UploadChunkAccept(h) \/ UploadChunkOpen(h)
               \/ UploadChunkAppend(h)
      BY <3>1 DEF RustFails, RustMoves, upload_init_allocate, upload_chunk_write_fails,
         UploadChunkAppendFails, upload_init_clear, upload_init_create,
         UploadChunkAccept, UploadChunkOpen, UploadChunkAppend
    <3>2. CASE \/ replace_file_metadata(h) \/ replace_file_remove(h) \/ ReplaceRename(h)
               \/ ReplacePermissions(h) \/ upload_abort_unlink(h)
      BY <3>2 DEF replace_file_metadata, replace_file_remove, ReplaceRename,
         ReplacePermissions, upload_abort_unlink
    <3>3. CASE UploadCommitErase(h) \/ UploadAbortErase(h)
      BY <3>3 DEF UploadCommitErase, UploadAbortErase
    <3>4. QED BY <1>5, <3>1, <3>2, <3>3, RustKinds
  <2>2. QED BY <1>1, <2>1
<1>6. QED BY <1>2, <1>3, <1>4, <1>5

LEMMA SharedInvStep ==
    ASSUME TidyInv, TidyInv', SharedInv, [RustNext]_rustVars
    PROVE  SharedInv'
<1>0. /\ TypeInv /\ ToldInv /\ TypeInv' /\ ToldInv'
      /\ req \in [Handlers -> Requests \cup {NoRequest}]
      /\ ses \in [Handlers -> Session \cup {NoSession}]
      /\ newId \in [Handlers -> Uploads \cup {NoId}]
      /\ opened \in [Uploads -> Session \cup {NoSession}]
  BY DEF TidyInv, TypeInv, TypeOK
<1>1. ASSUME NEW h \in Handlers, NEW r \in Requests, Receive(h, r), UNCHANGED told
      PROVE  SharedInv'
  <2>1. /\ req' = [req EXCEPT ![h] = r] /\ pc[h] = "idle"
        /\ UNCHANGED <<uploads, ses, opened, tied, shared>>
    BY <1>1 DEF Receive, history, told
  <2>2. ses'[h] = NoSession
    BY <1>0, <2>1 DEF TypeInv, Shape, CommitLabels, LateLabels
  <2>3. QED BY <1>0, <2>1, <2>2 DEF SharedInv, Begun, Live
<1>2. ASSUME NEW h \in Handlers, RustStep(h)
      PROVE  SharedInv'
  <2>1. CASE upload_init_allocate(h)
    <3>1. PICK v \in upload_ids :
              /\ tied' = tied \cup ({v} \cap issued)
              /\ shared' = shared \cup {s.target : s \in {opened[w] : w \in {v} \cap Begun}}
      BY <2>1 DEF upload_init_allocate
    <3>2. UNCHANGED <<uploads, ses, opened, req>>
      BY <2>1 DEF upload_init_allocate, Goto
    <3>0. ASSUME tied' = {} PROVE shared' = {}
      <4>1. tied = {} /\ shared = {} /\ v \notin issued
        BY <3>0, <3>1 DEF SharedInv
      <4>2. v \notin Begun
        BY <1>0, <4>1 DEF TidyInv, Tidy, IdOf, Begun
      <4>3. QED BY <3>1, <4>1, <4>2
    <3>3. SUFFICES ASSUME NEW u \in tied'
                   PROVE  /\ u \in Begun => opened[u].target \in shared'
                          /\ Live(u) => uploads[u].target \in shared'
                          /\ \A g \in Handlers : ses[g] # NoSession /\ req[g].id = u =>
                                 ses[g].target \in shared'
      BY <3>0, <3>2 DEF SharedInv, Begun, Live
    <3>4. CASE u \in tied
      BY <3>1, <3>4 DEF SharedInv
    <3>5. CASE u \notin tied
      <4>1. u = v /\ u \in Uploads /\ Tidy(u)
        BY <1>0, <3>1, <3>5 DEF TidyInv, TypeInv, TypeOK
      <4>2. u \in Begun => opened[u].target \in shared'
        BY <3>1, <4>1
      <4>3. Live(u) => u \in Begun /\ uploads[u].target = opened[u].target
        BY <4>1 DEF Tidy, SessionOf, SamePlan
      <4>4. ASSUME NEW g \in Handlers, ses[g] # NoSession, req[g].id = u
            PROVE  u \in Begun /\ ses[g].target = opened[u].target
        <5>1. req[g].op \in ById
          BY <1>0, <4>4 DEF TypeInv, Shape, ById
        <5>2. QED BY <1>0, <4>1, <4>4, <5>1 DEF ToldInv, Tidy, SessionOf, SamePlan
      <4>5. QED BY <4>2, <4>3, <4>4
    <3>6. QED BY <3>4, <3>5
  <2>2. CASE ~upload_init_allocate(h)
    <3>1. /\ tied' = tied /\ shared \subseteq shared'
          /\ \A g \in Handlers : g # h => req'[g] = req[g] /\ ses'[g] = ses[g]
          /\ req'[h] \in {req[h], NoRequest}
      BY <1>0, <1>2, <2>2, RustEffects
    <3>2. ASSUME NEW u \in tied, upload_init_register(h), newId[h] = u
          PROVE  req[h].path \in shared'
      BY <3>2 DEF upload_init_register
    <3>3. ASSUME NEW u \in tied, opened'[u] # NoSession
          PROVE  opened'[u].target \in shared'
      <4>1. CASE upload_init_register(h)
        <5>1. opened' = [opened EXCEPT ![newId[h]] = NewSession(req[h])]
          BY <4>1 DEF upload_init_register
        <5>2. u \in Uploads
          BY <1>0, <3>3 DEF ToldInv, TypeInv, TypeOK
        <5>3. CASE newId[h] = u
          BY <1>0, <3>2, <4>1, <5>1, <5>2, <5>3 DEF NewSession
        <5>4. CASE newId[h] # u
          BY <1>0, <3>1, <3>3, <5>1, <5>2, <5>4 DEF SharedInv, Begun
        <5>5. QED BY <5>3, <5>4
      <4>2. CASE opened' = opened
        <5>1. u \in Uploads
          BY <1>0, <3>3 DEF ToldInv, TypeInv, TypeOK
        <5>2. QED BY <3>1, <3>3, <4>2, <5>1 DEF SharedInv, Begun
      <4>3. QED BY <1>0, <1>2, <4>1, <4>2, RustEffects
    <3>4. ASSUME NEW u \in tied, uploads'[u] # NoSession
          PROVE  uploads'[u].target \in shared'
      <4>1. u \in Uploads
        BY <1>0, <3>4 DEF ToldInv, TypeInv, TypeOK
      <4>2. QED BY <1>0, <1>2, <3>1, <3>2, <3>4, <4>1, SessionEffects DEF SharedInv, Live
    <3>5. ASSUME NEW u \in tied, NEW g \in Handlers, ses'[g] # NoSession, req'[g].id = u
          PROVE  ses'[g].target \in shared'
      <4>1. CASE g # h
        BY <3>1, <3>5, <4>1 DEF SharedInv
      <4>2. CASE g = h
        <5>1. req'[h] = req[h]
          BY <1>0, <3>1, <3>5, <4>2 DEF TypeInv, Shape, NoRequest
        <5>2. QED BY <1>0, <1>2, <3>1, <3>5, <4>2, <5>1, SessionEffects DEF SharedInv
      <4>3. QED BY <4>1, <4>2
    <3>6. tied' = {} => shared' = {}
      <4>1. tied = {} => shared = {} /\ newId[h] \notin tied
        BY DEF SharedInv
      <4>2. CASE upload_init_register(h)
        BY <3>1, <4>1, <4>2 DEF upload_init_register
      <4>3. QED BY <1>0, <1>2, <2>2, <3>1, <4>1, <4>2, RustEffects
    <3>7. QED BY <3>1, <3>3, <3>4, <3>5, <3>6 DEF SharedInv, Begun, Live
  <2>3. QED BY <2>1, <2>2
<1>3. CASE Crash /\ UNCHANGED told
  BY <1>0, <1>3 DEF Crash, history, told, SharedInv, Begun, Live, ToldInv, TypeInv, TypeOK
<1>4. CASE UNCHANGED rustVars
  BY <1>4 DEF rustVars, vars, local, history, told, SharedInv, Begun, Live
<1>5. QED BY <1>1, <1>2, <1>3, <1>4 DEF RustNext

(* An upload that is installed and keeps its id for itself stays the way   *)
(* it was when it was installed.                                           *)
LEMMA InstalledStays ==
    ASSUME RustInv, NEW h \in Handlers, RustStep(h), NEW u \in Uploads, u \in Begun \ tied,
           Len(accepted[u]) = opened[u].expected,
           opened[u].target \notin shared'
    PROVE  u \in Begun' \ tied' /\ opened'[u] = opened[u] /\ accepted'[u] = accepted[u]
<1>0. /\ TypeInv /\ ToldInv /\ Tidy(u) /\ BytesOf(u)
      /\ opened \in [Uploads -> Session \cup {NoSession}]
      /\ accepted \in [Uploads -> Seq(Blocks)]
      /\ uploads \in [Uploads -> Session \cup {NoSession}]
  BY DEF RustInv, TidyInv, TypeInv, TypeOK
<1>1. u \notin tied'
  <2>1. CASE upload_init_allocate(h)
    <3>1. PICK v \in upload_ids :
              /\ tied' = tied \cup ({v} \cap issued)
              /\ shared' = shared \cup {s.target : s \in {opened[w] : w \in {v} \cap Begun}}
      BY <2>1 DEF upload_init_allocate
    <3>2. u = v => opened[u].target \in shared'
      BY <3>1
    <3>3. QED BY <3>1, <3>2
  <2>2. QED BY <1>0, <2>1, RustEffects
<1>2. newId[h] # u
  BY <1>0 DEF Tidy, IdOf
<1>3. opened'[u] = opened[u]
  <2>1. CASE upload_init_register(h)
    BY <1>0, <1>2, <2>1 DEF upload_init_register
  <2>2. QED BY <1>0, <2>1, RustEffects
<1>4. accepted'[u] = accepted[u]
  <2>1. CASE Own(h, u)
    <3>1. req[h].id = u /\ req[h].op \in ById
      BY <1>2, <2>1 DEF Own
    <3>2. ~UploadChunkCount(h)
      <4>1. SUFFICES ASSUME UploadChunkCount(h) PROVE FALSE
        OBVIOUS
      <4>2. pc[h] = "count" /\ Live(u)
        BY <3>1, <4>1 DEF UploadChunkCount
      <4>3. Len(req[h].content) \in Nat \ {0} /\ Len(accepted[u]) \in Nat
        BY <1>0, <4>2, Labelled DEF ChunkLabels
      <4>4. /\ uploads[u].received = Len(accepted[u])
            /\ uploads[u].received + Len(req[h].content) <= uploads[u].expected
            /\ uploads[u].expected = Len(accepted[u])
        BY <1>0, <3>1, <4>2 DEF BytesOf, CountOf, ChunkOf, ChunkLabels, Tidy, SessionOf
      <4>5. QED BY <4>3, <4>4
    <3>3. ~upload_init_register(h)
      BY <1>0, <3>1, Labelled DEF upload_init_register, ById
    <3>4. accepted' = accepted
      BY <1>0, <3>2, <3>3, RustKinds DEF RustFails, RustMoves, upload_init_allocate,
         upload_chunk_write_fails, UploadChunkAppendFails, upload_init_clear,
         upload_init_create, UploadChunkAccept, UploadChunkOpen, UploadChunkAppend,
         UploadCommitCopy, replace_file_metadata, replace_file_remove, ReplaceRename,
         ReplacePermissions, UploadCommitErase, UploadAbortErase, upload_abort_unlink,
         history
    <3>5. QED BY <3>4
  <2>2. QED BY <1>0, <2>1, Elsewhere
<1>5. QED BY <1>1, <1>3, <1>4 DEF Begun

LEMMA RustTargets ==
    ASSUME TypeInv, NEW h \in Handlers, RustStep(h), NEW t \in Targets, target'[t] # target[t]
    PROVE  \/ target'[t] = NoFile
           \/ ReplaceRename(h) /\ t = ses[h].target /\ target'[t] = part[req[h].id]
<1>0. target \in [Targets -> Inodes \cup {NoFile}]
  BY DEF TypeInv, TypeOK
<1>1. CASE ReplaceRename(h)
  BY <1>0, <1>1 DEF ReplaceRename
<1>2. CASE replace_file_remove(h)
  BY <1>0, <1>2 DEF replace_file_remove
<1>3. CASE ~ReplaceRename(h) /\ ~replace_file_remove(h)
  <2>1. target' = target
    BY <1>3, RustKinds DEF RustFails, RustMoves, upload_init_allocate,
       upload_init_register, upload_chunk_write_fails, UploadChunkAppendFails,
       upload_init_clear, upload_init_create, UploadChunkAccept, UploadChunkOpen,
       UploadChunkAppend, UploadChunkCount, UploadCommitCopy, replace_file_metadata,
       ReplacePermissions, UploadCommitErase, UploadAbortErase, upload_abort_unlink, disk
  <2>2. QED BY <2>1
<1>4. QED BY <1>1, <1>2, <1>3

LEMMA TargetsInvStep == RustInv /\ [RustNext]_rustVars => TargetsInv'
<1> SUFFICES ASSUME RustInv, [RustNext]_rustVars PROVE TargetsInv'
  OBVIOUS
<1>0. TypeInv /\ ToldInv /\ FilesInv /\ TargetsInv
  BY DEF RustInv, TidyInv
<1>1. ASSUME NEW h \in Handlers, RustStep(h)
      PROVE  TargetsInv'
  <2>1. shared \subseteq shared' /\ torn \subseteq torn'
    BY <1>0, <1>1, RustEffects
  <2>2. SUFFICES ASSUME NEW t \in Targets \ shared', target'[t] # NoFile,
                        data'[target'[t]] # OldData
                 PROVE  \E u \in Uploads : Installed(t, u)'
    BY DEF TargetsInv, Exists
  <2>3. CASE target'[t] = target[t]
    <3>1. data'[target'[t]] = data[target[t]]
      BY <1>0, <1>1, <2>2, <2>3, DataElsewhere DEF Exists
    <3>2. PICK u \in Uploads : Installed(t, u)
      BY <1>0, <2>1, <2>2, <2>3, <3>1 DEF TargetsInv, Exists
    <3>3. u \in Begun' \ tied' /\ opened'[u] = opened[u] /\ accepted'[u] = accepted[u]
      BY <1>1, <2>2, <3>2, InstalledStays DEF Installed
    <3>4. Installed(t, u)'
      BY <2>1, <3>1, <3>2, <3>3 DEF Installed
    <3>5. QED BY <3>4
  <2>4. CASE target'[t] # target[t]
    <3>0. PICK u : u = req[h].id
      OBVIOUS
    <3>1. ReplaceRename(h) /\ t = ses[h].target /\ target'[t] = part[u]
      BY <1>0, <1>1, <2>2, <2>4, <3>0, RustTargets
    <3>2. /\ pc[h] = "rename" /\ part[u] # NoFile /\ u \in Uploads
          /\ req[h].op \in ById /\ ses[h] # NoSession
          /\ data' = data
      BY <1>0, <3>0, <3>1, Labelled DEF ReplaceRename, CommitLabels, ById, TypeInv, Shape
    <3>3. u \notin tied
      BY <2>1, <2>2, <3>0, <3>1, <3>2 DEF RustInv, SharedInv
    <3>4. /\ u \in Begun /\ opened[u].target = t
          /\ Len(accepted[u]) = opened[u].expected
          /\ u \in torn \/ data[part[u]] = accepted[u]
      BY <1>0, <3>0, <3>1, <3>2, <3>3 DEF RustInv, TidyInv, ToldInv, Tidy, SessionOf, SamePlan,
         BytesOf, CommitOf, HoldsAccepted, CommitLabels
    <3>5. u \in Begun' \ tied' /\ opened'[u] = opened[u] /\ accepted'[u] = accepted[u]
      BY <1>1, <2>2, <3>2, <3>3, <3>4, InstalledStays
    <3>6. Installed(t, u)'
      BY <2>1, <3>1, <3>2, <3>4, <3>5 DEF Installed
    <3>7. QED BY <3>2, <3>6
  <2>5. QED BY <2>3, <2>4
<1>2. ASSUME UNCHANGED <<target, data, opened, accepted, tied, shared, torn>>
      PROVE  TargetsInv'
  BY <1>0, <1>2 DEF TargetsInv, Installed, Exists, Begun
<1>3. QED
  BY <1>1, <1>2 DEF RustNext, rustVars, vars, Receive, Crash, disk, history, told

LEMMA RustInvInit == RustInit => RustInv
<1> SUFFICES ASSUME RustInit PROVE RustInv
  OBVIOUS
<1>1. FilesInv
  BY FilesInvInit DEF RustInit
<1>2. OneWriter
  BY DEF RustInit, Init, OneWriter, NoRequest
<1>3. \A u \in Uploads : BytesOf(u)
  BY DEF RustInit, Init, BytesOf, CountOf, EmptyOf, ChunkOf, CommitOf, Live, CommitLabels
<1>4. SharedInv
  BY DEF RustInit, SharedInv
<1>5. TargetsInv
  BY FilesAssumption, NoneAssumption DEF RustInit, Init, TargetsInv, Exists, Existing
<1>6. QED BY TidyInvInit, <1>1, <1>2, <1>3, <1>4, <1>5 DEF RustInv

(* That there is one writer is all that is asked of the callers.           *)
LEMMA RustInvStep ==
    ASSUME OneWriter'
    PROVE  RustInv /\ [RustNext]_rustVars => RustInv'
<1> SUFFICES ASSUME RustInv, [RustNext]_rustVars PROVE RustInv'
  OBVIOUS
<1>1. TidyInv' /\ TypeInv /\ TidyInv /\ OneWriter /\ FilesInv
  BY TidyInvStep DEF RustInv, TidyInv
<1>2. FilesInv'
  BY <1>1, FilesStep DEF RustInv
<1>3. tied \subseteq tied'
  BY <1>1, RustEffects DEF RustNext, rustVars, told
<1>4. \A u \in Uploads \ tied' : BytesOf(u)'
  BY <1>1, <1>3, BytesStep DEF RustInv
<1>5. SharedInv' /\ TargetsInv'
  BY <1>1, SharedInvStep, TargetsInvStep DEF RustInv
<1>6. QED BY <1>1, <1>2, <1>4, <1>5 DEF RustInv

LEMMA RustInductive ==
    ASSUME Callers # "any"
    PROVE  RustSpec => []RustInv
<1>1. RustInv /\ [RustNext]_rustVars => RustInv'
  BY OneWriterStep, RustInvStep DEF RustInv, TidyInv
<1>2. QED BY <1>1, RustInvInit, PTL DEF RustSpec

(* WholeOrTold holds in every reachable state, for careful and for serial  *)
(* callers, with writes that fail, crashes and inits that get one id: a    *)
(* target that is not one of those is whole, or its client was told.       *)
THEOREM InstalledWholeOrTold ==
    ASSUME Callers # "any"
    PROVE  RustSpec => []WholeOrTold
<1>1. RustInv => WholeOrTold
  <2> SUFFICES ASSUME RustInv, NEW t \in Targets \ shared, Exists(t)
               PROVE  \/ Whole(target[t])
                      \/ \E u \in Begun : opened[u].target = t /\ ToldAndWentOn(u)
    BY DEF WholeOrTold
  <2>1. CASE data[target[t]] = OldData
    BY <2>1 DEF Whole
  <2>2. CASE \E u \in Uploads : Installed(t, u)
    <3>1. PICK u \in Uploads : Installed(t, u)
      BY <2>2
    <3>2. CASE u \in torn
      BY <3>1, <3>2 DEF Installed, ToldAndWentOn
    <3>3. CASE data[target[t]] = accepted[u]
      BY <3>1, <3>3 DEF Installed, Whole, Begun
    <3>4. QED BY <3>1, <3>2, <3>3 DEF Installed
  <2>3. QED BY <2>1, <2>2 DEF RustInv, TargetsInv
<1>2. QED BY <1>1, RustInductive, PTL
-----------------------------------------------------------------------------
(* The store: as long as no two uploads got one id and no write was told   *)
(* to fail, what is known of the Rust server's state is what is known of   *)
(* the C++ server's, so the steps they share mean the same to the store.   *)

LEMMA RustIsCpp ==
    ASSUME RustInv, tied = {}, torn = {}
    PROVE  IInv /\ PlansInv
<1>1. /\ TypeInv /\ ToldInv /\ OneWriter /\ FilesInv /\ TargetsInv
      /\ \A u \in Uploads : IdOf(u) /\ SessionOf(u) /\ BytesOf(u)
      /\ shared = {}
  BY DEF RustInv, TidyInv, Tidy, SharedInv
<1>2. \A h \in Handlers :
          /\ pc[h] \in ChunkLabels \cup CommitLabels \cup {"discard"} =>
                 req[h].id \in Uploads
          /\ newId[h] # NoId => newId[h] \in Uploads
          /\ pc[h] = "register" => newId[h] \in Uploads
          /\ pc[h] \in CommitLabels => ses[h] # NoSession
  BY <1>1, Labelled DEF TypeInv, TypeOK, Shape
<1>3. IdsInv
  <2>1. \A u \in Uploads : /\ opened[u] # NoSession => u \in issued
                           /\ opened[u] = NoSession => accepted[u] = <<>>
    BY <1>1 DEF IdOf, Begun
  <2>2. \A u \in Uploads : Live(u) =>
            opened[u] # NoSession /\ opened[u].expected = uploads[u].expected
    BY <1>1 DEF SessionOf, Begun
  <2>3. \A h \in Handlers : req[h].op \in ById => opened[req[h].id] # NoSession
    BY <1>1 DEF ToldInv, Begun
  <2>4. \A h \in Handlers : newId[h] # NoId =>
            newId[h] \in issued /\ opened[newId[h]] = NoSession
    BY <1>1, <1>2 DEF ToldInv, IdOf, Begun
  <2>5. \A g, h \in Handlers : newId[g] # NoId /\ newId[g] = newId[h] => g = h
    BY <1>1, <1>2 DEF IdOf
  <2>6. QED BY <1>1, <2>1, <2>2, <2>3, <2>4, <2>5 DEF IdsInv
<1>4. BytesInv
  <2>1. ASSUME NEW h \in Handlers
        PROVE  NewPart(h) /\ ChunkFits(h) /\ CommitWhole(h) /\ Discarding(h)
    <3>1. NewPart(h)
      BY <1>1, <1>2 DEF NewPart, BytesOf, EmptyOf
    <3>2. ChunkFits(h)
      BY <1>1, <1>2 DEF ChunkFits, BytesOf, ChunkOf
    <3>3. CommitWhole(h)
      BY <1>1, <1>2 DEF CommitWhole, BytesOf, CommitOf, HoldsAccepted
    <3>4. Discarding(h)
      BY <1>1, <1>2 DEF Discarding, SessionOf, Unlinking
    <3>5. QED BY <3>1, <3>2, <3>3, <3>4
  <2>2. \A u \in Uploads : Counted(u)
    BY <1>1 DEF Counted, BytesOf, CountOf, HoldsAccepted
  <2>3. TargetsWhole
    BY <1>1 DEF TargetsWhole, TargetsInv, Installed, Whole, Begun
  <2>4. QED BY <2>1, <2>2, <2>3 DEF BytesInv
<1>5. PlansInv
  BY <1>1, <1>2 DEF PlansInv, SessionOf, ToldInv
<1>6. QED BY <1>1, <1>3, <1>4, <1>5 DEF IInv

(* Replies with an error.                                                  *)
LEMMA RustGivesUp ==
    ASSUME TypeInv, IdsInv, NEW h \in Handlers, Reply(h),
           UNCHANGED <<uploads, target, data, opened, accepted>>
    PROVE  [Store!Next]_(Store!store)
<1>1. UNCHANGED <<Files, Open>>
  BY FilesKept DEF Open, Live
<1>2. CASE InCommit(h)
  <2>1. PICK u : u = req[h].id
    OBVIOUS
  <2>2. u \in Uploads /\ Committing' = Committing \ {u}
    BY <1>2, <2>1, ReplyEndsCommit, CommitsAreShaped
  <2>3. Store!GiveUp(u)
    BY <1>1, <2>2 DEF Store!GiveUp
  <2>4. QED BY <2>2, <2>3 DEF Store!Next
<1>3. CASE ~InCommit(h)
  BY <1>1, <1>3, ReplyEndsCommit DEF Store!store
<1>4. QED BY <1>2, <1>3

(* Steps of the Rust server's own that the store does not see.             *)
LEMMA RustUnseen ==
    ASSUME RustInv, IdsInv, tied = {}, NEW h \in Handlers, RustStep(h),
           \/ RustMoves(h) \/ upload_init_allocate(h) \/ upload_init_create(h)
           \/ upload_init_clear(h) \/ replace_file_metadata(h)
    PROVE  UNCHANGED Store!store
<1>0. /\ TypeInv /\ FilesInv
      /\ pc \in [Handlers -> Labels]
  BY DEF RustInv, TidyInv, TypeInv, TypeOK
<1>1. /\ UNCHANGED <<uploads, opened, accepted, target, req, ses>>
      /\ \E l \in Labels : /\ pc' = [pc EXCEPT ![h] = l]
                           /\ pc[h] \in CommitLabels <=> l \in CommitLabels
                           /\ pc[h] \in LateLabels <=> l \in LateLabels
  <2>1. CASE upload_init_allocate(h)
    BY <2>1 DEF upload_init_allocate, Goto, At, AfterLook, Labels, CommitLabels,
       LateLabels, disk
  <2>2. CASE RustMoves(h)
    BY <2>2 DEF RustMoves, Goto, Checks, Labels, CommitLabels, LateLabels, disk, history
  <2>3. CASE upload_init_create(h) \/ upload_init_clear(h) \/ replace_file_metadata(h)
    BY <2>3 DEF upload_init_create, upload_init_clear, replace_file_metadata, Goto,
       Labels, CommitLabels, LateLabels, disk, history
  <2>4. QED BY <2>1, <2>2, <2>3
<1>2. UNCHANGED Files
  BY <1>0, <1>1, DataElsewhere, FilesKept
<1>3. UNCHANGED Committing
  <2>1. InCommit(h) <=> InCommit(h)'
    BY <1>0, <1>1 DEF InCommit, LateLabels, CommitLabels
  <2>2. QED BY <1>0, <1>1, <2>1, CommittingStep
<1>4. UNCHANGED Open
  BY <1>1 DEF Open, Live
<1>5. QED BY <1>1, <1>2, <1>3, <1>4 DEF Store!store

LEMMA RustBegins ==
    ASSUME IInv, NEW h \in Handlers, upload_init_register(h)
    PROVE  Store!Begin(newId[h]) /\ newId[h] \in Uploads
<1>0. /\ TypeInv /\ IdsInv
      /\ uploads \in [Uploads -> Session \cup {NoSession}]
      /\ opened \in [Uploads -> Session \cup {NoSession}]
      /\ accepted \in [Uploads -> Seq(Blocks)]
  BY DEF IInv, TypeInv, TypeOK
<1>1. PICK u : u = newId[h]
  OBVIOUS
<1>2. /\ Reply(h) /\ pc[h] = "register"
      /\ uploads' = [uploads EXCEPT ![u] = NewSession(req[h])]
      /\ opened' = [opened EXCEPT ![u] = NewSession(req[h])]
      /\ accepted' = [accepted EXCEPT ![u] = <<>>]
      /\ UNCHANGED <<data, target>>
  BY <1>1 DEF upload_init_register, disk
<1>3. u \in Uploads /\ NewSession(req[h]) \in Session
  BY <1>0, <1>1, RegisterBegun
<1>4. opened[u] = NoSession /\ accepted[u] = <<>>
  BY <1>0, <1>1, <1>2, <1>3, NoneAssumption DEF IdsInv
<1>5. Open' = Open \cup {u}
  BY <1>0, <1>2, <1>3, NoSessionAssumption DEF Open, Live
<1>6. UNCHANGED <<Files, Committing, accepted>>
  BY <1>0, <1>2, <1>3, <1>4, FilesKept, ReplyEndsCommit, CommitsAreShaped DEF CommitLabels
<1>7. QED BY <1>0, <1>1, <1>2, <1>3, <1>4, <1>5, <1>6 DEF Store!Begin

(* The step part of the refinement, for each step of the server.           *)
LEMMA RustStepIsStores ==
    ASSUME RustInv, NEW h \in Handlers, RustStep(h), tied' = {}, torn' = {}
    PROVE  [Store!Next]_(Store!store)
<1>0. TypeInv /\ tied = {} /\ torn = {}
  BY RustEffects DEF RustInv, TidyInv
<1>1. IInv /\ PlansInv /\ IdsInv
  BY <1>0, RustIsCpp DEF IInv
<1>2. CASE RustFails(h) \/ upload_abort_unlink(h)
  <2>1. Reply(h) /\ UNCHANGED <<uploads, target, data, opened, accepted>>
    BY <1>2 DEF RustFails, upload_abort_unlink, disk, history
  <2>2. QED BY <1>0, <1>1, <2>1, RustGivesUp
<1>3. CASE \/ RustMoves(h) \/ upload_init_allocate(h) \/ upload_init_create(h)
           \/ upload_init_clear(h) \/ replace_file_metadata(h)
  BY <1>0, <1>1, <1>3, RustUnseen
<1>4. CASE \/ UploadChunkAccept(h) \/ UploadChunkOpen(h) \/ UploadChunkAppend(h)
           \/ ReplacePermissions(h)
  BY <1>1, <1>4, UnseenSteps
<1>5. CASE upload_init_register(h)
  BY <1>1, <1>5, RustBegins DEF Store!Next
<1>6. CASE UploadChunkCount(h)
  BY <1>1, <1>6, CountGathers DEF Store!Next
<1>7. CASE UploadCommitCopy(h)
  BY <1>1, <1>7, CopyStarts DEF Store!Next
<1>8. CASE replace_file_remove(h)
  <2>1. ReplaceRemove(h)
    BY <1>8 DEF replace_file_remove, ReplaceRemove
  <2>2. QED BY <1>1, <2>1, RemoveVacates DEF Store!Next
<1>9. CASE ReplaceRename(h)
  BY <1>1, <1>9, RenameInstalls DEF Store!Next
<1>10. CASE UploadCommitErase(h) \/ UploadAbortErase(h)
  BY <1>1, <1>10, EraseCloses DEF Store!Next
<1>11. ~upload_chunk_write_fails(h)
  BY DEF upload_chunk_write_fails
<1>12. QED
  BY RustKinds, <1>2, <1>3, <1>4, <1>5, <1>6, <1>7, <1>8, <1>9, <1>10, <1>11

(* For any handlers, uploads, targets, sizes and crashes, and with a disk  *)
(* that may fail at any call: what the Rust server does to its paths and   *)
(* sessions is what UploadStore allows, up to the first id that two        *)
(* uploads get or the first write that is told to fail.                    *)
THEOREM StoreImplementedUnlessTold ==
    ASSUME Callers # "any"
    PROVE  RustSpec => ImplementsStoreUnlessTold
<1>1. ASSUME RustInv, [RustNext]_rustVars
      PROVE  [tied' = {} /\ torn' = {} => Store!Next]_(Store!store)
  <2> SUFFICES ASSUME tied' = {}, torn' = {}
               PROVE  [Store!Next]_(Store!store)
    OBVIOUS
  <2>1. ASSUME NEW h \in Handlers, NEW r \in Requests, Receive(h, r), UNCHANGED told
        PROVE  [Store!Next]_(Store!store)
    <3>0. TypeInv /\ IdsInv /\ Shape(h)
      BY <1>1, <2>1, RustIsCpp DEF told, IInv, TypeInv
    <3>1. /\ UNCHANGED <<uploads, data, target, opened, accepted>>
          /\ \A g \in Handlers : g # h =>
               pc'[g] = pc[g] /\ req'[g] = req[g] /\ ses'[g] = ses[g]
          /\ ~InCommit(h) /\ ~InCommit(h)'
      BY <2>1, <3>0 DEF Receive, disk, history, InCommit, TypeInv, TypeOK, Shape, CommitLabels,
         LateLabels
    <3>2. UNCHANGED <<Files, Open, Committing>>
      BY <3>0, <3>1, FilesKept, CommittingStep DEF Open, Live
    <3>3. QED BY <3>1, <3>2 DEF Store!store
  <2>2. ASSUME NEW h \in Handlers, RustStep(h)
        PROVE  [Store!Next]_(Store!store)
    BY <1>1, <2>2, RustStepIsStores
  <2>3. CASE Crash
    <3>1. /\ UNCHANGED <<data, target, opened, accepted>>
          /\ \A u \in Uploads : uploads'[u] = NoSession
          /\ \A g \in Handlers : ses'[g] = NoSession
      BY <2>3 DEF Crash, disk, history
    <3>2. Open' = {} /\ Committing' = {} /\ UNCHANGED Files
      BY <3>1, FilesKept DEF Open, Live, Committing, InCommit
    <3>3. Store!Restart
      BY <3>1, <3>2 DEF Store!Restart
    <3>4. QED BY <3>3 DEF Store!Next
  <2>4. CASE UNCHANGED rustVars
    <3>1. UNCHANGED <<uploads, data, target, opened, accepted, pc, req, ses>>
      BY <2>4 DEF rustVars, vars, disk, local, history
    <3>2. QED
      BY <3>1, FilesKept DEF Store!store, Open, Live, Committing, InCommit
  <2>5. QED BY <1>1, <2>1, <2>2, <2>3, <2>4 DEF RustNext
<1>2. QED BY <1>1, RustInductive, PTL DEF RustSpec, ImplementsStoreUnlessTold

=============================================================================
