--------------------------- MODULE CppUploadServer ---------------------------
(***************************************************************************)
(* The upload half of the C++ server (src/server/service_impl.cpp): the    *)
(* handlers UploadInit, UploadChunk, UploadCommit and UploadAbort, run by  *)
(* the gRPC thread pool over uploads_, guarded by uploads_mutex_.  The     *)
(* steps that the Rust server takes alike are in UploadService; here are   *)
(* those of the C++ server's own: ids with a random part, an open that     *)
(* creates, a close that is not checked, and replace_file.                 *)
(***************************************************************************)
EXTENDS UploadService

-----------------------------------------------------------------------------
(* UploadInit.                                                             *)

UploadInitCreate(h) ==
    /\ At(h, "init", "received")
    /\ ~InitRefused(req[h])
    /\ FreeIds # {} /\ FreeInodes # {}      \* bounds of the model
    /\ issued' = issued \cup {NewId}
    /\ newId' = [newId EXCEPT ![h] = NewId]
    /\ part' = [part EXCEPT ![NewId] = NewInode]
    /\ data' = [data EXCEPT ![NewInode] = <<>>]
    /\ perm' = [perm EXCEPT ![NewInode] = "umask"]
    /\ Goto(h, "register")
    /\ UNCHANGED <<uploads, target, ses, fd, saved, crashes, opened, accepted, undeleted>>

UploadInitRegister(h) ==
    /\ pc[h] = "register"
    /\ uploads' = [uploads EXCEPT ![newId[h]] = NewSession(req[h])]
    /\ opened' = [opened EXCEPT ![newId[h]] = NewSession(req[h])]
    /\ Reply(h)
    /\ UNCHANGED <<disk, crashes, issued, accepted, undeleted>>

-----------------------------------------------------------------------------
(* UploadChunk.                                                            *)

(* std::ios::app opens the file that is there or creates an empty one.     *)
UploadChunkRecreate(h) ==
    /\ pc[h] = "open"
    /\ part[req[h].id] = NoFile
    /\ FreeInodes # {}                      \* bound of the model
    /\ part' = [part EXCEPT ![req[h].id] = NewInode]
    /\ data' = [data EXCEPT ![NewInode] = <<>>]
    /\ perm' = [perm EXCEPT ![NewInode] = "umask"]
    /\ fd' = [fd EXCEPT ![h] = NewInode]
    /\ Goto(h, "append")
    /\ UNCHANGED <<uploads, target, newId, ses, saved, crashes, history>>

UploadChunkOpenFails(h) ==
    /\ DiskFaults
    /\ pc[h] = "open"
    /\ Reply(h)
    /\ UNCHANGED <<uploads, disk, crashes, history>>

(* What close() could not flush is reported to nobody.                     *)
UploadChunkCloseFails(h) ==
    /\ WriteFails(h)
    /\ Goto(h, "count")
    /\ UNCHANGED <<uploads, part, target, perm, newId, ses, fd, saved, crashes, history>>

-----------------------------------------------------------------------------
(* replace_file, where it differs, and UploadAbort.                        *)

ReplaceUnchecked(h) ==
    /\ pc[h] = "exists"
    /\ ~ses[h].overwrite \/ ~Exists(ses[h].target)
    /\ Goto(h, "rename")
    /\ UNCHANGED <<uploads, disk, newId, ses, fd, saved, crashes, history>>

ReplaceVacant(h) ==
    /\ pc[h] = "exists"
    /\ ~Exists(ses[h].target)
    /\ Goto(h, "rename")
    /\ UNCHANGED <<uploads, disk, newId, ses, fd, saved, crashes, history>>

ReplaceOccupied(h) ==
    /\ pc[h] = "exists"
    /\ ses[h].overwrite /\ Exists(ses[h].target)
    /\ Goto(h, "status")
    /\ UNCHANGED <<uploads, disk, newId, ses, fd, saved, crashes, history>>

(* status() of a file that is gone reports perms::unknown, all bits set.   *)
ReplaceStatus(h) ==
    /\ pc[h] = "status"
    /\ saved' = [saved EXCEPT ![h] = IF Exists(ses[h].target)
                                     THEN perm[target[ses[h].target]] ELSE "all"]
    /\ Goto(h, "remove")
    /\ UNCHANGED <<uploads, disk, newId, ses, fd, crashes, history>>

ReplaceRemove(h) ==
    /\ pc[h] = "remove"
    /\ target' = [target EXCEPT ![ses[h].target] = NoFile]
    /\ Goto(h, "rename")
    /\ UNCHANGED <<uploads, part, data, perm, newId, ses, fd, saved, crashes, history>>

UploadAbortForgets(h) ==
    /\ pc[h] = "discard"
    /\ Reply(h)
    /\ UNCHANGED <<uploads, disk, crashes, history>>

UploadAbortDiscard(h) ==
    /\ pc[h] = "discard"
    /\ part' = [part EXCEPT ![req[h].id] = NoFile]
    /\ Reply(h)
    /\ UNCHANGED <<uploads, target, data, perm, crashes, history>>

-----------------------------------------------------------------------------
(* The handlers.                                                           *)

UploadInit(h) ==
    UploadInitReject(h) \/ UploadInitCreate(h) \/ UploadInitRegister(h)

UploadChunk(h) ==
    \/ UploadChunkReject(h) \/ UploadChunkAccept(h)
    \/ UploadChunkOpen(h) \/ UploadChunkRecreate(h) \/ UploadChunkOpenFails(h)
    \/ UploadChunkAppend(h) \/ UploadChunkAppendFails(h) \/ UploadChunkCloseFails(h)
    \/ UploadChunkGone(h) \/ UploadChunkCount(h)

replace_file(h) ==
    \/ ReplaceRefuse(h) \/ ReplaceVacant(h) \/ ReplaceOccupied(h)
    \/ ReplaceStatus(h) \/ ReplaceRemove(h)
    \/ ReplaceRename(h) \/ ReplaceRenameFails(h)
    \/ ReplacePermissions(h) \/ ReplacePermissionsFail(h)

UploadCommit(h) ==
    \/ UploadCommitReject(h) \/ UploadCommitCopy(h)
    \/ UploadCommitTempMissing(h) \/ UploadCommitTempExists(h)
    \/ replace_file(h) \/ UploadCommitFails(h)
    \/ UploadCommitErase(h)

UploadAbort(h) ==
    \/ UploadAbortReject(h) \/ UploadAbortErase(h)
    \/ UploadAbortDiscard(h) \/ UploadAbortDiscardFails(h)

Step(h) == Unauthorized(h) \/ UploadInit(h) \/ UploadChunk(h) \/ UploadCommit(h) \/ UploadAbort(h)

Next ==
    \/ \E h \in Handlers : (\E r \in Requests : Receive(h, r)) \/ Step(h)
    \/ Crash

Spec == Init /\ [][Next]_vars

-----------------------------------------------------------------------------
(* The C++ server implements UploadStore: whatever its handlers do to the  *)
(* table and the disk, and wherever it crashes, its callers see an upload  *)
(* opened once, gathering bytes while it is open, and put at its path      *)
(* whole or not at all; what ended does not come back, and what is at a    *)
(* path changes by a commit only.                                          *)
ImplementsStore == Store!Spec

=============================================================================
