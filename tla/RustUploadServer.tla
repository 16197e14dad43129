-------------------------- MODULE RustUploadServer --------------------------
(***************************************************************************)
(* The upload half of the Rust server (rust/src/ops.rs): upload_init,      *)
(* upload_chunk, upload_commit and upload_abort, run by tokio's workers    *)
(* over a Mutex<HashMap>.  No handler awaits anything, so a client that    *)
(* goes away does not stop one half-way.  Steps named as in UploadService  *)
(* are those that the C++ server takes alike; here are the others: ids     *)
(* that are two readings of the clock, an open that does not create, a     *)
(* write whose every failure is reported, and another order in             *)
(* replace_file.                                                           *)
(***************************************************************************)
EXTENDS UploadService

CONSTANTS
    MaxInits,   \* bound on the uploads begun
    MaxTies     \* bound on the ids that two of them get

ASSUME InitsAssumption == MaxInits \in Nat /\ MaxTies \in Nat

VARIABLES
    tied,       \* history: ids that two inits got
    shared,     \* history: paths of uploads that have such an id
    torn        \* history: uploads that were told of a failed write

told     == <<tied, shared, torn>>
rustVars == <<vars, told>>

RustInit == Init /\ tied = {} /\ shared = {} /\ torn = {}

-----------------------------------------------------------------------------
(* upload_init.                                                            *)

Begun == {u \in Uploads : opened[u] # NoSession}

(* The id is a time: a new one, or one that an earlier init read, too.     *)
upload_ids ==
    IF Cardinality(issued) + Cardinality(tied) >= MaxInits THEN {}
    ELSE (IF FreeIds = {} THEN {} ELSE {NewId})
             \cup (IF Cardinality(tied) < MaxTies THEN issued \ tied ELSE {})

(* Where upload_init goes after temp_path.exists().                        *)
AfterLook(u) == IF part[u] = NoFile THEN "create" ELSE "clear"

upload_init_allocate(h) ==
    /\ At(h, "init", "received")
    /\ ~InitRefused(req[h])
    /\ \E u \in upload_ids :
           /\ newId' = [newId EXCEPT ![h] = u]
           /\ issued' = issued \cup {u}
           /\ tied' = tied \cup ({u} \cap issued)
           /\ shared' = shared \cup {s.target : s \in {opened[v] : v \in {u} \cap Begun}}
           /\ Goto(h, AfterLook(u))
    /\ UNCHANGED <<uploads, disk, ses, fd, saved, crashes, opened, accepted, undeleted, torn>>

upload_init_clear(h) ==
    /\ pc[h] = "clear"
    /\ part[newId[h]] # NoFile
    /\ part' = [part EXCEPT ![newId[h]] = NoFile]
    /\ Goto(h, "create")
    /\ UNCHANGED <<uploads, target, data, perm, newId, ses, fd, saved, crashes, history>>

upload_init_clear_fails(h) ==
    /\ pc[h] = "clear"
    /\ part[newId[h]] = NoFile \/ DiskFaults
    /\ Reply(h)
    /\ UNCHANGED <<uploads, disk, crashes, history>>

(* File::create makes the file, or empties the one that is there.          *)
upload_init_create(h) ==
    /\ pc[h] = "create"
    /\ FreeInodes # {}                      \* bound of the model
    /\ \E i \in {IF part[newId[h]] = NoFile THEN NewInode ELSE part[newId[h]]} :
           /\ part' = [part EXCEPT ![newId[h]] = i]
           /\ data' = [data EXCEPT ![i] = <<>>]
           /\ perm' = [perm EXCEPT ![i] = IF i \in InUse THEN @ ELSE "umask"]
    /\ Goto(h, "register")
    /\ UNCHANGED <<uploads, target, newId, ses, fd, saved, crashes, history>>

upload_init_create_fails(h) ==
    /\ DiskFaults
    /\ pc[h] = "create"
    /\ Reply(h)
    /\ UNCHANGED <<uploads, disk, crashes, history>>

(* insert() puts the session in place of one with the same id.             *)
upload_init_register(h) ==
    /\ pc[h] = "register"
    /\ uploads' = [uploads EXCEPT ![newId[h]] = NewSession(req[h])]
    /\ opened' = [opened EXCEPT ![newId[h]] = NewSession(req[h])]
    /\ accepted' = [accepted EXCEPT ![newId[h]] = <<>>]
    /\ shared' = shared \cup (IF newId[h] \in tied THEN {req[h].path} ELSE {})
    /\ Reply(h)
    /\ UNCHANGED <<disk, crashes, issued, undeleted, tied, torn>>

-----------------------------------------------------------------------------
(* upload_chunk.                                                           *)

(* An open with create(true), as a slip of the kind the checks look for.   *)
upload_chunk_recreate(h) ==
    /\ pc[h] = "open"
    /\ part[req[h].id] = NoFile
    /\ FreeInodes # {}
    /\ part' = [part EXCEPT ![req[h].id] = NewInode]
    /\ data' = [data EXCEPT ![NewInode] = <<>>]
    /\ fd' = [fd EXCEPT ![h] = NewInode]
    /\ Goto(h, "append")
    /\ UNCHANGED <<uploads, target, perm, newId, ses, saved, crashes, history>>

(* append(true) alone does not create the file.                            *)
upload_chunk_open_fails(h) ==
    /\ pc[h] = "open"
    /\ part[req[h].id] = NoFile \/ DiskFaults
    /\ Reply(h)
    /\ UNCHANGED <<uploads, disk, crashes, history>>

(* write_all goes to the file at once: what it cannot write it reports.    *)
upload_chunk_write_unseen(h) ==
    /\ WriteFails(h)
    /\ Goto(h, "count")
    /\ UNCHANGED <<uploads, part, target, perm, newId, ses, fd, saved, crashes, history, told>>

upload_chunk_write_fails(h) ==
    /\ UploadChunkAppendFails(h)
    /\ torn' = torn \cup {req[h].id}
    /\ UNCHANGED <<tied, shared>>

-----------------------------------------------------------------------------
(* replace_file: look, read the permissions, look again, remove, rename.   *)
(* Path::exists takes a failing stat for a missing file.                   *)
SeemsVacant(t) == ~Exists(t) \/ DiskFaults

replace_file_vacant(h) ==
    /\ pc[h] = "exists"
    /\ SeemsVacant(ses[h].target)
    /\ Goto(h, IF ses[h].overwrite THEN "again" ELSE "rename")
    /\ UNCHANGED <<uploads, disk, newId, ses, fd, saved, crashes, history>>

replace_file_occupied(h) ==
    /\ pc[h] = "exists"
    /\ ses[h].overwrite /\ Exists(ses[h].target)
    /\ Goto(h, "status")
    /\ UNCHANGED <<uploads, disk, newId, ses, fd, saved, crashes, history>>

replace_file_metadata(h) ==
    /\ pc[h] = "status"
    /\ Exists(ses[h].target)
    /\ saved' = [saved EXCEPT ![h] = perm[target[ses[h].target]]]
    /\ Goto(h, "again")
    /\ UNCHANGED <<uploads, disk, newId, ses, fd, crashes, history>>

replace_file_again(h) ==
    /\ pc[h] = "again"
    /\ \/ Exists(ses[h].target) /\ Goto(h, "remove")
       \/ SeemsVacant(ses[h].target) /\ Goto(h, "rename")
    /\ UNCHANGED <<uploads, disk, newId, ses, fd, saved, crashes, history>>

replace_file_remove(h) ==
    /\ pc[h] = "remove"
    /\ Exists(ses[h].target)
    /\ target' = [target EXCEPT ![ses[h].target] = NoFile]
    /\ Goto(h, "rename")
    /\ UNCHANGED <<uploads, part, data, perm, newId, ses, fd, saved, crashes, history>>

(* metadata and remove_file fail when another commit took the target away. *)
replace_file_vanished(h) ==
    /\ pc[h] \in {"status", "remove"}
    /\ ~Exists(ses[h].target)
    /\ Reply(h)
    /\ UNCHANGED <<uploads, disk, crashes, history>>

-----------------------------------------------------------------------------
(* upload_abort.                                                           *)

upload_abort_missing(h) ==
    /\ pc[h] = "discard"
    /\ part[req[h].id] = NoFile
    /\ Reply(h)
    /\ UNCHANGED <<uploads, disk, crashes, history>>

upload_abort_exists(h) ==
    /\ pc[h] = "discard"
    /\ part[req[h].id] # NoFile
    /\ Goto(h, "unlink")
    /\ UNCHANGED <<uploads, disk, newId, ses, fd, saved, crashes, history>>

(* remove_file fails if a commit renamed the file away meanwhile.          *)
upload_abort_unlink(h) ==
    /\ pc[h] = "unlink"
    /\ part' = [part EXCEPT ![req[h].id] = NoFile]
    /\ Reply(h)
    /\ UNCHANGED <<uploads, target, data, perm, crashes, history>>

-----------------------------------------------------------------------------
(* The handlers.                                                           *)

upload_init(h) ==
    \/ upload_init_allocate(h) \/ upload_init_register(h)
    \/ /\ \/ UploadInitReject(h)
          \/ upload_init_clear(h) \/ upload_init_clear_fails(h)
          \/ upload_init_create(h) \/ upload_init_create_fails(h)
       /\ UNCHANGED told

upload_chunk(h) ==
    \/ upload_chunk_write_fails(h)
    \/ /\ \/ UploadChunkReject(h) \/ UploadChunkAccept(h)
          \/ UploadChunkOpen(h) \/ upload_chunk_open_fails(h)
          \/ UploadChunkAppend(h) \/ UploadChunkGone(h) \/ UploadChunkCount(h)
       /\ UNCHANGED told

rust_replace_file(h) ==
    \/ ReplaceRefuse(h) \/ replace_file_vacant(h) \/ replace_file_occupied(h)
    \/ replace_file_metadata(h) \/ replace_file_again(h)
    \/ replace_file_remove(h) \/ replace_file_vanished(h)
    \/ ReplaceRename(h) \/ ReplaceRenameFails(h)
    \/ ReplacePermissions(h) \/ ReplacePermissionsFail(h) \/ UploadCommitFails(h)

upload_commit(h) ==
    /\ \/ UploadCommitReject(h) \/ UploadCommitCopy(h)
       \/ UploadCommitTempMissing(h) \/ UploadCommitTempExists(h)
       \/ rust_replace_file(h)
       \/ UploadCommitErase(h)
    /\ UNCHANGED told

upload_abort(h) ==
    /\ \/ UploadAbortReject(h) \/ UploadAbortErase(h)
       \/ upload_abort_missing(h) \/ upload_abort_exists(h) \/ upload_abort_unlink(h)
       \/ UploadAbortDiscardFails(h)
    /\ UNCHANGED told

RustStep(h) ==
    \/ Unauthorized(h) /\ UNCHANGED told
    \/ upload_init(h) \/ upload_chunk(h) \/ upload_commit(h) \/ upload_abort(h)

RustNext ==
    \/ \E h \in Handlers, r \in Requests : Receive(h, r) /\ UNCHANGED told
    \/ \E h \in Handlers : RustStep(h)
    \/ Crash /\ UNCHANGED told

RustSpec == RustInit /\ [][RustNext]_rustVars

-----------------------------------------------------------------------------
(* Properties.                                                             *)

(* As long as the server does not crash no .part file is left behind, with *)
(* aborts that overtake chunks and commits and with a disk that fails:     *)
(* each file belongs to a live session or to a call in progress, or an     *)
(* abort tried and failed to unlink it.  Uploads that got one id excepted, *)
(* which harms only those.                                                 *)
NoOrphan ==
    crashes = 0 => \A u \in Uploads \ (tied \cup undeleted) : part[u] # NoFile =>
        \/ Live(u)
        \/ InFlight(u, {"chunk", "commit", "abort"}) # {}
        \/ \E h \in Handlers : newId[h] = u

(* A disk that fails never makes the server install a short or a mixed     *)
(* file without a word: what is at a target path is what was always there, *)
(* or whole, or from an upload to that path that was told of a failed      *)
(* write and went on until all its bytes were acknowledged.  The paths of  *)
(* uploads that got one id excepted, which harms only those.               *)
ToldAndWentOn(u) == u \in torn /\ Len(accepted[u]) = opened[u].expected
WholeOrTold ==
    \A t \in Targets \ shared : Exists(t) =>
        \/ Whole(target[t])
        \/ \E u \in Begun : opened[u].target = t /\ ToldAndWentOn(u)

(* As long as no two uploads get one id and no write fails, the Rust       *)
(* server implements UploadStore, too.                                     *)
ImplementsStoreUnlessTold ==
    [][tied' = {} /\ torn' = {} => Store!Next]_(Store!store)

=============================================================================
