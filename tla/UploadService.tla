---------------------------- MODULE UploadService ----------------------------
(***************************************************************************)
(* What the upload handlers of the two servers have in common: the table   *)
(* of sessions under its mutex, the directory tree, the calls in progress, *)
(* the steps that the C++ server (src/server/service_impl.cpp) and the     *)
(* Rust server (rust/src/ops.rs) take alike, and what is asked of both.    *)
(* CppUploadServer and RustUploadServer add the steps in which they differ *)
(* and say which steps make a handler.  Each action is one critical        *)
(* section of the mutex or one file system call, so the steps of several   *)
(* handlers interleave exactly where the code lets them.                   *)
(*                                                                         *)
(* Files are modelled the way POSIX keeps them: a name (a target path or a *)
(* temporary .part path) is linked to an inode that holds the bytes and    *)
(* the permissions.  A handler that opened a .part file keeps appending to *)
(* the same inode after the name was renamed or unlinked.                  *)
(***************************************************************************)
EXTENDS Naturals, Sequences, FiniteSets

CONSTANTS
    Handlers,           \* threads of the server
    Uploads,            \* upload ids; also the names of the .part files
    Targets,            \* paths under --root that uploads may name
    BadPath,            \* a path that is empty or escapes --root
    Inodes,             \* file bodies
    Blocks, Chunks,     \* bytes, and the contents of UploadChunk requests
    Sizes, Overwrites,  \* values of expected_size and overwrite in UploadInit requests
    MaxUploadFileSize,  \* kMaxUploadFileSize
    OldInode, OldData,  \* the files that are there before the server starts
    NoFile, NoSession, NoId, NoPerms,   \* "none" values
    Callers,            \* what the environment may do, see CallerAllowed
    DiskFaults,         \* whether file system calls may fail
    MaxCrashes          \* bound on the crashes of the server process

Existing == DOMAIN OldInode
Offsets  == 0 .. MaxUploadFileSize
Perms    == {"own", "umask", "all"}

ASSUME SizesAssumption ==
    /\ MaxUploadFileSize \in Nat /\ Sizes \subseteq Nat /\ Overwrites \subseteq BOOLEAN
    /\ MaxCrashes \in Nat

(* An UploadChunk request of the shipped clients carries at least a byte:  *)
(* their read loops stop at the first empty read.                          *)
ASSUME ChunksAssumption ==
    /\ Chunks \subseteq Seq(Blocks) \ {<<>>}
    /\ OldData \in Seq(Blocks)

ASSUME FilesAssumption ==
    /\ Existing \subseteq Targets
    /\ OldInode \in [Existing -> Inodes]
    /\ \A s, t \in Existing : OldInode[s] = OldInode[t] => s = t

ASSUME NoneAssumption ==
    /\ BadPath \notin Targets /\ NoFile \notin Inodes
    /\ NoId \notin Uploads /\ NoPerms \notin Perms

ASSUME EnvironmentAssumption ==
    Callers \in {"any", "careful", "serial"} /\ DiskFaults \in BOOLEAN

Session == [target : Targets, expected : Nat, received : Nat, overwrite : BOOLEAN]
ASSUME NoSessionAssumption == NoSession \notin Session

InitRequest    == [op : {"init"}, path : Targets \cup {BadPath}, size : Sizes,
                   overwrite : Overwrites]
ChunkRequest   == [op : {"chunk"}, id : Uploads, offset : Offsets, content : Chunks]
ControlRequest == [op : {"commit", "abort"}, id : Uploads]
Requests       == InitRequest \cup ChunkRequest \cup ControlRequest
NoRequest      == [op |-> "none"]

VARIABLES
    uploads,    \* the session table, lost in a crash
    part,       \* .first-rpc-uploads/<id>.part -> inode
    target,     \* target path -> inode
    data,       \* inode -> bytes
    perm,       \* inode -> permissions
    pc, req,    \* handler -> where it is in its call, and the call's request
    newId,      \* UploadInit's upload_id
    ses,        \* UploadCommit's copy of the session
    fd,         \* UploadChunk's open output stream
    saved,      \* replace_file's preserved_permissions
    crashes,    \* number of crashes so far
    opened,     \* history: the session as UploadInit registered it
    issued,     \* history: the ids generated so far
    accepted,   \* history: the bytes of the chunks acknowledged, in order
    undeleted   \* history: uploads whose .part file an abort could not unlink

disk    == <<part, target, data, perm>>
local   == <<pc, req, newId, ses, fd, saved>>
history == <<opened, issued, accepted, undeleted>>
vars    == <<uploads, disk, local, crashes, history>>

(* "clear", "create", "again" and "unlink" are steps of the Rust server only. *)
Labels == {"idle", "received", "clear", "create", "register", "open", "append", "count",
           "temp", "exists", "status", "again", "remove", "rename", "permissions", "erase",
           "discard", "unlink"}

TypeOK ==
    /\ uploads \in [Uploads -> Session \cup {NoSession}]
    /\ part \in [Uploads -> Inodes \cup {NoFile}]
    /\ target \in [Targets -> Inodes \cup {NoFile}]
    /\ data \in [Inodes -> Seq(Blocks)]
    /\ perm \in [Inodes -> Perms]
    /\ pc \in [Handlers -> Labels]
    /\ req \in [Handlers -> Requests \cup {NoRequest}]
    /\ newId \in [Handlers -> Uploads \cup {NoId}]
    /\ ses \in [Handlers -> Session \cup {NoSession}]
    /\ fd \in [Handlers -> Inodes \cup {NoFile}]
    /\ saved \in [Handlers -> Perms \cup {NoPerms}]
    /\ crashes \in 0 .. MaxCrashes
    /\ opened \in [Uploads -> Session \cup {NoSession}]
    /\ issued \in SUBSET Uploads
    /\ accepted \in [Uploads -> Seq(Blocks)]
    /\ undeleted \in SUBSET Uploads

Init ==
    /\ uploads = [u \in Uploads |-> NoSession]
    /\ part = [u \in Uploads |-> NoFile]
    /\ target = [t \in Targets |-> IF t \in Existing THEN OldInode[t] ELSE NoFile]
    /\ data = [i \in Inodes |-> OldData]
    /\ perm = [i \in Inodes |-> "own"]
    /\ pc = [h \in Handlers |-> "idle"]
    /\ req = [h \in Handlers |-> NoRequest]
    /\ newId = [h \in Handlers |-> NoId]
    /\ ses = [h \in Handlers |-> NoSession]
    /\ fd = [h \in Handlers |-> NoFile]
    /\ saved = [h \in Handlers |-> NoPerms]
    /\ crashes = 0
    /\ opened = [u \in Uploads |-> NoSession]
    /\ issued = {}
    /\ accepted = [u \in Uploads |-> <<>>]
    /\ undeleted = {}

-----------------------------------------------------------------------------
(* Derived state.                                                          *)

Live(u)   == uploads[u] # NoSession
Exists(t) == target[t] # NoFile
Busy(h)   == pc[h] # "idle"

(* Calls of the given kinds that are being served for upload u.            *)
InFlight(u, ops) == {h \in Handlers : req[h].op \in ops /\ req[h].id = u}

InUse == {part[u] : u \in Uploads} \cup {target[t] : t \in Targets}
             \cup {fd[h] : h \in Handlers}

(* Ids and inode numbers carry no meaning: a new one is any unused one.    *)
FreeIds    == Uploads \ issued
FreeInodes == Inodes \ InUse
NewId      == CHOOSE u \in Uploads : u \in FreeIds
NewInode   == CHOOSE i \in Inodes : i \in FreeInodes

-----------------------------------------------------------------------------
(* The environment.  A call names an id that UploadInit returned before.   *)
(*   "any"     : no restriction on what is in flight together;             *)
(*   "careful" : as the shipped clients behave, a session has at most one  *)
(*               chunk or commit in flight, but its abort may overtake it; *)
(*   "serial"  : a session has at most one call in flight, and a target at *)
(*               most one commit.                                          *)

CommitsInFlight(t) ==
    {h \in Handlers : req[h].op = "commit" /\ opened[req[h].id].target = t}

CallerAllowed(r) ==
    r.op # "init" =>
        /\ opened[r.id] # NoSession
        /\ Callers = "careful" /\ r.op # "abort" =>
               InFlight(r.id, {"chunk", "commit"}) = {}
        /\ Callers = "serial" => InFlight(r.id, {"chunk", "commit", "abort"}) = {}
        /\ Callers = "serial" /\ r.op = "commit" =>
               CommitsInFlight(opened[r.id].target) = {}

(* A handler starts, moves on to its next step, or returns its reply.      *)
Receive(h, r) ==
    /\ pc[h] = "idle"
    /\ CallerAllowed(r)
    /\ pc' = [pc EXCEPT ![h] = "received"]
    /\ req' = [req EXCEPT ![h] = r]
    /\ UNCHANGED <<uploads, disk, newId, ses, fd, saved, crashes, history>>

Goto(h, label) ==
    /\ pc' = [pc EXCEPT ![h] = label]
    /\ req' = req

(* A stream that outlives its call: a slip of the kind the checks look for. *)
LeaveOpen(h)   == fd' = fd
CloseStream(h) == fd' = [fd EXCEPT ![h] = NoFile]

Reply(h) ==
    /\ pc' = [pc EXCEPT ![h] = "idle"]
    /\ req' = [req EXCEPT ![h] = NoRequest]
    /\ newId' = [newId EXCEPT ![h] = NoId]
    /\ ses' = [ses EXCEPT ![h] = NoSession]
    /\ CloseStream(h)
    /\ saved' = [saved EXCEPT ![h] = NoPerms]

(* The replies that say ok; all others carry an error.                     *)
Succeeds(h) ==
    \/ pc[h] \in {"register", "erase"}
    \/ pc[h] \in {"discard", "unlink"} /\ UNCHANGED undeleted
    \/ pc[h] = "count" /\ Live(req[h].id)

At(h, op, label) == req[h].op = op /\ pc[h] = label

(* The token check of Handle comes before any effect; any request may fail *)
(* it.                                                                     *)
Unauthorized(h) ==
    /\ pc[h] = "received"
    /\ Reply(h)
    /\ UNCHANGED <<uploads, disk, crashes, history>>

-----------------------------------------------------------------------------
(* UploadInit.                                                             *)

RefusedBySize(r) == r.size > MaxUploadFileSize
InitRefused(r) == r.path = BadPath \/ r.size > MaxUploadFileSize

UploadInitReject(h) ==
    /\ At(h, "init", "received")
    /\ InitRefused(req[h]) \/ DiskFaults    \* or the file cannot be created
    /\ Reply(h)
    /\ UNCHANGED <<uploads, disk, crashes, history>>

NewSession(r) == [target |-> r.path, expected |-> r.size, received |-> 0,
                  overwrite |-> r.overwrite]

-----------------------------------------------------------------------------
(* UploadChunk: check under the mutex, append without it, count under it.  *)

OffsetNotAhead(h) == req[h].offset <= uploads[req[h].id].received
OffsetExpected(h) == req[h].offset = uploads[req[h].id].received
NotPast(h) == uploads[req[h].id].received <= uploads[req[h].id].expected
Fits(h) == uploads[req[h].id].received + Len(req[h].content)
               <= uploads[req[h].id].expected
ChunkAcceptable(h) == Live(req[h].id) /\ OffsetExpected(h) /\ Fits(h)

UploadChunkReject(h) ==
    /\ At(h, "chunk", "received")
    /\ ~ChunkAcceptable(h)
    /\ Reply(h)
    /\ UNCHANGED <<uploads, disk, crashes, history>>

UploadChunkAccept(h) ==
    /\ At(h, "chunk", "received")
    /\ ChunkAcceptable(h)
    /\ Goto(h, "open")
    /\ UNCHANGED <<uploads, disk, newId, ses, fd, saved, crashes, history>>

UploadChunkOpen(h) ==
    /\ pc[h] = "open"
    /\ part[req[h].id] # NoFile
    /\ fd' = [fd EXCEPT ![h] = part[req[h].id]]
    /\ Goto(h, "append")
    /\ UNCHANGED <<uploads, disk, newId, ses, saved, crashes, history>>

WriteOut(h, bytes) == data' = [data EXCEPT ![fd[h]] = @ \o bytes]

UploadChunkAppend(h) ==
    /\ pc[h] = "append"
    /\ WriteOut(h, req[h].content)
    /\ Goto(h, "count")
    /\ UNCHANGED <<uploads, part, target, perm, newId, ses, fd, saved, crashes, history>>

(* A write that fails may leave a prefix behind.                           *)
WriteFails(h) ==
    /\ DiskFaults
    /\ pc[h] = "append"
    /\ Len(data[fd[h]]) < MaxUploadFileSize    \* bound of the model
    /\ \E n \in 0 .. Len(req[h].content) - 1 :
           WriteOut(h, SubSeq(req[h].content, 1, n))

UploadChunkAppendFails(h) ==
    /\ WriteFails(h)
    /\ Reply(h)
    /\ UNCHANGED <<uploads, part, target, perm, crashes, history>>

(* With operator[] in place of at(), a late chunk would make a session.    *)
UploadChunkRevives(h) ==
    /\ pc[h] = "count"
    /\ ~Live(req[h].id)
    /\ uploads' = [uploads EXCEPT ![req[h].id] =
                      [opened[req[h].id] EXCEPT !.received = Len(req[h].content)]]
    /\ Reply(h)
    /\ UNCHANGED <<disk, crashes, history>>

(* uploads_.at(id) throws when the session was erased in between.          *)
UploadChunkGone(h) ==
    /\ pc[h] = "count"
    /\ ~Live(req[h].id)
    /\ Reply(h)
    /\ UNCHANGED <<uploads, disk, crashes, history>>

UploadChunkCount(h) ==
    /\ pc[h] = "count"
    /\ Live(req[h].id)
    /\ uploads' = [uploads EXCEPT ![req[h].id].received = @ + Len(req[h].content)]
    /\ accepted' = [accepted EXCEPT ![req[h].id] = @ \o req[h].content]
    /\ Reply(h)
    /\ UNCHANGED <<disk, crashes, opened, issued, undeleted>>

-----------------------------------------------------------------------------
(* UploadCommit: copy the session under the mutex, install the file        *)
(* without it (replace_file, one system call per action), erase under it.  *)

Started(u)  == Live(u)
Complete(u) == Live(u) /\ uploads[u].received = uploads[u].expected

UploadCommitReject(h) ==
    /\ At(h, "commit", "received")
    /\ ~Complete(req[h].id)
    /\ Reply(h)
    /\ UNCHANGED <<uploads, disk, crashes, history>>

UploadCommitCopy(h) ==
    /\ At(h, "commit", "received")
    /\ Complete(req[h].id)
    /\ ses' = [ses EXCEPT ![h] = uploads[req[h].id]]
    /\ Goto(h, "temp")
    /\ UNCHANGED <<uploads, disk, newId, fd, saved, crashes, history>>

UploadCommitTempMissing(h) ==
    /\ pc[h] = "temp"
    /\ part[req[h].id] = NoFile
    /\ Reply(h)
    /\ UNCHANGED <<uploads, disk, crashes, history>>

UploadCommitTempExists(h) ==
    /\ pc[h] = "temp"
    /\ part[req[h].id] # NoFile
    /\ Goto(h, "exists")
    /\ UNCHANGED <<uploads, disk, newId, ses, fd, saved, crashes, history>>

RemoveThenRefuse(h) ==
    /\ pc[h] = "exists"
    /\ ~ses[h].overwrite /\ Exists(ses[h].target)
    /\ target' = [target EXCEPT ![ses[h].target] = NoFile]
    /\ Reply(h)
    /\ UNCHANGED <<uploads, part, data, perm, crashes, history>>

(* One of the calls on the way to the rename fails: a stat, the creation   *)
(* of the directory, the removal of the old file.                          *)
UploadCommitFails(h) ==
    /\ DiskFaults
    /\ pc[h] \in {"temp", "exists", "status", "again", "remove"}
    /\ Reply(h)
    /\ UNCHANGED <<uploads, disk, crashes, history>>

ReplaceRefuse(h) ==
    /\ pc[h] = "exists"
    /\ ~ses[h].overwrite /\ Exists(ses[h].target)
    /\ Reply(h)
    /\ UNCHANGED <<uploads, disk, crashes, history>>

EraseAfterRename(h) == "erase"
AfterRename(h) == IF saved[h] = NoPerms THEN "erase" ELSE "permissions"

ReplaceRename(h) ==
    /\ pc[h] = "rename"
    /\ part[req[h].id] # NoFile
    /\ target' = [target EXCEPT ![ses[h].target] = part[req[h].id]]
    /\ part' = [part EXCEPT ![req[h].id] = NoFile]
    /\ Goto(h, AfterRename(h))
    /\ UNCHANGED <<uploads, data, perm, newId, ses, fd, saved, crashes, history>>

ReplaceRenameFails(h) ==
    /\ pc[h] = "rename"
    /\ part[req[h].id] = NoFile \/ DiskFaults
    /\ Reply(h)
    /\ UNCHANGED <<uploads, disk, crashes, history>>

ReplacePermissions(h) ==
    /\ pc[h] = "permissions"
    /\ Exists(ses[h].target)
    /\ perm' = [perm EXCEPT ![target[ses[h].target]] = saved[h]]
    /\ Goto(h, "erase")
    /\ UNCHANGED <<uploads, part, target, data, newId, ses, fd, saved, crashes, history>>

ReplacePermissionsFail(h) ==
    /\ pc[h] = "permissions"
    /\ ~Exists(ses[h].target) \/ DiskFaults
    /\ Reply(h)
    /\ UNCHANGED <<uploads, disk, crashes, history>>

UploadCommitErase(h) ==
    /\ pc[h] = "erase"
    /\ uploads' = [uploads EXCEPT ![req[h].id] = NoSession]
    /\ Reply(h)
    /\ UNCHANGED <<disk, crashes, history>>

-----------------------------------------------------------------------------
(* UploadAbort: erase the session under the mutex, then unlink its file.   *)

UploadAbortReject(h) ==
    /\ At(h, "abort", "received")
    /\ ~Live(req[h].id)
    /\ Reply(h)
    /\ UNCHANGED <<uploads, disk, crashes, history>>

UploadAbortErase(h) ==
    /\ At(h, "abort", "received")
    /\ Live(req[h].id)
    /\ uploads' = [uploads EXCEPT ![req[h].id] = NoSession]
    /\ Goto(h, "discard")
    /\ UNCHANGED <<disk, newId, ses, fd, saved, crashes, history>>

(* The session is gone, but its file cannot be looked at or unlinked.      *)
UploadAbortDiscardFails(h) ==
    /\ DiskFaults
    /\ pc[h] \in {"discard", "unlink"}
    /\ undeleted' = undeleted \cup {u \in {req[h].id} : part[u] # NoFile}
    /\ Reply(h)
    /\ UNCHANGED <<uploads, disk, crashes, opened, issued, accepted>>

-----------------------------------------------------------------------------
(* The process dies and is started again: sessions and calls are gone,     *)
(* files stay.                                                             *)
Crash ==
    /\ crashes < MaxCrashes
    /\ crashes' = crashes + 1
    /\ uploads' = [u \in Uploads |-> NoSession]
    /\ pc' = [h \in Handlers |-> "idle"]
    /\ req' = [h \in Handlers |-> NoRequest]
    /\ newId' = [h \in Handlers |-> NoId]
    /\ ses' = [h \in Handlers |-> NoSession]
    /\ fd' = [h \in Handlers |-> NoFile]
    /\ saved' = [h \in Handlers |-> NoPerms]
    /\ UNCHANGED <<disk, history>>

-----------------------------------------------------------------------------
(* Properties.                                                             *)

(* What UploadChunk has acknowledged is what is in the temporary file:     *)
(* while no chunk of a live session is being served, its .part file holds  *)
(* exactly the acknowledged chunks in order, and received_size counts them *)
(* and never exceeds expected_size.                                        *)
StoredAsAccepted ==
    \A u \in Uploads : Live(u) =>
        /\ uploads[u].received = Len(accepted[u])
        /\ uploads[u].received <= uploads[u].expected
        /\ part[u] # NoFile /\ InFlight(u, {"chunk"}) = {} =>
               data[part[u]] = accepted[u]

(* UploadCommit installs whole files only: at every moment, also after a   *)
(* crash in the middle of replace_file, a target path is vacant, holds the *)
(* file it always held, or holds all the bytes some upload declared and    *)
(* the server acknowledged.                                                *)
Whole(i) ==
    \/ data[i] = OldData
    \/ \E u \in Uploads : /\ opened[u] # NoSession
                          /\ data[i] = accepted[u]
                          /\ Len(accepted[u]) = opened[u].expected
TargetsWhole == \A t \in Targets : Exists(t) => Whole(target[t])

(* The stream an UploadChunk call still has open is never the body of an   *)
(* installed target, though rename takes the file away from under it.      *)
NoWriteToTarget ==
    \A h \in Handlers, t \in Targets : fd[h] # NoFile => target[t] # fd[h]

(* A step that takes a target away or puts another file there is made by a *)
(* commit that asked for overwriting: without the flag replace_file only   *)
(* ever fills a vacant path.                                               *)
NoSilentReplace ==
    [][\A t \in Targets : Exists(t) /\ target'[t] # target[t] =>
          \E h \in Handlers : /\ pc[h] # pc'[h]
                              /\ ses[h] # NoSession
                              /\ ses[h].target = t /\ ses[h].overwrite]_vars

(* Overwriting keeps a target's permissions: while no commit of that path  *)
(* is in flight, a file that was there from the start, or what replaced    *)
(* it, still has the permissions it had.                                   *)
PermissionsKept ==
    \A t \in Existing : Exists(t) /\ CommitsInFlight(t) = {} => perm[target[t]] = "own"

(* A commit that fails never costs the old file: while no commit of that   *)
(* path is in flight, a target that existed exists.                        *)
ExistingKept ==
    \A t \in Existing : CommitsInFlight(t) = {} => Exists(t)

(* No .part file is left behind unknown to all: each belongs to a live     *)
(* session, to a call in progress, or to an upload whose abort could not   *)
(* unlink it.                                                              *)
NoOrphanPart ==
    \A u \in Uploads \ undeleted : part[u] # NoFile =>
        \/ Live(u)
        \/ InFlight(u, {"chunk", "commit", "abort"}) # {}
        \/ \E h \in Handlers : newId[h] = u

(* UploadChunk acknowledges a chunk only if it lies in the .part file at   *)
(* the offset its request named: so it is for every call that has appended *)
(* its chunk and whose session is still there to be counted in.            *)
ChunkAtOffset ==
    \A h \in Handlers : pc[h] = "count" /\ Live(req[h].id) =>
        SubSeq(data[fd[h]], req[h].offset + 1, req[h].offset + Len(req[h].content))
            = req[h].content

-----------------------------------------------------------------------------
(* The store that the server is to its callers: see UploadStore.           *)

Files == [t \in Targets |-> IF Exists(t) THEN data[target[t]] ELSE NoFile]
Open  == {u \in Uploads : Live(u)}
(* A commit that has its copy of the session and has not renamed yet.      *)
InCommit(h) == ses[h] # NoSession /\ pc[h] \notin {"permissions", "erase"}
Committing  == {u \in Uploads : \E h \in Handlers : InCommit(h) /\ req[h].id = u}

Store == INSTANCE UploadStore WITH
    Plans <- Session, NoPlan <- NoSession, Vacant <- NoFile,
    Initially <- [t \in Targets |-> IF t \in Existing THEN OldData ELSE NoFile],
    file <- Files, plan <- opened, open <- Open, gathered <- accepted,
    committing <- Committing

=============================================================================
