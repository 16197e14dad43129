------------------------ MODULE CppUploadInvariant ------------------------
(***************************************************************************)
(* The inductive invariant behind StoredAsAccepted, TargetsWhole,          *)
(* NoWriteToTarget and ChunkAtOffset of CppUploadServer, for callers that  *)
(* are careful and a disk that does not fail.  It has four layers, each    *)
(* inductive on top of the ones before it; CppUploadProofs proves them.    *)
(* What follows them, for the step to UploadStore and for serial callers,  *)
(* is proved in CppUploadProofs.                                           *)
(***************************************************************************)
EXTENDS CppUploadServer, UploadInvariant

-----------------------------------------------------------------------------
(* Layer 2: ids are fresh, and the callers' promise.                       *)
IdsInv ==
    /\ \A u \in Uploads : opened[u] # NoSession => u \in issued
    /\ \A u \in Uploads : Live(u) =>
           opened[u] # NoSession /\ opened[u].expected = uploads[u].expected
    /\ \A u \in Uploads : opened[u] = NoSession => accepted[u] = <<>>
    /\ \A h \in Handlers : req[h].op \in ById => opened[req[h].id] # NoSession
    /\ \A h \in Handlers : newId[h] # NoId =>
           newId[h] \in issued /\ opened[newId[h]] = NoSession
    /\ \A g, h \in Handlers : newId[g] # NoId /\ newId[g] = newId[h] => g = h
    /\ OneWriter

-----------------------------------------------------------------------------
(* Layer 4: the bytes.                                                     *)

(* A new session starts with an empty file.                                *)
NewPart(h) ==
    pc[h] = "register" => part[newId[h]] # NoFile /\ data[part[newId[h]]] = <<>>

Counted(u) ==
    Live(u) =>
        /\ uploads[u].received = Len(accepted[u])
        /\ uploads[u].received <= uploads[u].expected
        /\ part[u] = NoFile => uploads[u].received = uploads[u].expected
        /\ part[u] # NoFile /\ Settled(u) => data[part[u]] = accepted[u]

(* A chunk past its check still fits, and its stream is still the file.    *)
ChunkFits(h) ==
    pc[h] \in ChunkLabels /\ Live(req[h].id) =>
        LET u == req[h].id IN
        /\ req[h].offset = uploads[u].received
        /\ uploads[u].received + Len(req[h].content) <= uploads[u].expected
        /\ pc[h] \in {"append", "count"} => fd[h] = part[u]
        /\ pc[h] = "count" => data[part[u]] = accepted[u] \o req[h].content

(* A commit past its check installs, if anything, the whole upload.        *)
CommitWhole(h) ==
    pc[h] \in CommitLabels =>
        LET u == req[h].id IN
        /\ Len(accepted[u]) = opened[u].expected
        /\ part[u] # NoFile => data[part[u]] = accepted[u]

(* An abort unlinks the file of a session that is gone for good.           *)
Discarding(h) == pc[h] = "discard" => ~Live(req[h].id)

BytesInv ==
    /\ \A h \in Handlers : NewPart(h) /\ ChunkFits(h) /\ CommitWhole(h) /\ Discarding(h)
    /\ \A u \in Uploads : Counted(u)
    /\ TargetsWhole

IInv == TypeInv /\ IdsInv /\ FilesInv /\ BytesInv

-----------------------------------------------------------------------------
(* On top of it, for the step to UploadStore: a session stays the one that *)
(* was opened, and so does a commit's copy; target is removed only to be   *)
(* overwritten.                                                            *)
PlansInv ==
    /\ \A u \in Uploads : Live(u) => SamePlan(uploads[u], u)
    /\ \A h \in Handlers : pc[h] \in CommitLabels =>
           /\ SamePlan(ses[h], req[h].id)
           /\ pc[h] \in {"status", "remove"} => ses[h].overwrite

-----------------------------------------------------------------------------
(* For serial callers: one call of an upload and one commit of a target at *)
(* a time, so nobody fills a target that a commit found or made vacant.    *)
OneCall ==
    \A g, h \in Handlers :
        req[g].op \in ById /\ req[h].op \in ById /\ req[g].id = req[h].id => g = h

OneCommit ==
    \A g, h \in Handlers :
        /\ req[g].op = "commit" /\ req[h].op = "commit"
        /\ opened[req[g].id].target = opened[req[h].id].target
        => g = h

SerialInv ==
    /\ OneCall /\ OneCommit
    /\ \A h \in Handlers :
           /\ pc[h] \in LateLabels => SamePlan(ses[h], req[h].id)
           /\ pc[h] = "rename" => ~Exists(ses[h].target)

(* Without crashes, a session outlives the calls that found it, its commit *)
(* ends it without a file, and its abort takes the file along.             *)
Discarded(u) == \E h \in Handlers : pc[h] = "discard" /\ req[h].id = u

PartsInv ==
    /\ \A h \in Handlers :
           /\ pc[h] \in ChunkLabels \cup CommitLabels \cup LateLabels => Live(req[h].id)
           /\ pc[h] \in LateLabels => part[req[h].id] = NoFile
    /\ \A u \in Uploads \ undeleted : part[u] # NoFile =>
           Live(u) \/ Discarded(u) \/ Created(u)

(* Without crashes and disk faults, a file that was there from the start   *)
(* is there, with its permissions, but for the commit that replaces it.    *)
Intact(t) == Exists(t) /\ perm[target[t]] = "own"

Replacing(t) ==
    \E h \in Handlers :
        /\ ses[h] # NoSession /\ ses[h].target = t /\ saved[h] = "own"
        /\ \/ pc[h] = "rename"
           \/ pc[h] = "permissions" /\ Exists(t)

KeptInv ==
    /\ \A s, t \in Targets : Exists(s) /\ target[s] = target[t] => s = t
    /\ \A h \in Handlers :
           /\ pc[h] \in {"exists", "status", "remove", "rename"} => part[req[h].id] # NoFile
           /\ pc[h] \in {"remove", "permissions"} /\ ses[h].target \in Existing =>
                  saved[h] = "own"
    /\ \A t \in Existing : Intact(t) \/ Replacing(t)

=============================================================================
