-------------------------- MODULE UploadInvariant --------------------------
(***************************************************************************)
(* What the invariants of the two upload servers have in common: what a    *)
(* handler holds at each of its labels, and whose file is whose.           *)
(***************************************************************************)
EXTENDS UploadService

ChunkLabels   == {"open", "append", "count"}
CommitLabels  == {"temp", "exists", "status", "again", "remove", "rename"}
LateLabels    == {"permissions", "erase"}
ById          == {"chunk", "commit", "abort"}

-----------------------------------------------------------------------------
(* What a handler holds in its locals at each of its labels.               *)
Shape(h) ==
    /\ pc[h] = "idle" => req[h] = NoRequest
    /\ pc[h] # "idle" => req[h] \in Requests
    /\ newId[h] # NoId <=> pc[h] \in {"clear", "create", "register"}
    /\ pc[h] \in {"clear", "create", "register"} =>
           req[h] \in InitRequest /\ ~InitRefused(req[h])
    /\ pc[h] \in ChunkLabels => req[h] \in ChunkRequest
    /\ fd[h] # NoFile <=> pc[h] \in {"append", "count"}
    /\ pc[h] \in CommitLabels \cup LateLabels =>
           req[h] \in ControlRequest /\ req[h].op = "commit"
    /\ ses[h] # NoSession <=> pc[h] \in CommitLabels \cup LateLabels
    /\ pc[h] \in {"discard", "unlink"} =>
           req[h] \in ControlRequest /\ req[h].op = "abort"
    /\ pc[h] = "permissions" => saved[h] # NoPerms

TypeInv == TypeOK /\ \A h \in Handlers : Shape(h)

-----------------------------------------------------------------------------
(* The promise of callers that are careful or serial.                      *)
OneWriter ==
    \A g, h \in Handlers :
        /\ req[g].op \in {"chunk", "commit"}
        /\ req[h].op \in {"chunk", "commit"}
        /\ req[g].id = req[h].id
        => g = h

-----------------------------------------------------------------------------
(* A .part file is nobody else's inode.                                    *)
FilesInv ==
    /\ \A u, v \in Uploads : part[u] # NoFile /\ part[u] = part[v] => u = v
    /\ \A u \in Uploads, t \in Targets : part[u] # NoFile => part[u] # target[t]
    /\ NoWriteToTarget
    /\ \A h \in Handlers, u \in Uploads :
           fd[h] # NoFile /\ part[u] = fd[h] => u = req[h].id

-----------------------------------------------------------------------------
(* Words for the rest.                                                     *)

(* No chunk of u has been appended and not yet counted.                    *)
Settled(u) == \A h \in Handlers : ~(pc[h] = "count" /\ req[h].id = u)

(* A session, or a commit's copy of it, is the one that was opened.        *)
SamePlan(s, u) == s.target = opened[u].target /\ s.overwrite = opened[u].overwrite

(* The id of an upload that is being begun.                                *)
Created(u) == \E h \in Handlers : newId[h] = u

=============================================================================
