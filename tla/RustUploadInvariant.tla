------------------------ MODULE RustUploadInvariant ------------------------
(***************************************************************************)
(* The inductive invariant behind NoOrphan and WholeOrTold of              *)
(* RustUploadServer.  Ids are not unique here and writes fail, so it       *)
(* speaks of one upload at a time: what is said of u holds as long as u    *)
(* has its id for itself, and of u's bytes as long as no write of u was    *)
(* told to fail.  RustUploadProofs proves it.                              *)
(***************************************************************************)
EXTENDS RustUploadServer, UploadInvariant

(* The histories, and what calls by id are about.                          *)
ToldInv ==
    /\ tied \subseteq issued /\ shared \subseteq Targets /\ torn \subseteq Uploads
    /\ \A h \in Handlers : req[h].op \in ById => req[h].id \in Begun
    /\ \A h \in Handlers : newId[h] # NoId => newId[h] \in issued
    /\ \A h \in Handlers : pc[h] \in {"status", "again", "remove"} => ses[h].overwrite

(* The id of u: nothing of u is there before init chose it, no session     *)
(* before init registers it.                                               *)
IdOf(u) ==
    /\ u \in Begun \/ part[u] # NoFile => u \in issued
    /\ u \notin Begun => accepted[u] = <<>>
    /\ \A h \in Handlers : newId[h] = u =>
           /\ u \notin Begun
           /\ pc[h] # "clear"
           /\ pc[h] = "create" => part[u] = NoFile
    /\ \A g, h \in Handlers : newId[g] = u /\ newId[h] = u => g = h

(* An abort of u is about to unlink its file.                              *)
Unlinking(u) == \E h \in Handlers : pc[h] \in {"discard", "unlink"} /\ req[h].id = u

(* The session of u, and its copies: they are as opened, and an abort ends *)
(* the session before it looks for the file.                               *)
SessionOf(u) ==
    /\ Live(u) => /\ u \in Begun /\ SamePlan(uploads[u], u)
                  /\ opened[u].expected = uploads[u].expected
    /\ \A h \in Handlers : ses[h] # NoSession /\ req[h].id = u => SamePlan(ses[h], u)
    /\ Unlinking(u) => ~Live(u)

(* The file of u: somebody is there to take it away.                       *)
PartOf(u) ==
    /\ \A h \in Handlers : pc[h] \in LateLabels /\ req[h].id = u => part[u] = NoFile
    /\ crashes = 0 /\ part[u] # NoFile =>
           Live(u) \/ Unlinking(u) \/ Created(u) \/ u \in undeleted

Tidy(u) == IdOf(u) /\ SessionOf(u) /\ PartOf(u)

TidyInv == TypeInv /\ ToldInv /\ \A u \in Uploads \ tied : Tidy(u)

-----------------------------------------------------------------------------
(* For careful callers: the bytes of u.                                    *)

HoldsAccepted(u) == data[part[u]] = accepted[u]

CountOf(u) ==
    Live(u) =>
        /\ uploads[u].received = Len(accepted[u])
        /\ uploads[u].received <= uploads[u].expected
        /\ part[u] = NoFile => uploads[u].received = uploads[u].expected
        /\ part[u] # NoFile /\ Settled(u) => u \in torn \/ HoldsAccepted(u)

EmptyOf(u) ==
    \A h \in Handlers : pc[h] = "register" /\ newId[h] = u =>
        part[u] # NoFile /\ data[part[u]] = <<>>

ChunkOf(u) ==
    \A h \in Handlers : pc[h] \in ChunkLabels /\ req[h].id = u /\ Live(u) =>
        /\ req[h].offset = uploads[u].received
        /\ uploads[u].received + Len(req[h].content) <= uploads[u].expected
        /\ pc[h] \in {"append", "count"} => fd[h] = part[u]
        /\ pc[h] = "count" => u \in torn \/ data[part[u]] = accepted[u] \o req[h].content

CommitOf(u) ==
    \A h \in Handlers : pc[h] \in CommitLabels /\ req[h].id = u =>
        /\ Len(accepted[u]) = opened[u].expected
        /\ part[u] # NoFile => u \in torn \/ HoldsAccepted(u)

BytesOf(u) == CountOf(u) /\ EmptyOf(u) /\ ChunkOf(u) /\ CommitOf(u)

-----------------------------------------------------------------------------
(* What is at the target paths.                                            *)

(* Uploads that share an id stay within the paths noted for them, and      *)
(* nothing is noted for others.                                            *)
SharedInv ==
    /\ tied = {} => shared = {}
    /\ \A u \in tied :
           /\ u \in Begun => opened[u].target \in shared
           /\ Live(u) => uploads[u].target \in shared
           /\ \A h \in Handlers : ses[h] # NoSession /\ req[h].id = u =>
                  ses[h].target \in shared

(* The file at t is that of u, which declared as many bytes as were        *)
(* acknowledged.                                                           *)
Installed(t, u) ==
    /\ u \in Begun \ tied /\ opened[u].target = t
    /\ Len(accepted[u]) = opened[u].expected
    /\ u \in torn \/ data[target[t]] = accepted[u]

TargetsInv ==
    \A t \in Targets \ shared : Exists(t) =>
        data[target[t]] = OldData \/ \E u \in Uploads : Installed(t, u)

RustInv ==
    /\ TidyInv /\ OneWriter /\ FilesInv
    /\ \A u \in Uploads \ tied : BytesOf(u)
    /\ SharedInv /\ TargetsInv

=============================================================================
