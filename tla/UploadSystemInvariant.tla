----------------------- MODULE UploadSystemInvariant -----------------------
(***************************************************************************)
(* The inductive invariants behind the safety properties of UploadSystem:  *)
(* how the calls of the clients and the handlers that serve them belong    *)
(* together, also after a client gave up on a call, and what each upload   *)
(* has of its client's file.  They speak of either server.                 *)
(* UploadSystemProofs proves them.                                         *)
(***************************************************************************)
EXTENDS UploadSystem, CppUploadInvariant, RustUploadInvariant

ClientTypes ==
    /\ server \in {"cpp", "rust"}
    /\ declared \in [Clients -> Sizes]
    /\ stage \in [Clients -> {"init", "chunk", "commit", "abort", "done"}]
    /\ id \in [Clients -> Uploads \cup {NoId}]
    /\ offset \in [Clients -> Offsets]
    /\ call \in [Clients -> Handlers \cup {NoCall, Broken}]

(* No session is for more than the limit, and a chunk past its check is    *)
(* within it.                                                              *)
LimitInv ==
    /\ \A u \in Uploads : Live(u) => uploads[u].expected <= MaxUploadFileSize
    /\ \A h \in Handlers : pc[h] \in ChunkLabels =>
           req[h].offset + Len(req[h].content) <= MaxUploadFileSize

(* A client's pending call is what it sent last, and nobody else's.        *)
CallsInv ==
    /\ \A c \in Clients :
           /\ stage[c] \in {"chunk", "commit", "abort"} => id[c] \in Begun
           /\ stage[c] = "init" => offset[c] = 0
           /\ stage[c] = "chunk" => offset[c] < Len(Payload[c])
           /\ call[c] \in Handlers =>
                  /\ stage[c] # "done"
                  /\ req[call[c]] = NextRequest(c)
    /\ \A c, d \in Clients : call[c] \in Handlers /\ call[c] = call[d] => c = d

(* The ids that are given out.                                             *)
IssuedInv ==
    /\ tied \cup Begun \subseteq issued
    /\ \A h \in Handlers : newId[h] # NoId => newId[h] \in issued

(* A client past its last chunk or commit of an upload.                    *)
Leaving(c) == stage[c] \in {"abort", "done"}

Writes(h, u) == req[h].op \in {"chunk", "commit"} /\ req[h].id = u

(* An upload that has its id for itself has one client, which waits for    *)
(* every chunk and commit of it or will send no more.                      *)
OwnerOf(u) ==
    /\ \A h \in Handlers : newId[h] = u => u \notin Begun
    /\ \A g, h \in Handlers : newId[g] = u /\ newId[h] = u => g = h
    /\ \A c \in Clients : id[c] = u => u \in Begun
    /\ \A c, d \in Clients : id[c] = u /\ id[d] = u => c = d
    /\ \A h \in Handlers : Writes(h, u) =>
           \E c \in Clients : id[c] = u /\ (call[c] = h \/ Leaving(c))
    /\ \A g, h \in Handlers : Writes(g, u) /\ Writes(h, u) => g = h

SystemInv ==
    /\ TypeInv /\ ClientTypes /\ LimitInv /\ CallsInv /\ IssuedInv
    /\ \A u \in Uploads \ tied : OwnerOf(u)

-----------------------------------------------------------------------------
(* A commit past its rename has no file any more, and nobody makes one for *)
(* an upload whose client was told ok.                                     *)
Gone(u) == ~Live(u) /\ part[u] = NoFile /\ \A h \in Handlers : ~Writes(h, u)

CleanInv ==
    /\ result \in [Clients -> {"none", "ok", "error"}]
    /\ \A h \in Handlers : pc[h] \in LateLabels /\ req[h].id \notin tied =>
           part[req[h].id] = NoFile
    /\ \A c \in Clients : result[c] = "ok" =>
           /\ stage[c] = "done" /\ id[c] \in Begun
           /\ id[c] \notin tied => Gone(id[c])

-----------------------------------------------------------------------------
(* As long as no two uploads got one id, what each server knows of itself. *)
ServerInv ==
    /\ server \in Servers
    /\ tied = {} =>
        /\ server = "cpp" => IInv /\ PlansInv /\ torn = {}
        /\ server = "rust" => RustInv

(* An upload has of its client's file what was acknowledged to the client. *)
Sent(c) ==
    /\ opened[id[c]].target = Path[c]
    /\ stage[c] \in {"chunk", "commit"} =>
           accepted[id[c]] = SubSeq(Payload[c], 1, offset[c])

(* A commit is of a client that sent all of it.                            *)
WholePayload(h) ==
    \E c \in Clients : id[c] = req[h].id /\ accepted[req[h].id] = Payload[c]

(* What was told of a failed write is given up.                            *)
GivenUp(u) ==
    /\ u \in Begun
    /\ \A h \in Handlers : ~Writes(h, u)
    /\ \A c \in Clients : id[c] = u => Leaving(c)

HoldsPayload(t) ==
    Exists(t) /\ \E c \in Clients : Path[c] = t /\ data[target[t]] = Payload[c]

PayloadInv ==
    /\ \A c \in Clients :
           /\ stage[c] = "init" => id[c] = NoId
           /\ stage[c] = "commit" => offset[c] = Len(Payload[c])
    /\ tied = {} =>
           /\ \A c \in Clients : id[c] # NoId => Sent(c)
           /\ \A h \in Handlers : req[h].op = "commit" => WholePayload(h)
           /\ \A u \in torn : GivenUp(u)
           /\ \A t \in Targets : Exists(t) =>
                  data[target[t]] = OldData \/ HoldsPayload(t)

-----------------------------------------------------------------------------
(* While no commit is given up: a commit has its file until its rename,    *)
(* and what a commit put at its path stays there, but for another that is  *)
(* about to fill it again.                                                 *)
CutShort(c) == offset[c] < Len(Payload[c]) \/ GaveUpCommit(c)

AbortsInv ==
    /\ \A c \in Clients :
           /\ stage[c] = "abort" => CutShort(c)
           /\ result[c] # "none" => stage[c] = "done"
    /\ \A h \in Handlers : req[h].op \in {"commit", "abort"} /\ req[h].id \notin tied =>
           \E c \in Clients :
               /\ id[c] = req[h].id
               /\ req[h].op = "commit" => offset[c] = Len(Payload[c])
               /\ req[h].op = "abort"  => Leaving(c) /\ CutShort(c)

CommitOver(t) ==
    \/ \E c \in Clients : result[c] = "ok" /\ Path[c] = t
    \/ \E h \in Handlers : pc[h] \in LateLabels /\ opened[req[h].id].target = t

Filling(t) == \E h \in Handlers : pc[h] = "rename" /\ opened[req[h].id].target = t

PastCheck == CommitLabels \ {"temp"}

NothingGivenUp ==
    crashes = 0 /\ tied = {} /\ \A c \in Clients : ~GaveUpCommit(c)

InstalledInv ==
    /\ AbortsInv
    /\ NothingGivenUp =>
           /\ \A h \in Handlers : pc[h] \in PastCheck => part[req[h].id] # NoFile
           /\ \A t \in Targets : CommitOver(t) => HoldsPayload(t) \/ Filling(t)

=============================================================================
