------------------------ MODULE UploadSystemProofs ------------------------
(***************************************************************************)
(* Proofs about UploadSystem: the shipped clients keep the promise that    *)
(* the proofs about the servers assume of callers.  Whatever breaks when,  *)
(* whichever server runs, with any numbers of clients and of threads, no   *)
(* upload that has its id for itself has two chunks or commits in flight.  *)
(* An upload that returned ok leaves nothing of it on the server, a path   *)
(* holds its old file or one client's whole file, and what returned ok     *)
(* stays installed.                                                        *)
(***************************************************************************)
EXTENDS UploadSystemInvariant, RustUploadProofs, FiniteSetTheorems

LEMMA ClientFunctions ==
    ASSUME ClientTypes
    PROVE  /\ stage \in [Clients -> {"init", "chunk", "commit", "abort", "done"}]
           /\ id \in [Clients -> Uploads \cup {NoId}]
           /\ offset \in [Clients -> Offsets]
           /\ call \in [Clients -> Handlers \cup {NoCall, Broken}]
           /\ \A c \in Clients : /\ offset[c] \in Nat /\ declared[c] \in Sizes
                                 /\ Len(Payload[c]) \in Nat
<1>1. \A c \in Clients : Payload[c] \in Seq(Blocks)
  BY ClientsAssumption
<1>2. QED BY <1>1, SizesAssumption, LenProperties DEF ClientTypes, Offsets

(* What a client sends is a request.                                       *)
LEMMA RequestsAreMade ==
    ASSUME ClientTypes, CallsInv, NEW c \in Clients, stage[c] # "done"
    PROVE  /\ NextRequest(c) \in Requests
           /\ NextRequest(c).op = stage[c]
           /\ stage[c] # "init" => NextRequest(c).id = id[c]
           /\ stage[c] = "chunk" =>
                  /\ NextRequest(c).offset = offset[c]
                  /\ NextRequest(c).content = NextChunk(c)
<1>1. CASE stage[c] = "init"
  BY <1>1, ClientFunctions, RequestsAssumption, ClientsAssumption
  DEF NextRequest, Requests, InitRequest
<1>2. CASE stage[c] = "chunk"
  <2>1. NextChunk(c) \in Chunks
    <3> DEFINE rest == Len(Payload[c]) - offset[c]
               n    == IF rest < ChunkSize THEN rest ELSE ChunkSize
    <3>1. /\ offset[c] \in 0 .. MaxUploadFileSize /\ offset[c] < Len(Payload[c])
          /\ Len(Payload[c]) \in Nat /\ offset[c] \in Nat /\ ChunkSize \in Nat \ {0}
      BY <1>2, ClientFunctions, ClientsAssumption DEF CallsInv, Offsets
    <3>2. n \in 1 .. ChunkSize /\ offset[c] + n <= Len(Payload[c])
      BY <3>1
    <3>3. SubSeq(Payload[c], offset[c] + 1, offset[c] + n) \in Chunks
      BY <3>1, <3>2, RequestsAssumption
    <3>4. QED BY <3>3 DEF NextChunk
  <2>2. id[c] \in Uploads /\ offset[c] \in Offsets
    BY <1>2, ClientFunctions DEF CallsInv, Begun
  <2>3. QED BY <1>2, <2>1, <2>2 DEF NextRequest, Requests, ChunkRequest
<1>3. CASE stage[c] \in {"commit", "abort"}
  <2>1. id[c] \in Uploads
    BY <1>3 DEF CallsInv, Begun
  <2>2. QED BY <1>3, <2>1 DEF NextRequest, Requests, ControlRequest
<1>4. QED BY <1>1, <1>2, <1>3, ClientFunctions

(* What a reply or a broken connection does to a client.                   *)
LEMMA HearEffects ==
    ASSUME ClientTypes, NEW c \in Clients, NEW heard \in {"ok", "error", "broken"}, NEW u,
           Hear(c, heard, u)
    PROVE  /\ \A d \in Clients : d # c =>
                  /\ stage'[d] = stage[d] /\ id'[d] = id[d] /\ offset'[d] = offset[d]
                  /\ call'[d] = call[d]
           /\ call'[c] = NoCall /\ declared' = declared
           /\ stage' \in [Clients -> {"init", "chunk", "commit", "abort", "done"}]
           /\ call' \in [Clients -> Handlers \cup {NoCall, Broken}]
           /\ id' = [d \in Clients |-> id'[d]] /\ offset' = [d \in Clients |-> offset'[d]]
           /\ stage'[c] # "init"
           /\ heard = "broken" \/ stage[c] \in {"abort", "done"} =>
                  stage'[c] \in {"abort", "done"}
           /\ stage[c] = "init" => stage'[c] \in {"chunk", "commit", "done"}
           /\ stage[c] = "init" /\ heard # "ok" => stage'[c] = "done"
           /\ stage[c] \in {"abort", "done"} => stage'[c] = "done"
           /\ stage'[c] = "chunk" =>
                  /\ heard = "ok"
                  /\ \/ stage[c] = "init" /\ offset'[c] = offset[c] /\ 0 < Len(Payload[c])
                     \/ stage[c] = "chunk" /\ offset'[c] < Len(Payload[c])
           /\ id'[c] = IF stage[c] = "init" /\ heard = "ok" THEN u ELSE id[c]
           /\ offset'[c] = IF stage[c] = "chunk" /\ heard = "ok"
                           THEN offset[c] + Len(NextChunk(c)) ELSE offset[c]
<1>1. /\ stage' = [stage EXCEPT ![c] = AfterCall(c, heard)]
      /\ id' = [id EXCEPT ![c] = IF stage[c] = "init" /\ heard = "ok" THEN u ELSE @]
      /\ offset' = [offset EXCEPT ![c] =
                     IF stage[c] = "chunk" /\ heard = "ok" THEN @ + Len(NextChunk(c)) ELSE @]
      /\ call' = [call EXCEPT ![c] = NoCall]
      /\ declared' = declared
  BY DEF Hear
<1>2. /\ AfterCall(c, heard) \in {"chunk", "commit", "abort", "done"}
      /\ heard = "broken" \/ stage[c] \in {"abort", "done"} =>
             AfterCall(c, heard) \in {"abort", "done"}
      /\ stage[c] = "init" => AfterCall(c, heard) \in {"chunk", "commit", "done"}
      /\ stage[c] = "init" /\ heard # "ok" => AfterCall(c, heard) = "done"
      /\ stage[c] \in {"abort", "done"} => AfterCall(c, heard) = "done"
      /\ AfterCall(c, heard) = "chunk" =>
             /\ heard = "ok"
             /\ \/ stage[c] = "init" /\ 0 < Len(Payload[c])
                \/ stage[c] = "chunk" /\ offset[c] + Len(NextChunk(c)) < Len(Payload[c])
  BY ClientFunctions DEF AfterCall, ReadOn
<1>3. QED BY <1>1, <1>2, ClientFunctions

-----------------------------------------------------------------------------
(* What a step of a handler, of either server, does to the ids, the calls  *)
(* and the sizes.                                                          *)

Allocates(h) ==
    \E u \in Uploads :
        /\ newId[h] = NoId /\ newId'[h] = u
        /\ issued' = issued \cup {u} /\ tied' = tied \cup ({u} \cap issued)
        /\ Begun' = Begun

Registers(h) ==
    /\ pc[h] = "register" /\ newId'[h] = NoId /\ pc'[h] = "idle"
    /\ Begun' = Begun \cup {newId[h]}
    /\ UNCHANGED <<issued, tied>>

Proceeds(h) ==
    /\ newId'[h] \in {newId[h], NoId}
    /\ pc'[h] = "idle" => pc[h] # "register"
    /\ Begun' = Begun
    /\ UNCHANGED <<issued, tied>>

(* How the sizes of the sessions and the labels of chunks come about.      *)
SizesKept(h) ==
    /\ \A u \in Uploads : uploads'[u] # NoSession =>
           \/ uploads[u] # NoSession /\ uploads'[u].expected = uploads[u].expected
           \/ pc[h] = "register" /\ uploads'[u].expected = req[h].size
    /\ pc'[h] \in ChunkLabels => pc[h] \in ChunkLabels \/ UploadChunkAccept(h)

OthersWait(h) ==
    /\ \A g \in Handlers : g # h =>
           pc'[g] = pc[g] /\ req'[g] = req[g] /\ newId'[g] = newId[g]
    /\ req'[h] \in {req[h], NoRequest}

(* Replies, and steps that go on.                                          *)
LEMMA ReplyEffects ==
    ASSUME TypeInv, NEW h \in Handlers, Reply(h)
    PROVE  OthersWait(h) /\ newId'[h] = NoId /\ pc'[h] = "idle" /\ req'[h] = NoRequest
BY DEF Reply, OthersWait, TypeInv, TypeOK

LEMMA GotoEffects ==
    ASSUME TypeInv, NEW h \in Handlers, NEW l, Goto(h, l), UNCHANGED newId
    PROVE  OthersWait(h) /\ newId'[h] = newId[h] /\ pc'[h] = l /\ req'[h] = req[h]
BY DEF Goto, OthersWait, TypeInv, TypeOK

LEMMA SameSessions ==
    ASSUME TypeInv, UNCHANGED uploads \/ \E v : uploads' = [uploads EXCEPT ![v] = NoSession]
    PROVE  \A u \in Uploads : uploads'[u] # NoSession =>
               uploads[u] # NoSession /\ uploads'[u].expected = uploads[u].expected
BY DEF TypeInv, TypeOK

LEMMA CountKeepsSizes ==
    ASSUME TypeInv, NEW h \in Handlers, UploadChunkCount(h)
    PROVE  \A u \in Uploads : uploads'[u] # NoSession =>
               uploads[u] # NoSession /\ uploads'[u].expected = uploads[u].expected
<1>1. PICK v : v = req[h].id
  OBVIOUS
<1>2. /\ pc[h] = "count" /\ Live(v)
      /\ uploads' = [uploads EXCEPT ![v] =
                        [uploads[v] EXCEPT !.received = @ + Len(req[h].content)]]
  BY <1>1 DEF UploadChunkCount
<1>3. v \in Uploads /\ Len(req[h].content) \in Nat
  BY <1>1, <1>2, Labelled DEF ChunkLabels
<1>4. uploads \in [Uploads -> Session \cup {NoSession}]
  BY DEF TypeInv, TypeOK
<1>5. uploads[v] \in Session
  BY <1>2, <1>3, <1>4 DEF Live
<1>6. QED BY <1>2, <1>3, <1>4, <1>5, CountedSession DEF Live

LEMMA RegisterKeepsSizes ==
    ASSUME TypeInv, NEW h \in Handlers, pc[h] = "register",
           uploads' = [uploads EXCEPT ![newId[h]] = NewSession(req[h])]
    PROVE  \A u \in Uploads : uploads'[u] # NoSession =>
               \/ uploads[u] # NoSession /\ uploads'[u].expected = uploads[u].expected
               \/ uploads'[u].expected = req[h].size
<1>1. NewSession(req[h]).expected = req[h].size
  BY DEF NewSession
<1>2. QED BY <1>1 DEF TypeInv, TypeOK

LEMMA BegunKept == UNCHANGED opened => Begun' = Begun
BY DEF Begun

LEMMA CppEffects ==
    ASSUME TypeInv, NEW h \in Handlers, Step(h), UNCHANGED told
    PROVE  /\ OthersWait(h) /\ SizesKept(h)
           /\ Allocates(h) \/ Registers(h) \/ Proceeds(h)
<1>0. /\ newId \in [Handlers -> Uploads \cup {NoId}]
      /\ opened \in [Uploads -> Session \cup {NoSession}]
      /\ pc \in [Handlers -> Labels]
      /\ tied' = tied
  BY DEF TypeInv, TypeOK, told
<1>1. CASE UploadInitCreate(h)
  <2>1. /\ NewId \in Uploads /\ NewId \notin issued
        /\ newId' = [newId EXCEPT ![h] = NewId] /\ issued' = issued \cup {NewId}
        /\ Goto(h, "register") /\ UNCHANGED <<uploads, opened>>
        /\ pc[h] = "received"
    BY <1>1, FreshChoices DEF UploadInitCreate, At
  <2>2. newId[h] = NoId
    BY <2>1, Labelled
  <2>3. OthersWait(h) /\ pc'[h] = "register"
    BY <1>0, <2>1 DEF OthersWait, Goto, TypeInv, TypeOK
  <2>4. Allocates(h)
    BY <1>0, <2>1, <2>2, BegunKept DEF Allocates
  <2>5. SizesKept(h)
    BY <2>1, <2>3, SameSessions DEF SizesKept, ChunkLabels
  <2>6. QED BY <2>3, <2>4, <2>5
<1>2. CASE UploadInitRegister(h)
  <2>1. /\ pc[h] = "register" /\ Reply(h) /\ UNCHANGED issued
        /\ uploads' = [uploads EXCEPT ![newId[h]] = NewSession(req[h])]
        /\ opened' = [opened EXCEPT ![newId[h]] = NewSession(req[h])]
    BY <1>2 DEF UploadInitRegister
  <2>2. /\ newId[h] \in Uploads /\ req[h] \in InitRequest /\ ~InitRefused(req[h])
    BY <2>1, Labelled DEF TypeInv, Shape
  <2>3. NewSession(req[h]) \in Session
    BY <2>2, SizesAssumption DEF NewSession, Session, InitRequest, InitRefused
  <2>4. Begun' = Begun \cup {newId[h]}
    BY <1>0, <2>1, <2>2, <2>3, NoSessionAssumption DEF Begun
  <2>5. SizesKept(h)
    BY <2>1, RegisterKeepsSizes, ReplyEffects DEF SizesKept, ChunkLabels
  <2>6. QED BY <1>0, <2>1, <2>4, <2>5, ReplyEffects DEF Registers
<1>3. CASE \/ Fails(h) \/ UploadChunkAppendFails(h) \/ UploadChunkCount(h)
           \/ UploadCommitErase(h) \/ UploadAbortDiscard(h)
  <2>1. /\ Reply(h) /\ UNCHANGED <<opened, issued>> /\ pc[h] # "register"
    BY <1>3 DEF Fails, UploadChunkAppendFails, WriteFails, UploadChunkCount,
       UploadCommitErase, UploadAbortDiscard, history
  <2>2. CASE UploadChunkCount(h)
    BY <1>0, <2>1, <2>2, CountKeepsSizes, ReplyEffects, BegunKept
    DEF SizesKept, ChunkLabels, Proceeds
  <2>3. CASE ~UploadChunkCount(h)
    <3>1. UNCHANGED uploads \/ \E v : uploads' = [uploads EXCEPT ![v] = NoSession]
      BY <1>3, <2>3 DEF Fails, UploadChunkAppendFails, UploadCommitErase,
         UploadAbortDiscard
    <3>2. QED
      BY <1>0, <2>1, <3>1, SameSessions, ReplyEffects, BegunKept
      DEF SizesKept, ChunkLabels, Proceeds
  <2>4. QED BY <2>2, <2>3
<1>4. CASE \/ CommitAdvances(h) \/ UploadChunkAccept(h) \/ UploadChunkOpen(h)
           \/ UploadChunkRecreate(h) \/ UploadChunkAppend(h) \/ UploadChunkCloseFails(h)
           \/ UploadCommitCopy(h) \/ ReplaceStatus(h) \/ ReplaceRemove(h)
           \/ ReplaceRename(h) \/ ReplacePermissions(h) \/ UploadAbortErase(h)
  <2>1. PICK l : /\ Goto(h, l) /\ l # "idle"
                 /\ l \in ChunkLabels => pc[h] \in ChunkLabels \/ UploadChunkAccept(h)
    BY <1>4 DEF CommitAdvances, UploadChunkAccept, UploadChunkOpen, UploadChunkRecreate,
       UploadChunkAppend, UploadChunkCloseFails, WriteFails, UploadCommitCopy, ReplaceStatus,
       ReplaceRemove, ReplaceRename, AfterRename, ReplacePermissions, UploadAbortErase,
       ChunkLabels, CommitLabels
  <2>2. /\ UNCHANGED <<opened, issued, newId>>
        /\ UNCHANGED uploads \/ \E v : uploads' = [uploads EXCEPT ![v] = NoSession]
    BY <1>4 DEF CommitAdvances, UploadChunkAccept, UploadChunkOpen, UploadChunkRecreate,
       UploadChunkAppend, UploadChunkCloseFails, UploadCommitCopy, ReplaceStatus,
       ReplaceRemove, ReplaceRename, ReplacePermissions, UploadAbortErase, history
  <2>3. QED
    BY <1>0, <2>1, <2>2, GotoEffects, SameSessions, BegunKept DEF SizesKept, Proceeds
<1>5. QED BY StepKinds, <1>1, <1>2, <1>3, <1>4

LEMMA RustEffectsToo ==
    ASSUME TypeInv, NEW h \in Handlers, RustStep(h)
    PROVE  /\ OthersWait(h) /\ SizesKept(h)
           /\ Allocates(h) \/ Registers(h) \/ Proceeds(h)
<1>0. /\ newId \in [Handlers -> Uploads \cup {NoId}]
      /\ issued \subseteq Uploads
  BY DEF TypeInv, TypeOK
<1>1. CASE upload_init_allocate(h)
  <2>1. PICK u \in upload_ids : /\ newId' = [newId EXCEPT ![h] = u]
                                /\ issued' = issued \cup {u}
                                /\ tied' = tied \cup ({u} \cap issued)
                                /\ Goto(h, AfterLook(u))
    BY <1>1 DEF upload_init_allocate
  <2>2. pc[h] = "received" /\ UNCHANGED <<uploads, opened>>
    BY <1>1 DEF upload_init_allocate, At
  <2>3. newId[h] = NoId /\ u \in Uploads
    BY <1>0, <2>1, <2>2, Labelled, FreshChoices DEF upload_ids
  <2>4. OthersWait(h) /\ pc'[h] \notin ChunkLabels
    BY <1>0, <2>1 DEF OthersWait, Goto, TypeInv, TypeOK, AfterLook, ChunkLabels
  <2>5. Allocates(h)
    BY <1>0, <2>1, <2>2, <2>3, BegunKept DEF Allocates
  <2>6. QED BY <2>2, <2>4, <2>5, SameSessions DEF SizesKept
<1>2. CASE upload_init_register(h)
  <2>1. /\ pc[h] = "register" /\ Reply(h) /\ UNCHANGED <<issued, tied>>
        /\ uploads' = [uploads EXCEPT ![newId[h]] = NewSession(req[h])]
    BY <1>2 DEF upload_init_register
  <2>2. Begun' = Begun \cup {newId[h]}
    BY <1>2, RegisterBegun
  <2>3. SizesKept(h)
    BY <2>1, RegisterKeepsSizes, ReplyEffects DEF SizesKept, ChunkLabels
  <2>4. QED BY <2>1, <2>2, <2>3, ReplyEffects DEF Registers
<1>3. CASE \/ RustFails(h) \/ upload_chunk_write_fails(h)
           \/ /\ UploadChunkCount(h) \/ UploadCommitErase(h) \/ upload_abort_unlink(h)
              /\ UNCHANGED told
  <2>1. /\ Reply(h) /\ UNCHANGED <<opened, issued, tied>> /\ pc[h] # "register"
    BY <1>3 DEF RustFails, upload_chunk_write_fails, UploadChunkAppendFails, WriteFails,
       UploadChunkCount, UploadCommitErase, upload_abort_unlink, history, told
  <2>2. CASE UploadChunkCount(h)
    BY <1>0, <2>1, <2>2, CountKeepsSizes, ReplyEffects, BegunKept
    DEF SizesKept, ChunkLabels, Proceeds
  <2>3. CASE ~UploadChunkCount(h)
    <3>1. UNCHANGED uploads \/ \E v : uploads' = [uploads EXCEPT ![v] = NoSession]
      BY <1>3, <2>3 DEF RustFails, upload_chunk_write_fails, UploadChunkAppendFails,
         UploadCommitErase, upload_abort_unlink
    <3>2. QED
      BY <1>0, <2>1, <3>1, SameSessions, ReplyEffects, BegunKept
      DEF SizesKept, ChunkLabels, Proceeds
  <2>4. QED BY <2>2, <2>3
<1>4. CASE \/ RustMoves(h)
           \/ /\ \/ upload_init_clear(h) \/ upload_init_create(h)
                 \/ UploadChunkAccept(h) \/ UploadChunkOpen(h) \/ UploadChunkAppend(h)
                 \/ UploadCommitCopy(h) \/ replace_file_metadata(h)
                 \/ replace_file_remove(h) \/ ReplaceRename(h) \/ ReplacePermissions(h)
                 \/ UploadAbortErase(h)
              /\ UNCHANGED told
  <2>1. PICK l : /\ Goto(h, l) /\ l # "idle"
                 /\ l \in ChunkLabels => pc[h] \in ChunkLabels \/ UploadChunkAccept(h)
    <3>1. CASE RustMoves(h)
      BY <3>1 DEF RustMoves, Checks, ChunkLabels
    <3>2. CASE ~RustMoves(h)
      BY <1>4, <3>2 DEF upload_init_clear, upload_init_create, UploadChunkAccept,
         UploadChunkOpen, UploadChunkAppend, UploadCommitCopy, replace_file_metadata,
         replace_file_remove, ReplaceRename, AfterRename, ReplacePermissions,
         UploadAbortErase, ChunkLabels
    <3>3. QED BY <3>1, <3>2
  <2>2. /\ UNCHANGED <<opened, issued, tied, newId>>
        /\ UNCHANGED uploads \/ \E v : uploads' = [uploads EXCEPT ![v] = NoSession]
    BY <1>4 DEF RustMoves, upload_init_clear, upload_init_create, UploadChunkAccept,
       UploadChunkOpen, UploadChunkAppend, UploadCommitCopy, replace_file_metadata,
       replace_file_remove, ReplaceRename, ReplacePermissions, UploadAbortErase,
       history, told
  <2>3. QED
    BY <1>0, <2>1, <2>2, GotoEffects, SameSessions, BegunKept DEF SizesKept, Proceeds
<1>5. QED BY RustKinds, <1>1, <1>2, <1>3, <1>4

LEMMA HandlerEffects ==
    ASSUME TypeInv, NEW h \in Handlers, HandlerStep(h)
    PROVE  /\ OthersWait(h) /\ SizesKept(h)
           /\ Allocates(h) \/ Registers(h) \/ Proceeds(h)
BY CppEffects, RustEffectsToo DEF HandlerStep, Step, RustStep

LEMMA SystemTypeStep ==
    ASSUME TypeInv, ClientTypes, CallsInv, [SystemNext]_systemVars
    PROVE  TypeInv'
<1>1. ASSUME NEW c \in Clients, Send(c) PROVE TypeInv'
  <2>1. IdleHandler \in Handlers /\ NextRequest(c) \in Requests
    BY <1>1, RequestsAreMade DEF Send, Sending, IdleHandler, IdleHandlers
  <2>2. RustNext
    BY <1>1, <2>1 DEF Send, RustNext
  <2>3. QED BY <2>2, RustTypeStep
<1>2. ASSUME NEW h \in Handlers, HandlerStep(h) PROVE TypeInv'
  <2>1. CASE server = "cpp"
    BY <1>2, <2>1, TypeInvStep DEF HandlerStep, Step, Next
  <2>2. CASE server = "rust"
    BY <1>2, <2>2, RustTypeStep DEF HandlerStep, RustStep, RustNext
  <2>3. QED BY <1>2, <2>1, <2>2 DEF HandlerStep
<1>3. CASE ServerCrash
  BY <1>3, RustTypeStep DEF ServerCrash, RustNext
<1>4. CASE UNCHANGED rustVars
  BY <1>4, RustTypeStep
<1>5. QED
  BY <1>1, <1>2, <1>3, <1>4
  DEF SystemNext, systemVars, Serve, LocalError, NotDelivered, ConnectionBreaks, HearBroken

-----------------------------------------------------------------------------
(* Steps of a client alone: it learns that its call broke, or leaves.      *)

LEMMA SameRequest ==
    ASSUME NEW c \in Clients, stage'[c] = stage[c], id'[c] = id[c], offset'[c] = offset[c],
           declared' = declared
    PROVE  NextRequest(c)' = NextRequest(c)
BY DEF NextRequest, NextChunk

LEMMA ClientLeaves ==
    ASSUME SystemInv, TypeInv', NEW c \in Clients,
           UNCHANGED <<rustVars, server, declared, id, offset>>,
           stage' \in [Clients -> {"init", "chunk", "commit", "abort", "done"}],
           call' \in [Clients -> Handlers \cup {NoCall, Broken}],
           \A d \in Clients : d # c => stage'[d] = stage[d] /\ call'[d] = call[d],
           stage'[c] \in {"abort", "done"}, call'[c] \notin Handlers,
           stage'[c] = "abort" => stage[c] \in {"chunk", "commit"}
    PROVE  SystemInv'
<1>0. /\ UNCHANGED <<uploads, pc, req, newId, opened, issued, tied>>
      /\ Begun' = Begun
  BY BegunKept DEF rustVars, vars, local, history, told
<1>1. ClientTypes'
  BY DEF SystemInv, ClientTypes
<1>2. LimitInv' /\ IssuedInv'
  BY <1>0 DEF SystemInv, LimitInv, IssuedInv, Live
<1>3. CallsInv'
  <2>1. ASSUME NEW d \in Clients
        PROVE  /\ stage'[d] \in {"chunk", "commit", "abort"} => id'[d] \in Begun'
               /\ stage'[d] = "init" => offset'[d] = 0
               /\ stage'[d] = "chunk" => offset'[d] < Len(Payload[d])
               /\ call'[d] \in Handlers =>
                      stage'[d] # "done" /\ req'[call'[d]] = NextRequest(d)'
    <3>1. CASE d = c
      BY <1>0, <3>1 DEF SystemInv, CallsInv
    <3>2. CASE d # c
      BY <1>0, <3>2, SameRequest DEF SystemInv, CallsInv
    <3>3. QED BY <3>1, <3>2
  <2>2. \A d, e \in Clients : call'[d] \in Handlers /\ call'[d] = call'[e] => d = e
    BY DEF SystemInv, CallsInv
  <2>3. QED BY <2>1, <2>2 DEF CallsInv
<1>4. ASSUME NEW u \in Uploads \ tied PROVE OwnerOf(u)'
  <2>1. OwnerOf(u)
    BY <1>4 DEF SystemInv
  <2>2. ASSUME NEW h \in Handlers, Writes(h, u)
        PROVE  \E d \in Clients : id'[d] = u /\ (call'[d] = h \/ Leaving(d)')
    <3>1. PICK d \in Clients : id[d] = u /\ (call[d] = h \/ Leaving(d))
      BY <2>1, <2>2 DEF OwnerOf
    <3>2. call'[d] = h \/ Leaving(d)'
      BY <3>1 DEF Leaving
    <3>3. QED BY <3>1, <3>2
  <2>3. \A h \in Handlers : Writes(h, u)' <=> Writes(h, u)
    BY <1>0 DEF Writes
  <2>4. QED BY <1>0, <2>1, <2>2, <2>3 DEF OwnerOf
<1>5. QED BY <1>0, <1>1, <1>2, <1>3, <1>4 DEF SystemInv

LEMMA BrokenCalls ==
    ASSUME SystemInv, TypeInv', NEW c \in Clients,
           LocalError(c) \/ NotDelivered(c) \/ ConnectionBreaks(c) \/ HearBroken(c)
    PROVE  SystemInv'
<1>0. /\ ClientTypes
      /\ call[c] = NoCall => call[c] \notin Handlers
  BY CallsAssumption DEF SystemInv
<1>1. CASE LocalError(c)
  <2>1. /\ stage' = [stage EXCEPT ![c] = "done"] /\ call[c] = NoCall
        /\ UNCHANGED <<rustVars, server, declared, id, offset, call>>
    BY <1>1 DEF LocalError, Sending
  <2>2. QED BY <1>0, <2>1, ClientFunctions, ClientLeaves
<1>2. CASE NotDelivered(c) \/ ConnectionBreaks(c) \/ HearBroken(c)
  <2>1. Hear(c, "broken", NoId) /\ UNCHANGED <<rustVars, server>>
    BY <1>2 DEF NotDelivered, ConnectionBreaks, HearBroken
  <2>2. /\ \A d \in Clients : d # c =>
               /\ stage'[d] = stage[d] /\ id'[d] = id[d] /\ offset'[d] = offset[d]
               /\ call'[d] = call[d]
        /\ call'[c] = NoCall /\ declared' = declared
        /\ stage' \in [Clients -> {"init", "chunk", "commit", "abort", "done"}]
        /\ call' \in [Clients -> Handlers \cup {NoCall, Broken}]
        /\ stage'[c] \in {"abort", "done"}
        /\ stage[c] = "init" => stage'[c] = "done"
        /\ stage[c] \in {"abort", "done"} => stage'[c] = "done"
        /\ id'[c] = id[c] /\ offset'[c] = offset[c]
        /\ id' = [d \in Clients |-> id'[d]] /\ offset' = [d \in Clients |-> offset'[d]]
    BY <1>0, <2>1, HearEffects
  <2>3. UNCHANGED <<id, offset>>
    BY <1>0, <2>2, ClientFunctions
  <2>4. stage[c] \in {"init", "chunk", "commit", "abort", "done"}
    BY <1>0, ClientFunctions
  <2>5. QED BY <1>0, <2>1, <2>2, <2>3, <2>4, CallsAssumption, ClientLeaves
<1>3. QED BY <1>1, <1>2

-----------------------------------------------------------------------------
(* A client sends its next request.                                        *)

LEMMA SendStep ==
    ASSUME SystemInv, TypeInv', NEW c \in Clients, Send(c)
    PROVE  SystemInv'
<1>0. /\ TypeInv /\ ClientTypes /\ CallsInv /\ LimitInv /\ IssuedInv
      /\ call \in [Clients -> Handlers \cup {NoCall, Broken}]
      /\ pc \in [Handlers -> Labels] /\ req \in [Handlers -> Requests \cup {NoRequest}]
      /\ stage[c] # "done" /\ call[c] = NoCall
  BY ClientFunctions DEF SystemInv, TypeInv, TypeOK, Send, Sending
<1>1. PICK k \in Handlers : /\ pc[k] = "idle"
                            /\ Receive(k, NextRequest(c))
                            /\ call' = [call EXCEPT ![c] = k]
  BY DEF Send, IdleHandler, IdleHandlers
<1>2. /\ UNCHANGED <<uploads, newId, opened, issued, tied, server, declared, stage, id, offset>>
      /\ pc' = [pc EXCEPT ![k] = "received"] /\ req' = [req EXCEPT ![k] = NextRequest(c)]
      /\ Begun' = Begun
  BY <1>1, BegunKept DEF Send, Receive, told, history
<1>3. \A d \in Clients : NextRequest(d)' = NextRequest(d)
  BY <1>2, SameRequest
<1>4. /\ NextRequest(c).op = stage[c]
      /\ stage[c] # "init" => NextRequest(c).id = id[c]
      /\ NextRequest(c) \in Requests
  BY <1>0, RequestsAreMade
<1>5. ClientTypes'
  BY <1>0, <1>1, <1>2 DEF ClientTypes
<1>6. LimitInv'
  BY <1>0, <1>1, <1>2 DEF LimitInv, Live, ChunkLabels
<1>7. IssuedInv'
  BY <1>0, <1>2 DEF IssuedInv
<1>8. CallsInv'
  <2>1. \A d \in Clients : call[d] \in Handlers => call[d] # k
    <3>1. req[k] = NoRequest
      BY <1>0, <1>1 DEF TypeInv, Shape
    <3>2. \A d \in Clients : call[d] \in Handlers => req[call[d]] \in Requests
      BY <1>0, RequestsAreMade DEF CallsInv
    <3>3. NoRequest \notin Requests
      BY RequestKinds
    <3>4. QED BY <3>1, <3>2, <3>3
  <2>2. ASSUME NEW d \in Clients, call'[d] \in Handlers
        PROVE  stage'[d] # "done" /\ req'[call'[d]] = NextRequest(d)'
    <3>1. CASE d = c
      BY <1>0, <1>1, <1>2, <1>3, <3>1
    <3>2. CASE d # c
      <4>1. call'[d] = call[d] /\ call[d] \in Handlers /\ call[d] # k
        BY <1>0, <1>1, <2>1, <2>2, <3>2
      <4>2. req'[call[d]] = req[call[d]]
        BY <1>0, <1>2, <4>1
      <4>3. QED BY <1>0, <1>2, <1>3, <4>1, <4>2 DEF CallsInv
    <3>3. QED BY <3>1, <3>2
  <2>3. \A d, e \in Clients : call'[d] \in Handlers /\ call'[d] = call'[e] => d = e
    BY <1>0, <1>1, <2>1 DEF CallsInv
  <2>4. QED BY <1>0, <1>2, <2>2, <2>3 DEF CallsInv
<1>9. ASSUME NEW u \in Uploads \ tied PROVE OwnerOf(u)'
  <2>1. OwnerOf(u)
    BY <1>9 DEF SystemInv
  <2>2. /\ \A h \in Handlers : h # k => (Writes(h, u)' <=> Writes(h, u))
        /\ Writes(k, u)' => stage[c] \in {"chunk", "commit"} /\ id[c] = u
    <3>1. \A h \in Handlers : h # k => req'[h] = req[h]
      BY <1>0, <1>2
    <3>2. req'[k] = NextRequest(c)
      BY <1>0, <1>2
    <3>3. QED BY <1>4, <3>1, <3>2 DEF Writes
  <2>3. ASSUME NEW h \in Handlers, Writes(h, u)'
        PROVE  \E d \in Clients : id'[d] = u /\ (call'[d] = h \/ Leaving(d)')
    <3>1. CASE h = k
      BY <1>0, <1>1, <1>2, <2>2, <2>3, <3>1
    <3>2. CASE h # k
      <4>1. PICK d \in Clients : id[d] = u /\ (call[d] = h \/ Leaving(d))
        BY <2>1, <2>2, <2>3, <3>2 DEF OwnerOf
      <4>2. d # c \/ Leaving(d)
        BY <1>0, <4>1, CallsAssumption
      <4>3. call'[d] = h \/ Leaving(d)'
        BY <1>0, <1>1, <1>2, <4>1, <4>2 DEF Leaving
      <4>4. QED BY <1>2, <4>1, <4>3
    <3>3. QED BY <3>1, <3>2
  <2>4. ASSUME NEW h \in Handlers, h # k, Writes(h, u), Writes(k, u)'
        PROVE  FALSE
    <3>1. PICK d \in Clients : id[d] = u /\ (call[d] = h \/ Leaving(d))
      BY <2>1, <2>4 DEF OwnerOf
    <3>2. d = c
      BY <2>1, <2>2, <2>4, <3>1 DEF OwnerOf
    <3>3. QED BY <1>0, <2>2, <2>4, <3>1, <3>2, CallsAssumption DEF Leaving
  <2>5. \A g, h \in Handlers : Writes(g, u)' /\ Writes(h, u)' => g = h
    BY <2>1, <2>2, <2>4 DEF OwnerOf
  <2>6. QED BY <1>2, <2>1, <2>3, <2>5 DEF OwnerOf
<1>10. QED BY <1>2, <1>5, <1>6, <1>7, <1>8, <1>9 DEF SystemInv

-----------------------------------------------------------------------------
(* A thread of the server takes its next step, and a reply is heard.       *)

LEMMA ServedIds ==
    ASSUME TypeInv, IssuedInv, NEW h \in Handlers, HandlerStep(h)
    PROVE  /\ IssuedInv'
           /\ tied \subseteq tied' /\ Begun \subseteq Begun'
           /\ \A u \in Uploads \ tied' : OwnerOf(u) =>
                  /\ \A g \in Handlers : newId'[g] = u => u \notin Begun'
                  /\ \A f, g \in Handlers : newId'[f] = u /\ newId'[g] = u => f = g
           /\ pc[h] = "register" /\ pc'[h] = "idle" =>
                  /\ newId[h] \in Uploads /\ Begun' = Begun \cup {newId[h]}
<1>1. /\ \A g \in Handlers : g # h => newId'[g] = newId[g]
      /\ Allocates(h) \/ Registers(h) \/ Proceeds(h)
      /\ newId \in [Handlers -> Uploads \cup {NoId}]
      /\ NoId \notin Uploads
      /\ newId[h] # NoId <=> pc[h] \in {"clear", "create", "register"}
  BY HandlerEffects, NoneAssumption DEF OthersWait, TypeInv, TypeOK, Shape
<1>2. CASE Allocates(h)
  <2>1. PICK v \in Uploads :
            /\ newId[h] = NoId /\ newId'[h] = v
            /\ issued' = issued \cup {v} /\ tied' = tied \cup ({v} \cap issued)
            /\ Begun' = Begun
    BY <1>2 DEF Allocates
  <2>2. IssuedInv'
    BY <1>1, <2>1 DEF IssuedInv
  <2>3. ASSUME NEW u \in Uploads \ tied', OwnerOf(u)
        PROVE  /\ \A g \in Handlers : newId'[g] = u => u \notin Begun'
               /\ \A f, g \in Handlers : newId'[f] = u /\ newId'[g] = u => f = g
    <3>1. u = v => u \notin issued
      BY <2>1, <2>3
    <3>2. CASE u = v
      BY <1>1, <2>1, <3>1, <3>2 DEF IssuedInv
    <3>3. CASE u # v
      BY <1>1, <2>1, <2>3, <3>3 DEF OwnerOf
    <3>4. QED BY <3>2, <3>3
  <2>4. QED BY <1>1, <2>1, <2>2, <2>3
<1>3. CASE Registers(h)
  <2>1. IssuedInv'
    BY <1>1, <1>3 DEF IssuedInv, Registers
  <2>2. ASSUME NEW u \in Uploads \ tied', OwnerOf(u)
        PROVE  /\ \A g \in Handlers : newId'[g] = u => u \notin Begun'
               /\ \A f, g \in Handlers : newId'[f] = u /\ newId'[g] = u => f = g
    BY <1>1, <1>3, <2>2 DEF OwnerOf, Registers
  <2>3. QED BY <1>1, <1>3, <2>1, <2>2 DEF Registers
<1>4. CASE Proceeds(h)
  <2>1. IssuedInv'
    BY <1>1, <1>4 DEF IssuedInv, Proceeds
  <2>2. ASSUME NEW u \in Uploads \ tied', OwnerOf(u)
        PROVE  /\ \A g \in Handlers : newId'[g] = u => u \notin Begun'
               /\ \A f, g \in Handlers : newId'[f] = u /\ newId'[g] = u => f = g
    BY <1>1, <1>4, <2>2 DEF OwnerOf, Proceeds
  <2>3. QED BY <1>4, <2>1, <2>2 DEF Proceeds
<1>5. QED BY <1>1, <1>2, <1>3, <1>4

LEMMA ServedSizes ==
    ASSUME TypeInv, TypeInv', LimitInv, NEW h \in Handlers, HandlerStep(h)
    PROVE  LimitInv'
<1>1. OthersWait(h) /\ SizesKept(h)
  BY HandlerEffects
<1>2. ASSUME NEW u \in Uploads, uploads'[u] # NoSession
      PROVE  uploads'[u].expected <= MaxUploadFileSize
  <2>1. CASE uploads[u] # NoSession /\ uploads'[u].expected = uploads[u].expected
    BY <2>1 DEF LimitInv, Live
  <2>2. CASE pc[h] = "register" /\ uploads'[u].expected = req[h].size
    <3>1. req[h] \in InitRequest /\ ~InitRefused(req[h])
      BY <2>2 DEF TypeInv, Shape
    <3>2. req[h].size \in Nat /\ MaxUploadFileSize \in Nat
      BY <3>1, SizesAssumption DEF InitRequest
    <3>3. QED BY <2>2, <3>1, <3>2 DEF InitRefused
  <2>3. QED BY <1>1, <1>2, <2>1, <2>2 DEF SizesKept
<1>3. ASSUME NEW g \in Handlers, pc'[g] \in ChunkLabels
      PROVE  req'[g].offset + Len(req'[g].content) <= MaxUploadFileSize
  <2>1. req'[g] = req[g]
    <3>1. req'[g] # NoRequest
      BY <1>3, RequestKinds DEF TypeInv, Shape, ChunkLabels
    <3>2. QED BY <1>1, <3>1 DEF OthersWait
  <2>2. CASE pc[g] \in ChunkLabels
    BY <2>1, <2>2 DEF LimitInv
  <2>3. CASE pc[g] \notin ChunkLabels
    <3>1. g = h /\ UploadChunkAccept(h)
      BY <1>1, <1>3, <2>3 DEF OthersWait, SizesKept
    <3>2. PICK u : u = req[h].id
      OBVIOUS
    <3>3. /\ uploads[u] # NoSession /\ u \in Uploads
          /\ req[h].offset = uploads[u].received
          /\ uploads[u].received + Len(req[h].content) <= uploads[u].expected
          /\ req[h] \in ChunkRequest
      BY <3>1, <3>2, RequestKinds DEF UploadChunkAccept, At, ChunkAcceptable, Live,
         OffsetExpected, Fits, TypeInv, TypeOK, NoRequest, ChunkRequest
    <3>4. /\ uploads[u].expected <= MaxUploadFileSize
          /\ uploads[u].expected \in Nat /\ uploads[u].received \in Nat
          /\ MaxUploadFileSize \in Nat /\ Len(req[h].content) \in Nat
      BY <3>3, SizesAssumption, ChunksAssumption, LenProperties
      DEF LimitInv, Live, TypeInv, TypeOK, Session, ChunkRequest
    <3>5. QED BY <2>1, <3>1, <3>3, <3>4
  <2>4. QED BY <2>2, <2>3
<1>4. QED BY <1>2, <1>3 DEF LimitInv, Live
LEMMA ServedCalls ==
    ASSUME TypeInv, TypeInv', NEW h \in Handlers, HandlerStep(h)
    PROVE  /\ \A g \in Handlers : req'[g] = req[g] \/ (g = h /\ req'[g] = NoRequest)
           /\ pc'[h] = "idle" => req'[h] = NoRequest
           /\ pc'[h] # "idle" => req'[h] = req[h]
           /\ \A g \in Handlers, u \in Uploads :
                  Writes(g, u)' => Writes(g, u) /\ req'[g] = req[g]
<1>1. OthersWait(h)
  BY HandlerEffects
<1>2. /\ pc'[h] = "idle" => req'[h] = NoRequest
      /\ pc'[h] # "idle" => req'[h] # NoRequest
  BY RequestKinds DEF TypeInv, Shape
<1>3. \A g \in Handlers : req'[g] = req[g] \/ (g = h /\ req'[g] = NoRequest)
  BY <1>1 DEF OthersWait
<1>4. ASSUME NEW g \in Handlers, NEW u \in Uploads, Writes(g, u)'
      PROVE  Writes(g, u) /\ req'[g] = req[g]
  <2>1. req'[g] # NoRequest
    BY <1>4 DEF Writes, NoRequest
  <2>2. req'[g] = req[g]
    BY <1>3, <2>1
  <2>3. QED BY <1>4, <2>2 DEF Writes
<1>5. QED BY <1>1, <1>2, <1>3, <1>4 DEF OthersWait

(* A handler goes on, or replies to a client that gave up.                 *)
LEMMA ServeUnheard ==
    ASSUME SystemInv, TypeInv', NEW h \in Handlers, HandlerStep(h),
           UNCHANGED <<server, client>>,
           pc'[h] # "idle" \/ \A c \in Clients : call[c] # h
    PROVE  SystemInv'
<1>0. /\ TypeInv /\ ClientTypes /\ CallsInv /\ LimitInv /\ IssuedInv
      /\ UNCHANGED <<server, declared, stage, id, offset, call>>
      /\ \A c \in Clients : NextRequest(c)' = NextRequest(c)
  BY SameRequest DEF SystemInv, client
<1>1. ClientTypes' /\ LimitInv' /\ IssuedInv' /\ Begun \subseteq Begun' /\ tied \subseteq tied'
  BY <1>0, ServedSizes, ServedIds DEF ClientTypes
<1>2. CallsInv'
  <2>1. \A c \in Clients : call[c] \in Handlers => req'[call[c]] = req[call[c]]
    BY <1>0, ServedCalls
  <2>2. QED BY <1>0, <1>1, <2>1 DEF CallsInv
<1>3. ASSUME NEW u \in Uploads \ tied' PROVE OwnerOf(u)'
  <2>1. OwnerOf(u)
    BY <1>1, <1>3 DEF SystemInv
  <2>2. /\ \A g \in Handlers : newId'[g] = u => u \notin Begun'
        /\ \A f, g \in Handlers : newId'[f] = u /\ newId'[g] = u => f = g
    BY <1>0, <2>1, ServedIds
  <2>3. \A g \in Handlers : Writes(g, u)' => Writes(g, u)
    BY <1>0, ServedCalls
  <2>4. ASSUME NEW g \in Handlers, Writes(g, u)'
        PROVE  \E c \in Clients : id'[c] = u /\ (call'[c] = g \/ Leaving(c)')
    BY <1>0, <2>1, <2>3, <2>4 DEF OwnerOf, Leaving
  <2>5. /\ \A f, g \in Handlers : Writes(f, u)' /\ Writes(g, u)' => f = g
        /\ \A c \in Clients : id'[c] = u => u \in Begun'
        /\ \A c, d \in Clients : id'[c] = u /\ id'[d] = u => c = d
    BY <1>0, <1>1, <2>1, <2>3 DEF OwnerOf
  <2>6. QED BY <2>2, <2>4, <2>5 DEF OwnerOf
<1>4. QED BY <1>1, <1>2, <1>3 DEF SystemInv

(* A client hears the reply to its call.                                   *)
LEMMA ServeHeard ==
    ASSUME SystemInv, TypeInv', NEW h \in Handlers, HandlerStep(h), UNCHANGED server,
           pc'[h] = "idle", NEW c \in Clients, call[c] = h,
           Hear(c, IF Succeeds(h) THEN "ok" ELSE "error", newId[h])
    PROVE  SystemInv'
<1> DEFINE heard == IF Succeeds(h) THEN "ok" ELSE "error"
<1>0. /\ TypeInv /\ ClientTypes /\ CallsInv /\ LimitInv /\ IssuedInv
      /\ stage \in [Clients -> {"init", "chunk", "commit", "abort", "done"}]
      /\ id \in [Clients -> Uploads \cup {NoId}]
      /\ offset \in [Clients -> Offsets]
      /\ call \in [Clients -> Handlers \cup {NoCall, Broken}]
      /\ newId \in [Handlers -> Uploads \cup {NoId}]
  BY ClientFunctions DEF SystemInv, TypeInv, TypeOK
<1>1. /\ stage[c] # "done" /\ req[h] = NextRequest(c)
      /\ \A d \in Clients : call[d] = h => d = c
  BY <1>0 DEF CallsInv
<1>2. /\ req[h].op = stage[c]
      /\ stage[c] # "init" => req[h].id = id[c]
      /\ stage[c] = "chunk" => req[h].offset = offset[c] /\ req[h].content = NextChunk(c)
  BY <1>0, <1>1, RequestsAreMade
<1>3. heard = "ok" => /\ stage[c] = "init" => pc[h] = "register"
                      /\ stage[c] = "chunk" => pc[h] = "count"
  BY <1>0, <1>2 DEF Succeeds, TypeInv, Shape, ChunkLabels, LateLabels, InitRequest, ChunkRequest
<1>4. /\ LimitInv' /\ IssuedInv' /\ Begun \subseteq Begun' /\ tied \subseteq tied'
      /\ heard = "ok" /\ stage[c] = "init" =>
             newId[h] \in Uploads /\ Begun' = Begun \cup {newId[h]}
  BY <1>0, <1>3, ServedSizes, ServedIds
<1>5. /\ \A d \in Clients : d # c =>
             /\ stage'[d] = stage[d] /\ id'[d] = id[d] /\ offset'[d] = offset[d]
             /\ call'[d] = call[d]
      /\ call'[c] = NoCall /\ declared' = declared
      /\ stage' \in [Clients -> {"init", "chunk", "commit", "abort", "done"}]
      /\ call' \in [Clients -> Handlers \cup {NoCall, Broken}]
      /\ id' = [d \in Clients |-> id'[d]] /\ offset' = [d \in Clients |-> offset'[d]]
      /\ stage'[c] # "init"
      /\ stage[c] \in {"abort", "done"} => stage'[c] \in {"abort", "done"}
      /\ stage[c] = "init" /\ heard # "ok" => stage'[c] = "done"
      /\ stage'[c] = "chunk" =>
             \/ stage[c] = "init" /\ offset'[c] = offset[c] /\ 0 < Len(Payload[c])
             \/ stage[c] = "chunk" /\ offset'[c] < Len(Payload[c])
      /\ id'[c] = IF stage[c] = "init" /\ heard = "ok" THEN newId[h] ELSE id[c]
      /\ offset'[c] = IF stage[c] = "chunk" /\ heard = "ok"
                      THEN offset[c] + Len(NextChunk(c)) ELSE offset[c]
  <2>1. heard \in {"ok", "error", "broken"} /\ Hear(c, heard, newId[h])
    OBVIOUS
  <2>2. QED BY <1>0, <2>1, HearEffects
<1>6. ClientTypes'
  <2>1. id'[c] \in Uploads \cup {NoId}
    BY <1>0, <1>5
  <2>2. offset'[c] \in Offsets
    <3>1. CASE stage[c] = "chunk" /\ heard = "ok"
      <4>1. offset[c] + Len(NextChunk(c)) <= MaxUploadFileSize
        BY <1>0, <1>2, <1>3, <3>1 DEF LimitInv, ChunkLabels
      <4>2. Len(NextChunk(c)) \in Nat
        BY <1>0, <1>2, <1>3, <3>1, ChunksAssumption, LenProperties
        DEF TypeInv, Shape, ChunkLabels, ChunkRequest
      <4>3. QED BY <1>0, <1>5, <3>1, <4>1, <4>2, SizesAssumption DEF Offsets
    <3>2. CASE ~(stage[c] = "chunk" /\ heard = "ok")
      BY <1>0, <1>5, <3>2
    <3>3. QED BY <3>1, <3>2
  <2>3. id' \in [Clients -> Uploads \cup {NoId}] /\ offset' \in [Clients -> Offsets]
    BY <1>0, <1>5, <2>1, <2>2
  <2>4. QED BY <1>0, <1>5, <2>3 DEF ClientTypes
<1>7. CallsInv'
  <2>1. ASSUME NEW d \in Clients
        PROVE  /\ stage'[d] \in {"chunk", "commit", "abort"} => id'[d] \in Begun'
               /\ stage'[d] = "init" => offset'[d] = 0
               /\ stage'[d] = "chunk" => offset'[d] < Len(Payload[d])
               /\ call'[d] \in Handlers =>
                      stage'[d] # "done" /\ req'[call'[d]] = NextRequest(d)'
    <3>1. CASE d = c
      <4>1. stage'[c] \in {"chunk", "commit", "abort"} => id'[c] \in Begun'
        BY <1>0, <1>1, <1>4, <1>5 DEF CallsInv
      <4>2. stage'[c] = "chunk" => offset'[c] < Len(Payload[c])
        BY <1>0, <1>5 DEF CallsInv
      <4>3. QED BY <1>5, <3>1, <4>1, <4>2, CallsAssumption
    <3>2. CASE d # c
      <4>1. call[d] \in Handlers => req'[call[d]] = req[call[d]]
        BY <1>0, <1>1, <3>2, ServedCalls
      <4>2. NextRequest(d)' = NextRequest(d)
        BY <1>5, <3>2, SameRequest
      <4>3. QED BY <1>0, <1>4, <1>5, <3>2, <4>1, <4>2 DEF CallsInv
    <3>3. QED BY <3>1, <3>2
  <2>2. \A d, e \in Clients : call'[d] \in Handlers /\ call'[d] = call'[e] => d = e
    BY <1>0, <1>5, CallsAssumption DEF CallsInv
  <2>3. QED BY <2>1, <2>2 DEF CallsInv
<1>8. ASSUME NEW u \in Uploads \ tied' PROVE OwnerOf(u)'
  <2>1. OwnerOf(u)
    BY <1>4, <1>8 DEF SystemInv
  <2>2. /\ \A g \in Handlers : newId'[g] = u => u \notin Begun'
        /\ \A f, g \in Handlers : newId'[f] = u /\ newId'[g] = u => f = g
    BY <1>0, <2>1, ServedIds
  <2>3. id'[c] = u => id[c] = u \/ (newId[h] = u /\ u \in Begun' /\ u \notin Begun)
    BY <1>4, <1>5, <2>1 DEF OwnerOf
  <2>4. \A d \in Clients : id'[d] = u => u \in Begun'
    BY <1>4, <1>5, <2>1, <2>3 DEF OwnerOf
  <2>5. \A d, e \in Clients : id'[d] = u /\ id'[e] = u => d = e
    BY <1>5, <2>1, <2>3 DEF OwnerOf
  <2>6. ASSUME NEW g \in Handlers, Writes(g, u)'
        PROVE  \E d \in Clients : id'[d] = u /\ (call'[d] = g \/ Leaving(d)')
    <3>1. Writes(g, u) /\ g # h
      <4>1. req'[h] = NoRequest
        BY <1>0, ServedCalls
      <4>2. QED BY <1>0, <2>6, <4>1, ServedCalls DEF Writes, NoRequest
    <3>2. PICK d \in Clients : id[d] = u /\ (call[d] = g \/ Leaving(d))
      BY <2>1, <3>1 DEF OwnerOf
    <3>3. CASE d # c
      <4>1. id'[d] = u /\ (call'[d] = g \/ Leaving(d)')
        BY <1>5, <3>2, <3>3 DEF Leaving
      <4>2. QED BY <4>1
    <3>4. CASE d = c
      <4>1. stage[c] \in {"abort", "done"}
        BY <3>1, <3>2, <3>4 DEF Leaving
      <4>2. id'[c] = u /\ Leaving(c)'
        BY <1>5, <3>2, <3>4, <4>1 DEF Leaving
      <4>3. QED BY <4>2
    <3>5. QED BY <3>3, <3>4
  <2>7. \A f, g \in Handlers : Writes(f, u)' /\ Writes(g, u)' => f = g
    BY <1>0, <2>1, ServedCalls DEF OwnerOf
  <2>8. QED BY <2>2, <2>4, <2>5, <2>6, <2>7 DEF OwnerOf
<1>9. QED BY <1>4, <1>6, <1>7, <1>8 DEF SystemInv

LEMMA ServeStep ==
    ASSUME SystemInv, TypeInv', NEW h \in Handlers, Serve(h)
    PROVE  SystemInv'
<1>1. HandlerStep(h) /\ UNCHANGED server
  BY DEF Serve
<1>2. CASE (pc'[h] # "idle" \/ \A c \in Clients : call[c] # h) /\ UNCHANGED client
  BY <1>1, <1>2, ServeUnheard DEF client
<1>3. CASE /\ pc'[h] = "idle"
           /\ \E c \in Clients :
                  /\ call[c] = h
                  /\ Hear(c, IF Succeeds(h) THEN "ok" ELSE "error", newId[h])
  BY <1>1, <1>3, ServeHeard
<1>4. QED BY <1>2, <1>3 DEF Serve
-----------------------------------------------------------------------------
(* The server crashes: its calls break, but the clients keep their ids.    *)

LEMMA CrashStep ==
    ASSUME SystemInv, TypeInv', ServerCrash
    PROVE  SystemInv'
<1>0. /\ ClientTypes /\ CallsInv /\ IssuedInv
      /\ call \in [Clients -> Handlers \cup {NoCall, Broken}]
      /\ \A u \in Uploads : uploads'[u] = NoSession
      /\ \A h \in Handlers : pc'[h] = "idle" /\ req'[h] = NoRequest /\ newId'[h] = NoId
      /\ call' = [c \in Clients |-> IF call[c] \in Handlers THEN Broken ELSE call[c]]
      /\ UNCHANGED <<opened, issued, tied, server, declared, stage, id, offset>>
      /\ Begun' = Begun
  BY ClientFunctions, BegunKept DEF SystemInv, ServerCrash, Crash, history, told
<1>1. ClientTypes'
  BY <1>0 DEF ClientTypes
<1>2. LimitInv' /\ IssuedInv'
  BY <1>0, CallsAssumption DEF LimitInv, IssuedInv, Live, ChunkLabels
<1>3. CallsInv'
  BY <1>0, CallsAssumption DEF CallsInv
<1>4. ASSUME NEW u \in Uploads \ tied' PROVE OwnerOf(u)'
  <2>1. OwnerOf(u)
    BY <1>0, <1>4 DEF SystemInv
  <2>2. \A h \in Handlers : ~Writes(h, u)' /\ newId'[h] # u
    BY <1>0, NoneAssumption DEF Writes, NoRequest
  <2>3. QED BY <1>0, <2>1, <2>2 DEF OwnerOf
<1>5. QED BY <1>1, <1>2, <1>3, <1>4 DEF SystemInv

LEMMA SystemInvInit == SystemInit => SystemInv
<1> SUFFICES ASSUME SystemInit PROVE SystemInv
  OBVIOUS
<1>0. /\ \A u \in Uploads : uploads[u] = NoSession /\ opened[u] = NoSession
      /\ \A h \in Handlers : pc[h] = "idle" /\ req[h] = NoRequest /\ newId[h] = NoId
      /\ issued = {} /\ tied = {}
  BY DEF SystemInit, RustInit, Init
<1>1. TypeInv
  BY TypeInvInit DEF SystemInit, RustInit
<1>2. ClientTypes
  BY ClientsAssumption, SizesAssumption DEF SystemInit, ClientTypes, Offsets
<1>3. LimitInv
  BY <1>0 DEF LimitInv, Live, ChunkLabels
<1>4. CallsInv
  BY CallsAssumption DEF SystemInit, CallsInv
<1>5. Begun = {}
  BY <1>0 DEF Begun
<1>6. IssuedInv
  BY <1>0, <1>5 DEF IssuedInv
<1>7. ASSUME NEW u \in Uploads PROVE OwnerOf(u)
  BY <1>0, NoneAssumption DEF OwnerOf, SystemInit, Writes, NoRequest
<1>8. QED BY <1>1, <1>2, <1>3, <1>4, <1>6, <1>7 DEF SystemInv

LEMMA SystemInvStep == SystemInv /\ [SystemNext]_systemVars => SystemInv'
<1> SUFFICES ASSUME SystemInv, [SystemNext]_systemVars PROVE SystemInv'
  OBVIOUS
<1>1. TypeInv'
  BY SystemTypeStep DEF SystemInv
<1>2. ASSUME NEW c \in Clients,
             \/ Send(c) \/ LocalError(c)
             \/ NotDelivered(c) \/ ConnectionBreaks(c) \/ HearBroken(c)
      PROVE  SystemInv'
  <2>1. CASE Send(c)
    BY <1>1, <2>1, SendStep
  <2>2. CASE LocalError(c) \/ NotDelivered(c) \/ ConnectionBreaks(c) \/ HearBroken(c)
    BY <1>1, <2>2, BrokenCalls
  <2>3. QED BY <1>2, <2>1, <2>2
<1>3. ASSUME NEW h \in Handlers, Serve(h) PROVE SystemInv'
  BY <1>1, <1>3, ServeStep
<1>4. CASE ServerCrash
  BY <1>1, <1>4, CrashStep
<1>5. CASE UNCHANGED systemVars
  <2>1. /\ UNCHANGED <<uploads, pc, req, newId, opened, issued, tied>>
        /\ UNCHANGED <<server, declared, stage, id, offset, call>>
        /\ Begun' = Begun
    BY <1>5, BegunKept DEF systemVars, client, rustVars, vars, local, history, told
  <2>2. \A c \in Clients : NextRequest(c)' = NextRequest(c)
    BY <2>1, SameRequest
  <2>3. ClientTypes' /\ LimitInv' /\ IssuedInv'
    BY <2>1 DEF SystemInv, ClientTypes, LimitInv, IssuedInv, Live
  <2>4. CallsInv'
    BY <2>1, <2>2 DEF SystemInv, CallsInv
  <2>5. ASSUME NEW u \in Uploads \ tied' PROVE OwnerOf(u)'
    BY <2>1, <2>5 DEF SystemInv, OwnerOf, Writes, Leaving
  <2>6. QED BY <1>1, <2>3, <2>4, <2>5 DEF SystemInv
<1>6. CASE SystemNext
  <2>1. \/ \E c \in Clients : \/ Send(c) \/ LocalError(c)
                              \/ NotDelivered(c) \/ ConnectionBreaks(c) \/ HearBroken(c)
        \/ \E h \in Handlers : Serve(h)
        \/ ServerCrash
    BY <1>6, Zenon DEF SystemNext
  <2>2. QED BY <2>1, <1>2, <1>3, <1>4, Zenon
<1>7. QED BY <1>5, <1>6, Zenon

(* The shipped clients never have two chunks or commits of one upload in   *)
(* flight, whichever server they call and however their calls break: a     *)
(* client that gives up on a call may only abort the upload, and no other  *)
(* client knows the upload's id.  It is the promise of callers that the    *)
(* theorems about the servers take as "careful".                           *)
THEOREM OneWriterOfEachUpload == SystemSpec => []OneWriterPerUpload
<1>1. SystemInv => OneWriterPerUpload
  <2> SUFFICES ASSUME SystemInv, NEW u \in Uploads \ tied
               PROVE  Cardinality(InFlight(u, {"chunk", "commit"})) <= 1
    BY DEF OneWriterPerUpload
  <2>1. \A g, h \in InFlight(u, {"chunk", "commit"}) : g = h
    BY DEF InFlight, SystemInv, OwnerOf, Writes
  <2>2. CASE InFlight(u, {"chunk", "commit"}) = {}
    BY <2>2, FS_EmptySet
  <2>3. CASE \E h : h \in InFlight(u, {"chunk", "commit"})
    <3>1. PICK h : InFlight(u, {"chunk", "commit"}) = {h}
      BY <2>1, <2>3
    <3>2. Cardinality(InFlight(u, {"chunk", "commit"})) = 1
      BY <3>1, FS_Singleton, Zenon
    <3>3. QED BY <3>2
  <2>4. QED BY <2>2, <2>3
<1>2. QED BY <1>1, SystemInvInit, SystemInvStep, PTL DEF SystemSpec
-----------------------------------------------------------------------------
(* What an ok reply means for the session and the .part file.              *)

(* Who makes a .part file, who opens a session, and what a commit leaves.  *)
FilesMade(h) ==
    /\ \A v \in Uploads : part'[v] # NoFile =>
           part[v] # NoFile \/ newId[h] = v \/ newId'[h] = v \/ Writes(h, v)
    /\ \A v \in Uploads : uploads'[v] # NoSession => uploads[v] # NoSession \/ newId[h] = v
    /\ pc'[h] \in LateLabels =>
           part'[req[h].id] = NoFile \/ (pc[h] \in LateLabels /\ UNCHANGED part)
    /\ pc[h] = "erase" => UNCHANGED part /\ uploads'[req[h].id] = NoSession

LEMMA SharedFilesMade ==
    ASSUME TypeInv, NEW h \in Handlers,
           \/ UploadChunkAccept(h) \/ UploadChunkOpen(h) \/ UploadChunkAppend(h)
           \/ UploadChunkAppendFails(h) \/ UploadChunkCount(h) \/ UploadCommitCopy(h)
           \/ ReplaceRename(h) \/ ReplacePermissions(h) \/ UploadCommitErase(h)
           \/ UploadAbortErase(h)
    PROVE  FilesMade(h)
<1>0. /\ uploads \in [Uploads -> Session \cup {NoSession}]
      /\ part \in [Uploads -> Inodes \cup {NoFile}]
      /\ pc \in [Handlers -> Labels]
      /\ pc[h] \in LateLabels \cup CommitLabels => req[h].id \in Uploads
  BY DEF TypeInv, TypeOK, Shape, ControlRequest
<1>1. CASE UploadChunkAccept(h) \/ UploadChunkOpen(h) \/ UploadChunkAppend(h) \/ UploadCommitCopy(h)
  BY <1>0, <1>1 DEF UploadChunkAccept, UploadChunkOpen, UploadChunkAppend, UploadCommitCopy,
     Goto, At, disk, FilesMade, LateLabels
<1>2. CASE UploadChunkAppendFails(h) \/ UploadCommitErase(h)
  BY <1>0, <1>2 DEF UploadChunkAppendFails, WriteFails, UploadCommitErase, Reply, disk,
     FilesMade, LateLabels
<1>3. CASE UploadChunkCount(h)
  <2>1. \A v \in Uploads : uploads'[v] # NoSession => uploads[v] # NoSession
    BY <1>3, CountKeepsSizes
  <2>2. QED BY <1>0, <1>3, <2>1 DEF UploadChunkCount, Reply, disk, FilesMade, LateLabels
<1>4. CASE ReplaceRename(h)
  BY <1>0, <1>4 DEF ReplaceRename, Goto, FilesMade, LateLabels, CommitLabels
<1>5. CASE ReplacePermissions(h)
  BY <1>0, <1>5 DEF ReplacePermissions, Goto, FilesMade, LateLabels
<1>6. CASE UploadAbortErase(h)
  BY <1>0, <1>6 DEF UploadAbortErase, Goto, At, disk, FilesMade, LateLabels
<1>7. QED BY <1>1, <1>2, <1>3, <1>4, <1>5, <1>6

LEMMA CppFilesMade ==
    ASSUME TypeInv, NEW h \in Handlers, Step(h)
    PROVE  FilesMade(h)
<1>0. /\ uploads \in [Uploads -> Session \cup {NoSession}]
      /\ part \in [Uploads -> Inodes \cup {NoFile}]
      /\ newId \in [Handlers -> Uploads \cup {NoId}]
      /\ pc \in [Handlers -> Labels]
  BY DEF TypeInv, TypeOK
<1>1. CASE Fails(h) \/ UploadAbortDiscard(h)
  BY <1>0, <1>1 DEF Fails, UploadAbortDiscard, Reply, disk, FilesMade, LateLabels
<1>2. CASE UploadInitCreate(h)
  BY <1>0, <1>2 DEF UploadInitCreate, Goto, At, FilesMade, LateLabels
<1>3. CASE UploadInitRegister(h)
  BY <1>0, <1>3 DEF UploadInitRegister, Reply, disk, FilesMade, LateLabels
<1>4. CASE UploadChunkRecreate(h)
  <2>1. req[h].op = "chunk"
    BY <1>4 DEF UploadChunkRecreate, TypeInv, Shape, ChunkLabels, ChunkRequest
  <2>2. QED BY <1>0, <1>4, <2>1 DEF UploadChunkRecreate, Goto, FilesMade, LateLabels, Writes
<1>5. CASE CommitAdvances(h) \/ UploadChunkCloseFails(h) \/ ReplaceStatus(h) \/ ReplaceRemove(h)
  BY <1>0, <1>5 DEF CommitAdvances, UploadChunkCloseFails, WriteFails, ReplaceStatus,
     ReplaceRemove, Goto, disk, FilesMade, LateLabels
<1>6. QED BY StepKinds, SharedFilesMade, <1>1, <1>2, <1>3, <1>4, <1>5

LEMMA RustFilesMade ==
    ASSUME TypeInv, NEW h \in Handlers, RustStep(h)
    PROVE  FilesMade(h)
<1>0. /\ uploads \in [Uploads -> Session \cup {NoSession}]
      /\ part \in [Uploads -> Inodes \cup {NoFile}]
      /\ newId \in [Handlers -> Uploads \cup {NoId}]
      /\ pc \in [Handlers -> Labels]
  BY DEF TypeInv, TypeOK
<1>1. CASE RustFails(h) \/ upload_abort_unlink(h)
  BY <1>0, <1>1 DEF RustFails, upload_abort_unlink, Reply, disk, FilesMade, LateLabels
<1>2. CASE upload_init_allocate(h)
  BY <1>0, <1>2 DEF upload_init_allocate, AfterLook, Goto, At, disk, FilesMade, LateLabels
<1>3. CASE upload_init_clear(h) \/ upload_init_create(h)
  BY <1>0, <1>3 DEF upload_init_clear, upload_init_create, Goto, FilesMade, LateLabels
<1>4. CASE upload_init_register(h)
  BY <1>0, <1>4 DEF upload_init_register, Reply, disk, FilesMade, LateLabels
<1>5. CASE RustMoves(h)
  BY <1>0, <1>5 DEF RustMoves, Checks, Goto, disk, FilesMade, LateLabels
<1>6. CASE replace_file_metadata(h) \/ replace_file_remove(h)
  BY <1>0, <1>6 DEF replace_file_metadata, replace_file_remove, Goto, disk, FilesMade,
     LateLabels
<1>7. CASE upload_chunk_write_fails(h)
  BY <1>7, SharedFilesMade DEF upload_chunk_write_fails
<1>8. QED BY RustKinds, SharedFilesMade, <1>1, <1>2, <1>3, <1>4, <1>5, <1>6, <1>7

LEMMA HandlerFilesMade ==
    ASSUME TypeInv, NEW h \in Handlers, HandlerStep(h)
    PROVE  FilesMade(h)
BY CppFilesMade, RustFilesMade DEF HandlerStep, Step, RustStep
LEMMA HearResult ==
    ASSUME ClientTypes, result \in [Clients -> {"none", "ok", "error"}],
           NEW c \in Clients, NEW heard, NEW u, Hear(c, heard, u)
    PROVE  /\ \A d \in Clients : d # c => result'[d] = result[d]
           /\ result' \in [Clients -> {"none", "ok", "error"}]
           /\ result'[c] = "ok" /\ result[c] # "ok" =>
                  /\ stage[c] = "commit" /\ heard = "ok"
                  /\ stage'[c] = "done" /\ id'[c] = id[c]
<1>1. /\ stage' = [stage EXCEPT ![c] = AfterCall(c, heard)]
      /\ id' = [id EXCEPT ![c] = IF stage[c] = "init" /\ heard = "ok" THEN u ELSE @]
      /\ result' = [result EXCEPT ![c] =
                     IF AfterCall(c, heard) = "done" THEN Returned(c, heard) ELSE @]
  BY DEF Hear
<1>2. /\ Returned(c, heard) \in {"ok", "error"}
      /\ Returned(c, heard) = "ok" => stage[c] = "commit" /\ heard = "ok"
      /\ stage[c] = "commit" /\ heard = "ok" => AfterCall(c, heard) = "done"
  BY DEF Returned, AfterCall
<1>3. QED BY <1>1, <1>2, ClientFunctions

LEMMA CleanServe ==
    ASSUME SystemInv, SystemInv', CleanInv, NEW h \in Handlers, Serve(h)
    PROVE  CleanInv'
<1>0. /\ TypeInv /\ TypeInv' /\ ClientTypes /\ CallsInv /\ IssuedInv /\ HandlerStep(h)
      /\ result \in [Clients -> {"none", "ok", "error"}]
      /\ \A u \in Uploads \ tied : OwnerOf(u)
      /\ \A u \in Uploads \ tied' : OwnerOf(u)'
  BY DEF SystemInv, CleanInv, Serve
<1>1. /\ tied \subseteq tied' /\ Begun \subseteq Begun' /\ Begun \subseteq Uploads
      /\ FilesMade(h) /\ OthersWait(h)
      /\ pc'[h] = "idle" => req'[h] = NoRequest
      /\ pc'[h] # "idle" => req'[h] = req[h]
      /\ \A g \in Handlers, u \in Uploads : Writes(g, u)' => Writes(g, u)
  BY <1>0, ServedIds, ServedCalls, HandlerFilesMade, HandlerEffects DEF Begun
<1>2. ASSUME NEW u \in Begun, u \notin tied', ~Writes(h, u)
      PROVE  /\ part[u] = NoFile => part'[u] = NoFile
             /\ ~Live(u) => ~Live(u)'
  <2>1. newId[h] # u /\ newId'[h] # u
    BY <1>0, <1>1, <1>2 DEF OwnerOf
  <2>2. QED BY <1>1, <1>2, <2>1 DEF FilesMade, Live
<1>3. ASSUME NEW g \in Handlers, pc'[g] \in LateLabels, req'[g].id \notin tied'
      PROVE  part'[req'[g].id] = NoFile
  <2>1. req'[g] = req[g] /\ (g # h => pc'[g] = pc[g])
    BY <1>1, <1>3 DEF OthersWait, LateLabels
  <2>2. PICK u \in Uploads : u = req[g].id /\ Writes(g, u)
    BY <1>0, <1>3, <2>1 DEF TypeInv, Shape, LateLabels, ControlRequest, Writes
  <2>3. u \notin tied /\ u \notin tied' /\ u \in Begun
    <3>1. u \notin tied /\ u \notin tied'
      BY <1>1, <1>3, <2>1, <2>2
    <3>2. QED BY <1>0, <2>2, <3>1 DEF OwnerOf
  <2>4. CASE g = h
    BY <1>1, <1>3, <2>1, <2>2, <2>3, <2>4 DEF FilesMade, CleanInv
  <2>5. CASE g # h
    <3>1. ~Writes(h, u)
      BY <1>0, <2>2, <2>3, <2>5 DEF OwnerOf
    <3>2. part[u] = NoFile
      BY <1>3, <2>1, <2>2, <2>3, <2>5 DEF CleanInv
    <3>3. QED BY <1>2, <2>1, <2>2, <2>3, <3>1, <3>2
  <2>6. QED BY <2>4, <2>5
<1>4. ASSUME NEW u \in Begun, u \notin tied', Gone(u)
      PROVE  Gone(u)'
  <2>1. part'[u] = NoFile /\ ~Live(u)'
    BY <1>2, <1>4 DEF Gone
  <2>2. \A g \in Handlers : ~Writes(g, u)'
    BY <1>1, <1>4 DEF Gone
  <2>3. QED BY <2>1, <2>2 DEF Gone
<1>5. ASSUME NEW c \in Clients, result[c] = "ok", stage'[c] = stage[c], id'[c] = id[c]
      PROVE  /\ stage'[c] = "done" /\ id'[c] \in Begun'
             /\ \A u \in Uploads : u = id'[c] /\ u \notin tied' => Gone(u)'
  BY <1>1, <1>4, <1>5 DEF CleanInv
<1>6. CASE UNCHANGED client
  <2>1. result' = result /\ stage' = stage /\ id' = id
    BY <1>6 DEF client
  <2>2. \A c \in Clients : result'[c] = "ok" =>
            /\ stage'[c] = "done" /\ id'[c] \in Begun'
            /\ \A u \in Uploads : u = id'[c] /\ u \notin tied' => Gone(u)'
    BY <1>5, <2>1
  <2>3. QED BY <1>0, <1>1, <1>3, <2>1, <2>2 DEF CleanInv, Begun
<1>7. ASSUME pc'[h] = "idle", NEW c \in Clients, call[c] = h,
             Hear(c, IF Succeeds(h) THEN "ok" ELSE "error", newId[h])
      PROVE  CleanInv'
  <2> DEFINE heard == IF Succeeds(h) THEN "ok" ELSE "error"
  <2>1. /\ \A d \in Clients : d # c => result'[d] = result[d]
        /\ result' \in [Clients -> {"none", "ok", "error"}]
        /\ result'[c] = "ok" /\ result[c] # "ok" =>
               /\ stage[c] = "commit" /\ heard = "ok"
               /\ stage'[c] = "done" /\ id'[c] = id[c]
    <3>1. Hear(c, heard, newId[h])
      BY <1>7
    <3>2. QED BY <1>0, <3>1, HearResult
  <2>2. \A d \in Clients : d # c => stage'[d] = stage[d] /\ id'[d] = id[d]
    <3>1. heard \in {"ok", "error", "broken"} /\ Hear(c, heard, newId[h])
      BY <1>7
    <3>2. QED BY <1>0, <3>1, HearEffects
  <2>3. result[c] # "ok"
    BY <1>0, <1>7 DEF CleanInv, CallsInv
  <2>4. ASSUME NEW u \in Uploads, u = id[c], u \notin tied', stage[c] = "commit", heard = "ok"
        PROVE  u \in Begun /\ Gone(u)'
    <3>1. req[h].op = "commit" /\ req[h].id = u /\ u \in Begun
      <4>1. req[h] = NextRequest(c) /\ u \in Begun
        BY <1>0, <1>7, <2>4 DEF CallsInv
      <4>2. QED BY <1>0, <2>4, <4>1, RequestsAreMade
    <3>2. pc[h] = "erase"
      BY <1>0, <2>4, <3>1 DEF Succeeds, TypeInv, Shape, InitRequest, ChunkLabels, ChunkRequest
    <3>3. part'[u] = NoFile /\ ~Live(u)'
      BY <1>1, <2>4, <3>1, <3>2 DEF FilesMade, CleanInv, LateLabels, Live
    <3>4. \A g \in Handlers : ~Writes(g, u)'
      <4>1. OwnerOf(u) /\ Writes(h, u)
        BY <1>0, <1>1, <2>4, <3>1 DEF Writes
      <4>2. ~Writes(h, u)'
        BY <1>1, <1>7 DEF Writes, NoRequest
      <4>3. QED BY <1>1, <4>1, <4>2 DEF OwnerOf
    <3>5. QED BY <3>1, <3>3, <3>4 DEF Gone
  <2>5. ASSUME NEW d \in Clients, result'[d] = "ok"
        PROVE  /\ stage'[d] = "done" /\ id'[d] \in Begun'
               /\ \A u \in Uploads : u = id'[d] /\ u \notin tied' => Gone(u)'
    <3>1. CASE d # c
      BY <1>5, <2>1, <2>2, <2>5, <3>1
    <3>2. CASE d = c
      <4>1. stage[c] = "commit" /\ heard = "ok" /\ stage'[c] = "done" /\ id'[c] = id[c]
        BY <2>1, <2>3, <2>5, <3>2
      <4>2. id[c] \in Begun
        BY <1>0, <4>1 DEF CallsInv
      <4>3. QED BY <1>1, <2>4, <3>2, <4>1, <4>2
    <3>3. QED BY <3>1, <3>2
  <2>6. QED BY <1>0, <1>1, <1>3, <2>1, <2>5 DEF CleanInv, Begun
<1>8. QED BY <1>6, <1>7 DEF Serve
LEMMA CleanStep ==
    ASSUME SystemInv, SystemInv', CleanInv, [SystemNext]_systemVars
    PROVE  CleanInv'
<1>0. /\ TypeInv /\ ClientTypes /\ CallsInv
      /\ result \in [Clients -> {"none", "ok", "error"}]
      /\ pc \in [Handlers -> Labels] /\ req \in [Handlers -> Requests \cup {NoRequest}]
  BY DEF SystemInv, CleanInv, TypeInv, TypeOK
<1>1. ASSUME NEW c \in Clients, Send(c) PROVE CleanInv'
  <2>1. PICK k \in Handlers : /\ pc' = [pc EXCEPT ![k] = "received"]
                              /\ req' = [req EXCEPT ![k] = NextRequest(c)]
    BY <1>1 DEF Send, IdleHandler, IdleHandlers, Receive
  <2>2. UNCHANGED <<uploads, part, opened, tied, id, stage, result>> /\ stage[c] # "done"
    BY <1>1 DEF Send, Sending, Receive, told, history, disk
  <2>3. /\ stage[c] # "init" => NextRequest(c).id = id[c]
        /\ NextRequest(c).op = stage[c]
    BY <1>0, <2>2, RequestsAreMade
  <2>4. ASSUME NEW d \in Clients, NEW h \in Handlers, NEW u \in Uploads,
               result[d] = "ok", u = id[d], u \notin tied, Writes(h, u)'
        PROVE  Writes(h, u)
    <3>1. CASE h = k
      <4>1. id[c] = u
        BY <1>0, <2>1, <2>3, <2>4, <3>1 DEF Writes
      <4>2. c = d
        BY <2>4, <4>1 DEF SystemInv, OwnerOf
      <4>3. QED BY <2>2, <2>4, <4>2 DEF CleanInv
    <3>2. CASE h # k
      BY <1>0, <2>1, <2>4, <3>2 DEF Writes
    <3>3. QED BY <3>1, <3>2
  <2>5. ASSUME NEW u \in Begun, u \notin tied, Gone(u), NEW d \in Clients, result[d] = "ok", u = id[d]
        PROVE  Gone(u)'
    BY <2>2, <2>4, <2>5 DEF Gone, Live, Begun
  <2>6. Begun' = Begun
    BY <2>2, BegunKept
  <2>7. ASSUME NEW h \in Handlers, pc'[h] \in LateLabels
        PROVE  pc[h] \in LateLabels /\ req'[h] = req[h]
    BY <1>0, <2>1, <2>7 DEF LateLabels
  <2>8. QED BY <2>2, <2>5, <2>6, <2>7 DEF CleanInv
<1>2. ASSUME NEW c \in Clients,
             LocalError(c) \/ NotDelivered(c) \/ ConnectionBreaks(c) \/ HearBroken(c)
      PROVE  CleanInv'
  <2>1. UNCHANGED <<uploads, part, opened, tied, pc, req>>
    BY <1>2 DEF LocalError, NotDelivered, ConnectionBreaks, HearBroken, rustVars, vars, disk,
       local, history, told
  <2>2. /\ result' \in [Clients -> {"none", "ok", "error"}]
        /\ \A d \in Clients : result'[d] = "ok" =>
               result[d] = "ok" /\ stage'[d] = "done" /\ id'[d] = id[d]
    <3>1. CASE LocalError(c)
      BY <1>0, <3>1, ClientFunctions DEF LocalError, CleanInv
    <3>2. CASE Hear(c, "broken", NoId)
      <4>1. /\ \A d \in Clients : d # c => result'[d] = result[d]
            /\ result' \in [Clients -> {"none", "ok", "error"}]
            /\ result'[c] = "ok" => result[c] = "ok"
        BY <1>0, <3>2, HearResult
      <4>2. /\ \A d \in Clients : d # c => stage'[d] = stage[d] /\ id'[d] = id[d]
            /\ stage[c] \in {"abort", "done"} => stage'[c] = "done"
            /\ stage[c] # "init" => id'[c] = id[c]
        BY <1>0, <3>2, HearEffects
      <4>3. QED BY <4>1, <4>2 DEF CleanInv
    <3>3. QED BY <1>2, <3>1, <3>2 DEF NotDelivered, ConnectionBreaks, HearBroken
  <2>3. Begun' = Begun
    BY <2>1, BegunKept
  <2>4. ASSUME NEW u \in Uploads, Gone(u) PROVE Gone(u)'
    BY <2>1, <2>4 DEF Gone, Live, Writes
  <2>5. QED BY <2>1, <2>2, <2>3, <2>4 DEF CleanInv, Begun
<1>3. CASE ServerCrash
  <2>1. /\ \A u \in Uploads : uploads'[u] = NoSession
        /\ \A h \in Handlers : pc'[h] = "idle" /\ req'[h] = NoRequest
        /\ UNCHANGED <<part, opened, tied, stage, id, result>>
    BY <1>3 DEF ServerCrash, Crash, disk, history, told
  <2>2. Begun' = Begun
    BY <2>1, BegunKept
  <2>3. ASSUME NEW u \in Uploads, Gone(u) PROVE Gone(u)'
    BY <2>1, <2>3 DEF Gone, Live, Writes, NoRequest
  <2>4. QED BY <2>1, <2>2, <2>3 DEF CleanInv, LateLabels, Begun
<1>4. CASE UNCHANGED systemVars
  <2>1. UNCHANGED <<uploads, part, opened, tied, pc, req, stage, id, result>>
    BY <1>4 DEF systemVars, client, rustVars, vars, disk, local, history, told
  <2>2. Begun' = Begun
    BY <2>1, BegunKept
  <2>3. ASSUME NEW u \in Uploads, Gone(u) PROVE Gone(u)'
    BY <2>1, <2>3 DEF Gone, Live, Writes
  <2>4. QED BY <2>1, <2>2, <2>3 DEF CleanInv, Begun
<1>5. ASSUME SystemNext PROVE CleanInv'
  <2>1. \/ \E c \in Clients : Send(c)
        \/ \E c \in Clients :
               LocalError(c) \/ NotDelivered(c) \/ ConnectionBreaks(c) \/ HearBroken(c)
        \/ \E h \in Handlers : Serve(h)
        \/ ServerCrash
    BY <1>5, Zenon DEF SystemNext
  <2>2. ASSUME NEW h \in Handlers, Serve(h) PROVE CleanInv'
    BY <2>2, CleanServe
  <2>3. QED BY <2>1, <2>2, <1>1, <1>2, <1>3, Zenon
<1>6. QED BY <1>4, <1>5, Zenon

LEMMA CleanInvInit == SystemInit => CleanInv
BY DEF SystemInit, RustInit, Init, CleanInv, LateLabels

(* A client that was told ok is told the truth about the server: the       *)
(* session is closed and no .part file of it is left, then and ever after, *)
(* whatever crashes or breaks, as long as no other upload got its id.      *)
THEOREM OkLeavesNothing == SystemSpec => []CleanAfterOk
<1>1. SystemInit => SystemInv /\ CleanInv
  BY SystemInvInit, CleanInvInit
<1>2. SystemInv /\ CleanInv /\ [SystemNext]_systemVars => SystemInv' /\ CleanInv'
  BY SystemInvStep, CleanStep
<1>3. CleanInv => CleanAfterOk
  BY DEF CleanInv, CleanAfterOk, Gone
<1>4. QED BY <1>1, <1>2, <1>3, PTL DEF SystemSpec
-----------------------------------------------------------------------------
(* The servers' own invariants hold with these clients, too: all that they *)
(* ask of callers is one writer of an upload.                              *)

LEMMA SystemSteps ==
    ASSUME SystemInv, [SystemNext]_systemVars
    PROVE  /\ server' = server
           /\ server = "cpp"  => [Next]_vars /\ UNCHANGED told
           /\ server = "rust" => [RustNext]_rustVars
           /\ tied \subseteq tied'
<1>0. TypeInv /\ ClientTypes /\ CallsInv /\ IssuedInv
  BY DEF SystemInv
<1>1. ASSUME NEW c \in Clients, Send(c)
      PROVE  server' = server /\ UNCHANGED told /\ Next /\ RustNext
  <2>1. IdleHandler \in Handlers /\ NextRequest(c) \in Requests
    BY <1>0, <1>1, RequestsAreMade DEF Send, Sending, IdleHandler, IdleHandlers
  <2>2. Receive(IdleHandler, NextRequest(c)) /\ UNCHANGED told /\ server' = server
    BY <1>1 DEF Send
  <2>3. QED BY <2>1, <2>2 DEF Next, RustNext
<1>2. ASSUME NEW c \in Clients,
             LocalError(c) \/ NotDelivered(c) \/ ConnectionBreaks(c) \/ HearBroken(c)
      PROVE  UNCHANGED rustVars /\ server' = server
  BY <1>2 DEF LocalError, NotDelivered, ConnectionBreaks, HearBroken
<1>3. ASSUME NEW h \in Handlers, Serve(h)
      PROVE  /\ server' = server /\ tied \subseteq tied'
             /\ server = "cpp"  => Next /\ UNCHANGED told
             /\ server = "rust" => RustNext
  <2>1. HandlerStep(h) /\ server' = server
    BY <1>3 DEF Serve
  <2>2. tied \subseteq tied'
    BY <1>0, <2>1, ServedIds
  <2>3. CASE server = "cpp"
    BY <2>1, <2>2, <2>3 DEF HandlerStep, Step, Next
  <2>4. CASE server = "rust"
    BY <2>1, <2>2, <2>4 DEF HandlerStep, RustStep, RustNext
  <2>5. QED BY <2>1, <2>2, <2>3, <2>4
<1>4. CASE ServerCrash
  BY <1>4 DEF ServerCrash, Next, RustNext, told
<1>5. CASE UNCHANGED systemVars
  BY <1>5 DEF systemVars, rustVars, told
<1>6. CASE SystemNext
  <2>1. \/ \E c \in Clients : Send(c)
        \/ \E c \in Clients :
               LocalError(c) \/ NotDelivered(c) \/ ConnectionBreaks(c) \/ HearBroken(c)
        \/ \E h \in Handlers : Serve(h)
        \/ ServerCrash
    BY <1>6, Zenon DEF SystemNext
  <2>2. QED BY <2>1, <1>1, <1>2, <1>3, <1>4 DEF rustVars, told
<1>7. QED BY <1>5, <1>6

LEMMA OneWriterNow ==
    ASSUME SystemInv, tied = {} PROVE OneWriter
<1>1. \A h \in Handlers : req[h].op \in ById => req[h].id \in Uploads
  BY Labelled DEF SystemInv
<1>2. QED BY <1>1 DEF SystemInv, OwnerOf, Writes, OneWriter, ById

LEMMA OneWriterNext ==
    ASSUME SystemInv', tied' = {} PROVE OneWriter'
<1>1. ASSUME NEW h \in Handlers, req'[h].op \in ById PROVE req'[h].id \in Uploads
  BY <1>1, RequestKinds DEF SystemInv, TypeInv, TypeOK, NoRequest, ById
<1>2. QED BY <1>1 DEF SystemInv, OwnerOf, Writes, OneWriter, ById

LEMMA ServerInvInit == SystemInit => ServerInv
<1>1. Init => IInv
  BY TypeInvInit, IdsInvInit, FilesInvInit, BytesInvInit DEF IInv
<1>2. QED BY <1>1, PlansInvInit, RustInvInit DEF SystemInit, RustInit, ServerInv

LEMMA ServerInvStep ==
    ASSUME DiskFaults = FALSE \/ "cpp" \notin Servers,
           SystemInv, SystemInv', ServerInv, [SystemNext]_systemVars
    PROVE  ServerInv'
<1>1. /\ server' = server /\ tied \subseteq tied' /\ server \in Servers
      /\ server = "cpp"  => [Next]_vars /\ UNCHANGED told /\ DiskFaults = FALSE
      /\ server = "rust" => [RustNext]_rustVars
  BY SystemSteps DEF ServerInv
<1>2. SUFFICES ASSUME tied' = {}
               PROVE  /\ server = "cpp" => (IInv /\ PlansInv /\ torn = {})'
                      /\ server = "rust" => RustInv'
  BY <1>1 DEF ServerInv
<1>3. OneWriter' /\ tied = {}
  BY <1>1, <1>2, OneWriterNext
<1>4. CASE server = "cpp"
  <2>1. IInv /\ PlansInv /\ torn = {} /\ IdsInv /\ TypeInv /\ FilesInv /\ BytesInv
    BY <1>3, <1>4 DEF ServerInv, IInv
  <2>2. TypeInv' /\ IdsInv' /\ FilesInv' /\ BytesInv' /\ PlansInv'
    BY <1>1, <1>3, <1>4, <2>1, TypeInvStep, IdsInvStep, FilesInvStep, BytesInvStep,
       PlansInvStep DEF IdsInv
  <2>3. torn' = {}
    BY <1>1, <1>4, <2>1 DEF told
  <2>4. QED BY <1>4, <2>2, <2>3 DEF IInv
<1>5. CASE server = "rust"
  BY <1>1, <1>3, <1>5, RustInvStep DEF ServerInv
<1>6. QED BY <1>4, <1>5
-----------------------------------------------------------------------------
(* What a step of a handler, of either server, does to the files at the    *)
(* target paths and to what is known of the uploads.                       *)

(* What either server knows of its commits.                                *)
CommitsKnown ==
    \A h \in Handlers : pc[h] \in CommitLabels =>
        /\ ses[h].target = opened[req[h].id].target
        /\ part[req[h].id] # NoFile =>
               req[h].id \in torn \/ data[part[req[h].id]] = accepted[req[h].id]

LEMMA ServersKnow ==
    ASSUME ServerInv, server \in {"cpp", "rust"}, tied = {}
    PROVE  TypeInv /\ FilesInv /\ CommitsKnown
<1>1. CASE server = "cpp"
  BY <1>1 DEF ServerInv, IInv, PlansInv, SamePlan, BytesInv, CommitWhole, CommitsKnown
<1>2. CASE server = "rust"
  <2>1. RustInv /\ TypeInv
    BY <1>2 DEF ServerInv, RustInv, TidyInv
  <2>2. ASSUME NEW h \in Handlers, pc[h] \in CommitLabels, NEW u, u = req[h].id
        PROVE  /\ ses[h].target = opened[u].target
               /\ part[u] # NoFile => u \in torn \/ data[part[u]] = accepted[u]
    <3>1. u \in Uploads /\ ses[h] # NoSession
      BY <2>1, <2>2, Labelled DEF TypeInv, Shape
    <3>2. SessionOf(u) /\ CommitOf(u)
      BY <2>1, <3>1 DEF RustInv, TidyInv, Tidy, BytesOf
    <3>3. QED BY <2>2, <3>1, <3>2 DEF SessionOf, SamePlan, CommitOf, HoldsAccepted
  <2>3. QED BY <2>1, <2>2 DEF RustInv, TidyInv, CommitsKnown
<1>3. QED BY <1>1, <1>2

Kept(t) == target'[t] = target[t] /\ (Exists(t) => data'[target[t]] = data[target[t]])

Vacates(h, t) ==
    /\ pc[h] = "remove" /\ pc'[h] = "rename"
    /\ opened[req[h].id].target = t /\ target'[t] = NoFile

Installs(h, t) ==
    /\ pc[h] = "rename" /\ pc'[h] \in LateLabels
    /\ opened[req[h].id].target = t /\ target'[t] # NoFile
    /\ req[h].id \in torn \/ data'[target'[t]] = accepted[req[h].id]

FilesSeen(h) ==
    /\ \A t \in Targets : Kept(t) \/ Vacates(h, t) \/ Installs(h, t)
    /\ pc'[h] \in LateLabels => pc[h] \in LateLabels \/ \E t \in Targets : Installs(h, t)

LEMMA RenameSeen ==
    ASSUME TypeInv, CommitsKnown, NEW h \in Handlers, ReplaceRename(h)
    PROVE  FilesSeen(h)
<1>0. /\ target \in [Targets -> Inodes \cup {NoFile}]
      /\ pc \in [Handlers -> Labels] /\ data' = data
      /\ pc[h] = "rename" /\ part[req[h].id] # NoFile
      /\ target' = [target EXCEPT ![ses[h].target] = part[req[h].id]]
      /\ ses[h].target \in Targets
  BY Labelled DEF TypeInv, TypeOK, ReplaceRename, CommitLabels, Session
<1>1. pc'[h] \in LateLabels
  BY <1>0 DEF ReplaceRename, Goto, AfterRename, LateLabels
<1>2. Installs(h, ses[h].target)
  BY <1>0, <1>1 DEF Installs, CommitsKnown, CommitLabels
<1>3. \A t \in Targets : t # ses[h].target => Kept(t)
  BY <1>0 DEF Kept
<1>4. QED BY <1>0, <1>1, <1>2, <1>3 DEF FilesSeen

LEMMA NothingSeen ==
    ASSUME TypeInv, FilesInv, NEW h \in Handlers, UNCHANGED target,
           \/ UNCHANGED data
           \/ \E bytes : pc[h] = "append" /\ data' = [data EXCEPT ![fd[h]] = bytes]
           \/ \E i : data' = [data EXCEPT ![i] = <<>>] /\ \A t \in Targets : target[t] # i,
           pc'[h] \in LateLabels => pc[h] \in LateLabels
    PROVE  FilesSeen(h)
<1>1. pc[h] = "append" => fd[h] # NoFile
  BY DEF TypeInv, Shape
<1>2. pc[h] = "append" => \A t \in Targets : target[t] # fd[h]
  BY <1>1 DEF FilesInv, NoWriteToTarget
<1>3. \A t \in Targets : Exists(t) => data'[target[t]] = data[target[t]]
  BY <1>2, NoneAssumption DEF TypeInv, TypeOK, Exists
<1>4. QED BY <1>3 DEF Kept, FilesSeen
LEMMA CppFilesSeen ==
    ASSUME TypeInv, FilesInv, CommitsKnown, NEW h \in Handlers, Step(h)
    PROVE  FilesSeen(h)
<1>0. /\ target \in [Targets -> Inodes \cup {NoFile}]
      /\ pc \in [Handlers -> Labels]
  BY DEF TypeInv, TypeOK
<1>1. CASE UploadInitCreate(h) \/ UploadChunkRecreate(h)
  <2>1. \A t \in Targets : target[t] # NewInode
    BY <1>1, FreshChoices DEF UploadInitCreate, UploadChunkRecreate, InUse
  <2>2. /\ UNCHANGED target /\ data' = [data EXCEPT ![NewInode] = <<>>]
        /\ pc'[h] \in {"register", "append"}
    BY <1>0, <1>1 DEF UploadInitCreate, UploadChunkRecreate, Goto
  <2>3. QED BY <2>1, <2>2, NothingSeen DEF LateLabels
<1>2. CASE UploadChunkAppend(h) \/ UploadChunkAppendFails(h) \/ UploadChunkCloseFails(h)
  <2>1. \E bytes : pc[h] = "append" /\ data' = [data EXCEPT ![fd[h]] = bytes]
    BY <1>2 DEF UploadChunkAppend, UploadChunkAppendFails, UploadChunkCloseFails,
       WriteFails, WriteOut
  <2>2. UNCHANGED target /\ pc'[h] \in {"count", "idle"}
    BY <1>0, <1>2 DEF UploadChunkAppend, UploadChunkAppendFails, UploadChunkCloseFails,
       Goto, Reply
  <2>3. QED BY <2>1, <2>2, NothingSeen DEF LateLabels
<1>3. CASE ReplaceRemove(h)
  <2>1. /\ pc[h] = "remove" /\ pc'[h] = "rename" /\ ses[h].target \in Targets /\ data' = data
        /\ target' = [target EXCEPT ![ses[h].target] = NoFile]
        /\ ses[h].target = opened[req[h].id].target
    BY <1>0, <1>3, Labelled
    DEF ReplaceRemove, Goto, CommitLabels, Session, CommitsKnown
  <2>2. \A t \in Targets : Kept(t) \/ Vacates(h, t)
    BY <1>0, <2>1 DEF Kept, Vacates
  <2>3. QED BY <2>1, <2>2 DEF FilesSeen, LateLabels
<1>4. CASE Fails(h) \/ CommitAdvances(h)
  BY <1>0, <1>4, NothingSeen DEF Fails, CommitAdvances, Goto, Reply, disk, LateLabels
<1>5. CASE \/ UploadInitRegister(h) \/ UploadChunkAccept(h) \/ UploadChunkOpen(h)
           \/ UploadChunkCount(h) \/ UploadCommitCopy(h) \/ ReplaceStatus(h)
  BY <1>0, <1>5, NothingSeen DEF UploadInitRegister, UploadChunkAccept, UploadChunkOpen,
     UploadChunkCount, UploadCommitCopy, ReplaceStatus, Goto, Reply, disk, LateLabels
<1>6. CASE \/ ReplacePermissions(h) \/ UploadCommitErase(h)
           \/ UploadAbortErase(h) \/ UploadAbortDiscard(h)
  BY <1>0, <1>6, NothingSeen DEF ReplacePermissions, UploadCommitErase, UploadAbortErase,
     UploadAbortDiscard, Goto, Reply, disk, LateLabels
<1>7. QED BY StepKinds, RenameSeen, <1>1, <1>2, <1>3, <1>4, <1>5, <1>6

LEMMA RustFilesSeen ==
    ASSUME TypeInv, FilesInv, CommitsKnown, NEW h \in Handlers, RustStep(h)
    PROVE  FilesSeen(h)
<1>0. /\ target \in [Targets -> Inodes \cup {NoFile}]
      /\ pc \in [Handlers -> Labels]
      /\ \A t \in Targets : Exists(t) => data'[target[t]] = data[target[t]]
  BY DataElsewhere DEF TypeInv, TypeOK
<1>1. ASSUME UNCHANGED target, pc'[h] \in LateLabels => pc[h] \in LateLabels
      PROVE  FilesSeen(h)
  BY <1>0, <1>1 DEF FilesSeen, Kept
<1>2. CASE replace_file_remove(h)
  <2>1. /\ pc[h] = "remove" /\ pc'[h] = "rename" /\ ses[h].target \in Targets
        /\ target' = [target EXCEPT ![ses[h].target] = NoFile]
        /\ ses[h].target = opened[req[h].id].target
    BY <1>0, <1>2, Labelled
    DEF replace_file_remove, Goto, CommitLabels, Session, CommitsKnown
  <2>2. \A t \in Targets : Kept(t) \/ Vacates(h, t)
    BY <1>0, <2>1 DEF Kept, Vacates
  <2>3. QED BY <2>1, <2>2 DEF FilesSeen, LateLabels
<1>3. CASE RustFails(h) \/ RustMoves(h)
  BY <1>0, <1>1, <1>3 DEF RustFails, RustMoves, Checks, Goto, Reply, disk, LateLabels
<1>4. CASE upload_init_allocate(h) \/ upload_init_register(h) \/ upload_chunk_write_fails(h)
           \/ upload_init_clear(h) \/ upload_init_create(h)
  BY <1>0, <1>1, <1>4 DEF upload_init_allocate, upload_init_register, AfterLook,
     upload_chunk_write_fails, UploadChunkAppendFails, upload_init_clear,
     upload_init_create, Goto, Reply, disk, LateLabels
<1>5. CASE \/ UploadChunkAccept(h) \/ UploadChunkOpen(h) \/ UploadChunkAppend(h)
           \/ UploadChunkCount(h) \/ UploadCommitCopy(h) \/ replace_file_metadata(h)
  BY <1>0, <1>1, <1>5 DEF UploadChunkAccept, UploadChunkOpen, UploadChunkAppend,
     UploadChunkCount, UploadCommitCopy, replace_file_metadata, Goto, Reply, disk, LateLabels
<1>6. CASE \/ ReplacePermissions(h) \/ UploadCommitErase(h)
           \/ UploadAbortErase(h) \/ upload_abort_unlink(h)
  BY <1>0, <1>1, <1>6 DEF ReplacePermissions, UploadCommitErase, UploadAbortErase,
     upload_abort_unlink, Goto, Reply, disk, LateLabels
<1>7. QED BY RustKinds, RenameSeen, <1>2, <1>3, <1>4, <1>5, <1>6

LEMMA HandlerFilesSeen ==
    ASSUME TypeInv, FilesInv, CommitsKnown, NEW h \in Handlers, HandlerStep(h)
    PROVE  FilesSeen(h)
BY CppFilesSeen, RustFilesSeen DEF HandlerStep, Step, RustStep

(* What is opened, acknowledged and told.                                  *)
UploadsSeen(h) ==
    /\ \/ opened' = opened
       \/ /\ pc[h] = "register" /\ pc'[h] = "idle"
          /\ opened' = [opened EXCEPT ![newId[h]] = NewSession(req[h])]
    /\ \/ accepted' = accepted
       \/ /\ pc[h] = "count" /\ pc'[h] = "idle" /\ Live(req[h].id)
          /\ accepted' = [accepted EXCEPT ![req[h].id] = @ \o req[h].content]
       \/ pc[h] = "register" /\ accepted' = [accepted EXCEPT ![newId[h]] = <<>>]
    /\ pc[h] = "count" /\ Live(req[h].id) =>
           /\ pc'[h] = "idle"
           /\ accepted' = [accepted EXCEPT ![req[h].id] = @ \o req[h].content]
    /\ \/ torn' = torn
       \/ /\ pc[h] = "append" /\ pc'[h] = "idle"
          /\ torn' = torn \cup {req[h].id}

LEMMA HandlerUploadsSeen ==
    ASSUME TypeInv, NEW h \in Handlers, HandlerStep(h)
    PROVE  UploadsSeen(h)
<1>0. pc \in [Handlers -> Labels]
  BY DEF TypeInv, TypeOK
<1>1. CASE server = "cpp"
  <2>1. Step(h) /\ torn' = torn
    BY <1>1 DEF HandlerStep, Step, told
  <2>2. CASE Fails(h) \/ UploadInitRegister(h) \/ UploadChunkCount(h)
             \/ UploadInitCreate(h) \/ UploadChunkRecreate(h)
    BY <1>0, <2>1, <2>2 DEF Fails, UploadInitRegister, UploadChunkCount, UploadInitCreate,
       UploadChunkRecreate, At, Reply, history, UploadsSeen
  <2>3. CASE \/ CommitAdvances(h) \/ UploadChunkAccept(h) \/ UploadChunkOpen(h)
             \/ UploadChunkAppend(h) \/ UploadChunkAppendFails(h)
             \/ UploadChunkCloseFails(h) \/ UploadCommitCopy(h) \/ ReplaceStatus(h)
             \/ ReplaceRemove(h) \/ ReplaceRename(h) \/ ReplacePermissions(h)
             \/ UploadCommitErase(h) \/ UploadAbortErase(h) \/ UploadAbortDiscard(h)
    BY <2>1, <2>3 DEF CommitAdvances, UploadChunkAccept, UploadChunkOpen, UploadChunkAppend,
       UploadChunkAppendFails, UploadChunkCloseFails, WriteFails, UploadCommitCopy,
       ReplaceStatus, ReplaceRemove, ReplaceRename, ReplacePermissions, UploadCommitErase,
       UploadAbortErase, UploadAbortDiscard, At, history, UploadsSeen
  <2>4. QED BY <2>1, <2>2, <2>3, StepKinds
<1>2. CASE server = "rust"
  <2>1. RustStep(h)
    BY <1>2 DEF HandlerStep, RustStep
  <2>2. CASE RustFails(h) \/ upload_init_register(h) \/ upload_chunk_write_fails(h)
             \/ upload_init_allocate(h)
    BY <1>0, <2>1, <2>2 DEF RustFails, upload_init_register, upload_chunk_write_fails,
       UploadChunkAppendFails, WriteFails, upload_init_allocate, At, Reply, history, told,
       UploadsSeen
  <2>3. CASE UploadChunkCount(h) /\ UNCHANGED told
    BY <1>0, <2>3 DEF UploadChunkCount, Reply, told, UploadsSeen
  <2>4. CASE \/ RustMoves(h)
             \/ /\ \/ upload_init_clear(h) \/ upload_init_create(h)
                   \/ UploadChunkAccept(h) \/ UploadChunkOpen(h) \/ UploadChunkAppend(h)
                   \/ UploadCommitCopy(h) \/ replace_file_metadata(h)
                   \/ replace_file_remove(h) \/ ReplaceRename(h)
                   \/ ReplacePermissions(h) \/ UploadCommitErase(h)
                   \/ UploadAbortErase(h) \/ upload_abort_unlink(h)
                /\ UNCHANGED told
    BY <2>4 DEF RustMoves, Checks, upload_init_clear, upload_init_create, UploadChunkAccept,
       UploadChunkOpen, UploadChunkAppend, UploadCommitCopy, replace_file_metadata,
       replace_file_remove, ReplaceRename, ReplacePermissions, UploadCommitErase,
       UploadAbortErase, upload_abort_unlink, At, history, told, UploadsSeen
  <2>5. QED BY <2>1, <2>2, <2>3, <2>4, RustKinds
<1>3. QED BY <1>1, <1>2 DEF HandlerStep

-----------------------------------------------------------------------------
(* What a step of a thread is to the clients.                              *)
Unheard(c, h) ==
    /\ stage'[c] = stage[c] /\ id'[c] = id[c] /\ offset'[c] = offset[c]
    /\ call[c] = h => pc'[h] # "idle"

Opens(c, h) ==
    /\ stage[c] = "init" /\ pc[h] = "register" /\ pc'[h] = "idle"
    /\ req[h].path = Path[c]
    /\ id'[c] = newId[h] /\ offset'[c] = 0 /\ stage'[c] # "init"
    /\ stage'[c] = "commit" => Len(Payload[c]) = 0

Advances(c, h) ==
    /\ call[c] = h /\ stage[c] = "chunk" /\ pc[h] = "count" /\ Live(req[h].id)
    /\ id'[c] = id[c] /\ req[h].id = id[c] /\ req[h].content = NextChunk(c)
    /\ offset'[c] = offset[c] + Len(NextChunk(c)) /\ stage'[c] # "init"
    /\ stage'[c] = "commit" => Len(Payload[c]) <= offset'[c]

Leaves(c) == stage'[c] \in {"abort", "done"} /\ id'[c] = id[c] /\ offset'[c] = offset[c]

LEMMA HearProgress ==
    ASSUME ClientTypes, NEW c \in Clients, NEW heard \in {"ok", "error"}, NEW u,
           Hear(c, heard, u)
    PROVE  /\ stage[c] \in {"chunk", "commit"} /\ heard = "error" =>
                  stage'[c] \in {"abort", "done"}
           /\ stage[c] = "commit" => stage'[c] \in {"abort", "done"}
           /\ stage'[c] = "commit" =>
                  \/ stage[c] = "init" /\ Len(Payload[c]) = 0
                  \/ stage[c] = "chunk" /\ Len(Payload[c]) <= offset[c] + Len(NextChunk(c))
<1>1. stage'[c] = AfterCall(c, heard)
  BY ClientFunctions DEF Hear
<1>2. /\ Len(Payload[c]) \in Nat /\ offset[c] \in Nat
      /\ stage[c] \in {"init", "chunk", "commit", "abort", "done"}
  BY ClientFunctions
<1>3. CASE stage[c] = "init"
  BY <1>1, <1>2, <1>3 DEF AfterCall, ReadOn
<1>4. CASE stage[c] = "chunk"
  <2>1. AfterCall(c, heard) =
            IF heard = "ok" THEN ReadOn(c, offset[c] + Len(NextChunk(c))) ELSE "abort"
    BY <1>4 DEF AfterCall
  <2>2. NextChunk(c) \in Seq(Blocks)
    BY ClientsAssumption, ClientFunctions DEF NextChunk
  <2>3. Len(NextChunk(c)) \in Nat
    BY <2>2
  <2>4. QED BY <1>1, <1>2, <1>4, <2>1, <2>3 DEF ReadOn
<1>5. CASE stage[c] \in {"commit", "abort", "done"}
  BY <1>1, <1>2, <1>5 DEF AfterCall
<1>6. QED BY <1>2, <1>3, <1>4, <1>5

(* The chunk that a client reads next goes on where it stopped.            *)
LEMMA NextChunkGoesOn ==
    ASSUME ClientTypes, NEW c \in Clients, offset[c] < Len(Payload[c])
    PROVE  /\ Len(NextChunk(c)) \in Nat /\ offset[c] + Len(NextChunk(c)) <= Len(Payload[c])
           /\ SubSeq(Payload[c], 1, offset[c]) \o NextChunk(c)
                  = SubSeq(Payload[c], 1, offset[c] + Len(NextChunk(c)))
<1> DEFINE rest == Len(Payload[c]) - offset[c]
           n    == IF rest < ChunkSize THEN rest ELSE ChunkSize
<1>1. /\ Payload[c] \in Seq(Blocks) /\ Len(Payload[c]) \in Nat /\ offset[c] \in Nat
      /\ ChunkSize \in Nat \ {0}
  BY ClientFunctions, ClientsAssumption
<1>2. n \in Nat \ {0} /\ offset[c] + n <= Len(Payload[c])
  BY <1>1
<1>3. NextChunk(c) = SubSeq(Payload[c], offset[c] + 1, offset[c] + n)
  BY DEF NextChunk
<1> HIDE DEF n
<1>4. Len(NextChunk(c)) = n
  <2>1. /\ offset[c] + 1 \in 1 .. Len(Payload[c]) + 1
        /\ offset[c] + n \in 0 .. Len(Payload[c])
        /\ offset[c] + 1 <= offset[c] + n
        /\ (offset[c] + n) - (offset[c] + 1) + 1 = n
    BY <1>1, <1>2
  <2>2. Len(SubSeq(Payload[c], offset[c] + 1, offset[c] + n))
            = (offset[c] + n) - (offset[c] + 1) + 1
    <3>1. PICK p : p = Payload[c] /\ p \in Seq(Blocks)
      BY <1>1
    <3>2. \A i \in offset[c] + 1 .. offset[c] + n : p[i] \in Blocks
      BY <1>1, <1>2, <3>1
    <3>3. offset[c] + 1 \in Int /\ offset[c] + n \in Int
      BY <1>1, <1>2
    <3>4. Len(SubSeq(p, offset[c] + 1, offset[c] + n)) =
              IF offset[c] + 1 <= offset[c] + n
              THEN (offset[c] + n) - (offset[c] + 1) + 1 ELSE 0
      BY <3>2, <3>3, SubSeqProperties
    <3>5. QED BY <2>1, <3>1, <3>4
  <2>3. QED BY <1>3, <2>1, <2>2
<1>5. SubSeq(Payload[c], 1, offset[c]) \o SubSeq(Payload[c], offset[c] + 1, offset[c] + n)
          = SubSeq(Payload[c], 1, offset[c] + n)
  <2>1. /\ 1 \in 1 .. Len(Payload[c]) + 1
        /\ offset[c] \in 1 - 1 .. Len(Payload[c])
        /\ offset[c] + n \in offset[c] .. Len(Payload[c])
    BY <1>1, <1>2
  <2>2. QED BY <1>1, <2>1, ConcatAdjacentSubSeq
<1>6. QED BY <1>2, <1>3, <1>4, <1>5

LEMMA Served ==
    ASSUME SystemInv, NEW h \in Handlers, Serve(h)
    PROVE  /\ HandlerStep(h) /\ server' = server
           /\ \A c \in Clients : Unheard(c, h) \/ Opens(c, h) \/ Advances(c, h) \/ Leaves(c)
<1>0. TypeInv /\ ClientTypes /\ CallsInv
  BY DEF SystemInv
<1>1. HandlerStep(h) /\ server' = server
  BY DEF Serve
<1>2. CASE UNCHANGED client /\ (pc'[h] # "idle" \/ \A c \in Clients : call[c] # h)
  BY <1>1, <1>2 DEF client, Unheard
<1>3. ASSUME NEW c \in Clients, call[c] = h, pc'[h] = "idle",
             Hear(c, IF Succeeds(h) THEN "ok" ELSE "error", newId[h])
      PROVE  \A d \in Clients : Unheard(d, h) \/ Opens(d, h) \/ Advances(d, h) \/ Leaves(d)
  <2> DEFINE heard == IF Succeeds(h) THEN "ok" ELSE "error"
  <2>0. heard \in {"ok", "error"} /\ Hear(c, heard, newId[h])
    BY <1>3
  <2>1. /\ stage[c] # "done" /\ req[h] = NextRequest(c)
        /\ \A d \in Clients : call[d] = h => d = c
    BY <1>0, <1>3 DEF CallsInv
  <2>2. /\ req[h].op = stage[c]
        /\ stage[c] # "init" => req[h].id = id[c]
        /\ stage[c] = "chunk" => req[h].content = NextChunk(c)
    BY <1>0, <2>1, RequestsAreMade
  <2>3. heard = "ok" => /\ stage[c] = "init" => pc[h] = "register"
                        /\ stage[c] = "chunk" => pc[h] = "count" /\ Live(req[h].id)
    BY <1>0, <2>2
    DEF Succeeds, TypeInv, Shape, ChunkLabels, LateLabels, InitRequest, ChunkRequest,
        ControlRequest
  <2>4. /\ \A d \in Clients : d # c =>
               stage'[d] = stage[d] /\ id'[d] = id[d] /\ offset'[d] = offset[d]
        /\ stage'[c] # "init"
        /\ stage[c] = "init" /\ heard # "ok" => stage'[c] = "done"
        /\ stage[c] \in {"abort", "done"} => stage'[c] = "done"
        /\ id'[c] = IF stage[c] = "init" /\ heard = "ok" THEN newId[h] ELSE id[c]
        /\ offset'[c] = IF stage[c] = "chunk" /\ heard = "ok"
                        THEN offset[c] + Len(NextChunk(c)) ELSE offset[c]
    <3> HIDE DEF heard
    <3>1. heard \in {"ok", "error", "broken"}
      BY <2>0
    <3>2. QED BY <1>0, <2>0, <3>1, HearEffects
  <2>5. /\ stage[c] \in {"chunk", "commit"} /\ heard = "error" => stage'[c] \in {"abort", "done"}
        /\ stage[c] = "commit" => stage'[c] \in {"abort", "done"}
        /\ stage'[c] = "commit" =>
               \/ stage[c] = "init" /\ Len(Payload[c]) = 0
               \/ stage[c] = "chunk" /\ Len(Payload[c]) <= offset[c] + Len(NextChunk(c))
    <3> HIDE DEF heard
    <3>1. QED BY <1>0, <2>0, HearProgress
  <2> HIDE DEF heard
  <2>6. CASE stage[c] = "init" /\ heard = "ok"
    <3>1. req[h].path = Path[c] /\ offset[c] = 0
      <4>1. NextRequest(c) = [op |-> "init", path |-> Path[c], size |-> declared[c],
                              overwrite |-> Overwrite[c]]
        BY <2>6 DEF NextRequest
      <4>2. offset[c] = 0
        BY <1>0, <2>6 DEF CallsInv
      <4>3. QED BY <2>1, <4>1, <4>2
    <3>2. Opens(c, h)
      BY <1>3, <2>3, <2>4, <2>5, <2>6, <3>1 DEF Opens
    <3>3. QED BY <2>1, <2>4, <3>2 DEF Unheard
  <2>7. CASE stage[c] = "chunk" /\ heard = "ok"
    <3>1. Advances(c, h)
      BY <1>3, <2>2, <2>3, <2>4, <2>5, <2>7 DEF Advances
    <3>2. QED BY <2>1, <2>4, <3>1 DEF Unheard
  <2>8. CASE stage[c] \in {"commit", "abort"} \/ heard = "error"
    <3>1. stage[c] \in {"init", "chunk", "commit", "abort", "done"}
      BY <1>0, ClientFunctions
    <3>2. stage'[c] \in {"abort", "done"}
      BY <2>4, <2>5, <2>8, <3>1
    <3>3. id'[c] = id[c] /\ offset'[c] = offset[c]
      BY <2>4, <2>8, <3>1
    <3>4. QED BY <2>1, <2>4, <3>2, <3>3 DEF Unheard, Leaves
  <2>9. QED BY <2>0, <2>1, <2>6, <2>7, <2>8, <1>0, ClientFunctions
<1>4. QED BY <1>1, <1>2, <1>3 DEF Serve

-----------------------------------------------------------------------------
(* PayloadInv: what an upload has, and what is at the paths.               *)

LEMMA PayloadInit == SystemInit => PayloadInv
<1> SUFFICES ASSUME SystemInit PROVE PayloadInv
  OBVIOUS
<1>1. /\ \A c \in Clients : stage[c] = "init" /\ id[c] = NoId
      /\ \A h \in Handlers : req[h] = NoRequest
      /\ torn = {}
  BY DEF SystemInit, RustInit, Init
<1>2. \A t \in Targets : Exists(t) => target[t] \in Inodes
  BY SystemInvInit DEF SystemInv, TypeInv, TypeOK, Exists
<1>3. \A t \in Targets : Exists(t) => data[target[t]] = OldData
  BY <1>2 DEF SystemInit, RustInit, Init
<1>4. QED BY <1>1, <1>3 DEF PayloadInv, NoRequest

(* Clients that send, give up or wait, and crashes.                        *)
LEMMA PayloadKept ==
    ASSUME SystemInv, PayloadInv,
           UNCHANGED <<opened, accepted, target, data, torn, tied, id, offset>>,
           \A c \in Clients : stage'[c] \in {"abort", "done"} \/ stage'[c] = stage[c],
           \A g \in Handlers :
               \/ req'[g] = req[g] \/ req'[g] = NoRequest
               \/ \E c \in Clients : stage[c] # "done" /\ req'[g] = NextRequest(c)
    PROVE  PayloadInv'
<1>0. ClientTypes /\ CallsInv /\ Begun' = Begun
  BY BegunKept DEF SystemInv
<1>1. \A c \in Clients : /\ stage'[c] = "init" => id'[c] = NoId
                         /\ stage'[c] = "commit" => offset'[c] = Len(Payload[c])
  BY DEF PayloadInv
<1>2. ASSUME tied = {}, NEW g \in Handlers, req'[g].op \in {"chunk", "commit"}
      PROVE  \/ req'[g] = req[g]
             \/ \E c \in Clients : req'[g].op = stage[c] /\ req'[g].id = id[c]
  BY <1>0, <1>2, RequestsAreMade DEF NoRequest
<1>3. ASSUME tied' = {}, NEW c \in Clients, id'[c] # NoId PROVE Sent(c)'
  <2>1. Sent(c)
    BY <1>3 DEF PayloadInv
  <2>2. QED BY <2>1 DEF Sent
<1>4. ASSUME tied' = {}, NEW g \in Handlers, req'[g].op = "commit" PROVE WholePayload(g)'
  <2>1. CASE req'[g] = req[g]
    <3>1. WholePayload(g)
      BY <1>4, <2>1 DEF PayloadInv
    <3>2. QED BY <2>1, <3>1 DEF WholePayload
  <2>2. ASSUME NEW c \in Clients, stage[c] = "commit", req'[g].id = id[c]
        PROVE  WholePayload(g)'
    <3>1. id[c] \in Uploads /\ id[c] # NoId
      BY <1>0, <2>2, NoneAssumption DEF CallsInv, Begun
    <3>2. accepted[id[c]] = SubSeq(Payload[c], 1, offset[c]) /\ offset[c] = Len(Payload[c])
      BY <1>4, <2>2, <3>1 DEF PayloadInv, Sent
    <3>3. accepted[id[c]] = Payload[c]
      BY <3>2, ClientsAssumption, SubSeqFull
    <3>4. QED BY <2>2, <3>3 DEF WholePayload
  <2>3. QED BY <1>2, <1>4, <2>1, <2>2
<1>5. ASSUME tied' = {}, NEW u \in torn' PROVE GivenUp(u)'
  <2>1. GivenUp(u)
    BY <1>5 DEF PayloadInv
  <2>2. ASSUME NEW g \in Handlers PROVE ~Writes(g, u)'
    BY <1>2, <1>5, <2>1 DEF GivenUp, Writes, Leaving
  <2>3. \A c \in Clients : id'[c] = u => Leaving(c)'
    BY <2>1 DEF GivenUp, Leaving
  <2>4. QED BY <1>0, <2>1, <2>2, <2>3 DEF GivenUp
<1>6. ASSUME tied' = {}, NEW t \in Targets, Exists(t)'
      PROVE  data'[target'[t]] = OldData \/ HoldsPayload(t)'
  BY <1>6 DEF PayloadInv, HoldsPayload, Exists
<1>7. QED BY <1>1, <1>3, <1>4, <1>5, <1>6 DEF PayloadInv

(* An upload has its id for itself, in words of what its handlers do.      *)
LEMMA OwnersKnow ==
    ASSUME SystemInv, tied = {}, NEW h \in Handlers
    PROVE  /\ \A c \in Clients : id[c] # NoId => id[c] \in Begun /\ id[c] # newId[h]
           /\ newId[h] # NoId => newId[h] \in Uploads \ Begun
           /\ \A c \in Clients, u \in Uploads : Writes(h, u) /\ id[c] = u =>
                  call[c] = h \/ Leaving(c)
           /\ \A u \in Uploads : Writes(h, u) => u \in Begun
           /\ \A g \in Handlers, u \in Uploads : Writes(g, u) /\ Writes(h, u) => g = h
<1>1. /\ \A u \in Uploads : OwnerOf(u)
      /\ \A c \in Clients : id[c] # NoId => id[c] \in Uploads
      /\ newId[h] # NoId => newId[h] \in Uploads
  BY ClientFunctions DEF SystemInv, TypeInv, TypeOK
<1>2. QED BY <1>1 DEF OwnerOf

(* What a commit puts at a path is a client's file.                        *)
LEMMA InstallsPayload ==
    ASSUME SystemInv, PayloadInv, tied = {}, NEW h \in Handlers, NEW t \in Targets,
           Installs(h, t)
    PROVE  HoldsPayload(t)'
<1>1. PICK u \in Uploads : u = req[h].id /\ req[h].op = "commit" /\ Writes(h, u)
  BY Labelled DEF Installs, CommitLabels, Writes, SystemInv
<1>2. u \notin torn
  BY <1>1 DEF PayloadInv, GivenUp
<1>3. PICK c \in Clients : id[c] = u /\ accepted[u] = Payload[c]
  BY <1>1 DEF PayloadInv, WholePayload
<1>4. opened[u].target = Path[c]
  BY <1>1, <1>3, NoneAssumption DEF PayloadInv, Sent
<1>5. /\ opened[u].target = t /\ data'[target'[t]] = accepted[u] /\ target'[t] # NoFile
  BY <1>1, <1>2 DEF Installs
<1>6. QED BY <1>3, <1>4, <1>5 DEF HoldsPayload, Exists

LEMMA PayloadServe ==
    ASSUME SystemInv, SystemInv', ServerInv, PayloadInv, NEW h \in Handlers, Serve(h)
    PROVE  PayloadInv'
<1>0. /\ TypeInv /\ ClientTypes /\ CallsInv /\ IssuedInv /\ TypeInv'
      /\ HandlerStep(h)
      /\ \A c \in Clients : Unheard(c, h) \/ Opens(c, h) \/ Advances(c, h) \/ Leaves(c)
      /\ tied \subseteq tied' /\ Begun \subseteq Begun'
  BY Served, ServedIds DEF SystemInv
<1>1. ASSUME NEW c \in Clients
      PROVE  /\ stage'[c] = "init" => id'[c] = NoId
             /\ stage'[c] = "commit" => offset'[c] = Len(Payload[c])
  <2>1. CASE Unheard(c, h) \/ Leaves(c)
    BY <2>1 DEF Unheard, Leaves, PayloadInv
  <2>2. CASE Opens(c, h)
    BY <2>2 DEF Opens
  <2>3. CASE Advances(c, h)
    <3>1. offset[c] < Len(Payload[c])
      BY <1>0, <2>3 DEF Advances, CallsInv
    <3>2. /\ Len(NextChunk(c)) \in Nat /\ offset[c] \in Nat /\ Len(Payload[c]) \in Nat
          /\ offset[c] + Len(NextChunk(c)) <= Len(Payload[c])
      BY <1>0, <3>1, NextChunkGoesOn, ClientFunctions
    <3>3. QED BY <2>3, <3>2 DEF Advances
  <2>4. QED BY <1>0, <2>1, <2>2, <2>3
<1>2. SUFFICES ASSUME tied' = {}
      PROVE  /\ \A c \in Clients : id'[c] # NoId => Sent(c)'
             /\ \A g \in Handlers : req'[g].op = "commit" => WholePayload(g)'
             /\ \A u \in torn' : GivenUp(u)'
             /\ \A t \in Targets : Exists(t)' =>
                    data'[target'[t]] = OldData \/ HoldsPayload(t)'
  BY <1>1 DEF PayloadInv
<1>3. tied = {}
  BY <1>0, <1>2
<1>4. /\ opened \in [Uploads -> Session \cup {NoSession}]
      /\ accepted \in [Uploads -> Seq(Blocks)]
      /\ opened' \in [Uploads -> Session \cup {NoSession}]
      /\ accepted' \in [Uploads -> Seq(Blocks)]
      /\ newId[h] # NoId => newId[h] \in Uploads \ Begun
      /\ pc[h] = "register" => newId[h] # NoId
      /\ UploadsSeen(h)
  BY <1>0, <1>3, OwnersKnow, HandlerUploadsSeen DEF TypeInv, TypeOK, Shape
<1>5. ASSUME NEW v \in Begun
      PROVE  /\ v \in Uploads /\ opened'[v] = opened[v]
             /\ pc[h] = "count" /\ Live(req[h].id) /\ req[h].id = v =>
                    accepted'[v] = accepted[v] \o req[h].content
             /\ ~(pc[h] = "count" /\ Live(req[h].id) /\ req[h].id = v) =>
                    accepted'[v] = accepted[v]
  <2>1. v \in Uploads /\ (pc[h] = "register" => newId[h] # v)
    BY <1>4 DEF Begun
  <2>2. QED BY <1>4, <2>1 DEF UploadsSeen
<1>6. ASSUME pc[h] = "register", pc'[h] = "idle"
      PROVE  opened'[newId[h]] = NewSession(req[h]) /\ accepted'[newId[h]] = <<>>
  <2>1. newId[h] \in Uploads \ Begun /\ Begun' = Begun \cup {newId[h]}
    BY <1>0, <1>4, <1>6, ServedIds
  <2>2. opened'[newId[h]] # opened[newId[h]]
    BY <1>4, <2>1 DEF Begun
  <2>3. accepted[newId[h]] = <<>>
    <3>1. CASE server = "cpp"
      BY <1>3, <2>1, <3>1 DEF ServerInv, IInv, IdsInv, Begun
    <3>2. CASE server = "rust"
      BY <1>3, <2>1, <3>2 DEF ServerInv, RustInv, TidyInv, Tidy, IdOf
    <3>3. QED BY <1>0, <3>1, <3>2 DEF ClientTypes
  <2>4. QED BY <1>4, <1>6, <2>1, <2>2, <2>3 DEF UploadsSeen
<1>7. ASSUME NEW c \in Clients, id'[c] # NoId PROVE Sent(c)'
  <2>1. CASE Opens(c, h)
    <3>1. /\ req[h].path = Path[c] /\ id'[c] = newId[h] /\ offset'[c] = 0
          /\ opened'[newId[h]] = NewSession(req[h]) /\ accepted'[newId[h]] = <<>>
      BY <1>6, <2>1 DEF Opens
    <3>2. NewSession(req[h]).target = req[h].path
      BY DEF NewSession
    <3>3. SubSeq(Payload[c], 1, 0) = <<>>
      BY SubSeqEmpty
    <3>4. QED BY <3>1, <3>2, <3>3 DEF Sent
  <2>2. CASE ~Opens(c, h)
    <3>1. PICK u \in Uploads : u = id[c] /\ id'[c] = u /\ u \in Begun /\ Sent(c)
      BY <1>0, <1>2, <1>3, <1>7, <2>2, OwnersKnow
      DEF Unheard, Advances, Leaves, Begun, PayloadInv
    <3>2. opened'[u] = opened[u]
      BY <1>5, <3>1
    <3>3. ASSUME stage'[c] \in {"chunk", "commit"}
          PROVE  accepted'[u] = SubSeq(Payload[c], 1, offset'[c])
      <4>1. CASE Advances(c, h)
        <5>1. offset[c] < Len(Payload[c]) /\ accepted[u] = SubSeq(Payload[c], 1, offset[c])
          BY <1>0, <3>1, <4>1 DEF Advances, CallsInv, Sent
        <5>2. accepted'[u] = accepted[u] \o NextChunk(c)
          BY <1>5, <3>1, <4>1 DEF Advances
        <5>3. QED BY <1>0, <4>1, <5>1, <5>2, NextChunkGoesOn DEF Advances
      <4>2. CASE Unheard(c, h)
        <5>1. accepted[u] = SubSeq(Payload[c], 1, offset[c])
          BY <3>1, <3>3, <4>2 DEF Unheard, Sent
        <5>2. ~(pc[h] = "count" /\ Live(req[h].id) /\ req[h].id = u)
          <6> SUFFICES ASSUME pc[h] = "count", Live(req[h].id), req[h].id = u PROVE FALSE
            OBVIOUS
          <6>1. Writes(h, u)
            BY <1>0, Labelled DEF Writes, ChunkLabels
          <6>2. call[c] = h \/ Leaving(c)
            BY <1>3, <3>1, <6>1, OwnersKnow
          <6>3. pc'[h] = "idle"
            BY <1>4 DEF UploadsSeen
          <6>4. QED BY <3>3, <4>2, <6>2, <6>3 DEF Unheard, Leaving
        <5>3. QED BY <1>5, <3>1, <4>2, <5>1, <5>2 DEF Unheard
      <4>3. QED BY <1>0, <2>2, <3>3, <4>1, <4>2 DEF Leaves
    <3>4. QED BY <3>1, <3>2, <3>3 DEF Sent
  <2>3. QED BY <2>1, <2>2
<1>8. ASSUME NEW g \in Handlers, req'[g].op = "commit" PROVE WholePayload(g)'
  <2>1. req'[g] = req[g]
    BY <1>0, <1>8, ServedCalls DEF NoRequest
  <2>2. PICK c \in Clients : id[c] = req[g].id /\ accepted[req[g].id] = Payload[c]
    BY <1>3, <1>8, <2>1 DEF PayloadInv, WholePayload
  <2>3. PICK u \in Uploads : u = req[g].id /\ Writes(g, u)
    BY <1>0, <1>8, <2>1, Labelled DEF Writes, ById
  <2>4. u \in Begun /\ id[c] # NoId
    BY <1>3, <2>2, <2>3, OwnersKnow, NoneAssumption
  <2>5. id'[c] = u
    <3>1. stage[c] # "init"
      BY <2>4 DEF PayloadInv
    <3>2. QED BY <1>0, <2>2, <2>3, <3>1 DEF Unheard, Opens, Advances, Leaves
  <2>6. ~(pc[h] = "count" /\ req[h].id = u)
    <3> SUFFICES ASSUME pc[h] = "count", req[h].id = u PROVE FALSE
      OBVIOUS
    <3>1. req[h].op = "chunk"
      BY <1>0, Labelled DEF ChunkLabels
    <3>2. g = h
      BY <1>3, <2>3, <3>1, OwnersKnow DEF Writes
    <3>3. QED BY <1>8, <2>1, <3>1, <3>2
  <2>7. accepted'[u] = accepted[u]
    BY <1>5, <2>4, <2>6
  <2>8. QED BY <2>1, <2>2, <2>3, <2>5, <2>7 DEF WholePayload
<1>9. ASSUME NEW u \in torn' PROVE GivenUp(u)'
  <2>1. \A c \in Clients : id'[c] = u /\ u \in Begun => id[c] = u
    BY <1>0, <1>4 DEF Unheard, Opens, Advances, Leaves
  <2>2. CASE u \in torn
    <3>1. GivenUp(u)
      BY <1>3, <2>2 DEF PayloadInv
    <3>2. \A g \in Handlers : ~Writes(g, u)'
      BY <1>0, <3>1, ServedCalls DEF GivenUp, Begun
    <3>3. \A c \in Clients : id'[c] = u => Leaving(c)'
      BY <1>0, <2>1, <3>1 DEF GivenUp, Leaving, Unheard, Opens, Advances, Leaves
    <3>4. QED BY <1>0, <3>1, <3>2, <3>3 DEF GivenUp
  <2>3. CASE u \notin torn
    <3>1. pc[h] = "append" /\ pc'[h] = "idle" /\ u = req[h].id
      BY <1>4, <1>9, <2>3 DEF UploadsSeen
    <3>2. u \in Uploads /\ Writes(h, u)
      BY <1>0, <3>1, Labelled DEF Writes, ChunkLabels
    <3>3. u \in Begun
      BY <1>3, <3>2, OwnersKnow
    <3>4. ASSUME NEW g \in Handlers, Writes(g, u)' PROVE FALSE
      <4>1. Writes(g, u) /\ req'[g] = req[g]
        BY <1>0, <3>2, <3>4, ServedCalls
      <4>2. g = h
        BY <1>3, <3>2, <4>1, OwnersKnow
      <4>3. req'[h] = NoRequest
        BY <1>0, <3>1, ServedCalls
      <4>4. QED BY <3>4, <4>2, <4>3 DEF Writes, NoRequest
    <3>5. ASSUME NEW c \in Clients, id'[c] = u PROVE Leaving(c)'
      <4>1. id[c] = u
        BY <2>1, <3>3, <3>5
      <4>2. call[c] = h \/ Leaving(c)
        BY <1>3, <3>2, <4>1, OwnersKnow
      <4>3. QED BY <1>0, <3>1, <4>2 DEF Unheard, Opens, Advances, Leaves, Leaving
    <3>6. QED BY <1>0, <3>3, <3>4, <3>5 DEF GivenUp
  <2>4. QED BY <2>2, <2>3
<1>10. ASSUME NEW t \in Targets, Exists(t)'
       PROVE  data'[target'[t]] = OldData \/ HoldsPayload(t)'
  <2>1. FilesSeen(h)
    BY <1>0, <1>3, ServersKnow, HandlerFilesSeen DEF ClientTypes
  <2>2. CASE Kept(t)
    <3>1. Exists(t) /\ target'[t] = target[t] /\ data'[target[t]] = data[target[t]]
      BY <1>10, <2>2 DEF Kept, Exists
    <3>2. QED BY <1>3, <1>10, <3>1 DEF PayloadInv, HoldsPayload
  <2>3. CASE Vacates(h, t)
    BY <1>10, <2>3 DEF Vacates, Exists
  <2>4. CASE Installs(h, t)
    BY <1>3, <2>4, InstallsPayload
  <2>5. QED BY <2>1, <2>2, <2>3, <2>4 DEF FilesSeen
<1>11. QED BY <1>7, <1>8, <1>9, <1>10

LEMMA PayloadStep ==
    ASSUME SystemInv, SystemInv', ServerInv, PayloadInv, [SystemNext]_systemVars
    PROVE  PayloadInv'
<1>0. /\ ClientTypes /\ CallsInv
      /\ req \in [Handlers -> Requests \cup {NoRequest}]
  BY DEF SystemInv, TypeInv, TypeOK
<1>1. ASSUME NEW c \in Clients, Send(c) PROVE PayloadInv'
  <2>1. /\ UNCHANGED <<opened, accepted, target, data, torn, tied, id, offset, stage>>
        /\ stage[c] # "done" /\ req' = [req EXCEPT ![IdleHandler] = NextRequest(c)]
    BY <1>1 DEF Send, Sending, Receive, disk, history, told
  <2>2. \A g \in Handlers : req'[g] = req[g] \/ req'[g] = NextRequest(c)
    BY <1>0, <2>1
  <2>3. QED BY <2>1, <2>2, PayloadKept
<1>2. ASSUME NEW c \in Clients,
             LocalError(c) \/ NotDelivered(c) \/ ConnectionBreaks(c) \/ HearBroken(c)
      PROVE  PayloadInv'
  <2>1. UNCHANGED <<opened, accepted, target, data, torn, tied, req>>
    BY <1>2 DEF LocalError, NotDelivered, ConnectionBreaks, HearBroken, rustVars, vars, disk,
       local, history, told
  <2>2. /\ \A d \in Clients : stage'[d] \in {"abort", "done"} \/ stage'[d] = stage[d]
        /\ UNCHANGED <<id, offset>>
    <3>1. CASE LocalError(c)
      BY <1>0, <3>1, ClientFunctions DEF LocalError
    <3>2. CASE Hear(c, "broken", NoId)
      <4>1. /\ \A d \in Clients : d # c =>
                   stage'[d] = stage[d] /\ id'[d] = id[d] /\ offset'[d] = offset[d]
            /\ id' = [d \in Clients |-> id'[d]] /\ offset' = [d \in Clients |-> offset'[d]]
            /\ stage'[c] \in {"abort", "done"}
            /\ id'[c] = id[c] /\ offset'[c] = offset[c]
        BY <1>0, <3>2, HearEffects
      <4>2. id' = id /\ offset' = offset
        BY <1>0, <4>1, ClientFunctions
      <4>3. QED BY <4>1, <4>2
    <3>3. QED BY <1>2, <3>1, <3>2 DEF NotDelivered, ConnectionBreaks, HearBroken
  <2>3. QED BY <2>1, <2>2, PayloadKept
<1>3. CASE ServerCrash
  <2>1. /\ UNCHANGED <<opened, accepted, target, data, torn, tied, id, offset, stage>>
        /\ \A g \in Handlers : req'[g] = NoRequest
    BY <1>3 DEF ServerCrash, Crash, disk, history, told
  <2>2. QED BY <2>1, PayloadKept
<1>4. CASE UNCHANGED systemVars
  <2>1. UNCHANGED <<opened, accepted, target, data, torn, tied, id, offset, stage, req>>
    BY <1>4 DEF systemVars, client, rustVars, vars, disk, local, history, told
  <2>2. QED BY <2>1, PayloadKept
<1>5. ASSUME SystemNext PROVE PayloadInv'
  <2>1. \/ \E c \in Clients : Send(c)
        \/ \E c \in Clients :
               LocalError(c) \/ NotDelivered(c) \/ ConnectionBreaks(c) \/ HearBroken(c)
        \/ \E h \in Handlers : Serve(h)
        \/ ServerCrash
    BY <1>5, Zenon DEF SystemNext
  <2>2. ASSUME NEW h \in Handlers, Serve(h) PROVE PayloadInv'
    BY <2>2, PayloadServe
  <2>3. QED BY <2>1, <2>2, <1>1, <1>2, <1>3, Zenon
<1>6. QED BY <1>4, <1>5, Zenon

(* End to end, a target path only ever holds its old file or exactly the   *)
(* bytes of one client's local file that named it, whatever crashes or     *)
(* breaks when, as long as no two uploads got one id.  Of the C++ server   *)
(* this asks that the disk does not fail, as it tells nobody of a close    *)
(* that did; of the Rust server it does not.                               *)
THEOREM TargetsHoldPayloads ==
    ASSUME DiskFaults = FALSE \/ "cpp" \notin Servers
    PROVE  SystemSpec => []TargetsArePayloads
<1>1. SystemInit => SystemInv /\ ServerInv /\ PayloadInv
  BY SystemInvInit, ServerInvInit, PayloadInit
<1>2. SystemInv /\ ServerInv /\ PayloadInv /\ [SystemNext]_systemVars
          => SystemInv' /\ ServerInv' /\ PayloadInv'
  BY SystemInvStep, ServerInvStep, PayloadStep
<1>3. PayloadInv => TargetsArePayloads
  BY DEF PayloadInv, TargetsArePayloads, HoldsPayload
<1>4. QED BY <1>1, <1>2, <1>3, PTL DEF SystemSpec

-----------------------------------------------------------------------------
(* InstalledInv: a commit has its file until its rename.                   *)

(* How a .part file goes.                                                  *)
Vanishes(h, v) ==
    /\ part[v] # NoFile /\ part'[v] = NoFile
    /\ \/ pc[h] = "rename" /\ pc'[h] \in LateLabels /\ req[h].id = v
       \/ pc[h] \in {"discard", "unlink"} /\ pc'[h] = "idle" /\ req[h].id = v
       \/ pc[h] = "clear" /\ newId[h] = v

PartsSeen(h) ==
    /\ crashes' = crashes
    /\ \A v \in Uploads : part[v] # NoFile /\ part'[v] = NoFile => Vanishes(h, v)
    /\ pc'[h] \in PastCheck =>
           pc[h] \in PastCheck \/ (part[req[h].id] # NoFile /\ UNCHANGED part)
    /\ pc[h] = "rename" =>
           pc'[h] \in LateLabels \/ part[req[h].id] = NoFile \/ DiskFaults

LEMMA SharedPartsSeen ==
    ASSUME TypeInv, NEW h \in Handlers,
           \/ UploadChunkAccept(h) \/ UploadChunkOpen(h) \/ UploadChunkAppend(h)
           \/ UploadChunkAppendFails(h) \/ UploadChunkCount(h) \/ UploadCommitCopy(h)
           \/ ReplaceRename(h) \/ ReplacePermissions(h) \/ UploadCommitErase(h)
           \/ UploadAbortErase(h)
    PROVE  PartsSeen(h)
<1>0. /\ part \in [Uploads -> Inodes \cup {NoFile}] /\ pc \in [Handlers -> Labels]
  BY DEF TypeInv, TypeOK
<1>1. CASE ReplaceRename(h)
  BY <1>0, <1>1 DEF ReplaceRename, Goto, AfterRename, LateLabels, PastCheck, CommitLabels,
     Vanishes, PartsSeen
<1>2. CASE \/ UploadChunkAccept(h) \/ UploadChunkOpen(h) \/ UploadChunkAppend(h)
           \/ UploadChunkAppendFails(h) \/ UploadChunkCount(h)
  BY <1>0, <1>2 DEF UploadChunkAccept, UploadChunkOpen, UploadChunkAppend,
     UploadChunkAppendFails, WriteFails, UploadChunkCount, At, Goto, Reply, disk, PastCheck,
     CommitLabels, PartsSeen
<1>3. CASE UploadCommitCopy(h) \/ ReplacePermissions(h) \/ UploadCommitErase(h)
           \/ UploadAbortErase(h)
  BY <1>0, <1>3 DEF UploadCommitCopy, ReplacePermissions, UploadCommitErase, UploadAbortErase,
     At, Goto, Reply, disk, PastCheck, CommitLabels, PartsSeen
<1>4. QED BY <1>1, <1>2, <1>3

LEMMA CppPartsSeen ==
    ASSUME TypeInv, NEW h \in Handlers, Step(h)
    PROVE  PartsSeen(h)
<1>0. /\ part \in [Uploads -> Inodes \cup {NoFile}] /\ pc \in [Handlers -> Labels]
      /\ NoFile \notin Inodes
  BY NoneAssumption DEF TypeInv, TypeOK
<1>1. CASE Fails(h)
  BY <1>0, <1>1 DEF Fails, Reply, disk, PastCheck, CommitLabels, PartsSeen
<1>2. CASE CommitAdvances(h)
  BY <1>0, <1>2 DEF CommitAdvances, Goto, disk, PastCheck, CommitLabels, PartsSeen
<1>3. CASE UploadInitCreate(h) \/ UploadChunkRecreate(h)
  <2>1. NewInode \in Inodes
    BY <1>3, FreshChoices DEF UploadInitCreate, UploadChunkRecreate
  <2>2. \A v \in Uploads : part[v] # NoFile => part'[v] # NoFile
    BY <1>0, <1>3, <2>1 DEF UploadInitCreate, UploadChunkRecreate
  <2>3. QED BY <1>0, <1>3, <2>2 DEF UploadInitCreate, UploadChunkRecreate, At, Goto, PastCheck,
            CommitLabels, PartsSeen
<1>4. CASE UploadInitRegister(h) \/ UploadChunkCloseFails(h)
  BY <1>0, <1>4 DEF UploadInitRegister, UploadChunkCloseFails, WriteFails, Goto, Reply, disk,
     PastCheck, CommitLabels, PartsSeen
<1>5. CASE ReplaceStatus(h) \/ ReplaceRemove(h)
  BY <1>0, <1>5 DEF ReplaceStatus, ReplaceRemove, Goto, disk, PastCheck, CommitLabels, PartsSeen
<1>6. CASE UploadAbortDiscard(h)
  BY <1>0, <1>6 DEF UploadAbortDiscard, Reply, PastCheck, CommitLabels, Vanishes, PartsSeen
<1>7. QED BY <1>1, <1>2, <1>3, <1>4, <1>5, <1>6, StepKinds, SharedPartsSeen

LEMMA RustPartsSeen ==
    ASSUME TypeInv, NEW h \in Handlers, RustStep(h)
    PROVE  PartsSeen(h)
<1>0. /\ part \in [Uploads -> Inodes \cup {NoFile}] /\ pc \in [Handlers -> Labels]
      /\ NoFile \notin Inodes
  BY NoneAssumption DEF TypeInv, TypeOK
<1>1. CASE RustFails(h)
  BY <1>0, <1>1 DEF RustFails, Reply, disk, PastCheck, CommitLabels, PartsSeen
<1>2. CASE RustMoves(h)
  BY <1>0, <1>2 DEF RustMoves, Checks, Goto, disk, PastCheck, CommitLabels, PartsSeen
<1>3. CASE upload_init_allocate(h) \/ upload_init_register(h) \/ upload_chunk_write_fails(h)
  BY <1>0, <1>3 DEF upload_init_allocate, upload_init_register, upload_chunk_write_fails,
     UploadChunkAppendFails, WriteFails, At, AfterLook, Goto, Reply, disk, PastCheck,
     CommitLabels, PartsSeen
<1>4. CASE upload_init_clear(h) \/ upload_abort_unlink(h)
  BY <1>0, <1>4 DEF upload_init_clear, upload_abort_unlink, Goto, Reply, PastCheck,
     CommitLabels, Vanishes, PartsSeen
<1>5. CASE upload_init_create(h)
  <2>1. PICK i \in {IF part[newId[h]] = NoFile THEN NewInode ELSE part[newId[h]]} :
            part' = [part EXCEPT ![newId[h]] = i]
    BY <1>5 DEF upload_init_create
  <2>2. newId[h] \in Uploads /\ i # NoFile
    BY <1>0, <1>5, <2>1, Labelled, FreshChoices DEF upload_init_create
  <2>3. \A v \in Uploads : part[v] # NoFile => part'[v] # NoFile
    BY <1>0, <2>1, <2>2
  <2>4. pc[h] = "create" /\ pc'[h] = "register" /\ crashes' = crashes
    BY <1>0, <1>5 DEF upload_init_create, Goto
  <2>5. QED BY <2>3, <2>4 DEF PastCheck, CommitLabels, PartsSeen
<1>6. CASE replace_file_metadata(h) \/ replace_file_remove(h)
  BY <1>0, <1>6 DEF replace_file_metadata, replace_file_remove, Goto, disk, PastCheck,
     CommitLabels, PartsSeen
<1>7. QED BY <1>1, <1>2, <1>3, <1>4, <1>5, <1>6, RustKinds, SharedPartsSeen

LEMMA HandlerPartsSeen ==
    ASSUME TypeInv, NEW h \in Handlers, HandlerStep(h)
    PROVE  PartsSeen(h)
BY CppPartsSeen, RustPartsSeen DEF HandlerStep, Step, RustStep

(* Clients, and what they cannot take back.                                *)
Patient(c) ==
    /\ id[c] # NoId => id'[c] = id[c]
    /\ id[c] # NoId /\ offset[c] = Len(Payload[c]) => offset'[c] = offset[c]
    /\ Leaving(c) /\ CutShort(c) => Leaving(c)' /\ CutShort(c)'
    /\ GaveUpCommit(c) => GaveUpCommit(c)'
    /\ stage'[c] = "abort" => CutShort(c)'
    /\ result'[c] # "none" => stage'[c] = "done"

LEMMA StillPatient ==
    ASSUME AbortsInv, NEW c \in Clients, stage'[c] = stage[c], id'[c] = id[c],
           offset'[c] = offset[c], result'[c] = result[c]
    PROVE  Patient(c)
BY DEF Patient, AbortsInv, Leaving, CutShort, GaveUpCommit

LEMMA HearPatient ==
    ASSUME SystemInv, PayloadInv, AbortsInv, result \in [Clients -> {"none", "ok", "error"}],
           NEW c \in Clients, NEW heard \in {"ok", "error", "broken"}, NEW u,
           Hear(c, heard, u)
    PROVE  \A d \in Clients : Patient(d)
<1>0. /\ ClientTypes /\ CallsInv /\ Len(Payload[c]) \in Nat /\ offset[c] \in Nat
      /\ stage[c] \in {"init", "chunk", "commit", "abort", "done"}
  BY ClientFunctions DEF SystemInv
<1>1. /\ \A d \in Clients : d # c =>
             stage'[d] = stage[d] /\ id'[d] = id[d] /\ offset'[d] = offset[d]
      /\ stage[c] \in {"abort", "done"} => stage'[c] = "done"
      /\ stage[c] = "init" => stage'[c] \in {"chunk", "commit", "done"}
      /\ stage[c] # "init" => id'[c] = id[c]
      /\ stage[c] # "chunk" => offset'[c] = offset[c]
      /\ heard # "ok" => offset'[c] = offset[c]
  BY <1>0, HearEffects
<1>2. /\ stage'[c] = AfterCall(c, heard)
      /\ \A d \in Clients : d # c => result'[d] = result[d]
      /\ result'[c] = IF AfterCall(c, heard) = "done" THEN Returned(c, heard) ELSE result[c]
  BY <1>0, ClientFunctions DEF Hear
<1>3. /\ stage[c] = "chunk" /\ stage'[c] = "abort" => heard # "ok"
      /\ stage[c] = "commit" /\ stage'[c] = "abort" => Kind[c] = "rust"
  <2>1. ReadOn(c, offset[c] + Len(NextChunk(c))) # "abort"
    BY DEF ReadOn
  <2>2. QED BY <1>2, <2>1 DEF AfterCall
<1>4. /\ stage[c] = "init" => id[c] = NoId
      /\ stage[c] = "chunk" => offset[c] < Len(Payload[c])
      /\ stage[c] = "commit" => offset[c] = Len(Payload[c])
      /\ stage[c] = "abort" => CutShort(c)
      /\ result[c] # "none" => stage[c] = "done"
  BY <1>0 DEF CallsInv, PayloadInv, AbortsInv
<1>5. stage'[c] = "done" /\ stage[c] # "commit" => result'[c] = "error"
  BY <1>2 DEF Returned
<1>6. result'[c] # "none" => stage'[c] = "done"
  BY <1>1, <1>2, <1>4
<1>7. stage'[c] = "abort" => CutShort(c)'
  BY <1>0, <1>1, <1>3, <1>4 DEF CutShort, GaveUpCommit
<1>8. GaveUpCommit(c) => GaveUpCommit(c)'
  BY <1>1, <1>4, <1>5 DEF GaveUpCommit
<1>9. Leaving(c) /\ CutShort(c) => Leaving(c)' /\ CutShort(c)'
  BY <1>1, <1>8 DEF Leaving, CutShort
<1>10. /\ id[c] # NoId => id'[c] = id[c]
       /\ id[c] # NoId /\ offset[c] = Len(Payload[c]) => offset'[c] = offset[c]
  BY <1>0, <1>1, <1>4
<1>11. Patient(c)
  BY <1>6, <1>7, <1>8, <1>9, <1>10 DEF Patient
<1>12. QED BY <1>1, <1>2, <1>11, StillPatient

LEMMA EveryonePatient ==
    ASSUME SystemInv, PayloadInv, AbortsInv, result \in [Clients -> {"none", "ok", "error"}],
           [SystemNext]_systemVars
    PROVE  \A c \in Clients : Patient(c)
<1>1. ASSUME NEW c \in Clients, LocalError(c) PROVE \A d \in Clients : Patient(d)
  <2>1. /\ stage[c] \in {"chunk", "commit"} /\ stage'[c] = "done" /\ result'[c] = "error"
        /\ UNCHANGED <<id, offset>>
        /\ \A d \in Clients : d # c => stage'[d] = stage[d] /\ result'[d] = result[d]
    BY <1>1, ClientFunctions DEF LocalError, SystemInv
  <2>2. result[c] = "none" /\ ~Leaving(c)
    BY <2>1 DEF AbortsInv, Leaving
  <2>3. ~GaveUpCommit(c)
    BY <2>1, <2>2 DEF GaveUpCommit
  <2>4. Patient(c)
    BY <2>1, <2>2, <2>3 DEF Patient
  <2>5. QED BY <2>1, <2>4, StillPatient
<1>2. ASSUME NEW c \in Clients, Hear(c, "broken", NoId) PROVE \A d \in Clients : Patient(d)
  BY <1>2, HearPatient
<1>3. ASSUME NEW c \in Clients, NEW h \in Handlers,
             Hear(c, IF Succeeds(h) THEN "ok" ELSE "error", newId[h])
      PROVE  \A d \in Clients : Patient(d)
  <2> DEFINE heard == IF Succeeds(h) THEN "ok" ELSE "error"
  <2>1. heard \in {"ok", "error", "broken"} /\ Hear(c, heard, newId[h])
    BY <1>3
  <2> HIDE DEF heard
  <2>2. QED BY <2>1, HearPatient
<1>4. CASE UNCHANGED <<stage, id, offset, result>>
  BY <1>4, StillPatient
<1>5. CASE UNCHANGED systemVars
  BY <1>4, <1>5 DEF systemVars, client
<1>6. CASE SystemNext
  <2>1. \/ \E c \in Clients : Send(c)
        \/ \E c \in Clients :
               LocalError(c) \/ NotDelivered(c) \/ ConnectionBreaks(c) \/ HearBroken(c)
        \/ \E h \in Handlers : Serve(h)
        \/ ServerCrash
    BY <1>6, Zenon DEF SystemNext
  <2>2. ASSUME NEW h \in Handlers, Serve(h) PROVE \A c \in Clients : Patient(c)
    BY <1>3, <1>4, <2>2 DEF Serve, client
  <2>3. ASSUME NEW c \in Clients,
               LocalError(c) \/ NotDelivered(c) \/ ConnectionBreaks(c) \/ HearBroken(c)
        PROVE  \A d \in Clients : Patient(d)
    BY <1>1, <1>2, <2>3 DEF NotDelivered, ConnectionBreaks, HearBroken
  <2>4. ASSUME NEW c \in Clients, Send(c) PROVE UNCHANGED <<stage, id, offset, result>>
    BY <2>4 DEF Send
  <2>5. CASE ServerCrash
    BY <1>4, <2>5 DEF ServerCrash
  <2>6. QED BY <1>4, <2>1, <2>2, <2>3, <2>4, <2>5
<1>7. QED BY <1>5, <1>6

LEMMA RequestsSeen ==
    ASSUME SystemInv, SystemInv', [SystemNext]_systemVars, NEW g \in Handlers
    PROVE  \/ req'[g] = req[g] \/ req'[g] = NoRequest
           \/ \E c \in Clients : /\ stage[c] # "done" /\ req'[g] = NextRequest(c)
                                 /\ id' = id /\ offset' = offset
<1>0. TypeInv /\ TypeInv' /\ req \in [Handlers -> Requests \cup {NoRequest}]
  BY DEF SystemInv, TypeInv, TypeOK
<1>1. ASSUME NEW c \in Clients, Send(c)
      PROVE  /\ req' = [req EXCEPT ![IdleHandler] = NextRequest(c)]
             /\ stage[c] # "done" /\ id' = id /\ offset' = offset
  BY <1>1 DEF Send, Sending, Receive
<1>2. ASSUME NEW c \in Clients,
             LocalError(c) \/ NotDelivered(c) \/ ConnectionBreaks(c) \/ HearBroken(c)
      PROVE  req' = req
  BY <1>2 DEF LocalError, NotDelivered, ConnectionBreaks, HearBroken, rustVars, vars, local
<1>3. ASSUME NEW h \in Handlers, Serve(h)
      PROVE  req'[g] = req[g] \/ req'[g] = NoRequest
  BY <1>0, <1>3, ServedCalls DEF Serve
<1>4. CASE ServerCrash
  BY <1>4 DEF ServerCrash, Crash
<1>5. CASE UNCHANGED systemVars
  BY <1>5 DEF systemVars, rustVars, vars, local
<1>6. CASE SystemNext
  <2>1. \/ \E c \in Clients : Send(c)
        \/ \E c \in Clients :
               LocalError(c) \/ NotDelivered(c) \/ ConnectionBreaks(c) \/ HearBroken(c)
        \/ \E h \in Handlers : Serve(h)
        \/ ServerCrash
    BY <1>6, Zenon DEF SystemNext
  <2>2. ASSUME NEW c \in Clients, Send(c)
        PROVE  req'[g] = req[g] \/ req'[g] = NextRequest(c)
    BY <1>0, <1>1, <2>2
  <2>3. QED BY <1>1, <1>2, <1>3, <1>4, <2>1, <2>2
<1>7. QED BY <1>5, <1>6

LEMMA AbortsStep ==
    ASSUME SystemInv, SystemInv', PayloadInv, AbortsInv,
           result \in [Clients -> {"none", "ok", "error"}], [SystemNext]_systemVars
    PROVE  AbortsInv'
<1>0. /\ TypeInv /\ ClientTypes /\ CallsInv /\ TypeInv'
      /\ tied \subseteq tied' /\ \A c \in Clients : Patient(c)
  BY SystemSteps, EveryonePatient DEF SystemInv
<1>1. \A c \in Clients : /\ stage'[c] = "abort" => CutShort(c)'
                         /\ result'[c] # "none" => stage'[c] = "done"
  BY <1>0 DEF Patient
<1>2. ASSUME NEW g \in Handlers, req'[g].op \in {"commit", "abort"}, req'[g].id \notin tied'
      PROVE  \E c \in Clients :
                 /\ id'[c] = req'[g].id
                 /\ req'[g].op = "commit" => offset'[c] = Len(Payload[c])
                 /\ req'[g].op = "abort"  => Leaving(c)' /\ CutShort(c)'
  <2>1. req'[g].id # NoId
    <3>1. req'[g] \in Requests
      BY <1>0, <1>2 DEF TypeInv, TypeOK, NoRequest
    <3>2. QED BY <1>2, <3>1, RequestKinds, NoneAssumption DEF ById
  <2>2. CASE req'[g] = req[g]
    <3>1. PICK c \in Clients :
              /\ id[c] = req[g].id
              /\ req[g].op = "commit" => offset[c] = Len(Payload[c])
              /\ req[g].op = "abort"  => Leaving(c) /\ CutShort(c)
      BY <1>0, <1>2, <2>2 DEF AbortsInv
    <3>2. id[c] # NoId
      BY <2>1, <2>2, <3>1
    <3>3. QED BY <1>0, <2>2, <3>1, <3>2 DEF Patient
  <2>3. ASSUME NEW c \in Clients, stage[c] # "done", req'[g] = NextRequest(c),
               id' = id, offset' = offset
        PROVE  \E d \in Clients :
                   /\ id'[d] = req'[g].id
                   /\ req'[g].op = "commit" => offset'[d] = Len(Payload[d])
                   /\ req'[g].op = "abort"  => Leaving(d)' /\ CutShort(d)'
    <3>1. /\ req'[g].op = stage[c]
          /\ stage[c] # "init" => req'[g].id = id[c]
      BY <1>0, <2>3, RequestsAreMade
    <3>2. stage[c] = "commit" => offset[c] = Len(Payload[c])
      BY DEF PayloadInv
    <3>3. stage[c] = "abort" => Leaving(c)' /\ CutShort(c)'
      BY <1>0 DEF AbortsInv, Patient, Leaving
    <3>4. id'[c] = req'[g].id
      BY <1>2, <2>3, <3>1
    <3>5. QED BY <2>3, <3>1, <3>2, <3>3, <3>4
  <2>4. req'[g] # NoRequest
    BY <1>2 DEF NoRequest
  <2>5. QED BY <2>2, <2>3, <2>4, RequestsSeen
<1>3. QED BY <1>1, <1>2 DEF AbortsInv

LEMMA StillNothing ==
    ASSUME SystemInv, PayloadInv, AbortsInv, result \in [Clients -> {"none", "ok", "error"}],
           [SystemNext]_systemVars, NothingGivenUp'
    PROVE  NothingGivenUp /\ ~ServerCrash
<1>0. /\ crashes' = 0 /\ crashes \in Nat /\ tied = {} /\ TypeInv
      /\ \A c \in Clients : ~GaveUpCommit(c)
  BY SystemSteps, EveryonePatient, SizesAssumption
  DEF NothingGivenUp, Patient, SystemInv, TypeInv, TypeOK
<1>1. ~ServerCrash
  BY <1>0 DEF ServerCrash, Crash
<1>2. crashes' = crashes
  <2>1. ASSUME NEW c \in Clients,
               \/ Send(c) \/ LocalError(c)
               \/ NotDelivered(c) \/ ConnectionBreaks(c) \/ HearBroken(c)
        PROVE  crashes' = crashes
    BY <2>1 DEF Send, Receive, LocalError, NotDelivered, ConnectionBreaks, HearBroken,
       rustVars, vars
  <2>2. ASSUME NEW h \in Handlers, Serve(h) PROVE crashes' = crashes
    BY <1>0, <2>2, HandlerPartsSeen DEF Serve, PartsSeen
  <2>3. CASE UNCHANGED systemVars
    BY <2>3 DEF systemVars, rustVars, vars
  <2>4. CASE SystemNext
    BY <1>1, <2>1, <2>2, <2>4, Zenon DEF SystemNext
  <2>5. QED BY <2>3, <2>4
<1>3. QED BY <1>0, <1>1, <1>2 DEF NothingGivenUp

FilesThere == \A h \in Handlers : pc[h] \in PastCheck => part[req[h].id] # NoFile
OversHold == \A t \in Targets : CommitOver(t) => HoldsPayload(t) \/ Filling(t)

LEMMA FilesThereServe ==
    ASSUME SystemInv, SystemInv', AbortsInv, NothingGivenUp, FilesThere,
           NEW h \in Handlers, Serve(h)
    PROVE  FilesThere'
<1>0. TypeInv /\ TypeInv' /\ HandlerStep(h) /\ tied = {} /\ PartsSeen(h)
  BY HandlerPartsSeen DEF SystemInv, NothingGivenUp, Serve
<1>1. SUFFICES ASSUME NEW g \in Handlers, pc'[g] \in PastCheck, part'[req'[g].id] = NoFile
               PROVE  FALSE
  BY DEF FilesThere
<1>2. req'[g] \in ControlRequest /\ req'[g].op = "commit"
  BY <1>0, <1>1 DEF TypeInv, Shape, PastCheck
<1>3. req'[g] = req[g]
  BY <1>0, <1>2, ServedCalls DEF NoRequest
<1>4. PICK u \in Uploads : u = req[g].id /\ req[g].op = "commit" /\ Writes(g, u)
  BY <1>2, <1>3 DEF ControlRequest, Writes
<1>5. part[u] # NoFile /\ (g = h => pc[g] \in PastCheck)
  <2>1. CASE g = h
    BY <1>0, <1>1, <1>3, <1>4, <2>1 DEF PartsSeen, FilesThere
  <2>2. CASE g # h
    <3>1. pc'[g] = pc[g]
      BY <1>0, <2>2, HandlerEffects DEF OthersWait
    <3>2. QED BY <1>1, <1>4, <2>2, <3>1 DEF FilesThere
  <2>3. QED BY <2>1, <2>2
<1>6. Vanishes(h, u)
  BY <1>0, <1>1, <1>3, <1>4, <1>5 DEF PartsSeen
<1>7. CASE pc[h] = "rename" /\ pc'[h] \in LateLabels /\ req[h].id = u
  <2>1. Writes(h, u)
    BY <1>0, <1>7, Labelled DEF CommitLabels, Writes
  <2>2. g = h
    BY <1>0, <1>4, <2>1, OwnersKnow
  <2>3. QED BY <1>1, <1>7, <2>2 DEF PastCheck, CommitLabels, LateLabels
<1>8. CASE pc[h] \in {"discard", "unlink"} /\ req[h].id = u
  <2>1. req[h].op = "abort"
    BY <1>0, <1>8, Labelled
  <2>2. PICK c \in Clients : id[c] = u /\ CutShort(c)
    BY <1>0, <1>8, <2>1 DEF AbortsInv
  <2>3. PICK d \in Clients : id[d] = u /\ offset[d] = Len(Payload[d])
    BY <1>0, <1>4 DEF AbortsInv
  <2>4. c = d
    BY <1>0, <2>2, <2>3 DEF SystemInv, OwnerOf
  <2>5. Len(Payload[c]) \in Nat
    BY ClientFunctions DEF SystemInv
  <2>6. QED BY <2>2, <2>3, <2>4, <2>5 DEF CutShort, NothingGivenUp
<1>9. CASE pc[h] = "clear" /\ newId[h] = u
  <2>1. u \in Begun
    BY <1>0, <1>4, OwnersKnow
  <2>2. u # NoId
    BY <1>4, NoneAssumption
  <2>3. QED BY <1>0, <1>9, <2>1, <2>2, OwnersKnow
<1>10. QED BY <1>6, <1>7, <1>8, <1>9 DEF Vanishes

(* A client is told ok by a commit that is at its erase.                   *)
LEMMA ToldOk ==
    ASSUME SystemInv, result \in [Clients -> {"none", "ok", "error"}],
           NEW h \in Handlers, Serve(h), NEW c \in Clients,
           result'[c] = "ok", result[c] # "ok"
    PROVE  pc[h] = "erase" /\ req[h].id = id[c] /\ id[c] \in Begun /\ id'[c] = id[c]
<1>0. TypeInv /\ ClientTypes /\ CallsInv
  BY DEF SystemInv
<1>1. PICK d \in Clients :
          /\ call[d] = h
          /\ Hear(d, IF Succeeds(h) THEN "ok" ELSE "error", newId[h])
  BY DEF Serve, client
<1> DEFINE heard == IF Succeeds(h) THEN "ok" ELSE "error"
<1>2. heard \in {"ok", "error"} /\ Hear(d, heard, newId[h]) /\ (heard = "ok" => Succeeds(h))
  BY <1>1
<1> HIDE DEF heard
<1>3. d = c /\ stage[c] = "commit" /\ heard = "ok" /\ id'[c] = id[c]
  <2>1. /\ \A e \in Clients : e # d => result'[e] = result[e]
        /\ result'[d] = "ok" /\ result[d] # "ok" =>
               stage[d] = "commit" /\ heard = "ok" /\ id'[d] = id[d]
    BY <1>0, <1>2, HearResult
  <2>2. QED BY <2>1
<1>4. req[h].op = "commit" /\ req[h].id = id[c]
  BY <1>0, <1>1, <1>3, RequestsAreMade DEF CallsInv
<1>5. pc[h] = "erase"
  BY <1>0, <1>2, <1>3, <1>4
  DEF Succeeds, TypeInv, Shape, ChunkLabels, InitRequest, ChunkRequest
<1>6. QED BY <1>0, <1>3, <1>4, <1>5 DEF CallsInv

LEMMA OpenedKept ==
    ASSUME SystemInv, tied = {}, NEW h \in Handlers, HandlerStep(h), NEW v \in Begun
    PROVE  opened'[v] = opened[v]
<1>1. v \in Uploads /\ newId[h] # v /\ opened \in [Uploads -> Session \cup {NoSession}]
  BY OwnersKnow, NoneAssumption DEF Begun, SystemInv, TypeInv, TypeOK
<1>2. UploadsSeen(h)
  BY HandlerUploadsSeen DEF SystemInv
<1>3. QED BY <1>1, <1>2 DEF UploadsSeen

LEMMA OversServe ==
    ASSUME SystemInv, SystemInv', ServerInv, PayloadInv, tied = {}, DiskFaults = FALSE,
           result \in [Clients -> {"none", "ok", "error"}],
           NEW h \in Handlers, Serve(h), FilesThere, OversHold
    PROVE  OversHold'
<1>0. /\ TypeInv /\ TypeInv' /\ ClientTypes /\ HandlerStep(h)
      /\ PartsSeen(h)
      /\ \A g \in Handlers : g # h => pc'[g] = pc[g] /\ req'[g] = req[g]
      /\ pc'[h] # "idle" => req'[h] = req[h]
  BY HandlerPartsSeen, HandlerEffects, ServedCalls DEF SystemInv, Serve, OthersWait
<1>1. FilesSeen(h)
  BY <1>0, ServersKnow, HandlerFilesSeen DEF ClientTypes
<1>2. ASSUME NEW g \in Handlers, pc[g] \in CommitLabels \cup LateLabels
      PROVE  opened'[req[g].id] = opened[req[g].id]
  <2>1. PICK u \in Uploads : u = req[g].id /\ Writes(g, u)
    BY <1>0, <1>2, Labelled DEF Writes
  <2>2. u \in Begun
    BY <2>1, OwnersKnow
  <2>3. QED BY <1>0, <2>1, <2>2, OpenedKept
<1>3. SUFFICES ASSUME NEW t \in Targets, CommitOver(t)'
               PROVE  HoldsPayload(t)' \/ Filling(t)'
  BY DEF OversHold
<1>4. CASE Installs(h, t)
  BY <1>4, InstallsPayload
<1>5. CASE Vacates(h, t)
  <2>1. /\ pc[h] = "remove" /\ pc'[h] = "rename" /\ req'[h] = req[h]
        /\ opened[req[h].id].target = t
    BY <1>0, <1>5 DEF Vacates
  <2>2. opened'[req[h].id] = opened[req[h].id]
    BY <1>2, <2>1 DEF CommitLabels
  <2>3. QED BY <2>1, <2>2 DEF Filling
<1>6. CASE Kept(t) /\ ~Installs(h, t)
  <2>1. CommitOver(t)
    <3>1. ASSUME NEW g \in Handlers, pc'[g] \in LateLabels,
                 opened'[req'[g].id].target = t
          PROVE  CommitOver(t)
      <4>1. CASE pc[g] \in LateLabels
        BY <1>0, <1>2, <3>1, <4>1 DEF CommitOver, LateLabels
      <4>2. CASE pc[g] \notin LateLabels
        <5>1. g = h
          BY <1>0, <3>1, <4>2
        <5>2. PICK s \in Targets : Installs(h, s)
          BY <1>1, <3>1, <4>2, <5>1 DEF FilesSeen
        <5>3. pc[h] = "rename" /\ opened[req[h].id].target = s
          BY <5>2 DEF Installs
        <5>4. req'[h] = req[h]
          BY <1>0, <3>1, <5>1 DEF LateLabels
        <5>5. s = t
          BY <1>2, <3>1, <5>1, <5>3, <5>4 DEF CommitLabels
        <5>6. QED BY <1>6, <5>2, <5>5
      <4>3. QED BY <4>1, <4>2
    <3>2. ASSUME NEW c \in Clients, result'[c] = "ok", Path[c] = t PROVE CommitOver(t)
      <4>1. CASE result[c] = "ok"
        BY <3>2, <4>1 DEF CommitOver
      <4>2. CASE result[c] # "ok"
        <5>1. pc[h] = "erase" /\ req[h].id = id[c] /\ id[c] \in Begun
          BY <3>2, <4>2, ToldOk
        <5>2. id[c] # NoId
          BY <5>1, NoneAssumption DEF Begun
        <5>3. opened[req[h].id].target = t
          BY <3>2, <5>1, <5>2 DEF PayloadInv, Sent
        <5>4. QED BY <5>1, <5>3 DEF CommitOver, LateLabels
      <4>3. QED BY <4>1, <4>2
    <3>3. QED BY <1>3, <3>1, <3>2 DEF CommitOver
  <2>2. CASE HoldsPayload(t)
    BY <1>6, <2>2 DEF Kept, HoldsPayload, Exists
  <2>3. CASE Filling(t)
    <3>1. PICK g \in Handlers : pc[g] = "rename" /\ opened[req[g].id].target = t
      BY <2>3 DEF Filling
    <3>2. CASE g # h
      BY <1>0, <1>2, <3>1, <3>2 DEF Filling, CommitLabels
    <3>3. CASE g = h
      <4>1. part[req[h].id] # NoFile
        BY <3>1, <3>3 DEF FilesThere, PastCheck, CommitLabels
      <4>2. pc'[h] \in LateLabels
        BY <1>0, <3>1, <3>3, <4>1 DEF PartsSeen
      <4>3. PICK s \in Targets : Installs(h, s)
        BY <1>1, <3>1, <3>3, <4>2 DEF FilesSeen, LateLabels
      <4>4. QED BY <1>6, <3>1, <3>3, <4>3 DEF Installs
    <3>4. QED BY <3>2, <3>3
  <2>4. QED BY <2>1, <2>2, <2>3 DEF OversHold
<1>7. QED BY <1>1, <1>4, <1>5, <1>6 DEF FilesSeen

LEMMA InstalledInit == SystemInit => InstalledInv
BY DEF SystemInit, RustInit, Init, InstalledInv, AbortsInv, CommitOver, PastCheck, CommitLabels,
   LateLabels, NoRequest

LEMMA InstalledStep ==
    ASSUME DiskFaults = FALSE, SystemInv, SystemInv', ServerInv, PayloadInv, CleanInv,
           InstalledInv, [SystemNext]_systemVars
    PROVE  InstalledInv'
<1>0. /\ AbortsInv /\ result \in [Clients -> {"none", "ok", "error"}]
      /\ ClientTypes /\ pc \in [Handlers -> Labels]
  BY DEF InstalledInv, CleanInv, SystemInv, TypeInv, TypeOK
<1>1. AbortsInv'
  BY <1>0, AbortsStep
<1>2. SUFFICES ASSUME NothingGivenUp' PROVE FilesThere' /\ OversHold'
  BY <1>1 DEF InstalledInv, FilesThere, OversHold
<1>3. NothingGivenUp /\ ~ServerCrash /\ tied = {}
  BY <1>0, <1>2, StillNothing DEF NothingGivenUp
<1>4. FilesThere /\ OversHold
  BY <1>3 DEF InstalledInv, FilesThere, OversHold
<1>5. ASSUME UNCHANGED <<part, target, data, opened>>,
             \A c \in Clients : result'[c] = "ok" => result[c] = "ok",
             \A h \in Handlers :
                 \/ pc'[h] = pc[h] /\ req'[h] = req[h]
                 \/ pc[h] = "idle" /\ pc'[h] = "received"
      PROVE  FilesThere' /\ OversHold'
  <2>1. FilesThere'
    BY <1>4, <1>5 DEF FilesThere, PastCheck, CommitLabels
  <2>2. ASSUME NEW t \in Targets, CommitOver(t)' PROVE HoldsPayload(t)' \/ Filling(t)'
    <3>1. CommitOver(t)
      BY <1>5, <2>2 DEF CommitOver, LateLabels
    <3>2. CASE HoldsPayload(t)
      BY <1>5, <3>2 DEF HoldsPayload, Exists
    <3>3. CASE Filling(t)
      BY <1>5, <3>3 DEF Filling
    <3>4. QED BY <1>4, <3>1, <3>2, <3>3 DEF OversHold
  <2>3. QED BY <2>1, <2>2 DEF OversHold
<1>6. ASSUME NEW c \in Clients, Send(c) PROVE FilesThere' /\ OversHold'
  <2>1. /\ UNCHANGED <<part, target, data, opened, result>>
        /\ pc[IdleHandler] = "idle"
        /\ pc' = [pc EXCEPT ![IdleHandler] = "received"]
        /\ req' = [req EXCEPT ![IdleHandler] = NextRequest(c)]
    BY <1>6 DEF Send, Receive, disk, history
  <2>2. req \in [Handlers -> Requests \cup {NoRequest}]
    BY DEF SystemInv, TypeInv, TypeOK
  <2>3. QED BY <1>0, <1>5, <2>1, <2>2
<1>7. ASSUME NEW c \in Clients,
             LocalError(c) \/ NotDelivered(c) \/ ConnectionBreaks(c) \/ HearBroken(c)
      PROVE  FilesThere' /\ OversHold'
  <2>1. UNCHANGED <<part, target, data, opened, pc, req>>
    BY <1>7 DEF LocalError, NotDelivered, ConnectionBreaks, HearBroken, rustVars, vars, disk,
       local, history
  <2>2. \A d \in Clients : result'[d] = "ok" => result[d] = "ok"
    <3>1. CASE LocalError(c)
      BY <1>0, <3>1 DEF LocalError
    <3>2. CASE Hear(c, "broken", NoId)
      BY <1>0, <3>2, HearResult
    <3>3. QED BY <1>7, <3>1, <3>2 DEF NotDelivered, ConnectionBreaks, HearBroken
  <2>3. QED BY <1>5, <2>1, <2>2
<1>8. ASSUME NEW h \in Handlers, Serve(h) PROVE FilesThere' /\ OversHold'
  BY <1>0, <1>3, <1>4, <1>8, FilesThereServe, OversServe
<1>9. CASE UNCHANGED systemVars
  BY <1>5, <1>9 DEF systemVars, client, rustVars, vars, disk, local, history
<1>10. CASE SystemNext
  <2>1. \/ \E c \in Clients : Send(c)
        \/ \E c \in Clients :
               LocalError(c) \/ NotDelivered(c) \/ ConnectionBreaks(c) \/ HearBroken(c)
        \/ \E h \in Handlers : Serve(h)
    BY <1>3, <1>10, Zenon DEF SystemNext
  <2>2. QED BY <1>6, <1>7, <1>8, <2>1
<1>11. QED BY <1>9, <1>10

LEMMA InstalledMeans ==
    ASSUME SystemInv, CleanInv, PayloadInv, InstalledInv
    PROVE  OkMeansInstalled
<1> SUFFICES ASSUME NothingGivenUp, NEW c \in Clients, result[c] = "ok"
             PROVE  \/ CommitsInFlight(Path[c]) # {}
                    \/ /\ Exists(Path[c])
                       /\ \E d \in Clients : Path[d] = Path[c] /\ data[target[Path[c]]] = Payload[d]
  BY DEF OkMeansInstalled, NothingGivenUp
<1>1. Path[c] \in Targets
  <2>1. id[c] \in Begun /\ id[c] # NoId
    BY NoneAssumption DEF CleanInv, Begun
  <2>2. opened[id[c]].target = Path[c] /\ opened[id[c]] \in Session
    BY <2>1 DEF NothingGivenUp, PayloadInv, Sent, Begun, SystemInv, TypeInv, TypeOK
  <2>3. QED BY <2>2 DEF Session
<1>2. CommitOver(Path[c])
  BY DEF CommitOver
<1>3. CASE HoldsPayload(Path[c])
  BY <1>3 DEF HoldsPayload
<1>4. CASE Filling(Path[c])
  <2>1. PICK g \in Handlers : pc[g] = "rename" /\ opened[req[g].id].target = Path[c]
    BY <1>4 DEF Filling
  <2>2. req[g].op = "commit"
    BY <2>1, Labelled DEF SystemInv, CommitLabels
  <2>3. QED BY <2>1, <2>2 DEF CommitsInFlight
<1>5. QED BY <1>1, <1>2, <1>3, <1>4 DEF InstalledInv

(* An upload that returned ok is there to stay: as long as the disk does   *)
(* not fail, the server does not crash, no id is given twice and no client *)
(* gives up its commit, the path holds the whole file of a client that     *)
(* named it, except while another commit is replacing it, however many     *)
(* clients race for the path and whatever connections break.               *)
THEOREM OkStaysInstalled ==
    ASSUME DiskFaults = FALSE
    PROVE  SystemSpec => []OkMeansInstalled
<1> DEFINE All == SystemInv /\ CleanInv /\ ServerInv /\ PayloadInv /\ InstalledInv
<1>1. SystemInit => All
  BY SystemInvInit, CleanInvInit, ServerInvInit, PayloadInit, InstalledInit
<1>2. All /\ [SystemNext]_systemVars => All'
  BY SystemInvStep, CleanStep, ServerInvStep, PayloadStep, InstalledStep
<1>3. All => OkMeansInstalled
  BY InstalledMeans
<1>4. QED BY <1>1, <1>2, <1>3, PTL DEF SystemSpec

=============================================================================
