-------------------------- MODULE UploadSystem -----------------------------
(***************************************************************************)
(* The shipped command-line clients (upload_file of src/client/main.cpp    *)
(* and of rust/src/bin/first_rpc_client_rust.rs) uploading one file each   *)
(* to a server, C++ or Rust, over connections that may break at any        *)
(* moment: before the request arrives, while its handler runs, or after    *)
(* the handler is done and before the reply is read.  A handler whose      *)
(* client gave up runs on to its end, in both servers.                     *)
(***************************************************************************)
EXTENDS CppUploadServer, RustUploadServer

CONSTANTS
    Servers,        \* the servers the clients may be given
    Clients,
    Kind,           \* client -> "cpp" or "rust"
    Path, Overwrite,
    Payload,        \* client -> the bytes its loop reads from the local file
    Declared,       \* client -> the sizes the file may have had beforehand
    ChunkSize,
    MaxLosses,      \* bound on broken connections
    NoCall, Broken

ASSUME ClientsAssumption ==
    /\ Servers \subseteq {"cpp", "rust"}
    /\ Kind \in [Clients -> {"cpp", "rust"}]
    /\ Overwrite \in [Clients -> Overwrites]
    /\ Payload \in [Clients -> Seq(Blocks)]
    /\ Declared \in [Clients -> SUBSET Sizes]
    /\ ChunkSize \in Nat \ {0}
    /\ Callers = "any"      \* the clients below are the callers

(* Chunks holds the pieces that the read loops cut the local files into.   *)
ASSUME RequestsAssumption ==
    /\ Path \in [Clients -> Targets \cup {BadPath}]
    /\ \A c \in Clients, k \in 0 .. MaxUploadFileSize, n \in 1 .. ChunkSize :
           k + n <= Len(Payload[c]) => SubSeq(Payload[c], k + 1, k + n) \in Chunks

ASSUME CallsAssumption ==
    NoCall \notin Handlers /\ Broken \notin Handlers /\ NoCall # Broken

VARIABLES
    server,     \* the server that runs
    declared,   \* client -> the size its local file had when it was asked
    stage,      \* client -> "init", "chunk", "commit", "abort" or "done"
    id,         \* client -> the upload_id it was given
    offset,     \* client -> bytes acknowledged to it
    call,       \* client -> the handler of its pending call, NoCall or Broken
    result,     \* client -> what upload_file returned: "none", "ok", "error"
    losses

client     == <<declared, stage, id, offset, call, result>>
systemVars == <<rustVars, server, client, losses>>

SystemInit ==
    /\ RustInit
    /\ server \in Servers
    /\ declared \in {f \in [Clients -> Sizes] : \A c \in Clients : f[c] \in Declared[c]}
    /\ stage = [c \in Clients |-> "init"]
    /\ id = [c \in Clients |-> NoId]
    /\ offset = [c \in Clients |-> 0]
    /\ call = [c \in Clients |-> NoCall]
    /\ result = [c \in Clients |-> "none"]
    /\ losses = 0

-----------------------------------------------------------------------------
(* upload_file.                                                            *)

NextChunk(c) ==
    LET rest == Len(Payload[c]) - offset[c]
        n    == IF rest < ChunkSize THEN rest ELSE ChunkSize
    IN  SubSeq(Payload[c], offset[c] + 1, offset[c] + n)

NextRequest(c) ==
    CASE stage[c] = "init"   -> [op |-> "init", path |-> Path[c], size |-> declared[c],
                                 overwrite |-> Overwrite[c]]
      [] stage[c] = "chunk"  -> [op |-> "chunk", id |-> id[c], offset |-> offset[c],
                                 content |-> NextChunk(c)]
      [] OTHER               -> [op |-> stage[c], id |-> id[c]]

Sending(c) == stage[c] # "done" /\ call[c] = NoCall

(* The read loop: another chunk while the file has bytes, then the commit. *)
ReadOn(c, n) == IF n < Len(Payload[c]) THEN "chunk" ELSE "commit"

(* A slip: a client that sends a chunk again until it is acknowledged.     *)
AfterCallRetry(c, heard) ==
    CASE stage[c] = "init"   -> IF heard = "ok" THEN ReadOn(c, 0) ELSE "done"
      [] stage[c] = "chunk"  ->
             IF heard = "ok" THEN ReadOn(c, offset[c] + Len(NextChunk(c))) ELSE "chunk"
      [] OTHER -> "done"

(* Where a call's outcome sends the client: a reply ("ok" or "error") or a *)
(* broken connection.  The C++ client takes the latter for an error reply; *)
(* the Rust client leaves with it, aborting only if it broke a commit.     *)
AfterCall(c, heard) ==
    CASE stage[c] = "init"   -> IF heard = "ok" THEN ReadOn(c, 0) ELSE "done"
      [] stage[c] = "chunk"  ->
             IF heard = "ok" THEN ReadOn(c, offset[c] + Len(NextChunk(c)))
             ELSE IF heard = "broken" /\ Kind[c] = "rust" THEN "done" ELSE "abort"
      [] stage[c] = "commit" ->
             IF heard = "broken" /\ Kind[c] = "rust" THEN "abort" ELSE "done"
      [] OTHER -> "done"

(* What upload_file returns when it is done after this call.               *)
AnyReplyIsOk(c, heard) == IF stage[c] = "commit" /\ heard # "error" THEN "ok" ELSE "error"
Returned(c, heard) == IF stage[c] = "commit" /\ heard = "ok" THEN "ok" ELSE "error"

Hear(c, heard, newid) ==
    /\ stage' = [stage EXCEPT ![c] = AfterCall(c, heard)]
    /\ UNCHANGED declared
    /\ id' = [id EXCEPT ![c] = IF stage[c] = "init" /\ heard = "ok" THEN newid ELSE @]
    /\ offset' = [offset EXCEPT ![c] =
                     IF stage[c] = "chunk" /\ heard = "ok" THEN @ + Len(NextChunk(c)) ELSE @]
    /\ result' = [result EXCEPT ![c] =
                     IF AfterCall(c, heard) = "done" THEN Returned(c, heard) ELSE @]
    /\ call' = [call EXCEPT ![c] = NoCall]

(* The threads of a server are alike: a call goes to any that is idle.     *)
IdleHandlers == {h \in Handlers : pc[h] = "idle"}
IdleHandler  == CHOOSE h \in Handlers : h \in IdleHandlers

Send(c) ==
    /\ Sending(c)
    /\ IdleHandlers # {}
    /\ Receive(IdleHandler, NextRequest(c))
    /\ call' = [call EXCEPT ![c] = IdleHandler]
    /\ UNCHANGED <<told, server, declared, stage, id, offset, result, losses>>

(* The local file cannot be opened, or (Rust) read: both clients leave at  *)
(* once, without aborting.                                                 *)
LocalError(c) ==
    /\ Sending(c) /\ stage[c] \in {"chunk", "commit"}
    /\ Kind[c] = "rust" \/ offset[c] = 0
    /\ stage' = [stage EXCEPT ![c] = "done"]
    /\ result' = [result EXCEPT ![c] = "error"]
    /\ UNCHANGED <<rustVars, server, declared, id, offset, call, losses>>

-----------------------------------------------------------------------------
(* The network.                                                            *)

Lose == losses < MaxLosses /\ losses' = losses + 1

NotDelivered(c) ==
    /\ Sending(c)
    /\ Lose
    /\ Hear(c, "broken", NoId)
    /\ UNCHANGED <<rustVars, server>>

ConnectionBreaks(c) ==
    /\ call[c] \in Handlers
    /\ Lose
    /\ Hear(c, "broken", NoId)
    /\ UNCHANGED <<rustVars, server>>

HearBroken(c) ==
    /\ call[c] = Broken
    /\ Hear(c, "broken", NoId)
    /\ UNCHANGED <<rustVars, server, losses>>

-----------------------------------------------------------------------------
(* The server.  Each client has the right token.                           *)

HandlerStep(h) ==
    \/ /\ server = "cpp"
       /\ UploadInit(h) \/ UploadChunk(h) \/ UploadCommit(h) \/ UploadAbort(h)
       /\ UNCHANGED told
    \/ /\ server = "rust"
       /\ upload_init(h) \/ upload_chunk(h) \/ upload_commit(h) \/ upload_abort(h)

Serve(h) ==
    /\ HandlerStep(h)
    /\ \/ /\ pc'[h] # "idle" \/ \A c \in Clients : call[c] # h
          /\ UNCHANGED client
       \/ /\ pc'[h] = "idle"
          /\ \E c \in Clients :
                 /\ call[c] = h
                 /\ Hear(c, IF Succeeds(h) THEN "ok" ELSE "error", newId[h])
    /\ UNCHANGED <<server, losses>>

ServerCrash ==
    /\ Crash
    /\ call' = [c \in Clients |-> IF call[c] \in Handlers THEN Broken ELSE call[c]]
    /\ UNCHANGED <<told, server, declared, stage, id, offset, result, losses>>

SystemNext ==
    \/ \E c \in Clients : \/ Send(c) \/ LocalError(c)
                          \/ NotDelivered(c) \/ ConnectionBreaks(c) \/ HearBroken(c)
    \/ \E h \in Handlers : Serve(h)
    \/ ServerCrash

(* A client goes on with its loop, a thread of the server with its call.   *)
Fairness ==
    /\ \A c \in Clients : WF_systemVars(Send(c) \/ HearBroken(c))
    /\ \A h \in Handlers : WF_systemVars(Serve(h))

SystemSpec == SystemInit /\ [][SystemNext]_systemVars /\ Fairness

-----------------------------------------------------------------------------
(* Properties.                                                             *)

(* The promise that the server's checks and proofs take from its callers:  *)
(* no session ever has two chunks or commits in flight, also when a client *)
(* gave up on a call whose handler still runs.  Uploads that the Rust      *)
(* server gave one id excepted.                                            *)
OneWriterPerUpload ==
    \A u \in Uploads \ tied : Cardinality(InFlight(u, {"chunk", "commit"})) <= 1

(* End to end, a target path only ever holds its old file or exactly the   *)
(* bytes of one client's local file, never a part of one or a mixture,     *)
(* whatever breaks when, unless two uploads got one id.                    *)
TargetsArePayloads ==
    tied = {} => \A t \in Targets : Exists(t) =>
        \/ data[target[t]] = OldData
        \/ \E c \in Clients : Path[c] = t /\ data[target[t]] = Payload[c]

(* An upload that returned ok leaves no session and no .part file behind.  *)
CleanAfterOk ==
    \A c \in Clients : result[c] = "ok" /\ id[c] \notin tied =>
        ~Live(id[c]) /\ part[id[c]] = NoFile

(* An upload that returned ok is there to stay: as long as the server does *)
(* not crash, gives no id twice, and no Rust client gives up its commit    *)
(* (and aborts it), the path holds the file of a client that named it,     *)
(* except while another commit is replacing it.                            *)
GaveUpCommit(c) ==
    /\ Kind[c] = "rust" /\ offset[c] = Len(Payload[c])
    /\ stage[c] = "abort" \/ result[c] = "error"

OkMeansInstalled ==
    crashes = 0 /\ tied = {} /\ (\A c \in Clients : ~GaveUpCommit(c)) =>
        \A c \in Clients : result[c] = "ok" =>
            \/ CommitsInFlight(Path[c]) # {}
            \/ /\ Exists(Path[c])
               /\ \E d \in Clients : Path[d] = Path[c] /\ data[target[Path[c]]] = Payload[d]

(* upload_file always returns, however its calls end.                      *)
EveryUploadReturns == <>(\A c \in Clients : stage[c] = "done")

=============================================================================
