# first-rpc: TLA+ models, checks and proofs

first-rpc is a small RPC tool for looking at and changing files on a remote
host. One protocol (`proto/first_rpc.proto`) is served by two independent
servers, one in C++ over gRPC and one in Rust over tonic, and used by two
command-line clients, an MCP server for language-model hosts, and scripts that
start and stop the servers. This directory models the parts of it that keep
state or run concurrently, checks them with TLC on small instances, and proves
with TLAPS, for all sizes, nearly every safety property of the upload servers,
both execs, the management script and the front ends, that both upload servers
implement an abstract store, and that the shipped clients keep the promise those
proofs assume of callers.

## The system

| Part | State | Operations | Talks to |
|---|---|---|---|
| C++ upload service (`src/server/service_impl.cpp`) | `uploads_`, a map from upload id to session, under `uploads_mutex_`; `.part` files in `.first-rpc-uploads`; the target files | UploadInit, UploadChunk, UploadCommit, UploadAbort | called by the gRPC thread pool, several at a time |
| Rust upload service (`rust/src/ops.rs`) | the same, a `Mutex<HashMap>` | upload_init, upload_chunk, upload_commit, upload_abort | called by tokio workers |
| C++ exec (`src/common/exec_utils.cpp`) | one child process, two pipes, a clock per call | execute_command | the child and the processes it starts; also used by grep |
| Rust exec (`rust/src/ops.rs`) | the same, two reader tasks per call | execute_command | the child and the processes it starts |
| File operations (`src/common/file_ops.cpp`, `rust/src/ops.rs`) | none of their own | list, read, tail, grep, path resolution under `--root` | the disk, `rg` |
| Command-line clients (`src/client/main.cpp`, `rust/src/bin/first_rpc_client_rust.rs`, `rust/src/cli.rs`) | the command line; the upload loop: id, offset, local file | upload_file; one call for every other action | the servers, over connections that may break |
| MCP server (`rust/src/bin/first_rpc_mcp.rs`) | one lazily connected channel, one line in work | initialize, ping, tools/list, tools/call | a host on stdin/stdout, a server |
| `run_server.sh` | the pid file | start, stop, restart, status | the server process |
| systemd and install scripts, build scripts, formatting of replies | none at run time | | |

What makes it hard:

- the upload handlers hold the mutex for a look at the session and for the
  count afterwards, but not for the disk operation in between, so every call of
  a session can overlap every other at five or six places;
- installing a file is remove, rename, chmod: three system calls that other
  commits, aborts and crashes can come between;
- a client that lost its connection does not know whether its call is still
  running, and the handler does not know that nobody waits for it;
- exec races a command against a clock, with pipes that fill and processes that
  outlive the one that is killed;
- the management script knows its server only by a number in a file, which
  outlives the server, the machine's uptime and other invocations;
- the MCP server answers requests of a host that does not wait for it and may
  go away, over a connection that may break while a command runs;
- two servers and an external `rg` are to answer the same request alike, with
  limits counted in bytes here and in characters there.

What has to be true: the bytes in a temporary file are those acknowledged, in
order; only complete files appear at target paths; what is installed is never
written again; a session that ended stays ended; overwriting happens only when
asked for and keeps the permissions; nothing is left behind after success; an
ok reply means what it says; calls return. Of the front ends: every request is
answered once, nothing is carried out twice or unasked, and what a schema or a
command line says is what is sent.

## Modules and what they stand for

| Module | Models | Built on |
|---|---|---|
| `UploadService` | what the upload handlers of both servers share: the session table, the disk, the calls, a crash, and the properties | |
| `CppUploadServer` | the four upload handlers of the C++ server | `UploadService` |
| `RustUploadServer` | the four upload handlers of the Rust server | `UploadService` |
| `UploadInvariant` | what the invariants of both servers share | `UploadService` |
| `CppUploadInvariant` | what holds between the C++ handlers' steps | `CppUploadServer`, `UploadInvariant` |
| `CppUploadProofs` | theorems about the C++ upload server, its step to `UploadStore` included | `CppUploadInvariant` |
| `UploadStore` | what uploading means to a caller (abstract) | |
| `RustUploadInvariant` | what holds between the Rust handlers' steps | `RustUploadServer`, `UploadInvariant` |
| `RustUploadProofs` | theorems about the Rust upload server, its step to `UploadStore` included | `RustUploadInvariant`, `CppUploadProofs` |
| `UploadSystem` | both command-line clients, broken connections, a crash, over a server of either kind | `CppUploadServer`, `RustUploadServer` |
| `UploadSystemInvariant` | how clients, their calls and the handlers belong together, and what each upload has of its client's file | `UploadSystem`, `CppUploadInvariant`, `RustUploadInvariant` |
| `UploadSystemProofs` | theorems about the clients and the servers together | `UploadSystemInvariant`, `RustUploadProofs` |
| `MCCppUploadServer`, `MCRustUploadServer`, `MCUploadSystem` | the instances TLC checks | |
| `ExecPromise` | what one exec call promises (abstract) | |
| `ExecCommand` | what exec runs: a shell, processes it leaves behind, two pipes | |
| `CppExec` | `execute_command` of the C++ server, POSIX branch | `ExecCommand`, implements `ExecPromise` |
| `CppExecProofs` | theorems about it | `CppExec` |
| `RustExec` | `execute_command` of the Rust server | `ExecCommand` |
| `RustExecProofs` | theorems about it | `RustExec` |
| `ServerScript` | `run_server.sh`: start, stop, restart, status, the pid file, processes and reboots | |
| `ServerScriptProofs` | theorems about it | `ServerScript` |
| `RpcCalls` | the actions, their fields, and one call over a channel | |
| `McpServer` | the MCP server: lines, ids, schemas, arguments, answers | `RpcCalls` |
| `RustClient` | the Rust command-line client: words, options, exit code | `RpcCalls` |
| `FrontEnds`, `MCFrontEnds` | the two with their environment, and the properties | `McpServer`, `RustClient` |
| `FrontEndsProofs` | theorems about them | `FrontEnds` |
| `FileOps`, `MCFileOps` | path resolution and the replies of list, read, tail and grep of both servers | |
| `FileOpsProofs` | theorems about them | `FileOps` |

### The upload servers (`UploadService`, `CppUploadServer`, `RustUploadServer`)

An action is one critical section of `uploads_mutex_` or one file system call;
between two actions any other handler may run. `pc[h]` names the next step of
handler `h`, `req[h]` is its request, and `newId`, `ses`, `fd`, `saved` are the
handler's locals: the generated id, the copy of the session a commit takes, the
open `ofstream`, the preserved permissions.

| Code | Actions |
|---|---|
| `UploadInit` (149-189) | `UploadInitReject`; `UploadInitCreate` (the id and the empty `.part` file); `UploadInitRegister` (the table entry, the reply) |
| `UploadChunk` (191-227) | `UploadChunkReject` / `UploadChunkAccept` (the checks under the mutex); `UploadChunkOpen` / `UploadChunkRecreate` / `UploadChunkOpenFails`; `UploadChunkAppend` / `...AppendFails` / `...CloseFails`; `UploadChunkCount` / `UploadChunkGone` (`at()` under the mutex) |
| `UploadCommit` (229-260) | `UploadCommitReject` / `UploadCommitCopy`; `UploadCommitTempMissing` / `...TempExists`; `replace_file`; `UploadCommitErase` |
| `replace_file` (77-93) | `ReplaceRefuse` / `ReplaceVacant` / `ReplaceOccupied` (`exists`); `ReplaceStatus`; `ReplaceRemove`; `ReplaceRename` / `...RenameFails`; `ReplacePermissions` / `...PermissionsFail`; `UploadCommitFails` (any call before the rename) |
| `UploadAbort` (262-282) | `UploadAbortReject` / `UploadAbortErase`; `UploadAbortDiscard` / `...DiscardFails` |
| process death and restart | `Crash`: table and locals are lost, the disk stays |

The table is for the C++ server. The Rust server takes most of these steps, too
(they keep the C++ name in `UploadService`); its own steps have the names of its
functions and are where it differs. `upload_init` reads the clock for the id
(`upload_init_allocate`, which may read what an earlier one read), removes a
file of that name, creates its own and registers the session in place of one
with that id. `upload_chunk` opens without creating and reports every write that
fails. `replace_file` looks, reads the permissions, looks again, removes,
renames; reading or removing a file that vanished is an error, where C++ goes
on; and `Path::exists` takes a stat that fails for a missing file (`SeemsVacant`).
`upload_abort` looks and then unlinks. `tied`, `shared` and `torn` are
history: ids that two uploads got, the paths that such uploads named, uploads
that were told of a failed write. `WholeOrTold` excepts the paths of `shared`
rather than the uploads of `tied`: an upload may get the id of another one
*after* that one's file was installed, and what is remembered of the id then no
longer tells what is at the first one's path, which need not be its own.

Files follow POSIX: `part` and `target` link names to inodes, `data` and `perm`
belong to the inode, and a stream opened before a rename goes on writing to the
same inode under its new name. `opened`, `issued` and `accepted` are history:
what `UploadInit` registered, the ids handed out, the bytes acknowledged; so is
`undeleted`, the uploads whose `.part` file an abort could not remove. Both servers
erase the session before they remove its file, so such a file is out of reach of
any call, and the properties about orphans except it.

`Callers` says what may be in flight together: `"any"`; `"careful"`, one chunk
or commit of a session at a time while its abort may overtake it, which is how
the shipped clients behave; `"serial"`, one call per session and one commit per
target. That the clients are careful is not taken on trust: `OneWriterPerUpload`
is checked, and proved, of `UploadSystem`, where the callers are the modelled
clients and `Callers` is `"any"`.

### The abstract store (`UploadStore`)

To a caller the server is a set of paths and a set of open uploads. An upload
begins with a plan (path, size, overwrite), gathers bytes up to that size while
it is open, and its commit, once started on a complete and open upload, puts all
of it at the path in one step or gives up; an overwriting commit may vacate the
path before. A restart closes all uploads. There are no temporary files and no
table. `UploadService` ends with the mapping (`Store`): a path holds the bytes of
the inode it links to, `gathered` is `accepted`, and a commit is `committing`
from its copy of the session to its rename. The C++ server implements it for
careful callers and a disk that does not fail (`ImplementsStore`); the Rust
server, which shares ids in one tick of the clock, with a failing disk as long
as no two uploads got one id and none was told of an error
(`ImplementsStoreUnlessTold`).

### The clients (`UploadSystem`)

The server that runs is C++ or Rust, chosen at the start; `HandlerStep` takes
its handlers' steps, and both clients are run against either.

`upload_file` of each client is `stage`, `id`, `offset` and the pending `call`;
`AfterCall` says where a reply or a broken connection sends each of the two
clients, which differ: the C++ client takes a broken connection for an error
reply and aborts after a failed chunk, the Rust client leaves at once and aborts
only after a broken commit. `Serve(h)` is a step of the server's handler `h`;
when that step replies, the client that still waits hears it in the same step.
`NotDelivered` loses a request, `ConnectionBreaks` a call whose handler runs on,
`ServerCrash` breaks every pending call. The local file's size (`declared`) is
asked before the file is read and may be wrong by then.

### Exec (`ExecCommand`, `CppExec`, `RustExec`)

The command is the environment: the shell and what it started write to two
bounded pipes, end, or die of a signal in any order. A unit in a pipe is the
name of the process that wrote it, which is all the properties ask of output;
text, and the cut to `max_output_bytes`, are left out. The C++ call is a loop
over `stdout`, `stderr`, `wait`, `clock`, each an action; `reap` is the
`waitpid` after the kill and `catch` the exception path. The Rust call waits for
the shell under a timer while two tasks read the pipes to their end; the call
may be dropped with its connection. The `?` on the wait, the kill, the second wait
and the two tasks are `WaitFails`, `KillFails`, `KilledUnwaited` and `AnswerError`:
each replies an error at once, the first three with the shell running or a zombie. `late` says that the time is over; the
clock may be ahead of any step, so every order of timeout and exit is explored.

### The front ends (`RpcCalls`, `McpServer`, `RustClient`, `FrontEnds`)

A program is at `call` with a request that was not sent yet, at `wait` while the
server has it, and `told` when it knows what to say. `delivered` is history: the
requests that reached the server, each with the line that asked for it (0 for a
command line). A call breaks before or after its delivery; the server replies ok
or not.

The MCP server's lines have a form (blank, not UTF-8, not JSON, JSON) and of a
JSON value what the code looks at. `take_line` is `next_line`, `Silent` are the
lines that get no answer (blank ones and all without an id, notifications and
malformed values alike), `Immediate` is what a request is told that makes no
call, in the order of the code's checks, and `call_tool` makes the call. Two
tables stand apart as they do in the code: `Accepted` is what `required_string`,
`optional_string` and `optional_u64` take of each argument, `Schema`, `Required`
are what `tools()` declares. Integers that the schema allows and `as_u64` does not
read (100.0, 2^64 and above) are a kind of value of their own. A call has no
deadline: `own_step` is what the server does by itself, and a call may stay pending
for ever. The host writes its lines without waiting, and may
close stdin, or both pipes, at any moment: the first makes `next_line` return
`None` after the lines that were written, the second makes the next write fail.

The client's command line is a sequence of words. `action_from_args` takes the
first word that names an action wherever it stands, `arg_value` the word behind
the first use of an option, and `connect` comes before the numbers are parsed.
The exit code is 0 for help and for an ok reply.

### The management script (`ServerScript`)

An action is one command of the script that touches the pid file or a process;
`pc[s]` is the next command of invocation `s`, and `pid[s]` and `round[s]` are
its shell variables. `is_running` is `read`, `probe`, `unlink`; `start_server`
goes on with `launch`, `truncate` and `write` (a redirection empties the file
before `echo` writes it), `verify`, `giveup`; `stop_server` with `reread`,
`term`, `wait`, `kill`, `clean`. A pid stands for nothing, a server, one that
was sent SIGTERM and may not react, one that was sent SIGKILL and is not gone
yet, or a process that is not the server. Servers end by themselves at any step
(a port in use is one that ends at once), pids are given away again, and a
reboot ends everything but the pid file. Any number of invocations may run
together. `overlapped` is history and remembers whether they did. With
`DiskFaults` the redirection, the `echo` and every `rm -f` may fail, and `set -e` then
ends the script (in `is_running`, which is called as a condition, it does not). A
server whose start failed between the launch and the written pid file runs on with
nobody knowing it; `unrecorded` is history and remembers these, which the
properties except: the code does lose them, and the next start launches another.

### File operations (`FileOps`)

A text is a sequence of bytes of five kinds, enough to tell lines, carriage
returns and characters of two bytes apart. `getline` and `lines` are how C++ and
Rust cut lines, `from_utf8_lossy` and `take_chars` how Rust reads bytes and cuts
text; a grep reply is a sequence of rows of a line number and a text. `rg` is
external, and each server has its own run of it, with rows, missing (the server
then scans by itself), or failed: C++ gives it 30 seconds, finds it through a login
shell and takes any failure with "not found" in its stderr for a missing `rg`,
Rust waits and looks only at its own `PATH`. `grep_output_limit` is arithmetic modulo
`Word`, 2^64 in the code. One request is asked of both servers and the two replies stand side by
side in `cpp` and `rust`. Replies the code leaves undefined are kept: `lines = 0`
in C++ (`erase(begin())` of an empty vector) may give any of three outcomes, and
`String::truncate` inside a character gives no answer.

A location is the sequence of names from `/` down to it. `normalize_under_root`
is how the C++ server takes a path (it follows `..` first and then looks whether
it is still under the root) and `resolve_path` how the Rust server does (it
refuses as soon as a `..` leaves the root, and every path from `/`).
`ServersAgree` names the differences that plain text and positive limits leave:
those two, the C++ server
with `--root /` (it compares with `//` and refuses all but `/` itself), the tail
that is one empty line, an `rg` that fails one server and not the other, and in C++
under `rg` lines longer than the limit and limits whose product wraps around. Requests for
a file are asked of one file, absent or with any content, which both servers
resolve.

## Runs

All bounds are constants of the modules: `Uploads`, `Inodes`, `MaxUploadFileSize`
(1 to 3 bytes instead of 1 GiB), `MaxInits`, `MaxCrashes`, `MaxLosses`, `PipeSize`,
`MaxWrites`, `MaxTies`, `MaxLines`, `WaitRounds`, `Word` (16 instead of 2^64).

| Run | Instance | Shows |
|---|---|---|
| `upload_careful` | two handlers, two uploads of one existing file, two one-byte chunks each, one crash anywhere, careful callers | `TypeOK`, `StoredAsAccepted`, `TargetsWhole`, `NoWriteToTarget`, `ChunkAtOffset`, `ImplementsStore` |
| `upload_serial` | serial callers, overwriting or not, chunks of one and two bytes, empty and refused sizes | `PermissionsKept`, `ExistingKept`, `NoSilentReplace` |
| `rust_upload` | two handlers, two uploads that may share an id, one one-byte chunk (a failing write leaves it or not), careful callers, every file system call may fail, one crash | `NoOrphan`, `WholeOrTold`, `ImplementsStoreUnlessTold` |
| `upload_faults` | serial callers, every file system call may fail | `NoOrphanPart` |
| `system` | a C++ and a Rust client, a server of either kind, one path, two broken connections, one crash, a local file of the Rust client that may have grown, shrunk or become empty | `OneWriterPerUpload`, `TargetsArePayloads`, `CleanAfterOk`, `OkMeansInstalled`, `EveryUploadReturns` |
| `exec_cpp` | a shell, a background process, four writes, failing reads | `ReapedAtReturn`, `ShellOutputRead`, `Promise` (implements `ExecPromise`) |
| `server_script` | two invocations, two pids, one round of waiting, a pid file that may not be written or removed | `NoLostServer`, `OneServer`, `StopLeavesNone`, `StopTakesEffect`, `ScriptsEnd` |
| `file_ops` | paths of up to three steps in a tree of four directories and two files, under `/` and a directory; all files of up to four bytes of any kind and up to seven plain ones, limits from 0 to 3, each outcome of each server's `rg` | `TailShowsLastLines`, `GrepShowsMatches`, `FallbackAgrees`, `ServersAgree` |
| `exec_rust` | a command that may write for ever, a background process, a client that may go away, waits, kills and reads that may fail | `ReapedAtReturn`, `AllOutputRead`, `EveryExecEnds` |
| `front_ends` | hosts with up to two lines of eleven kinds or three of four kinds, one tools/call with up to three arguments of six kinds of values, command lines of up to three of twelve words and longer ones of options; calls that may break or never end, a host that may go away | `AnswersInOrder`, `DoneOnceIfAsked`, `SchemaHonoured`, `CommandLineObeyed`, `EveryRequestAnswered` |

Why these sizes: every step of a handler touches one session, at most one
`.part` file and one target, so two handlers on two sessions of one target meet
in every pair of steps; a third handler adds no new pair. Two chunks are the
least that can be stored in the wrong order and two bytes the least that can be
cut in half. Five inodes are enough for the old file, two uploads and what late
chunks create again. Handler names are interchangeable, and so are the two
bytes where no constant of the instance tells them apart; those are the
symmetry sets. In exec, a pipe of two units can be full, empty and in between,
and reads of one unit can be interrupted.
Two invocations overlap in every pair of commands; two pids let a pid be given
to a foreign process while the other runs a server; one round of
waiting can end in time or not. Files of seven plain bytes have lines longer
than every limit and two lines that match; `OutputFloor` and `RowSlack` are 5 and
3 instead of 1024 and 32, so that rg's output is cut, and with `Word` 16 the product of
two limits of 3 wraps around. In the front ends two lines
are enough for one to wait while the other is in work and three for one that
ends the server between two requests; three arguments are all that a tool requires and
one or two it does not, or names it does not know, in every mixture of kinds.
In `system` only the Rust client's file differs in size from what was declared:
a server refuses the chunk or the commit that no longer fits with an error
reply, and both clients take an error reply alike.
`MaxLines` only bounds the lines `EveryRequestAnswered` speaks of. `MaxTies` bounds how often two uploads get
one id: once in `rust_upload`, where it excepts the only path, so that what it must not do to others
is left to the theorems; never in `system`, whose properties except such
uploads anyway.

The runs that end in a violation, each a disagreement between the code and a
statement of the repository:

| Run | What TLC finds |
|---|---|
| `upload_full_disk` | `close()` is not checked (`:218`): bytes that could not be flushed are counted, and a short file is committed with ok |
| `exec_rust_hang` | a process the shell left behind holds the pipes, and the reply waits for it past the timeout (`ops.rs:317`) |

Some more that no run shows. Two chunks that are sent together with the same
offset are both acknowledged and the second is stored behind the first: the
offset is checked under the mutex, `received_size` moves only after the unlocked
append (`service_impl.cpp:201` and `:222`; with `Callers = "any"` TLC finds
`ChunkAtOffset` violated), while a test has a wrong offset rejected
(`tests/cpp/upload_service_tests.cpp:119`). A command that keeps a pipe filled holds
`append_from_fd` (`exec_utils.cpp:50`), and the timeout of `README.md:355` never
comes. When two overwriting commits of one path overlap,
one may look at the path while the other has it removed, and the permissions
are lost although both reply ok (`service_impl.cpp:85`). A Rust call whose shell
exits between the timer and the kill replies `timed_out=true` with the shell's
own code instead of the 124 of `README.md:355` (`ops.rs:313`; TLC finds
`reply.timed_out => reply.exit_code = 124` violated in `RustExec`). Without `rg` the Rust
server does not always fall back as `README.md:362` says: a long line that is cut
inside a character makes `String::truncate` panic, and there is no reply
(`ops.rs:173`). A start of
the management script whose pid file cannot be written leaves its server running
and unknown (`run_server.sh:321`), an abort whose unlink fails leaves the `.part`
file (`service_impl.cpp:277`, `ops.rs:653`), and a Rust exec whose wait or kill fails
leaves its shell (`ops.rs:309`): the properties except these three, and the first is
also what a signal to the script at that place does. The schemas of the MCP server say that a
limit is an integer of at least 1, but `optional_u64` takes 0 and refuses what
`as_u64` does not read, 100.0 and all from 2^64 on (`first_rpc_mcp.rs:77`); and they
allow the empty strings that `required_string` refuses (`:62`); a call that fails
has the structured content `{"error": ...}`, which is not of the declared
`outputSchema` (`:86` and `:358`). `--path exec list_dir` runs exec. With
`--chunk-size 0` the Rust client sends no chunk, and the commit of a file that is not
empty is refused.

`ServersAgree` lists where the servers differ on plain text and positive limits:
the last line of a file, asked for alone and empty, is a newline in C++ and
nothing in Rust; and the C++ server cuts rg's output at a byte limit, so that
lines longer than `max_line_length` may push later matches out, and so may limits
so large that the byte limit wraps around (`file_ops.cpp:62`); and only the C++ server
gives `rg` a deadline. On other input
they differ by design of the code: a carriage return stays in C++ and goes in
Rust, and C++ counts bytes where Rust counts characters.

## Fairness

`EveryUploadReturns` assumes that a client goes on with its loop (`Send` or
`HearBroken`) and that a thread serving a call takes its next step
(`WF(Serve(h))`): no handler waits for anything but the mutex, which is held
for bounded work. Nothing is assumed of the network or of crashes, and there
are only finitely many of either. `exec` assumes that the server's thread (the
runtime's tasks in Rust) runs and that time passes; of the command nothing is
assumed, it may sleep or write for ever. Every invocation of the script goes on
with its next command (`WF(Command(s))`), and the kernel carries out a SIGKILL
(`WF(KilledEnds(p))`); nothing makes a server react to SIGTERM. `Promise` is checked with a bound on
the command's writes; without one the C++ call need not end (see above). `EveryRequestAnswered` assumes that
the MCP server and the client go on with what they do by themselves
(`WF(own_step)`, `WF(straight)`), and that a host which keeps its end of stdout open
reads it. Of calls nothing is assumed, neither that they are delivered nor that they
end: tonic has no timeout here, and a server that keeps a call for ever (as in
`exec_rust_hang`) keeps the MCP server, too. That, and a line that is not UTF-8, is all
that the property allows to keep an answer from a host that listens. Nothing else is
assumed of the host, whose lines are owed an answer whenever it writes them. In
the Rust exec the reader tasks are fair on their own, so `EveryExecEnds` needs no such
bound, and no step that fails is ever required to happen; its exception, a background process that never ends, is the finding of
`exec_rust_hang`.

## Proofs

`CppUploadProofs` proves, for any number of handlers, uploads, targets, chunks
and crashes, and for any sizes:

| Theorem | Assumes | Property |
|---|---|---|
| `TypeCorrect` | nothing | `TypeOK` |
| `InstalledFilesAreClosed` | callers not `"any"` | `NoWriteToTarget` |
| `WholeFilesOnly` | callers not `"any"`, no disk faults | `TargetsWhole` |
| `PartsAsAcknowledged` | the same | `StoredAsAccepted` |
| `ChunksInPlace` | the same | `ChunkAtOffset` |

None of these is inductive by itself. `CppUploadInvariant` builds the invariant
in four layers, each inductive on top of the ones before: what a handler's
locals hold at each label (`TypeInv`); fresh ids and one writer per session
(`IdsInv`); no inode is shared between a `.part` name, a target and a foreign
stream (`FilesInv`); and the bytes (`BytesInv`): a live session's file is the
acknowledged chunks, plus one chunk exactly when a handler has appended and not
counted it, and a commit past its check would install all of it. The argument
of `WholeFilesOnly` is that once `received_size` equals `expected_size` no chunk
passes the check any more, and with one writer none is on its way; an abort may
take the file away but never changes it. The assumptions are necessary: the
run `upload_full_disk` drops one, and overlapping chunks (see above) the other. `ChunkRequest` excludes empty chunks, which the
shipped clients never send.

It proves `StoreImplemented`, too: under the same assumptions every
behaviour of the C++ server is one of `UploadStore` (`Spec => ImplementsStore`),
for all sizes. It takes the invariant above and one more layer, `PlansInv`: a
session, and the copy a commit holds of it, are what `UploadInit` registered for
that id. Each handler's step is then shown to be one step of the store or to
change nothing it sees: registering is `Begin`, counting `Gather`, copying the
session `Start`, removing the target `Vacate`, the rename `Install`, erasing
`Close`; a chunk that is appended and not yet counted is unseen because it goes
to an inode that no path links to (`FilesKept`).

And it proves what a caller may rely on who has one call of an
upload and one commit of a path in flight (`Callers = "serial"`):

| Theorem | Assumes, besides serial callers | Property |
|---|---|---|
| `ReplacesOnlyWhenAsked` | nothing | `NoSilentReplace` |
| `NoPartIsLeft` | no crashes; any disk, the uploads of `undeleted` excepted | `NoOrphanPart` |
| `PermissionsStay`, `ExistingStay` | no crashes, no disk faults | `PermissionsKept`, `ExistingKept` |

`SerialInv` says that a commit which found its path vacant, or made it so, has it
vacant until its rename; `PartsInv` that a session outlives the calls that found
it and is gone only with its file; `KeptInv` that a file which was there is
intact, or is just being replaced by a commit that holds its permissions. A crash
really may cost the old file (between `remove` and `rename`), so may a rename
that fails, and every crash leaves `.part` files: the assumptions are those under
which the runs check these properties, and none of them is idle.

`RustUploadProofs` proves of the Rust server, for all sizes:

| Theorem | Assumes | Property |
|---|---|---|
| `NobodyIsOrphaned` | nothing: any callers, any disk, ids that collide; `undeleted` excepted | `NoOrphan` |
| `InstalledWholeOrTold` | callers not `"any"` | `WholeOrTold` |
| `StoreImplementedUnlessTold` | callers not `"any"` | `ImplementsStoreUnlessTold` |

Ids are not unique here and writes fail and are told, so the invariant
(`RustUploadInvariant`) speaks of one upload at a time: what `Tidy(u)` says of
its id, session and file holds as long as `u` has its id for itself, and what
`BytesOf(u)` says of its bytes as long as no write of `u` was told to fail.
`TidyInv` needs nothing of callers. `RustInv` adds `OneWriter`, `FilesInv`, the
bytes and the paths: `SharedInv` keeps uploads that share an id within the paths
noted for them, and `TargetsInv` says whose file each other path holds. That is
the part that makes `WholeOrTold` inductive: the file at a path is tied to an
upload which got its id alone and whose history will not change any more. For
the store, as long as no id was given twice and no write was told to fail,
`RustInv` gives the invariants of the C++ proof, most Rust steps are C++ steps,
and only the init, the abort and the second look of `replace_file` need an
argument of their own.

`UploadSystemProofs` proves `OneWriterOfEachUpload`: `OneWriterPerUpload` in every
reachable state of `UploadSystem`, for any numbers of clients of either kind and
of handlers, whichever server runs, any crashes, broken connections and disk
faults. It is the promise that `Callers = "careful"` stands for, so that the
assumption of the servers' theorems is one the shipped clients keep. Its
invariant (`SystemInv`) relates three parties that change independently: a
client's pending call is served by the handler whose request is what the client
sent last, and by no other's (`CallsInv`); an id is not known to any client
before the handler that chose it replies, and then to one (`OwnerOf`); and a
handler that serves a chunk or a commit of `u` is either the one `u`'s client
waits for, or that client has given up and will send no chunk or commit any more
(`Leaving`). That the last two suffice depends on what each client does when a
call breaks: one that sent its chunk again (`AfterCallRetry`, a mutant) breaks it.
`HandlerEffects` condenses all steps of both servers to what the clients can
tell: an id is chosen, registered, or nothing happens to ids.
`RequestsAssumption` says that the pieces a client cuts its file into are chunks
of the model, and `CallsAssumption` that "no call" and "broken" are no handlers.

It proves `OkLeavesNothing` too: `CleanAfterOk` in every reachable state, under no
assumption but those of the module. On top of `SystemInv`, `CleanInv` says that a
commit past its rename has no `.part` file any more, which stays so because no
other chunk or commit of the upload is in flight to make one again (the C++
server's open creates a missing file); and that an upload whose client was told ok
is `Gone`: no session, no file, and no chunk or commit in flight that could bring
either back. So the property rests on `OneWriterOfEachUpload`: a client that gave
up on a chunk never goes on to commit.

The other two state what the pair of them is for, end to end:

| Theorem | Assumes | Property |
|---|---|---|
| `TargetsHoldPayloads` | no disk faults, or only the Rust server | `TargetsArePayloads` |
| `OkStaysInstalled` | no disk faults | `OkMeansInstalled` |

The first step (`SystemSteps`) is that every step of the system is a step of the
server that runs, or changes nothing it sees. What the servers' invariants ask of
callers is one writer of an upload, and that is `OneWriterOfEachUpload`; so they
hold here, as long as no two uploads got one id (`ServerInv`). `PayloadInv` adds
the clients: what was acknowledged of an upload is the prefix of its client's file
that this client has counted in `offset` (`Sent`), in the same step, since the
reply is heard when the handler counts; a commit in flight is of a client that sent
all of its file (`WholePayload`); and an upload whose write was told to fail has
nothing in flight, and a client that will only abort it (`GivenUp`). Then what a
rename puts at a path is one client's file (`InstallsPayload`), and no other step
touches the bytes of a path (`FilesSeen`). The last part of `PayloadInv` is the
reason that disk faults are no matter with the Rust server, which reports every
write that fails. With the C++ server they are: what a failed `close()` loses is
reported to nobody, so a short file may be installed.

`OkStaysInstalled` needs the order of events as well. `AbortsInv` says that an
upload's client cannot both have sent all of the file and abort it, unless it gave
up its commit. So nothing takes the `.part` file from under a commit that found it
(`FilesThereServe`), its rename does not fail, and a path that it vacated to replace
what another client was told ok for is filled again (`Filling`). Disk faults are
excluded because a rename that fails leaves the vacated path vacant.

`FrontEndsProofs` proves the four safety properties of `FrontEnds`
(`AnswersInOrder`, `DoneOnceIfAsked`, `SchemaHonoured`, `CommandLineObeyed`) for
hosts with any lines, arguments of any shape, command lines of any length, and
calls that break anywhere. Its invariant says which lines have been answered when
the server is at a given point (`OutInv`), that what was delivered was asked for,
in the order of the lines and once (`DeliveredInv`), and what the server and the
client have in work (`McpInv`, `ClientInv`). The last two properties are then
facts about the tables and the parser: `Schema` against `Accepted` for each of
the six tools, as far as `as_u64` reads the numbers, and the words behind the options of a command line.

`RustExecProofs` proves `ReapedAtReturn` and `AllOutputRead` of `RustExec` for any
command, timer, disconnect, and any waits, kills and reads that fail. Its invariant (`IInv` of `RustExec`) says where the
shell is at each step (`Phases`), that a pipe whose end a task saw is empty and
held by nobody (`Drained`), and that an ok reply came after both ends (`Verdict`). `Drained`
is the core: once nobody holds a pipe nobody ever will, since only the running
shell starts processes.

`CppExecProofs` proves `ShellIsReaped`, `NothingUnread` and `KeepsPromise`, the
last being the safety part of `Promise`: the initial states of `CppExec` are
initial in `ExecPromise`, and every step is one it allows or changes nothing it
sees. The invariant (`IInv` of `CppExec`) says how far the shell is at each
label (`Phases`), what the result says once the shell is reaped (`Verdict`), and
which pipe the last reads have emptied of the shell's output (`LastReads`); it
needs the fact that a process that is not running writes no more
(`CommandStepKeeps`). Pipe size, read size and the number of processes and
writes are arbitrary.

`ServerScriptProofs` proves `TypeOK` (not among the runs' properties), `NoLostServer`, `OneServer` and
`StopLeavesNone` of `ServerScript` for any pids, invocations and rounds, with a pid file
that may fail to be written or removed. Its
invariant has three parts: as long as invocations did not overlap, at most one
of them is not idle (`Alone`); what each knows of the pid file and of
the servers at each command (`Handles`); and the pid file names every server
that runs, unless an invocation has yet to write it or its start failed to
(`Known`). So all servers but the unrecorded have one pid, which is `OneServer`. A process that was sent SIGKILL runs no more
code and is not counted as a server.

`FileOpsProofs` proves the four properties of `FileOps` that hold, for every directory tree,
every file of any length, every path, needle and limit:

| Theorem | Property |
|---|---|
| `TailIsTheEnd` | `TailShowsLastLines` |
| `GrepIsTheMatches` | `GrepShowsMatches` |
| `FallbackIsRg` | `FallbackAgrees` |
| `ServersReplyAlike` | `ServersAgree` |

The inductive invariant, `Served`, only says that `cpp` and `rust` are the
handlers' replies to the request being served; the work is in what the replies
are. Lines, rings, rows, paths and cut output are recursive functions on `0 .. n`
in the model. A lemma for each says that the function there is obeys its
equations (`Recursion` builds it step by step, `UpTo` is induction up to `n` over
a set; both rest on the least element of a set of numbers, since the library's
own theorems take operators as parameters), and one more what its value is:
`OrderedIs` (the members of a set, each once, in order), `RingIs` (after each
line the ring is the last of the lines so far: the loop invariant of
`tail_file_text`), `UnlinesSteps`, `CapturedIs` (rg's output cut at a limit is a
beginning of the rows and of the last of them), `WalkSteps`. From there:

- `CapturedAll` multiplies: if no row is wider than `max_line_length + RowSlack`,
  `max_matches` rows fit into `grep_output_limit`, unless the product wraps around
  (`Wraps`). `SlackAssumption` is what makes
  it true, that the number of a line, a colon and a newline are no longer than
  `RowSlack`; with 32 that is so for every 64-bit number.
- `CharsUpToIs` and `TakeCharsIs` say what a cut after so many characters is, which
  for plain text is a cut after so many bytes.
- `RootThenPath` is the reason that the two ways to take a path agree: as long as
  no `..` leaves the root, after each step the place reached from the root is the
  root followed by the place reached from `/`, whose length is the names so far
  less the `..`s, so that a `..` always finds a name of the path to take away.
- Files of plain characters look the same to both (`PlainText`, `PlainLines`,
  `PlainTakeChars`).

Its assumptions are the module's: texts are sequences of `Bytes`, locations are
sequences of `Names` (of which `dot` and `up` are none), the parent of every
location is a directory, and an error is not a directory (`TreeAssumption`).

So every safety property that a passing run checks is a theorem. Only model-checked is
liveness: `EveryUploadReturns`, `EveryExecEnds`, `StopTakesEffect`, `ScriptsEnd`,
`EveryRequestAnswered`, and the fairness in `Promise`. TLAPS proves nothing about
`ENABLED` and fairness here.

The invariants that the proofs add (`SystemInv`, `ServerInv`, `PayloadInv`,
`InstalledInv`, `Served` and their like for the other components) hold on the instances of
the runs, too; the cfgs list only the properties that follow from them.

## Not modelled

- The Windows branches (`CreateProcess`, `MoveFileEx` and the PowerShell
  scripts): only the POSIX side is modelled.
- Symbolic links; and, in uploads and exec, directories below `--root`: there
  target paths are atoms, and path resolution either succeeds or refuses.
- The token: a request may be refused at any time (`Unauthorized`).
- `--foreground`, which keeps no pid file; a second user, whose processes
  `kill -0` cannot see; the search for the server's binary.
- Directories and binary files given to `rg`.
- A failing look at the path of a new `.part` file, before it is created: `UploadInit`
  may fail to create it, which leaves the same.
- Descriptors and memory as resources (`ring.reserve` of a huge `lines` among them), and the pids of exec's children; the hazards in `PROJECT.json` name
  where the code is exposed to them.
- The texts of replies, of JSON-RPC results and of error messages; host
  information; the C++ client's argument parsing (its upload loop is modelled);
  the servers' own options.
- Installers, build and systemd scripts: run once, by hand.

## Plan

What is left, most important first:

1. The front ends over a modelled server instead of any server, if a property
   needs to relate the two.
2. Symbolic links in `FileOps`: the C++ server follows them before it compares a
   path with the root, the Rust server looks at the names only.
