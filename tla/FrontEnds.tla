------------------------------ MODULE FrontEnds ------------------------------
(***************************************************************************)
(* The Rust front ends at work together: an MCP server with its host and a *)
(* command-line client, each with a channel of its own to one server that  *)
(* may refuse, break off or not be there.                                  *)
(***************************************************************************)
EXTENDS McpServer, RustClient

CONSTANTS
    Uses,       \* pairs of the lines of a host and a command line
    MaxLines

Lines == UNION {{use[1][k] : k \in DOMAIN use[1]} : use \in Uses}

ASSUME UsesAssumption ==
    /\ MaxLines \in Nat
    /\ \A use \in Uses :
           use[1] \in Seq(Lines) /\ Len(use[1]) <= MaxLines /\ use[2] \in Seq(STRING)
    /\ \A line \in Lines :
           IsJson(line) => line.id \in Ids \cup {NoId} /\ line.method \in Methods
ASSUME ProgramsAssumption == Programs = {mcp, client}

vars == <<calls, mcpVars, clientVars>>

Init ==
    /\ CallsInit([mcp |-> "read", client |-> "start"])
    /\ \E use \in Uses : McpInit(use[1]) /\ ClientInit(use[2])

McpStep    == main_loop /\ UNCHANGED clientVars
HostStep   == (HostWrites \/ HostCloses) /\ UNCHANGED clientVars
ClientStep == main /\ UNCHANGED mcpVars

Next == McpStep \/ HostStep \/ ClientStep

(* Both programs go on with what they do by themselves.  A call has no     *)
(* deadline: it may wait for its server for ever.                          *)
Spec ==
    /\ Init /\ [][Next]_vars
    /\ WF_vars(own_step /\ UNCHANGED clientVars)
    /\ WF_vars(straight /\ UNCHANGED mcpVars)

-----------------------------------------------------------------------------
(* Properties.                                                             *)

Requests(n) == {k \in 1 .. n : IsRequest(script[k])}
InWork      == IF at[mcp] \in {"call", "wait", "told"} THEN {taken} ELSE {}

(* Each request that was read, and not the one in work, has one answer on  *)
(* stdout, under its own id and in the order of the lines; notifications   *)
(* and blank lines have none.  A broken or refused call is answered, too.  *)
AnswersInOrder ==
    /\ at[mcp] # "exit" => {out[i].line : i \in DOMAIN out} = Requests(taken) \ InWork
    /\ \A i, j \in DOMAIN out : i < j => out[i].line < out[j].line
    /\ \A i \in DOMAIN out : LET line == script[out[i].line] IN
           out[i].id = IF line.form = "not json" THEN "null" ELSE line.id

(* What the server gets to do was asked for: each call that reached it was *)
(* asked by a tools/call with an id or by the command line, none reached   *)
(* it twice, and who hears "ok" asked for a call that did reach it.        *)
AskedFor(r) ==
    \/ /\ r.from \in Requests(taken)
       /\ script[r.from].method = "tools/call" /\ script[r.from].name = r.op
    \/ r.from = 0 /\ \E i \in DOMAIN args : args[i] = r.op

DoneOnceIfAsked ==
    /\ \A i \in DOMAIN delivered : AskedFor(delivered[i])
    /\ \A i, j \in DOMAIN delivered : delivered[i].from = delivered[j].from => i = j
    /\ \A i \in DOMAIN out : out[i].says \in {"ok", "refused"} =>
           \E j \in DOMAIN delivered : delivered[j].from = out[i].line
    /\ code = "0" /\ args # <<>> /\ ~has_arg("help") =>
           \E j \in DOMAIN delivered : delivered[j].from = 0

(* A tools/call as the tool's inputSchema has it, with no empty string     *)
(* where a string must be given (which the schema does not say).           *)
Conforms(line) ==
    /\ line.form = "json" /\ line.method = "tools/call" /\ line.name \in Tools
    /\ line.arguments = "an object"
    /\ SchemaAllows(line.name, line.given)
    /\ \A field \in Required[line.name] : line.given[field] # "empty"

(* A host that keeps to the inputSchema of a tool has its call made, with  *)
(* the values it gave and the defaults declared for the others: what       *)
(* tools() declares and what call_tool takes agree, but for the integers   *)
(* that the schema allows and as_u64 does not read.                        *)
SchemaHonoured ==
    \A k \in Requests(taken) :
        LET line == script[k] IN
        Conforms(line) /\ (\A field \in DOMAIN line.given : line.given[field] # "no u64")
        => /\ \A i \in DOMAIN out : out[i].line = k => out[i].says \in {"ok", "refused", "broken"}
           /\ \A i \in DOMAIN delivered : delivered[i].from = k =>
                  \A field \in Fields[line.name] :
                      delivered[i].fields[field] =
                          IF field \in DOMAIN line.given THEN line.given[field] ELSE Default

(* A command line says what is sent: if it is an action and, before or     *)
(* after it, options with their values, no two alike, then the request is  *)
(* of that action and has those values, and the client exits with 0 only   *)
(* when it was sent.  Values must not look like options, and before the    *)
(* action not like actions: the client takes them for what they look like. *)
Options == (UNION {Fields[op] : op \in Actions}) \cup {"help"}
Without(p) == [i \in 1 .. Len(args) - 1 |-> IF i < p THEN args[i] ELSE args[i + 1]]
Pairs(words) == {i \in DOMAIN words : i % 2 = 1}

ReadsAs(p) ==
    LET rest == Without(p) IN
    /\ args[p] \in Actions
    /\ Len(rest) % 2 = 0 /\ p % 2 = 1
    /\ \A i \in Pairs(rest) : rest[i] \in Options \ {"help"} /\ rest[i + 1] \notin Options
    /\ \A i, j \in Pairs(rest) : rest[i] = rest[j] => i = j
    /\ \A i \in 1 .. p - 1 : args[i] \notin Actions

CommandLineObeyed ==
    \A p \in DOMAIN args : ReadsAs(p) =>
        LET rest == Without(p)
            meant(field) == {rest[i + 1] : i \in {j \in Pairs(rest) : rest[j] = field}}
        IN /\ code = "0" => \E i \in DOMAIN delivered : delivered[i].from = 0
           /\ \A i \in DOMAIN delivered : delivered[i].from = 0 =>
                  /\ delivered[i].op = args[p]
                  /\ \A field \in Fields[args[p]] \ {"overwrite"} :
                         delivered[i].fields[field] \in
                             IF meant(field) = {} THEN {Default} ELSE meant(field)

(* Every request the host writes is answered as long as it listens: what   *)
(* can keep the answer for ever is only a line before it that was not      *)
(* UTF-8, or a call, its own or that of an earlier line, that never ends.  *)
(* A command-line client exits unless its one call never ends.             *)
Pending(p) == at[p] \in {"call", "wait"}

EveryRequestAnswered ==
    /\ \A k \in 1 .. MaxLines :
           \/ k \in Requests(written) ~>
                  \/ \E i \in DOMAIN out : out[i].line = k
                  \/ closed = "both"
                  \/ \E j \in DOMAIN script : j < k /\ script[j].form = "not utf8"
           \/ <>[](Pending(mcp) /\ taken <= k)
    /\ <>(code # "none") \/ <>[]Pending(client)

=============================================================================
