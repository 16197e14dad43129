------------------------------ MODULE McpServer ------------------------------
(***************************************************************************)
(* The MCP server (rust/src/bin/first_rpc_mcp.rs): it reads a host's lines *)
(* from stdin, one at a time, calls a server for each tools/call, and      *)
(* writes one answer per request to stdout.                                *)
(*                                                                         *)
(* A line has a form; of a JSON value the code looks at the id, the method *)
(* and, in a tools/call, the params: the tool's name, and arguments given  *)
(* as a function from names to kinds of JSON values.                       *)
(***************************************************************************)
EXTENDS RpcCalls

CONSTANTS
    Ids, NoId,          \* ids, "null" among them
    NoName              \* a tools/call that names no tool

Tools == Actions \ {"upload_file"}

ASSUME IdsAssumption == NoId \notin Ids /\ "null" \in Ids /\ NoName \notin Actions

VARIABLES
    script,     \* the lines this host writes
    written,    \* how many of them it has written
    closed,     \* pipes the host has closed: "none", "stdin" or "both"
    taken,      \* how many lines were read
    out         \* answers on stdout; line is history, the line answered

mcpVars == <<script, written, closed, taken, out>>

-----------------------------------------------------------------------------
(* Arguments.                                                              *)

(* AllNeeded is a slip of the kind the checks look for.                     *)
AllNeeded == [op \in Tools |-> Strings[op]]
Needed == [op \in Tools |-> Strings[op] \ {"working_dir"}]

(* required_string, optional_string, optional_u64.  "number" is a u64 from *)
(* 1; as_u64 gives none for an integer from 2^64 on or written like 100.0, *)
(* the kind "no u64".                                                      *)
Accepted(op, field) ==
    CASE field \in Needed[op]                 -> {"text"}
      [] field \in Strings[op] \ Needed[op]   -> {"text", "empty"}
      [] field \in Numbers[op]                -> {"zero", "number"}

(* The arguments call_tool takes; names it does not know it ignores.       *)
Acceptable(op, given) ==
    /\ Needed[op] \subseteq DOMAIN given
    /\ \A field \in DOMAIN given \cap Fields[op] : given[field] \in Accepted(op, field)

(* The inputSchemas that tools() declares: the type of each property, those *)
(* that are required, and no others.                                       *)
Schema ==
    [health_check |-> <<>>,
     list_dir  |-> [path |-> "string"],
     read_file |-> [path |-> "string", max_bytes |-> "positive"],
     tail_file |-> [path |-> "string", lines |-> "positive", max_bytes |-> "positive"],
     grep_file |-> [path |-> "string", needle |-> "string",
                    max_matches |-> "positive", max_line_length |-> "positive"],
     exec      |-> [command |-> "string", working_dir |-> "string",
                    timeout_ms |-> "positive", max_output_bytes |-> "positive"]]
Required ==
    [health_check |-> {}, list_dir |-> {"path"}, read_file |-> {"path"},
     tail_file |-> {"path"}, grep_file |-> {"path", "needle"}, exec |-> {"command"}]

OfType(type) == IF type = "string" THEN {"text", "empty"} ELSE {"number", "no u64"}

SchemaAllows(op, given) ==
    /\ Required[op] \subseteq DOMAIN given
    /\ DOMAIN given \subseteq DOMAIN Schema[op]
    /\ \A field \in DOMAIN given : given[field] \in OfType(Schema[op][field])

-----------------------------------------------------------------------------
(* handle_line.                                                            *)

(* What a method can be: missing ("none"), known, or any other.            *)
Methods == {"none", "initialize", "ping", "tools/list", "tools/call", "other"}

IsJson(line)     == line.form = "json"
IsRequest(line)  == line.form = "not json" \/ (IsJson(line) /\ line.id # NoId)
Silent(line)     == line.form = "blank" \/ (IsJson(line) /\ line.id = NoId)
AnswerId(line)   == IF IsJson(line) THEN line.id ELSE "null"

CallsTool(line) ==
    /\ IsJson(line) /\ line.method = "tools/call"
    /\ line.name \in Tools
    /\ line.arguments # "not an object"
    /\ Acceptable(line.name, line.given)

Calls(line) == CallsTool(line) /\ line.id # NoId

(* What is said to a request that makes no call: JSON-RPC's errors, and    *)
(* "call failed" for a tool result that says so.                           *)
Immediate(line) ==
    CASE ~IsJson(line) -> "parse error"
      [] IsJson(line) ->
         CASE line.method = "none"  -> "invalid request"
           [] line.method = "other" -> "method not found"
           [] line.method \in {"initialize", "ping", "tools/list"} -> "result"
           [] line.method = "tools/call" ->
                  IF \/ line.name = NoName
                     \/ line.name \notin Tools /\ line.arguments # "not an object"
                  THEN "invalid params" ELSE "call failed"

-----------------------------------------------------------------------------
(* main: take a line, handle it, answer it.                                *)

mcp  == "mcp"
Line == script[taken]
NextLine == script[taken + 1]

take_line(form) ==
    /\ at[mcp] = "read"
    /\ taken < written
    /\ NextLine.form \in form
    /\ taken' = taken + 1
    /\ UNCHANGED <<script, written, closed, out>>

Read == {"blank", "not json", "json"}

(* next_line fails on a line that is not UTF-8, and main with it.          *)
give_up == take_line({"not utf8"}) /\ EndCall(mcp, "exit")

StopAtSilent == take_line(Read) /\ Silent(NextLine) /\ EndCall(mcp, "exit")
pass_over == take_line(Read) /\ Silent(NextLine) /\ EndCall(mcp, "read")

call_tool ==
    /\ take_line(Read)
    /\ Calls(NextLine)
    /\ StartCall(mcp, Request(taken + 1, NextLine.name, NextLine.given))

answer_at_once ==
    /\ take_line(Read)
    /\ ~Silent(NextLine) /\ ~Calls(NextLine)
    /\ Told(mcp, Immediate(NextLine))

(* A slip of the kind the checks look for: a failed call is not answered.  *)
drop_failed(answer) == IF outcome[mcp] = "broken" THEN out ELSE Append(out, answer)
put_out(answer)     == Append(out, answer)

respond ==
    /\ at[mcp] = "told" /\ closed # "both"
    /\ out' = put_out([line |-> taken, id |-> AnswerId(Line), says |-> outcome[mcp]])
    /\ EndCall(mcp, "read")
    /\ UNCHANGED <<script, written, closed, taken>>

respond_fails ==
    /\ at[mcp] = "told" /\ closed = "both"
    /\ EndCall(mcp, "exit")
    /\ UNCHANGED mcpVars

end_of_input ==
    /\ at[mcp] = "read" /\ closed # "none" /\ taken = written
    /\ EndCall(mcp, "exit")
    /\ UNCHANGED mcpVars

(* What it does by itself, and what the channel and the server do.         *)
own_step ==
    \/ give_up \/ pass_over \/ call_tool \/ answer_at_once
    \/ respond \/ respond_fails \/ end_of_input

main_loop == own_step \/ (Call(mcp) /\ UNCHANGED mcpVars)

-----------------------------------------------------------------------------
(* The host writes its lines when it likes, waiting for answers or not.    *)

HostWrites ==
    /\ closed = "none" /\ written < Len(script)
    /\ written' = written + 1
    /\ UNCHANGED <<calls, script, closed, taken, out>>

HostCloses ==
    /\ \/ closed = "none" /\ closed' \in {"stdin", "both"}
       \/ closed = "stdin" /\ closed' = "both"
    /\ UNCHANGED <<calls, script, written, taken, out>>

McpInit(lines) ==
    /\ script = lines /\ written = 0 /\ closed = "none"
    /\ taken = 0 /\ out = <<>>

=============================================================================
