------------------------------ MODULE RustClient ------------------------------
(***************************************************************************)
(* The Rust command-line client (rust/src/bin/first_rpc_client_rust.rs and *)
(* cli.rs): one command line, one call, one exit code.  upload_file counts *)
(* as one call here; UploadSystem has its loop.                            *)
(*                                                                         *)
(* A command line is a sequence of words.  The name of a field stands for  *)
(* its option (max_bytes for --max-bytes) and "help" for --help.           *)
(***************************************************************************)
EXTENDS RpcCalls

CONSTANTS
    Numerals,           \* words that parse as a u64
    Noes                \* words that mean no: false, 0, no

VARIABLES
    args,       \* the command line
    code        \* the exit code

clientVars == <<args, code>>
client == "client"

-----------------------------------------------------------------------------
(* The command line.                                                       *)

has_arg(name) == \E i \in DOMAIN args : args[i] = name

(* The word after the first `name` that has one, wherever that stands.     *)
Given(name) == \E i \in 1 .. Len(args) - 1 : args[i] = name
First(P(_)) == CHOOSE i \in DOMAIN args : P(i) /\ \A j \in DOMAIN args : P(j) => i <= j
Latest(P(_)) == CHOOSE i \in DOMAIN args : P(i) /\ \A j \in DOMAIN args : P(j) => i >= j
arg_value(name) == args[First(LAMBDA i : i < Len(args) /\ args[i] = name) + 1]

(* LastAction is a slip of the kind the checks look for.                   *)
LastAction == args[Latest(LAMBDA i : args[i] \in Actions)]
action_from_args == args[First(LAMBDA i : args[i] \in Actions)]

given_fields ==
    LET named == {field \in Fields[action_from_args] : Given(field)}
    IN [field \in named |->
           CASE field = "overwrite" -> IF arg_value(field) \in Noes THEN "false" ELSE "true"
             [] field # "overwrite" -> arg_value(field)]

NumbersParse ==
    \A field \in DOMAIN given_fields \cap Numbers[action_from_args] :
        given_fields[field] \in Numerals

UploadNamed ==
    \A field \in {"path", "local"} : field \in DOMAIN given_fields /\ given_fields[field] # ""

Sendable == NumbersParse /\ (action_from_args = "upload_file" => UploadNamed)

-----------------------------------------------------------------------------
(* main.                                                                   *)

Exit(status) ==
    /\ code' = status
    /\ EndCall(client, "exit")
    /\ UNCHANGED args

print_usage ==
    /\ at[client] = "start"
    /\ args = <<>> \/ has_arg("help")
    /\ Exit("0")

missing_action ==
    /\ at[client] = "start"
    /\ args # <<>> /\ ~has_arg("help")
    /\ \A i \in DOMAIN args : args[i] \notin Actions
    /\ Exit("1")

connect ==
    /\ at[client] = "start"
    /\ ~has_arg("help")
    /\ \E i \in DOMAIN args : args[i] \in Actions
    /\ \/ /\ Goto(client, "connected")
          /\ UNCHANGED <<request, outcome, delivered, clientVars>>
       \/ Exit("1")

build_request ==
    /\ at[client] = "connected"
    /\ Sendable
    /\ StartCall(client, Request(0, action_from_args, given_fields))
    /\ UNCHANGED clientVars

bad_argument ==
    /\ at[client] = "connected"
    /\ ~Sendable
    /\ Exit("1")

exit_code == IF outcome[client] = "ok" THEN "0" ELSE "1"

print_reply == at[client] = "told" /\ Exit(exit_code)

(* What it does by itself; the rest is up to the channel and the server.   *)
straight ==
    \/ print_usage \/ missing_action \/ connect \/ build_request \/ bad_argument
    \/ print_reply

main == straight \/ (Call(client) /\ UNCHANGED clientVars)

ClientInit(words) == args = words /\ code = "none"

=============================================================================
