------------------------------- MODULE RpcCalls -------------------------------
(***************************************************************************)
(* What the two Rust front ends of a server share: the actions they offer  *)
(* and their fields, and one call over a channel (the *_client functions   *)
(* of rust/src/ops.rs).  A call reaches the server at most once; then the  *)
(* server replies or the connection breaks, and nothing is sent again.     *)
(***************************************************************************)
EXTENDS Naturals, Sequences

CONSTANTS
    Programs,       \* front ends that run
    Default,        \* a field that was not given; each has its default
    NoRequest

Strings ==
    [health_check |-> {}, list_dir |-> {"path"}, read_file |-> {"path"},
     tail_file |-> {"path"}, grep_file |-> {"path", "needle"},
     upload_file |-> {"path", "local", "overwrite"}, exec |-> {"command", "working_dir"}]
Numbers ==
    [health_check |-> {}, list_dir |-> {}, read_file |-> {"max_bytes"},
     tail_file |-> {"lines", "max_bytes"},
     grep_file |-> {"max_matches", "max_line_length"}, upload_file |-> {"chunk_size"},
     exec |-> {"timeout_ms", "max_output_bytes"}]

Actions == DOMAIN Strings
Fields  == [op \in Actions |-> Strings[op] \cup Numbers[op]]

(* from is history: the number of the line that asked, 0 on a command line. *)
Request(from, op, given) ==
    [from |-> from, op |-> op,
     fields |-> [f \in Fields[op] |-> IF f \in DOMAIN given THEN given[f] ELSE Default]]

VARIABLES
    at,         \* program -> where it is
    request,    \* program -> the call it makes
    outcome,    \* program -> what came of it
    delivered   \* history: the requests that reached the server, in order

calls == <<at, request, outcome, delivered>>

CallsInit(start) ==
    /\ at = [p \in Programs |-> start[p]]
    /\ request = [p \in Programs |-> NoRequest]
    /\ outcome = [p \in Programs |-> "none"]
    /\ delivered = <<>>

Goto(p, label) == at' = [at EXCEPT ![p] = label]

StartCall(p, r) ==
    /\ Goto(p, "call")
    /\ request' = [request EXCEPT ![p] = r]
    /\ UNCHANGED <<outcome, delivered>>

(* The program knows what to say, with or without a call.                  *)
Told(p, says) ==
    /\ Goto(p, "told")
    /\ outcome' = [outcome EXCEPT ![p] = says]
    /\ UNCHANGED <<request, delivered>>

EndCall(p, label) ==
    /\ Goto(p, label)
    /\ request' = [request EXCEPT ![p] = NoRequest]
    /\ outcome' = [outcome EXCEPT ![p] = "none"]
    /\ UNCHANGED delivered

Deliver(p) ==
    /\ at[p] = "call"
    /\ delivered' = Append(delivered, request[p])
    /\ Goto(p, "wait")
    /\ UNCHANGED <<request, outcome>>

(* A channel that sends a call again when its connection breaks, as a slip *)
(* of the kind the checks look for.                                        *)
SendAgain(p) ==
    /\ at[p] = "wait"
    /\ Len(delivered) < 3
    /\ Goto(p, "call")
    /\ UNCHANGED <<request, outcome, delivered>>

(* The server cannot be reached, or goes away during the call.             *)
CallFails(p) ==
    /\ at[p] \in {"call", "wait"}
    /\ Told(p, "broken")

ServerReplies(p) ==
    /\ at[p] = "wait"
    /\ \E says \in {"ok", "refused"} : Told(p, says)

CallOrRetry(p) == Deliver(p) \/ SendAgain(p) \/ CallFails(p) \/ ServerReplies(p)
Call(p) == Deliver(p) \/ CallFails(p) \/ ServerReplies(p)

=============================================================================
