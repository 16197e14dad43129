--------------------------- MODULE FrontEndsProofs ---------------------------
(***************************************************************************)
(* Proofs about the Rust front ends: for any dialog of a host, of any      *)
(* length, and any command line, answers are in order, a call reaches the  *)
(* server once and only when it was asked for, and what is sent is what    *)
(* the schema or the command line says.                                    *)
(***************************************************************************)
EXTENDS FrontEnds, WellFoundedInduction, SequenceTheorems, TLAPS

HasAction == \E i \in DOMAIN args : args[i] \in Actions

(* The requests this run may send: those of the lines that call a tool and *)
(* that of the command line.                                               *)
AskedBy(k) == Request(k, script[k].name, script[k].given)
Callers    == {k \in 1 .. Len(script) : Calls(script[k])}
Typed      == Request(0, action_from_args, given_fields)
Asked      == {AskedBy(k) : k \in Callers} \cup (IF HasAction THEN {Typed} ELSE {})

(* What a line without a call is told, and what comes of a call.           *)
Verdicts == {"parse error", "invalid request", "method not found", "result",
             "invalid params", "call failed"}
Outcomes == {"ok", "refused", "broken"}
Answers  == [line : Nat, id : Ids, says : Verdicts \cup Outcomes]

TypeOK ==
    /\ script \in Seq(Lines)
    /\ written \in 0 .. Len(script)
    /\ taken \in 0 .. written
    /\ out \in Seq(Answers)
    /\ args \in Seq(STRING)
    /\ code \in {"none", "0", "1"}
    /\ at \in [Programs -> {"start", "connected", "read", "call", "wait", "told", "exit"}]
    /\ request \in [Programs -> Asked \cup {NoRequest}]
    /\ outcome \in [Programs -> Verdicts \cup Outcomes \cup {"none"}]
    /\ delivered \in Seq(Asked)

Reached(k) == \E i \in DOMAIN delivered : delivered[i].from = k

(* What reached the server was read before, and reached it once.           *)
DeliveredInv ==
    /\ \A i \in DOMAIN delivered : delivered[i].from <= taken
    /\ \A i, j \in DOMAIN delivered : delivered[i].from = delivered[j].from => i = j

(* What is said to line k, and why.                                        *)
Fits(k, says) ==
    IF Calls(script[k])
    THEN says \in Outcomes /\ (says # "broken" => Reached(k))
    ELSE says = Immediate(script[k])

McpInv ==
    /\ at[mcp] \in {"read", "call", "wait", "told", "exit"}
    /\ at[mcp] \in {"call", "wait"} =>
           taken > 0 /\ Calls(Line) /\ request[mcp] = AskedBy(taken)
    /\ at[mcp] = "call" => ~Reached(taken)
    /\ at[mcp] = "wait" => Reached(taken)
    /\ at[mcp] = "told" =>
           taken > 0 /\ IsRequest(Line) /\ ~Silent(Line) /\ Fits(taken, outcome[mcp])

OutInv ==
    /\ \A i \in DOMAIN out :
           /\ out[i].line \in Requests(taken) \ InWork
           /\ out[i].id = AnswerId(script[out[i].line])
           /\ Fits(out[i].line, out[i].says)
    /\ \A i, j \in DOMAIN out : i < j => out[i].line < out[j].line
    /\ at[mcp] # "exit" =>
           \A k \in Requests(taken) \ InWork : \E i \in DOMAIN out : out[i].line = k

ClientInv ==
    /\ at[client] \in {"start", "connected", "call", "wait", "told", "exit"}
    /\ at[client] \in {"connected", "call", "wait", "told"} => HasAction
    /\ at[client] \in {"call", "wait"} => request[client] = Typed
    /\ at[client] \in {"start", "connected", "call"} => ~Reached(0)
    /\ at[client] = "wait" \/ (at[client] = "told" /\ outcome[client] = "ok") => Reached(0)
    /\ code = "0" => args = <<>> \/ has_arg("help") \/ Reached(0)

IInv == TypeOK /\ DeliveredInv /\ McpInv /\ OutInv /\ ClientInv

-----------------------------------------------------------------------------
(* A set of numbers that is not empty has a least one.                     *)
LEMMA LeastOf ==
    ASSUME NEW T, T \subseteq Nat, T # {}
    PROVE  \E i \in T : \A j \in T : i <= j
<1>1. \E i \in T : \A j \in T : ~(<<j, i>> \in OpToRel(<, Nat))
  BY NatLessThanWellFounded, WFMin
<1>2. \A i, j \in T : ~(<<j, i>> \in OpToRel(<, Nat)) => i <= j
  BY DEF OpToRel
<1> QED BY <1>1, <1>2

(* The action of a command line that has one is one of its words.          *)
LEMMA ActionOfArgs ==
    ASSUME args \in Seq(STRING), HasAction
    PROVE  /\ action_from_args \in Actions
           /\ \E i \in DOMAIN args : args[i] = action_from_args
<1> DEFINE T == {i \in DOMAIN args : args[i] \in Actions}
<1>1. T \subseteq Nat /\ T # {}
  BY DEF HasAction
<1>2. PICK i \in T : \A j \in T : i <= j
  BY <1>1, LeastOf
<1>3. \E k \in DOMAIN args :
         args[k] \in Actions /\ \A j \in DOMAIN args : args[j] \in Actions => k <= j
  BY <1>2
<1> QED BY <1>3 DEF action_from_args, First

(* A line that calls a tool is a request, and what is said to any other    *)
(* request is none of the things said of a call.                           *)
LEMMA CallsAsks ==
    ASSUME NEW line, Calls(line)
    PROVE  IsRequest(line) /\ ~Silent(line) /\ line.name \in Tools
BY DEF Calls, CallsTool, IsRequest, Silent, IsJson

LEMMA ImmediateSays ==
    ASSUME NEW line \in Lines, IsRequest(line)
    PROVE  Immediate(line) \in Verdicts
<1>1. CASE ~IsJson(line)
  BY <1>1 DEF Immediate, Verdicts
<1>2. CASE IsJson(line)
  <2>1. line.method \in Methods
    BY <1>2, UsesAssumption
  <2>2. CASE line.method = "tools/call"
    BY <1>2, <2>2 DEF Immediate, Verdicts
  <2>3. CASE line.method # "tools/call"
    BY <1>2, <2>1, <2>3 DEF Immediate, Methods, Verdicts
  <2> QED BY <2>2, <2>3
<1> QED BY <1>1, <1>2

LEMMA AnswerIds ==
    ASSUME NEW line \in Lines, IsRequest(line)
    PROVE  /\ AnswerId(line) \in Ids
           /\ AnswerId(line) = IF line.form = "not json" THEN "null" ELSE line.id
BY UsesAssumption, IdsAssumption DEF AnswerId, IsRequest, IsJson

(* Who asked for the requests of this run.                                 *)
LEMMA AskedOnce ==
    ASSUME NEW r \in Asked
    PROVE  \/ r.from \in Callers /\ r = AskedBy(r.from)
           \/ r.from = 0 /\ HasAction /\ r = Typed
<1>1. \A k : AskedBy(k).from = k
  BY DEF AskedBy, Request
<1>2. Typed.from = 0
  BY DEF Typed, Request
<1> QED BY <1>1, <1>2 DEF Asked

-----------------------------------------------------------------------------
(* The requests of a run are fixed when it starts.                         *)
LEMMA SameRequests ==
    ASSUME UNCHANGED <<script, args>>
    PROVE  /\ Asked' = Asked /\ Typed' = Typed /\ Callers' = Callers
           /\ HasAction' = HasAction
           /\ \A k : AskedBy(k)' = AskedBy(k)
<1> USE DEF Calls, CallsTool, IsJson, Acceptable, Accepted, Request
<1>1. Callers' = Callers /\ HasAction' = HasAction
  BY DEF Callers, HasAction
<1>2. \A k : AskedBy(k)' = AskedBy(k)
  BY DEF AskedBy
<1>3. Typed' = Typed
  BY DEF Typed, action_from_args, given_fields, Given, arg_value, First
<1> QED BY <1>1, <1>2, <1>3 DEF Asked

(* One step, action by action.                                             *)
McpActs ==
    give_up \/ pass_over \/ call_tool \/ answer_at_once \/ respond \/ respond_fails
        \/ end_of_input
ClientActs ==
    print_usage \/ missing_action \/ connect \/ build_request \/ bad_argument \/ print_reply
CallActs(p) == Deliver(p) \/ CallFails(p) \/ ServerReplies(p)

LEMMA StepKinds ==
    ASSUME [Next]_vars
    PROVE  \/ UNCHANGED vars
           \/ McpActs /\ UNCHANGED clientVars
           \/ (HostWrites \/ HostCloses) /\ UNCHANGED clientVars
           \/ ClientActs /\ UNCHANGED mcpVars
           \/ \E p \in Programs : CallActs(p) /\ UNCHANGED <<mcpVars, clientVars>>
BY ProgramsAssumption
   DEF Next, McpStep, HostStep, ClientStep, main_loop, own_step, main, straight,
       Call, McpActs, ClientActs, CallActs

LEMMA ScriptAndArgsStay == ASSUME [Next]_vars PROVE UNCHANGED <<script, args>>
BY StepKinds
   DEF vars, mcpVars, clientVars, McpActs, ClientActs, give_up, pass_over, call_tool,
       answer_at_once, take_line, respond, respond_fails, end_of_input, HostWrites, HostCloses,
       print_usage, missing_action, connect, build_request, bad_argument, print_reply, Exit

-----------------------------------------------------------------------------
(* Types.                                                                  *)
LEMMA TypesInit == Init => TypeOK
<1> SUFFICES ASSUME Init PROVE TypeOK
  OBVIOUS
<1>1. PICK use \in Uses : McpInit(use[1]) /\ ClientInit(use[2])
  BY DEF Init
<1>2. Programs = {"mcp", "client"}
  BY ProgramsAssumption DEF mcp, client
<1>3. script \in Seq(Lines) /\ args \in Seq(STRING)
  BY <1>1, UsesAssumption DEF McpInit, ClientInit
<1>4. written = 0 /\ taken = 0 /\ out = <<>> /\ code = "none"
  BY <1>1 DEF McpInit, ClientInit
<1>5. at \in [Programs -> {"start", "read"}]
  BY <1>2 DEF Init, CallsInit
<1>6. request \in [Programs -> {NoRequest}] /\ outcome \in [Programs -> {"none"}]
  BY DEF Init, CallsInit
<1>7. delivered = <<>>
  BY DEF Init, CallsInit
<1> QED BY <1>3, <1>4, <1>5, <1>6, <1>7 DEF TypeOK

(* A program that calls has one of the requests of this run.               *)
LEMMA CallsWithRequest ==
    ASSUME TypeOK, McpInv, ClientInv, NEW p \in Programs, at[p] \in {"call", "wait"}
    PROVE  request[p] \in Asked /\ request[p].from = IF p = mcp THEN taken ELSE 0
<1>1. p = mcp \/ p = client
  BY ProgramsAssumption
<1>2. CASE p = mcp
  <2>1. taken \in Callers /\ request[p] = AskedBy(taken)
    BY <1>2 DEF TypeOK, McpInv, Callers, Line
  <2> QED BY <1>2, <2>1 DEF Asked, AskedBy, Request
<1>3. CASE p = client
  BY <1>3 DEF ClientInv, Asked, Typed, Request, mcp, client
<1> QED BY <1>1, <1>2, <1>3

LEMMA TypesStep == TypeOK /\ McpInv /\ ClientInv /\ [Next]_vars => TypeOK'
<1> SUFFICES ASSUME TypeOK, McpInv, ClientInv, [Next]_vars PROVE TypeOK'
  OBVIOUS
<1> USE DEF TypeOK
<1>1. UNCHANGED <<script, args>> /\ Asked' = Asked
  BY ScriptAndArgsStay, SameRequests
<1>2. mcp \in Programs /\ client \in Programs
  BY ProgramsAssumption
<1>3. CASE UNCHANGED vars
  BY <1>1, <1>3 DEF vars, calls, mcpVars, clientVars
<1>4. CASE McpActs /\ UNCHANGED clientVars
  <2> USE <1>1, <1>2, <1>4 DEF clientVars
  <2>1. ASSUME take_line({"not utf8"}) \/ take_line(Read)
        PROVE  /\ taken' \in 0 .. written' /\ taken + 1 \in 1 .. Len(script)
               /\ UNCHANGED <<script, written, out>> /\ NextLine \in Lines
    <3>1. taken \in Nat /\ written \in Nat /\ Len(script) \in Nat /\ written <= Len(script)
      OBVIOUS
    <3>2. /\ taken < written /\ taken' = taken + 1
          /\ UNCHANGED <<script, written, out>>
      BY <2>1 DEF take_line
    <3>3. taken + 1 \in 1 .. Len(script)
      BY <3>1, <3>2
    <3>4. NextLine \in Lines
      BY <3>3 DEF NextLine
    <3> QED BY <3>1, <3>2, <3>3, <3>4
  <2>2. CASE give_up \/ pass_over
    BY <2>1, <2>2 DEF give_up, pass_over, EndCall, Goto
  <2>3. CASE call_tool
    <3>1. Request(taken + 1, NextLine.name, NextLine.given) \in Asked
      BY <2>1, <2>3 DEF call_tool, Asked, AskedBy, Callers, NextLine
    <3> QED BY <2>1, <2>3, <3>1 DEF call_tool, StartCall, Goto
  <2>4. CASE answer_at_once
    <3>1. IsRequest(NextLine)
      BY <2>4 DEF answer_at_once, take_line, Read, Silent, IsRequest, IsJson
    <3>2. Immediate(NextLine) \in Verdicts
      BY <2>1, <2>4, <3>1, ImmediateSays DEF answer_at_once
    <3> QED BY <2>1, <2>4, <3>2 DEF answer_at_once, Told, Goto
  <2>5. CASE respond
    <3> DEFINE answer == [line |-> taken, id |-> AnswerId(Line), says |-> outcome[mcp]]
    <3>1. taken > 0 /\ IsRequest(Line) /\ Fits(taken, outcome[mcp])
      BY <2>5 DEF respond, McpInv
    <3>2. taken \in Nat /\ Line \in Lines
      BY <3>1 DEF Line
    <3>5. outcome[mcp] \in Verdicts \cup Outcomes
      BY <3>1, <3>2, ImmediateSays DEF Fits, Line
    <3>3. answer \in Answers
      BY <3>1, <3>2, <3>5, AnswerIds DEF Answers
    <3>6. out' = Append(out, answer)
      BY <2>5 DEF respond, put_out
    <3>7. out' \in Seq(Answers)
      BY <3>3, <3>6, AppendProperties
    <3> HIDE DEF answer
    <3> QED BY <2>5, <3>7 DEF respond, EndCall, Goto
  <2>6. CASE respond_fails \/ end_of_input
    BY <2>6 DEF respond_fails, end_of_input, EndCall, Goto, mcpVars
  <2> QED BY <1>4, <2>2, <2>3, <2>4, <2>5, <2>6 DEF McpActs
<1>5. CASE (HostWrites \/ HostCloses) /\ UNCHANGED clientVars
  BY <1>1, <1>5 DEF HostWrites, HostCloses, calls, clientVars
<1>6. CASE ClientActs /\ UNCHANGED mcpVars
  <2> USE <1>1, <1>2 DEF mcpVars
  <2>1. CASE print_usage \/ missing_action \/ bad_argument
    BY <1>6, <2>1 DEF print_usage, missing_action, bad_argument, Exit, EndCall, Goto
  <2>2. CASE connect
    BY <1>6, <2>2 DEF connect, Exit, EndCall, Goto, clientVars
  <2>3. CASE build_request
    BY <1>6, <2>3 DEF build_request, StartCall, Goto, clientVars, ClientInv, Asked,
        Typed
  <2>4. CASE print_reply
    BY <1>6, <2>4 DEF print_reply, exit_code, Exit, EndCall, Goto
  <2> QED BY <1>6, <2>1, <2>2, <2>3, <2>4 DEF ClientActs
<1>7. ASSUME NEW p \in Programs, CallActs(p), UNCHANGED <<mcpVars, clientVars>>
      PROVE  TypeOK'
  <2> USE <1>1, <1>7 DEF mcpVars, clientVars, Outcomes
  <2>1. CASE Deliver(p)
    BY <2>1, CallsWithRequest DEF Deliver, Goto
  <2>2. CASE CallFails(p)
    BY <2>2 DEF CallFails, Told, Goto
  <2>3. CASE ServerReplies(p)
    BY <2>3 DEF ServerReplies, Told, Goto
  <2> QED BY <2>1, <2>2, <2>3 DEF CallActs
<1> QED BY <1>3, <1>4, <1>5, <1>6, <1>7, StepKinds

-----------------------------------------------------------------------------
(* What reached the server stays there, and what is said to a line stays   *)
(* what it was.                                                            *)
LEMMA LinesStay ==
    ASSUME UNCHANGED script, NEW k
    PROVE  /\ Calls(script[k])' = Calls(script[k])
           /\ Immediate(script[k])' = Immediate(script[k])
           /\ IsRequest(script[k])' = IsRequest(script[k])
           /\ Silent(script[k])' = Silent(script[k])
           /\ AnswerId(script[k])' = AnswerId(script[k])
BY DEF Calls, CallsTool, IsJson, Acceptable, Accepted, Immediate, IsRequest, Silent,
    AnswerId

(* A step delivers no request, or that of a program that makes its call.   *)
LEMMA DeliveryKinds ==
    ASSUME TypeOK, McpInv, ClientInv, [Next]_vars
    PROVE  \/ UNCHANGED delivered
           \/ \E p \in Programs :
                  /\ Deliver(p) /\ UNCHANGED <<mcpVars, clientVars>>
                  /\ delivered' = Append(delivered, request[p])
                  /\ request[p].from = IF p = mcp THEN taken ELSE 0
                  /\ ~Reached(request[p].from)
<1>1. CASE \E p \in Programs : CallActs(p) /\ UNCHANGED <<mcpVars, clientVars>>
  <2>1. PICK p \in Programs : CallActs(p) /\ UNCHANGED <<mcpVars, clientVars>>
    BY <1>1
  <2>2. CASE Deliver(p)
    <3>1. request[p].from = IF p = mcp THEN taken ELSE 0
      BY <2>2, CallsWithRequest DEF Deliver
    <3>2. ~Reached(request[p].from)
      BY <2>2, <3>1, ProgramsAssumption DEF Deliver, McpInv, ClientInv
    <3> QED BY <2>1, <2>2, <3>1, <3>2 DEF Deliver
  <2> QED BY <2>1, <2>2 DEF CallActs, CallFails, ServerReplies, Told
<1>2. CASE McpActs
  BY <1>2 DEF McpActs, give_up, pass_over, call_tool, answer_at_once, respond,
      respond_fails,
              end_of_input, EndCall, StartCall, Told
<1>3. CASE ClientActs
  BY <1>3 DEF ClientActs, print_usage, missing_action, connect, build_request,
      bad_argument,
              print_reply, Exit, EndCall, StartCall
<1>4. CASE HostWrites \/ HostCloses \/ UNCHANGED vars
  BY <1>4 DEF HostWrites, HostCloses, vars, calls
<1> QED BY <1>1, <1>2, <1>3, <1>4, StepKinds

LEMMA ReachedStays ==
    ASSUME TypeOK, McpInv, ClientInv, [Next]_vars
    PROVE  /\ \A k : Reached(k) => Reached(k)'
           /\ \A k, says : Fits(k, says) => Fits(k, says)'
<1>1. ASSUME NEW k, Reached(k) PROVE Reached(k)'
  <2>1. PICK i \in DOMAIN delivered : delivered[i].from = k
    BY <1>1 DEF Reached
  <2>2. i \in DOMAIN delivered' /\ delivered'[i] = delivered[i]
    <3>1. CASE UNCHANGED delivered
      BY <3>1
    <3>2. ASSUME NEW p \in Programs, delivered' = Append(delivered, request[p]),
                 request[p] \in Asked
          PROVE  i \in DOMAIN delivered' /\ delivered'[i] = delivered[i]
      BY <3>2, AppendProperties DEF TypeOK
    <3> QED BY <3>1, <3>2, DeliveryKinds, CallsWithRequest DEF Deliver
  <2> QED BY <2>1, <2>2 DEF Reached
<1>2. UNCHANGED script
  BY ScriptAndArgsStay
<1>3. ASSUME NEW k, NEW says, Fits(k, says) PROVE Fits(k, says)'
  BY <1>1, <1>2, <1>3, LinesStay DEF Fits
<1> QED BY <1>1, <1>3

(* taken only grows.                                                       *)
LEMMA TakenGrows ==
    ASSUME TypeOK, [Next]_vars
    PROVE  taken \in Nat /\ taken' \in Nat /\ taken <= taken'
<1>1. taken \in Nat
  BY DEF TypeOK
<1>2. UNCHANGED taken \/ taken' = taken + 1
  BY StepKinds
     DEF vars, mcpVars, McpActs, give_up, pass_over, call_tool, answer_at_once,
         take_line,
         respond, respond_fails, end_of_input, HostWrites, HostCloses
<1> QED BY <1>1, <1>2

LEMMA DeliveredStep ==
    TypeOK /\ DeliveredInv /\ McpInv /\ ClientInv /\ [Next]_vars => DeliveredInv'
<1> SUFFICES ASSUME TypeOK, DeliveredInv, McpInv, ClientInv, [Next]_vars PROVE DeliveredInv'
  OBVIOUS
<1>1. \A i \in DOMAIN delivered : delivered[i].from \in Nat
  BY ElementOfSeq, AskedOnce DEF TypeOK, Callers
<1>2. CASE UNCHANGED delivered
  BY <1>1, <1>2, TakenGrows DEF DeliveredInv
<1>3. ASSUME NEW p \in Programs, request[p] \in Asked,
             delivered' = Append(delivered, request[p]), request[p].from <= taken,
             ~Reached(request[p].from)
      PROVE  DeliveredInv'
  <2>1. /\ Len(delivered') = Len(delivered) + 1 /\ Len(delivered) \in Nat
        /\ DOMAIN delivered = 1 .. Len(delivered) /\ DOMAIN delivered' = 1 .. Len(delivered')
        /\ \A i \in DOMAIN delivered : delivered'[i] = delivered[i]
        /\ delivered'[Len(delivered')] = request[p]
    BY <1>3, AppendProperties DEF TypeOK
  <2>2. \A i \in DOMAIN delivered' : i \in DOMAIN delivered \/ i = Len(delivered')
    BY <2>1
  <2>3. request[p].from \in Nat
    BY <1>3, AskedOnce DEF Callers
  <2>4. \A i \in DOMAIN delivered' : delivered'[i].from <= taken'
    BY <1>1, <1>3, <2>1, <2>2, <2>3, TakenGrows DEF DeliveredInv
  <2>5. \A i, j \in DOMAIN delivered' : delivered'[i].from = delivered'[j].from => i = j
    BY <1>3, <2>1, <2>2 DEF DeliveredInv, Reached
  <2> QED BY <2>4, <2>5 DEF DeliveredInv
<1> QED BY <1>2, <1>3, DeliveryKinds, CallsWithRequest, TakenGrows DEF Deliver

(* A call reaches the server by a step of the program that makes it.       *)
LEMMA ReachedBy ==
    ASSUME TypeOK, McpInv, ClientInv, [Next]_vars, NEW k, ~Reached(k), Reached(k)'
    PROVE  \E p \in Programs : Deliver(p) /\ k = IF p = mcp THEN taken ELSE 0
<1>1. CASE UNCHANGED delivered
  BY <1>1 DEF Reached
<1>2. ASSUME NEW p \in Programs, Deliver(p), delivered' = Append(delivered, request[p]),
             request[p].from = IF p = mcp THEN taken ELSE 0
      PROVE  k = IF p = mcp THEN taken ELSE 0
  <2>1. request[p] \in Asked
    BY <1>2, CallsWithRequest DEF Deliver
  <2>2. PICK i \in DOMAIN delivered' : delivered'[i].from = k
    BY DEF Reached
  <2>3. i \notin DOMAIN delivered \/ delivered'[i] # delivered[i]
    BY <2>2 DEF Reached
  <2>4. delivered'[i] = request[p]
    BY <1>2, <2>1, <2>2, <2>3, AppendProperties DEF TypeOK
  <2> QED BY <1>2, <2>2, <2>4
<1> QED BY <1>1, <1>2, DeliveryKinds

-----------------------------------------------------------------------------
(* The MCP server.                                                         *)
McpStays ==
    UNCHANGED <<at[mcp], request[mcp], outcome[mcp], taken, script>>

LEMMA OthersKeepMcp ==
    ASSUME TypeOK, McpInv, ClientInv, [Next]_vars, McpStays
    PROVE  McpInv'
<1> USE DEF McpStays
<1>1. Calls(Line)' = Calls(Line) /\ IsRequest(Line)' = IsRequest(Line)
      /\ Silent(Line)' = Silent(Line) /\ AskedBy(taken)' = AskedBy(taken)
  BY LinesStay DEF Line, AskedBy, Request
<1>2. Reached(taken) => Reached(taken)'
  BY ReachedStays DEF Reached
<1>3. Fits(taken, outcome[mcp]) => Fits(taken, outcome[mcp])'
  BY ReachedStays DEF Fits
<1>4. ASSUME at[mcp] = "call", NEW k, k = taken, Reached(k)' PROVE Reached(k)
  <2>1. SUFFICES ASSUME ~Reached(k) PROVE FALSE
    OBVIOUS
  <2>2. PICK p \in Programs : Deliver(p) /\ k = IF p = mcp THEN taken ELSE 0
    BY <1>4, <2>1, ReachedBy
  <2>3. p # mcp
    BY <1>4, <2>2, ProgramsAssumption DEF Deliver, Goto, TypeOK
  <2> QED BY <1>4, <2>2, <2>3 DEF McpInv
<1>5. at[mcp] = "call" => ~Reached(taken)'
  BY <1>4 DEF Reached, McpInv
<1> QED BY <1>1, <1>2, <1>3, <1>5 DEF McpInv

LEMMA McpStepKeeps ==
    TypeOK /\ DeliveredInv /\ McpInv /\ ClientInv /\ [Next]_vars => McpInv'
<1> SUFFICES ASSUME TypeOK, DeliveredInv, McpInv, ClientInv, [Next]_vars PROVE McpInv'
  OBVIOUS
<1>1. mcp \in Programs /\ client \in Programs /\ mcp # client
  BY ProgramsAssumption DEF mcp, client
<1>2. UNCHANGED script
  BY ScriptAndArgsStay
<1>3. CASE UNCHANGED vars \/ HostWrites \/ HostCloses
  BY <1>3, OthersKeepMcp DEF McpStays, vars, calls, mcpVars, HostWrites, HostCloses
<1>4. CASE ClientActs /\ UNCHANGED mcpVars
  <2>1. UNCHANGED <<at[mcp], request[mcp], outcome[mcp]>>
    BY <1>1, <1>4 DEF ClientActs, print_usage, missing_action, connect, build_request,
          bad_argument, print_reply, Exit, EndCall, StartCall, Goto, TypeOK
  <2> QED BY <1>4, <2>1, OthersKeepMcp DEF McpStays, mcpVars
<1>5. CASE CallActs(client) /\ UNCHANGED mcpVars
  <2>1. UNCHANGED <<at[mcp], request[mcp], outcome[mcp]>>
    BY <1>1, <1>5 DEF CallActs, Deliver, CallFails, ServerReplies, Told, Goto, TypeOK
  <2> QED BY <1>5, <2>1, OthersKeepMcp DEF McpStays, mcpVars
<1>6. CASE McpActs
  <2> USE <1>1, <1>2 DEF TypeOK
  <2>1. CASE give_up \/ pass_over \/ respond \/ respond_fails \/ end_of_input
    BY <2>1 DEF give_up, pass_over, respond, respond_fails, end_of_input, EndCall,
        Goto, McpInv
  <2>2. ASSUME take_line(Read)
        PROVE  /\ taken' = taken + 1 /\ taken' > 0 /\ ~Reached(taken + 1)
               /\ Line' = NextLine
    <3>1. taken' = taken + 1 /\ taken \in Nat
      BY <2>2 DEF take_line
    <3>2. ~Reached(taken + 1)
      BY <3>1 DEF Reached, DeliveredInv
    <3> QED BY <3>1, <3>2 DEF Line, NextLine
  <2>3. CASE call_tool
    <3>1. Calls(script[taken + 1])
      BY <2>3 DEF call_tool, NextLine
    <3>2. Calls(Line)'
      BY <2>2, <2>3, <3>1, LinesStay DEF call_tool, Line
    <3>3. at'[mcp] = "call" /\ UNCHANGED delivered
      BY <2>3 DEF call_tool, StartCall, Goto
    <3>4. request'[mcp] = AskedBy(taken)'
      BY <2>2, <2>3 DEF call_tool, StartCall, AskedBy, Request, NextLine
    <3>5. ~Reached(taken)'
      BY <2>2, <2>3, <3>3 DEF call_tool, Reached
    <3> QED BY <2>2, <2>3, <3>2, <3>3, <3>4, <3>5 DEF call_tool, McpInv
  <2>4. CASE answer_at_once
    <3>1. ~Silent(script[taken + 1]) /\ ~Calls(script[taken + 1]) /\ IsRequest(script[taken + 1])
      BY <2>4 DEF answer_at_once, take_line, NextLine, Read, Silent, IsRequest, IsJson
    <3>2. ~Silent(Line)' /\ ~Calls(Line)' /\ IsRequest(Line)'
      BY <2>2, <2>4, <3>1, LinesStay DEF answer_at_once, Line
    <3>3. at'[mcp] = "told" /\ outcome'[mcp] = Immediate(script[taken + 1])
      BY <2>4 DEF answer_at_once, Told, Goto, NextLine
    <3>4. Fits(taken, outcome[mcp])'
      BY <2>2, <2>4, <3>2, <3>3, LinesStay DEF answer_at_once, Fits, Line
    <3> QED BY <2>2, <2>4, <3>2, <3>3, <3>4 DEF answer_at_once, McpInv
  <2> QED BY <1>6, <2>1, <2>3, <2>4 DEF McpActs
<1>7. CASE CallActs(mcp) /\ UNCHANGED mcpVars
  <2> USE <1>1, <1>2, <1>7 DEF TypeOK
  <2>1. UNCHANGED taken
    BY DEF mcpVars
  <2>2. Calls(Line) => Calls(Line)' /\ IsRequest(Line)' /\ ~Silent(Line)'
    BY <2>1, LinesStay, CallsAsks DEF Line
  <2>3. AskedBy(taken)' = AskedBy(taken)
    BY <2>1 DEF AskedBy, Request
  <2>4. CASE Deliver(mcp)
    <3>1. request[mcp] \in Asked /\ request[mcp].from = taken
      BY <2>4, CallsWithRequest DEF Deliver
    <3>2. Reached(taken)'
      BY <2>1, <2>4, <3>1, AppendProperties DEF Deliver, Reached
    <3> QED BY <2>1, <2>2, <2>3, <2>4, <3>2 DEF Deliver, Goto, McpInv
  <2>5. CASE CallFails(mcp)
    BY <2>1, <2>2, <2>5 DEF CallFails, Told, Goto, McpInv, Fits, Outcomes, Line
  <2>6. CASE ServerReplies(mcp)
    <3>1. Reached(taken)'
      BY <2>1, <2>6 DEF ServerReplies, Told, McpInv, Reached
    <3> QED BY <2>1, <2>2, <2>6, <3>1
    DEF ServerReplies, Told, Goto, McpInv, Fits, Outcomes, Line
  <2> QED BY <2>4, <2>5, <2>6 DEF CallActs
<1> QED BY <1>3, <1>4, <1>5, <1>6, <1>7, StepKinds, ProgramsAssumption

-----------------------------------------------------------------------------
(* The answers on stdout.                                                  *)
LEMMA RequestsRead ==
    ASSUME TypeOK, [Next]_vars
    PROVE  \A k : k \in Requests(taken)' <=> k \in 1 .. taken' /\ IsRequest(script[k])
<1>1. UNCHANGED script
  BY ScriptAndArgsStay
<1> QED BY <1>1, LinesStay DEF Requests

(* Steps that write no answer keep the answers right, if the line taken    *)
(* and the work on it go together.                                         *)
LEMMA KeepsAnswers ==
    ASSUME TypeOK, McpInv, ClientInv, OutInv, [Next]_vars, UNCHANGED out,
           at'[mcp] # "exit" => at[mcp] # "exit",
           Requests(taken) \ InWork \subseteq (Requests(taken) \ InWork)',
           at'[mcp] # "exit" =>
               (Requests(taken) \ InWork)' \subseteq Requests(taken) \ InWork
    PROVE  OutInv'
<1>1. UNCHANGED script
  BY ScriptAndArgsStay
<1>2. ASSUME NEW i \in DOMAIN out'
      PROVE  /\ out'[i].line \in (Requests(taken) \ InWork)'
             /\ out'[i].id = AnswerId(script[out[i].line])'
             /\ Fits(out[i].line, out[i].says)'
  <2> DEFINE k == out[i].line
             says == out[i].says
  <2>1. k \in Requests(taken) \ InWork /\ out[i].id = AnswerId(script[k]) /\ Fits(k, says)
    BY <1>2 DEF OutInv
  <2>2. AnswerId(script[out[i].line])' = AnswerId(script[k])
    BY <1>1 DEF AnswerId, IsJson
  <2>3. Fits(out[i].line, out[i].says)'
    <3> SUFFICES ASSUME NEW l, NEW t, l = k, t = says PROVE Fits(out[i].line, out[i].says)'
      OBVIOUS
    <3>1. Fits(l, t)'
      BY <2>1, ReachedStays
    <3> QED BY <3>1 DEF Fits, Reached
  <2> QED BY <2>1, <2>2, <2>3
<1>3. \A i, j \in DOMAIN out' : i < j => out'[i].line < out'[j].line
  BY DEF OutInv
<1>4. at'[mcp] # "exit" =>
          \A k \in (Requests(taken) \ InWork)' : \E i \in DOMAIN out' : out'[i].line = k
  BY DEF OutInv
<1> QED BY <1>2, <1>3, <1>4 DEF OutInv

LEMMA OutStep ==
    TypeOK /\ DeliveredInv /\ McpInv /\ ClientInv /\ OutInv /\ [Next]_vars => OutInv'
<1> SUFFICES ASSUME TypeOK, DeliveredInv, McpInv, ClientInv, OutInv, [Next]_vars PROVE OutInv'
  OBVIOUS
<1>1. mcp \in Programs /\ client \in Programs /\ mcp # client
  BY ProgramsAssumption DEF mcp, client
<1>2. UNCHANGED script /\ McpInv' /\ taken \in Nat
  BY ScriptAndArgsStay, McpStepKeeps DEF TypeOK
<1>3. ASSUME UNCHANGED <<at[mcp], taken, out>> PROVE OutInv'
  BY <1>2, <1>3, RequestsRead, KeepsAnswers DEF Requests, InWork
<1>4. CASE UNCHANGED vars \/ HostWrites \/ HostCloses
  BY <1>3, <1>4 DEF vars, calls, mcpVars, HostWrites, HostCloses
<1>5. CASE ClientActs /\ UNCHANGED mcpVars
  BY <1>1, <1>3, <1>5
     DEF ClientActs, print_usage, missing_action, connect, build_request, bad_argument,
         print_reply, Exit, EndCall, StartCall, Goto, TypeOK, mcpVars
<1>6. CASE CallActs(client) /\ UNCHANGED mcpVars
  BY <1>1, <1>3, <1>6 DEF CallActs, Deliver, CallFails, ServerReplies, Told, Goto,
      TypeOK, mcpVars
<1>7. CASE CallActs(mcp) /\ UNCHANGED mcpVars
  <2>1. at[mcp] \in {"call", "wait"} /\ at'[mcp] \in {"wait", "told"}
    BY <1>1, <1>7 DEF CallActs, Deliver, CallFails, ServerReplies, Told, Goto, TypeOK
  <2>2. UNCHANGED <<taken, out>> /\ InWork' = InWork
    BY <1>7, <2>1 DEF mcpVars, InWork
  <2> QED BY <1>2, <2>1, <2>2, RequestsRead, KeepsAnswers DEF Requests
<1>8. ASSUME give_up \/ pass_over PROVE OutInv'
  <2>1. /\ at[mcp] = "read" /\ at'[mcp] \in {"read", "exit"}
        /\ taken' = taken + 1 /\ UNCHANGED out
    BY <1>1, <1>8 DEF give_up, pass_over, take_line, EndCall, Goto, TypeOK
  <2>2. ~IsRequest(script[taken + 1])
    BY <1>8 DEF give_up, pass_over, take_line, NextLine, IsRequest, Silent, IsJson
  <2>3. InWork = {} /\ InWork' = {}
    BY <2>1 DEF InWork
  <2>4. Requests(taken)' = Requests(taken)
    BY <1>2, <2>1, <2>2, RequestsRead DEF Requests
  <2> QED BY <2>1, <2>3, <2>4, KeepsAnswers
<1>9. ASSUME call_tool \/ answer_at_once PROVE OutInv'
  <2>1. /\ at[mcp] = "read" /\ at'[mcp] \in {"call", "told"}
        /\ taken' = taken + 1 /\ UNCHANGED out
    BY <1>1, <1>9 DEF call_tool, answer_at_once, take_line, StartCall, Told, Goto,
        TypeOK
  <2>2. InWork = {} /\ InWork' = {taken + 1}
    BY <2>1 DEF InWork
  <2>3. (Requests(taken) \ InWork)' = Requests(taken) \ InWork
    BY <1>2, <2>1, <2>2, RequestsRead DEF Requests
  <2> QED BY <2>1, <2>3, KeepsAnswers
<1>10. ASSUME respond_fails \/ end_of_input PROVE OutInv'
  <2>1. at'[mcp] = "exit" /\ UNCHANGED <<taken, out>>
    BY <1>1, <1>10 DEF respond_fails, end_of_input, EndCall, Goto, TypeOK, mcpVars
  <2>2. at[mcp] # "exit" /\ InWork' = {}
    BY <1>10, <2>1 DEF respond_fails, end_of_input, InWork
  <2>3. Requests(taken)' = Requests(taken)
    BY <1>2, <2>1, RequestsRead DEF Requests
  <2> QED BY <2>1, <2>2, <2>3, KeepsAnswers
<1>11. ASSUME respond PROVE OutInv'
  <2> DEFINE answer == [line |-> taken, id |-> AnswerId(Line), says |-> outcome[mcp]]
             n == Len(out)
  <2>1. /\ at[mcp] = "told" /\ at'[mcp] = "read" /\ UNCHANGED <<taken, delivered>>
        /\ out' = Append(out, answer)
    BY <1>1, <1>11 DEF respond, put_out, EndCall, Goto, TypeOK
  <2>2. taken > 0 /\ IsRequest(Line) /\ Fits(taken, outcome[mcp])
    BY <2>1 DEF McpInv
  <2>3. InWork = {taken} /\ InWork' = {} /\ taken \in Requests(taken)
    BY <1>2, <2>1, <2>2 DEF InWork, Requests, Line
  <2>4. Requests(taken)' = Requests(taken)
    BY <1>2, <2>1, RequestsRead DEF Requests
  <2>5. answer \in Answers
    <3>1. Line \in Lines /\ Fits(taken, outcome[mcp]) /\ taken \in Nat
      BY <1>2, <2>2 DEF TypeOK, Line
    <3>2. outcome[mcp] \in Verdicts \cup Outcomes
      BY <2>2, <3>1, ImmediateSays DEF Fits, Line
    <3> QED BY <2>2, <3>1, <3>2, AnswerIds DEF Answers
  <2>6. /\ n \in Nat /\ DOMAIN out = 1 .. n /\ DOMAIN out' = 1 .. n + 1
        /\ \A i \in 1 .. n : out'[i] = out[i]
        /\ out'[n + 1] = answer
    BY <2>1, <2>5, AppendProperties DEF TypeOK
  <2>7. ASSUME NEW l, NEW t, Fits(l, t) PROVE Fits(l, t)'
    BY <2>7, ReachedStays
  <2>8. ASSUME NEW i \in DOMAIN out'
        PROVE  /\ out'[i].line \in (Requests(taken) \ InWork)'
               /\ out'[i].id = AnswerId(script[out[i].line])'
               /\ Fits(out[i].line, out[i].says)'
    <3>1. PICK l, t : l = out'[i].line /\ t = out'[i].says
      OBVIOUS
    <3>2. l \in Requests(taken) /\ out'[i].id = AnswerId(script[l]) /\ Fits(l, t)
      <4>1. CASE i \in 1 .. n
        BY <2>6, <3>1, <4>1 DEF OutInv
      <4>2. CASE i = n + 1
        BY <2>2, <2>3, <2>6, <3>1, <4>2 DEF Line
      <4> QED BY <2>6, <4>1, <4>2
    <3>3. Fits(l, t)'
      BY <2>7, <3>2
    <3>4. Fits(out[i].line, out[i].says)'
      BY <3>1, <3>3 DEF Fits, Reached
    <3>5. AnswerId(script[out[i].line])' = AnswerId(script[l])
      BY <1>2, <3>1 DEF AnswerId, IsJson
    <3> QED BY <2>3, <2>4, <3>1, <3>2, <3>4, <3>5
  <2>9. \A i, j \in DOMAIN out' : i < j => out'[i].line < out'[j].line
    <3>1. \A i \in 1 .. n : out[i].line \in Nat /\ out[i].line < taken
      BY <1>2, <2>3, <2>6 DEF OutInv, Requests
    <3>2. \A i, j \in 1 .. n : i < j => out[i].line < out[j].line
      BY <2>6 DEF OutInv
    <3> QED BY <2>6, <3>1, <3>2
  <2>10. \A k \in (Requests(taken) \ InWork)' : \E i \in DOMAIN out' : out'[i].line = k
    <3>1. ASSUME NEW k \in Requests(taken) PROVE \E i \in DOMAIN out' : out'[i].line = k
      <4>1. CASE k = taken
        BY <2>6, <4>1
      <4>2. CASE k # taken
        <5>1. PICK i \in 1 .. n : out[i].line = k
          BY <2>1, <2>3, <2>6, <4>2 DEF OutInv
        <5> QED BY <2>6, <5>1
      <4> QED BY <4>1, <4>2
    <3> QED BY <2>3, <2>4, <3>1
  <2> QED BY <2>8, <2>9, <2>10 DEF OutInv
<1> QED BY <1>4, <1>5, <1>6, <1>7, <1>8, <1>9, <1>10, <1>11, StepKinds,
ProgramsAssumption
        DEF McpActs

-----------------------------------------------------------------------------
(* The command-line client.                                                *)
LEMMA OthersKeepClient ==
    ASSUME TypeOK, McpInv, ClientInv, [Next]_vars,
           UNCHANGED <<at[client], request[client], outcome[client], code>>
    PROVE  ClientInv'
<1>1. /\ HasAction' = HasAction /\ Typed' = Typed /\ has_arg("help")' = has_arg("help")
      /\ UNCHANGED args
  BY ScriptAndArgsStay, SameRequests DEF has_arg
<1>2. Reached(0) => Reached(0)'
  BY ReachedStays
<1>3. ASSUME Reached(0)', ~Reached(0), at[client] \in {"start", "connected", "call"} PROVE FALSE
  <2>1. PICK p \in Programs : Deliver(p) /\ 0 = IF p = mcp THEN taken ELSE 0
    BY <1>3, ReachedBy
  <2>2. p # mcp
    BY <2>1 DEF Deliver, McpInv, TypeOK
  <2>3. p = client
    BY <2>2, ProgramsAssumption
  <2> QED BY <1>3, <2>1, <2>3 DEF Deliver, Goto, TypeOK
<1> QED BY <1>1, <1>2, <1>3 DEF ClientInv

LEMMA ClientStepKeeps == TypeOK /\ McpInv /\ ClientInv /\ [Next]_vars => ClientInv'
<1> SUFFICES ASSUME TypeOK, McpInv, ClientInv, [Next]_vars PROVE ClientInv'
  OBVIOUS
<1>1. mcp \in Programs /\ client \in Programs /\ mcp # client
  BY ProgramsAssumption DEF mcp, client
<1>2. /\ HasAction' = HasAction /\ Typed' = Typed /\ has_arg("help")' = has_arg("help")
      /\ UNCHANGED args
  BY ScriptAndArgsStay, SameRequests DEF has_arg
<1>3. CASE UNCHANGED vars \/ ((HostWrites \/ HostCloses) /\ UNCHANGED clientVars)
  BY <1>3, OthersKeepClient DEF vars, calls, clientVars, HostWrites, HostCloses
<1>4. CASE McpActs /\ UNCHANGED clientVars
  <2>1. UNCHANGED <<at[client], request[client], outcome[client]>>
    BY <1>1, <1>4 DEF McpActs, give_up, pass_over, call_tool, answer_at_once, respond,
          respond_fails, end_of_input, EndCall, StartCall, Told, Goto, TypeOK
  <2> QED BY <1>4, <2>1, OthersKeepClient DEF clientVars
<1>5. CASE CallActs(mcp) /\ UNCHANGED clientVars
  <2>1. UNCHANGED <<at[client], request[client], outcome[client]>>
    BY <1>1, <1>5 DEF CallActs, Deliver, CallFails, ServerReplies, Told, Goto, TypeOK
  <2> QED BY <1>5, <2>1, OthersKeepClient DEF clientVars
<1>6. CASE ClientActs
  <2> USE <1>1, <1>2 DEF TypeOK
  <2>1. ASSUME UNCHANGED delivered PROVE Reached(0)' = Reached(0)
    BY <2>1 DEF Reached
  <2>2. CASE print_usage
    BY <2>1, <2>2 DEF print_usage, Exit, EndCall, Goto, ClientInv
  <2>3. CASE missing_action \/ bad_argument
    BY <2>1, <2>3 DEF missing_action, bad_argument, Exit, EndCall, Goto, ClientInv
  <2>4. CASE connect
    BY <2>1, <2>4 DEF connect, Exit, EndCall, Goto, ClientInv, HasAction, clientVars
  <2>5. CASE build_request
    BY <2>1, <2>5 DEF build_request, StartCall, Goto, ClientInv, Typed, clientVars
  <2>6. CASE print_reply
    BY <2>1, <2>6 DEF print_reply, exit_code, Exit, EndCall, Goto, ClientInv
  <2> QED BY <1>6, <2>2, <2>3, <2>4, <2>5, <2>6 DEF ClientActs
<1>7. CASE CallActs(client) /\ UNCHANGED clientVars
  <2> USE <1>1, <1>2, <1>7 DEF TypeOK
  <2>1. Reached(0) => Reached(0)'
    BY ReachedStays
  <2>2. CASE Deliver(client)
    <3>1. request[client] \in Asked /\ request[client].from = 0
      BY <2>2, CallsWithRequest DEF Deliver
    <3>2. Reached(0)'
      BY <2>2, <3>1, AppendProperties DEF Deliver, Reached
    <3> QED BY <2>2, <3>2 DEF Deliver, Goto, ClientInv, clientVars
  <2>3. CASE CallFails(client)
    BY <2>1, <2>3 DEF CallFails, Told, Goto, ClientInv, clientVars
  <2>4. CASE ServerReplies(client)
    BY <2>1, <2>4 DEF ServerReplies, Told, Goto, ClientInv, clientVars
  <2> QED BY <2>2, <2>3, <2>4 DEF CallActs
<1> QED BY <1>3, <1>4, <1>5, <1>6, <1>7, StepKinds, ProgramsAssumption

-----------------------------------------------------------------------------
(* The invariant.                                                          *)
LEMMA InvInit == Init => IInv
<1> SUFFICES ASSUME Init PROVE IInv
  OBVIOUS
<1>1. PICK use \in Uses : McpInit(use[1]) /\ ClientInit(use[2])
  BY DEF Init
<1>2. out = <<>> /\ code = "none" /\ taken = 0 /\ delivered = <<>>
  BY <1>1 DEF McpInit, ClientInit, Init, CallsInit
<1>3. at[mcp] = "read" /\ at[client] = "start"
  BY ProgramsAssumption DEF Init, CallsInit, mcp, client
<1>4. DeliveredInv /\ ~Reached(0)
  BY <1>2 DEF DeliveredInv, Reached
<1>5. McpInv /\ ClientInv
  BY <1>2, <1>3, <1>4 DEF McpInv, ClientInv
<1>6. OutInv
  BY <1>2 DEF OutInv, Requests
<1> QED BY <1>4, <1>5, <1>6, TypesInit DEF IInv

THEOREM FrontEndsInvariant == Spec => []IInv
<1>1. Init => IInv
  BY InvInit
<1>2. IInv /\ [Next]_vars => IInv'
  BY TypesStep, DeliveredStep, McpStepKeeps, OutStep, ClientStepKeeps DEF IInv
<1> QED BY <1>1, <1>2, PTL DEF Spec

(* Every request the host wrote is answered once, under its own id and in  *)
(* the order of the lines, and nothing else is.                            *)
THEOREM HostGetsAnswersInOrder == Spec => []AnswersInOrder
<1>1. IInv => AnswersInOrder
  <2> SUFFICES ASSUME IInv PROVE AnswersInOrder
    OBVIOUS
  <2> USE DEF IInv
  <2>1. at[mcp] # "exit" => {out[i].line : i \in DOMAIN out} = Requests(taken) \ InWork
    BY DEF OutInv
  <2>2. \A i, j \in DOMAIN out : i < j => out[i].line < out[j].line
    BY DEF OutInv
  <2>3. ASSUME NEW i \in DOMAIN out
        PROVE  LET line == script[out[i].line]
               IN  out[i].id = IF line.form = "not json" THEN "null" ELSE line.id
    <3>1. out[i].line \in Requests(taken) /\ out[i].id = AnswerId(script[out[i].line])
      BY DEF OutInv
    <3>2. script[out[i].line] \in Lines /\ IsRequest(script[out[i].line])
      BY <3>1 DEF Requests, TypeOK
    <3> QED BY <3>1, <3>2, AnswerIds
  <2> QED BY <2>1, <2>2, <2>3 DEF AnswersInOrder
<1> QED BY <1>1, FrontEndsInvariant, PTL

(* The server does what was asked, once, and who is told that it did is    *)
(* told the truth.                                                         *)
THEOREM ServerDoesWhatIsAskedOnce == Spec => []DoneOnceIfAsked
<1>1. IInv => DoneOnceIfAsked
  <2> SUFFICES ASSUME IInv PROVE DoneOnceIfAsked
    OBVIOUS
  <2> USE DEF IInv
  <2>1. ASSUME NEW i \in DOMAIN delivered PROVE AskedFor(delivered[i])
    <3> DEFINE r == delivered[i]
    <3>1. r \in Asked
      BY DEF TypeOK
    <3>2. CASE r.from \in Callers /\ r = AskedBy(r.from)
      <4>1. r.from \in 1 .. taken /\ Calls(script[r.from])
        BY <3>2 DEF Callers, DeliveredInv, TypeOK
      <4>2. r.op = script[r.from].name
        BY <3>2 DEF AskedBy, Request
      <4>3. r.from \in Requests(taken)
        BY <4>1, CallsAsks DEF Requests
      <4> QED BY <4>1, <4>2, <4>3 DEF AskedFor, Calls, CallsTool
    <3>3. CASE r.from = 0 /\ HasAction /\ r = Typed
      <4>1. r.op = action_from_args
        BY <3>3 DEF Typed, Request
      <4> QED BY <3>3, <4>1, ActionOfArgs DEF AskedFor, TypeOK
    <3> QED BY <3>1, <3>2, <3>3, AskedOnce
  <2>2. \A i, j \in DOMAIN delivered : delivered[i].from = delivered[j].from => i = j
    BY DEF DeliveredInv
  <2>3. ASSUME NEW i \in DOMAIN out, out[i].says \in {"ok", "refused"}
        PROVE  \E j \in DOMAIN delivered : delivered[j].from = out[i].line
    <3>1. /\ script[out[i].line] \in Lines /\ IsRequest(script[out[i].line])
          /\ Fits(out[i].line, out[i].says)
      BY DEF OutInv, Requests, TypeOK
    <3> QED BY <2>3, <3>1, ImmediateSays DEF Fits, Reached, Verdicts
  <2>4. code = "0" /\ args # <<>> /\ ~has_arg("help") =>
            \E j \in DOMAIN delivered : delivered[j].from = 0
    BY DEF ClientInv, Reached
  <2> QED BY <2>1, <2>2, <2>3, <2>4 DEF DoneOnceIfAsked
<1> QED BY <1>1, FrontEndsInvariant, PTL

(* The table of an action: its fields, which it needs, and what its schema *)
(* says of them agree.                                                     *)
SchemaFits(op) ==
    /\ Needed[op] = Required[op]
    /\ Needed[op] \subseteq Strings[op] /\ Strings[op] \cap Numbers[op] = {}
    /\ DOMAIN Schema[op] = Fields[op]
    /\ \A field \in Strings[op] : Schema[op][field] = "string"
    /\ \A field \in Numbers[op] : Schema[op][field] = "positive"

LEMMA SchemasFit == \A op \in Tools : SchemaFits(op)
<1> SUFFICES ASSUME NEW op \in Tools PROVE SchemaFits(op)
  OBVIOUS
<1>1. op \in {"health_check", "list_dir", "read_file", "tail_file", "grep_file", "exec"}
  BY DEF Tools, Actions, Strings
<1>2. Needed[op] = Strings[op] \ {"working_dir"} /\ Fields[op] = Strings[op] \cup Numbers[op]
  BY DEF Needed, Fields, Tools
<1> USE <1>2 DEF Schema, Required, Strings, Numbers, SchemaFits
<1>3. CASE op = "health_check"
  BY <1>3
<1>4. CASE op = "list_dir"
  BY <1>4
<1>5. CASE op = "read_file"
  BY <1>5
<1>6. CASE op = "tail_file"
  BY <1>6
<1>7. CASE op = "grep_file"
  BY <1>7
<1>8. CASE op = "exec"
  BY <1>8
<1> QED BY <1>1, <1>3, <1>4, <1>5, <1>6, <1>7, <1>8

LEMMA SchemaIsAccepted ==
    ASSUME NEW line, IsJson(line), line.method = "tools/call", line.name \in Tools,
           line.arguments = "an object", SchemaAllows(line.name, line.given),
           \A field \in Required[line.name] : line.given[field] # "empty",
           \A field \in DOMAIN line.given : line.given[field] # "no u64"
    PROVE  CallsTool(line)
<1> DEFINE op == line.name
           given == line.given
<1>1. SchemaFits(op)
  BY SchemasFit
<1>2. Needed[op] \subseteq DOMAIN given
  BY <1>1 DEF SchemaAllows, SchemaFits
<1>3. ASSUME NEW field \in DOMAIN given \cap Fields[op]
      PROVE  given[field] \in Accepted(op, field)
  <2>1. field \in Strings[op] \cup Numbers[op]
    BY DEF Fields, Tools
  <2>2. given[field] \in OfType(Schema[op][field])
    BY DEF SchemaAllows
  <2>3. CASE field \in Needed[op]
    BY <1>1, <2>2, <2>3 DEF SchemaFits, OfType, Accepted
  <2>4. CASE field \in Strings[op] \ Needed[op]
    BY <1>1, <2>2, <2>4 DEF SchemaFits, OfType, Accepted
  <2>5. CASE field \in Numbers[op]
    BY <1>1, <2>2, <2>5 DEF SchemaFits, OfType, Accepted
  <2> QED BY <2>1, <2>3, <2>4, <2>5
<1> QED BY <1>2, <1>3 DEF CallsTool, Acceptable

LEMMA DeliveredAsAsked ==
    ASSUME TypeOK, NEW i \in DOMAIN delivered, delivered[i].from # 0
    PROVE  delivered[i] = AskedBy(delivered[i].from)
<1>1. delivered[i] \in Asked
  BY ElementOfSeq DEF TypeOK
<1> QED BY <1>1, AskedOnce

(* A host that keeps to the schema of a tool, and whose numbers as_u64     *)
(* reads, has its call made with the values it gave.                       *)
THEOREM SchemaIsHonoured == Spec => []SchemaHonoured
<1>1. ASSUME IInv, NEW k \in Requests(taken), Calls(script[k])
      PROVE  /\ \A i \in DOMAIN out :
                    out[i].line = k => out[i].says \in {"ok", "refused", "broken"}
             /\ \A i \in DOMAIN delivered : delivered[i].from = k =>
                    \A field \in Fields[script[k].name] :
                        delivered[i].fields[field] =
                            IF field \in DOMAIN script[k].given THEN script[k].given[field]
                            ELSE Default
  <2>1. \A i \in DOMAIN out : out[i].line = k => out[i].says \in {"ok", "refused", "broken"}
    BY <1>1 DEF IInv, OutInv, Fits, Outcomes
  <2>2. k # 0
    BY <1>1 DEF IInv, TypeOK, Requests
  <2>3. ASSUME NEW i \in DOMAIN delivered, delivered[i].from = k
        PROVE  delivered[i] = AskedBy(k)
    BY <1>1, <2>2, <2>3, DeliveredAsAsked DEF IInv
  <2> QED BY <2>1, <2>3 DEF AskedBy, Request
<1>2. IInv => SchemaHonoured
  BY <1>1, SchemaIsAccepted DEF SchemaHonoured, Conforms, IsJson, Requests,
      IsRequest, Calls
<1> QED BY <1>2, FrontEndsInvariant, PTL

-----------------------------------------------------------------------------
(* Reading a command line that names an action and options, in any order.  *)
LEMMA OddAndEven ==
    ASSUME NEW i \in Nat
    PROVE  /\ i % 2 = 1 <=> (i + 1) % 2 = 0
           /\ i % 2 = 1 \/ i % 2 = 0
           /\ i % 2 = 0 /\ i > 0 => (i - 1) % 2 = 1
           /\ \A n \in Nat : i % 2 = 1 /\ n % 2 = 0 /\ i <= n => i + 1 <= n
           /\ \A n \in Nat : i % 2 = 1 /\ n % 2 = 1 /\ i < n => i + 1 < n
<1>1. \A k \in Nat : k % 2 \in {0, 1} /\ ((k + 1) % 2 = 0 <=> k % 2 = 1)
  OBVIOUS
<1>2. i % 2 = 0 /\ i > 0 => (i - 1) % 2 = 1
  BY <1>1
<1>3. \A n \in Nat : i % 2 = 1 /\ n % 2 = 0 /\ i <= n => i + 1 <= n
  OBVIOUS
<1>4. \A n \in Nat : i % 2 = 1 /\ n % 2 = 1 /\ i < n => i + 1 < n
  <2>1. SUFFICES ASSUME NEW n \in Nat, i % 2 = 1, n % 2 = 1, i < n, ~(i + 1 < n) PROVE FALSE
    OBVIOUS
  <2>2. n = i + 1
    BY <2>1
  <2> QED BY <1>1, <2>1, <2>2
<1>5. (i % 2 = 1 <=> (i + 1) % 2 = 0) /\ (i % 2 = 1 \/ i % 2 = 0)
  BY <1>1
<1> QED BY <1>2, <1>3, <1>4, <1>5, Zenon

LEMMA WordsDiffer == Options \cap Actions = {} /\ "help" \notin Actions
<1>1. Actions = {"health_check", "list_dir", "read_file", "tail_file", "grep_file",
                 "upload_file", "exec"}
  BY DEF Actions, Strings
<1>2. \A op \in Actions : Fields[op] \subseteq
          {"path", "needle", "local", "overwrite", "command", "working_dir", "max_bytes", "lines",
           "max_matches", "max_line_length", "chunk_size", "timeout_ms", "max_output_bytes"}
  BY <1>1 DEF Fields, Strings, Numbers
<1> QED BY <1>1, <1>2 DEF Options

LEMMA RestOfWords ==
    ASSUME args \in Seq(STRING), NEW p \in DOMAIN args
    PROVE  /\ Len(Without(p)) = Len(args) - 1 /\ Len(Without(p)) \in Nat
           /\ DOMAIN Without(p) = 1 .. Len(Without(p))
           /\ DOMAIN args = 1 .. Len(args)
           /\ \A i \in DOMAIN Without(p) :
                  Without(p)[i] = IF i < p THEN args[i] ELSE args[i + 1]
<1>1. Len(args) - 1 \in Nat /\ DOMAIN args = 1 .. Len(args)
  OBVIOUS
<1>2. Without(p) \in Seq(STRING)
  BY <1>1, IsASeq DEF Without
<1> QED BY <1>1, <1>2, LenProperties DEF Without

(* Where a word that names an option stands, and what follows it.          *)
Place(p, i) == IF i < p THEN i ELSE i - 1

LEMMA OptionStands ==
    ASSUME args \in Seq(STRING), NEW p \in DOMAIN args, ReadsAs(p),
           NEW i \in DOMAIN args, args[i] \in Options
    PROVE  /\ Place(p, i) \in Pairs(Without(p)) /\ Place(p, i) + 1 \in DOMAIN Without(p)
           /\ Without(p)[Place(p, i)] = args[i]
           /\ i < Len(args) /\ Without(p)[Place(p, i) + 1] = args[i + 1]
<1> DEFINE rest == Without(p)
           n == Len(rest)
           r == Place(p, i)
<1>1. n \in Nat /\ n = Len(args) - 1 /\ p \in 1 .. n + 1 /\ i \in 1 .. n + 1
      /\ DOMAIN rest = 1 .. n
  BY RestOfWords
<1>2. \A j \in 1 .. n : rest[j] = IF j < p THEN args[j] ELSE args[j + 1]
  BY <1>1, RestOfWords
<1>3. n % 2 = 0 /\ p % 2 = 1 /\ args[p] \in Actions
  BY DEF ReadsAs
<1>4. i # p
  BY <1>3, WordsDiffer
<1> HIDE DEF rest, n
<1>5. r \in 1 .. n /\ rest[r] = args[i]
  BY <1>1, <1>2, <1>4 DEF Place
<1>6. r % 2 = 1
  <2>1. SUFFICES ASSUME r % 2 = 0 PROVE FALSE
    BY <1>5, OddAndEven
  <2>2. r - 1 \in Nat /\ (r - 1) % 2 = 1 /\ r - 1 \in 1 .. n
    <3>1. r \in Nat /\ r > 0
      BY <1>1, <1>5
    <3>2. (r - 1) % 2 = 1 /\ r # 1
      BY <2>1, <3>1, OddAndEven
    <3> QED BY <1>1, <1>5, <3>1, <3>2
  <2>3. r - 1 \in Pairs(rest)
    BY <1>1, <2>2 DEF Pairs
  <2>4. rest[r - 1 + 1] \notin Options
    BY <2>3 DEF ReadsAs, rest
  <2> QED BY <1>5, <2>4
<1>7. r + 1 \in 1 .. n
  BY <1>1, <1>3, <1>5, <1>6, OddAndEven
<1>8. rest[r + 1] = args[i + 1]
  <2>1. CASE i < p
    <3>1. r = i /\ i + 1 < p
      <4>1. r = i /\ i \in Nat /\ p \in Nat
        BY <1>1, <2>1 DEF Place
      <4> QED BY <1>3, <1>6, <2>1, <4>1, OddAndEven
    <3> QED BY <1>2, <1>7, <3>1
  <2>2. CASE i > p
    <3>1. r + 1 = i
      BY <1>1, <2>2 DEF Place
    <3> QED BY <1>1, <1>2, <1>7, <2>2, <3>1
  <2> QED BY <1>1, <1>4, <2>1, <2>2
<1>9. i < Len(args)
  BY <1>1, <1>4, <1>7 DEF Place
<1> QED BY <1>1, <1>5, <1>6, <1>7, <1>8, <1>9 DEF Pairs, rest

(* The option a word of the rest names stands in the command line, too.    *)
LEMMA RestStands ==
    ASSUME args \in Seq(STRING), NEW p \in DOMAIN args, NEW r \in Pairs(Without(p))
    PROVE  \E i \in DOMAIN args : args[i] = Without(p)[r]
BY RestOfWords DEF Pairs

LEMMA ReadsWords ==
    ASSUME args \in Seq(STRING), NEW p \in DOMAIN args, ReadsAs(p)
    PROVE  ~has_arg("help") /\ HasAction /\ action_from_args = args[p]
<1>1. HasAction
  BY DEF ReadsAs, HasAction
<1>2. action_from_args = args[p]
  <2>1. \A i \in DOMAIN args :
           (args[i] \in Actions /\ \A j \in DOMAIN args : args[j] \in Actions => i <= j) <=> i = p
    BY RestOfWords DEF ReadsAs
  <2> QED BY <2>1 DEF action_from_args, First
<1>3. ASSUME NEW i \in DOMAIN args, args[i] = "help" PROVE FALSE
  <2>1. "help" \in Options
    BY DEF Options
  <2>2. /\ Place(p, i) \in Pairs(Without(p))
        /\ Without(p)[Place(p, i)] = args[i]
    BY <1>3, <2>1, OptionStands
  <2> QED BY <1>3, <2>2 DEF ReadsAs
<1> QED BY <1>1, <1>2, <1>3 DEF has_arg

(* An option's value is the word after it; an option not named has none.   *)
LEMMA OptionRead ==
    ASSUME args \in Seq(STRING), NEW p \in DOMAIN args, ReadsAs(p), NEW field \in Options
    PROVE  LET rest  == Without(p)
               meant == {rest[r + 1] : r \in {j \in Pairs(rest) : rest[j] = field}}
           IN  IF Given(field) THEN arg_value(field) \in meant ELSE meant = {}
<1> DEFINE rest == Without(p)
           meant == {rest[r + 1] : r \in {j \in Pairs(rest) : rest[j] = field}}
<1>1. CASE Given(field)
  <2>1. PICK i \in 1 .. Len(args) - 1 : args[i] = field
    BY <1>1 DEF Given
  <2>2. i \in DOMAIN args /\ i < Len(args)
    BY <2>1
  <2>3. ASSUME NEW j \in DOMAIN args, args[j] = field PROVE j = i
    <3>1. /\ Place(p, i) \in Pairs(rest) /\ rest[Place(p, i)] = field
          /\ Place(p, j) \in Pairs(rest) /\ rest[Place(p, j)] = field
      BY <2>1, <2>2, <2>3, OptionStands
    <3>2. Place(p, i) = Place(p, j)
      BY <3>1 DEF ReadsAs
    <3>3. i # p /\ j # p
      BY <2>1, <2>3, WordsDiffer DEF ReadsAs
    <3> QED BY <2>2, <3>2, <3>3, RestOfWords DEF Place
  <2>4. \A j \in DOMAIN args :
           ((j < Len(args) /\ args[j] = field)
               /\ \A k \in DOMAIN args : k < Len(args) /\ args[k] = field => j <= k) <=> j = i
    BY <2>1, <2>2, <2>3, RestOfWords
  <2>5. arg_value(field) = args[i + 1]
    BY <2>2, <2>4 DEF arg_value, First
  <2>6. /\ Place(p, i) \in Pairs(rest) /\ rest[Place(p, i)] = field
        /\ rest[Place(p, i) + 1] = args[i + 1]
    BY <2>1, <2>2, OptionStands
  <2> HIDE DEF rest
  <2>7. arg_value(field) \in meant
    BY <2>5, <2>6
  <2> QED BY <1>1, <2>7 DEF rest
<1>2. CASE ~Given(field)
  <2>1. ASSUME NEW r \in Pairs(rest), rest[r] = field PROVE FALSE
    <3>1. PICK i \in DOMAIN args : args[i] = field
      BY <2>1, RestStands
    <3>2. i < Len(args)
      BY <3>1, OptionStands
    <3> QED BY <1>2, <3>1, <3>2, RestOfWords DEF Given
  <2> HIDE DEF rest
  <2>2. meant = {}
    BY <2>1
  <2> QED BY <1>2, <2>2 DEF rest
<1> QED BY <1>1, <1>2

(* A command line that says what is to be done has it done as it says.     *)
THEOREM CommandLineIsObeyed == Spec => []CommandLineObeyed
<1>1. ASSUME IInv, NEW p \in DOMAIN args, ReadsAs(p)
      PROVE  /\ code = "0" => \E i \in DOMAIN delivered : delivered[i].from = 0
             /\ \A i \in DOMAIN delivered : delivered[i].from = 0 =>
                    /\ delivered[i].op = args[p]
                    /\ \A field \in Fields[args[p]] \ {"overwrite"} :
                           delivered[i].fields[field] =
                               IF Given(field) THEN arg_value(field) ELSE Default
  <2>1. ~has_arg("help") /\ HasAction /\ action_from_args = args[p] /\ args # <<>>
    BY <1>1, ReadsWords DEF IInv, TypeOK
  <2>2. code = "0" => \E i \in DOMAIN delivered : delivered[i].from = 0
    BY <1>1, <2>1 DEF IInv, ClientInv, Reached
  <2>3. ASSUME NEW i \in DOMAIN delivered, delivered[i].from = 0
        PROVE  delivered[i] = Typed
    <3>1. delivered[i] \in Asked
      BY <1>1, ElementOfSeq DEF IInv, TypeOK
    <3> QED BY <2>3, <3>1, AskedOnce DEF Callers
  <2>4. ASSUME NEW field \in Fields[args[p]] \ {"overwrite"}
        PROVE  Typed.fields[field] = IF Given(field) THEN arg_value(field) ELSE Default
    BY <2>1, <2>4 DEF Typed, Request, given_fields
  <2>5. Typed.op = args[p]
    BY <2>1 DEF Typed, Request
  <2> QED BY <2>2, <2>3, <2>4, <2>5
<1>2. IInv => CommandLineObeyed
  <2> SUFFICES ASSUME IInv, NEW p \in DOMAIN args, ReadsAs(p)
               PROVE  LET rest == Without(p)
                          meant(field) == {rest[i + 1] : i \in {j \in Pairs(rest) : rest[j] = field}}
                      IN /\ code = "0" => \E i \in DOMAIN delivered : delivered[i].from = 0
                         /\ \A i \in DOMAIN delivered : delivered[i].from = 0 =>
                                /\ delivered[i].op = args[p]
                                /\ \A field \in Fields[args[p]] \ {"overwrite"} :
                                       delivered[i].fields[field] \in
                                           IF meant(field) = {} THEN {Default} ELSE meant(field)
    BY DEF CommandLineObeyed
  <2>1. \A field \in Fields[args[p]] : field \in Options
    BY DEF Options, ReadsAs
  <2>2. args \in Seq(STRING)
    BY DEF IInv, TypeOK
  <2> QED BY <1>1, <2>1, <2>2, OptionRead
<1> QED BY <1>2, FrontEndsInvariant, PTL

=============================================================================
