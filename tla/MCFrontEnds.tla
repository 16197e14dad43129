----------------------------- MODULE MCFrontEnds -----------------------------
(* Dialogs of up to three lines; two calls while a client runs; one call   *)
(* with any arguments; and command lines of up to three words of any kind  *)
(* and of up to seven that name options.                                   *)
EXTENDS FrontEnds, SequencesExt

Kinds == {"text", "empty", "zero", "number", "no u64", "null"}
GivenTo(op) ==
    UNION {[S -> Kinds] : S \in {S \in SUBSET (Fields[op] \cup {"extra"}) : Cardinality(S) <= 3}}
ToolCall(id, name, arguments, given) ==
    [form |-> "json", id |-> id, method |-> "tools/call", name |-> name,
     arguments |-> arguments, given |-> given]
Plain(id, method) ==
    [form |-> "json", id |-> id, method |-> method, name |-> NoName,
     arguments |-> "absent", given |-> <<>>]

OneCall ==
    UNION {{<<ToolCall("1", op, "an object", given)>> : given \in GivenTo(op)} : op \in Tools}
OddCall ==
    {<<ToolCall(id, name, arguments, <<>>)>> : id \in {"1", NoId},
         name \in Tools \cup {"upload_file", "no such tool", NoName},
         arguments \in {"absent", "not an object", "an object"}}
Exec(id) == ToolCall(id, "exec", "an object", [command |-> "text"])
Forms ==
    {Exec("1"), Exec("null"), Exec(NoId), Plain("1", "tools/list"),
     Plain(NoId, "other"), Plain("1", "other"), Plain("1", "none"), Plain(NoId, "none"),
     [form |-> "blank"], [form |-> "not json"], [form |-> "not utf8"]}
Dialogs ==
    BoundedSeq(Forms, 2)
        \cup BoundedSeq({Exec("1"), Exec(NoId), [form |-> "not json"], [form |-> "not utf8"]}, 3)
CommandLines ==
    BoundedSeq({"exec", "read_file", "upload_file", "path", "local", "max_bytes", "command",
                "overwrite", "help", "x", "7", "no"}, 3)
Shuffled ==
    {p \o <<op>> \o q : op \in {"read_file", "exec", "upload_file"},
         p \in {<<>>, <<"path", "x">>, <<"path", "exec">>, <<"max_bytes", "7">>},
         q \in {<<>>, <<"path", "x">>, <<"max_bytes", "x">>, <<"command", "exec">>,
                <<"local", "x">>, <<"timeout_ms", "7">>, <<"max_bytes", "7", "path", "x">>}}

MCUses ==
    (Dialogs \X {<<>>})
        \cup ({<<Exec("1"), Exec("null")>>} \X {<<"exec", "command", "x">>})
        \cup ((OneCall \cup OddCall) \X {<<>>})
        \cup ({<<>>} \X (CommandLines \cup Shuffled))
=============================================================================
