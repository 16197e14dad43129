------------------------------- MODULE FileOps -------------------------------
(***************************************************************************)
(* What list_dir, read_file, tail_file and grep_file reply, in the C++     *)
(* server (src/common/file_ops.cpp) and in the Rust server (ops.rs), as    *)
(* operators on the directory tree and the bytes of the file.  A client    *)
(* asks both servers the same of the same file.                            *)
(*                                                                         *)
(* A location is the sequence of names on the way from "/" to it.  A path  *)
(* in a request has names, "dot" and "up" (..), and may begin at "/".      *)
(* There are no symbolic links.                                            *)
(*                                                                         *)
(* A text is a sequence of bytes of five kinds: "a" any plain character,   *)
(* "n" the newline, "r" the carriage return, "l" and "t" the two bytes of  *)
(* a character that takes two.  "?" is the replacement character.          *)
(***************************************************************************)
EXTENDS Integers, SequencesExt

CONSTANTS
    Texts, Absent,      \* contents of the file; Absent: there is none
    Hosts,              \* pairs of a --root and what is in the file
    Names,              \* names of files and directories
    Dirs, Files,        \* locations of directories and of files
    Roots,              \* locations the server may be given as its --root
    Paths,              \* paths in ListDir requests
    Needles,            \* needle in GrepFile requests
    Limits,             \* values of lines and of the max_ fields in requests
    OutputFloor,        \* 1024 in grep_output_limit
    RowSlack,           \* 32 in grep_output_limit
    Word,               \* 2^64, what size_t counts up to
    Failed, NoAnswer,   \* an error reply; no reply at all
    NoRequest

ASSUME LimitsAssumption ==
    /\ Word \in Nat \ {0} /\ Limits \subseteq 0 .. Word - 1
    /\ OutputFloor \in Nat
Bytes == {"a", "n", "r", "l", "t"}
ASSUME TextsAssumption ==
    /\ Texts \subseteq Seq(Bytes)
    /\ Needles \subseteq Seq({"a", "l", "t"})

(* What becomes of a server's run of rg: rows (it exits with 0 or 1), rg   *)
(* is missing, or an error reply.  The two servers differ here, too: C++   *)
(* looks rg up in a login shell, gives it 30 seconds, and takes it for     *)
(* missing if it failed with "not found" anywhere in its stderr; Rust uses *)
(* its own PATH and waits.                                                 *)
Rg == {"rows", "missing", "fails"}

ASSUME HostsAssumption == Hosts \subseteq Roots \X (Texts \cup {Absent})
ASSUME NamesAssumption ==
    /\ "dot" \notin Names /\ "up" \notin Names
    /\ Dirs \cup Files \subseteq Seq(Names)
    /\ Paths \subseteq Seq(Names \cup {"dot", "up"})
ASSUME TreeAssumption ==
    /\ Failed \notin Dirs
    /\ Roots \subseteq Dirs /\ <<>> \in Dirs
    /\ \A at \in (Dirs \cup Files) \ {<<>>} : Front(at) \in Dirs

ListRequest == [op : {"list"}, absolute : BOOLEAN, path : Paths]
ReadRequest == [op : {"read"}, max_bytes : Limits]
TailRequest == [op : {"tail"}, lines : Limits, max_bytes : Limits]
GrepRequest == [op : {"grep"}, needle : Needles, max_matches : Limits,
                max_line_length : Limits, cpp_rg : Rg, rust_rg : Rg]
Requests    == ListRequest \cup ReadRequest \cup TailRequest \cup GrepRequest

VARIABLES
    root,       \* the servers' --root
    file,       \* the file asked for
    request,    \* the request being served
    cpp, rust   \* the replies of the two servers

vars == <<root, file, request, cpp, rust>>

-----------------------------------------------------------------------------
(* Paths and list_dir.                                                     *)

Above(at) == IF at = <<>> THEN <<>> ELSE Front(at)

(* weakly_canonical of an absolute path: ".." at "/" stays there.          *)
Walk(at, step) ==
    CASE step = "dot" -> at
      [] step = "up" -> Above(at)
      [] step \notin {"dot", "up"} -> Append(at, step)
weakly_canonical(path) ==
    LET at[k \in 0 .. Len(path)] ==
            IF k = 0 THEN <<>> ELSE Walk(at[k - 1], path[k])
    IN at[Len(path)]

(* base + "/" is "//" if the root is "/": then nothing begins with it.     *)
normalize_under_root(q) ==
    LET candidate == weakly_canonical(IF q.absolute THEN q.path ELSE root \o q.path)
    IN IF candidate = root \/ (root # <<>> /\ IsPrefix(root, candidate))
       THEN candidate ELSE Failed

(* Somewhere on the path there are more ".." than names before them, so    *)
(* that relative.pop() has nothing to take away.                           *)
LeavesRoot(path) ==
    \E k \in DOMAIN path :
        LET count(kinds) == Cardinality({j \in 1 .. k : path[j] \in kinds})
        IN count({"up"}) > k - count({"up", "dot"})

resolve_path(q) ==
    IF q.absolute \/ LeavesRoot(q.path) THEN Failed ELSE root \o weakly_canonical(q.path)

List(dir) ==
    IF dir \notin Dirs THEN Failed
    ELSE {[kind |-> IF at \in Dirs THEN "dir" ELSE "file", name |-> Last(at)] :
              at \in {at \in Dirs \cup Files : at # <<>> /\ Front(at) = dir}}

-----------------------------------------------------------------------------
(* Lines.                                                                  *)

AtMost(n, s) == SubSeq(s, 1, Min({n, Len(s)}))

(* The numbers of a set up to n, in order.                                 *)
Ordered(set, n) ==
    LET upto[k \in 0 .. n] ==
            IF k = 0 THEN <<>>
            ELSE IF k \in set THEN Append(upto[k - 1], k) ELSE upto[k - 1]
    IN upto[n]

LineEnds(f) == Ordered({i \in DOMAIN f : f[i] = "n" \/ i = Len(f)}, Len(f))

(* std::getline takes the newline away, BufRead::lines a carriage return   *)
(* before it, too.  A last line without newline counts as one.             *)
getline(f) ==
    LET ends == LineEnds(f)
        first(k) == IF k = 1 THEN 1 ELSE ends[k - 1] + 1
        last(k) == IF f[ends[k]] = "n" THEN ends[k] - 1 ELSE ends[k]
    IN [k \in 1 .. Len(ends) |-> SubSeq(f, first(k), last(k))]

WithoutReturn(line) == IF line # <<>> /\ Last(line) = "r" THEN Front(line) ELSE line

lines(f) ==
    LET ends == LineEnds(f)
        cut  == getline(f)
    IN [k \in 1 .. Len(cut) |->
           IF f[ends[k]] = "n" THEN WithoutReturn(cut[k]) ELSE cut[k]]

(* What rg writes around line k: its number, a colon and a newline.  No    *)
(* file has so many lines that RowSlack does not cover it.                 *)
Digits(k)      == CHOOSE d \in 1 .. k : 10 ^ (d - 1) <= k /\ k < 10 ^ d
RowOverhead(k) == Digits(k) + 2
ASSUME SlackAssumption ==
    /\ RowSlack \in Nat
    /\ \A f \in Texts : \A k \in DOMAIN getline(f) : RowOverhead(k) \in 2 .. RowSlack

Unlines(ls) ==
    LET text[k \in 0 .. Len(ls)] ==
            IF k = 0 THEN <<>> ELSE text[k - 1] \o Append(ls[k], "n")
    IN text[Len(ls)]

-----------------------------------------------------------------------------
(* Characters.  Strings of Rust are UTF-8, strings of C++ are bytes.       *)

Broken(s, i) ==
    \/ s[i] = "l" /\ (i = Len(s) \/ s[i + 1] # "t")
    \/ s[i] = "t" /\ (i = 1 \/ s[i - 1] # "l")
Utf8(s) == \A i \in 1 .. Len(s) : ~Broken(s, i)

from_utf8_lossy(s) == [i \in 1 .. Len(s) |-> IF Broken(s, i) THEN "?" ELSE s[i]]

CharsUpTo(s, i) == Cardinality({j \in 1 .. i : s[j] # "t"})
CharsBefore(s, n) == AtMost(Cardinality({i \in 1 .. Len(s) : CharsUpTo(s, i) < n}), s)
take_chars(s, n) == AtMost(Cardinality({i \in 1 .. Len(s) : CharsUpTo(s, i) <= n}), s)

truncate_text(s, n) == AtMost(n, s)

-----------------------------------------------------------------------------
(* read_file.                                                              *)

CppRead(f, q) == truncate_text(f, q.max_bytes)
RustRead(f, q) == take_chars(from_utf8_lossy(f), q.max_bytes)

-----------------------------------------------------------------------------
(* tail_file: a ring of the last lines.                                    *)

PushPast(ring, line, n) == Append(IF Len(ring) > n THEN Tail(ring) ELSE ring, line)
Push(ring, line, n) == Append(IF Len(ring) = n /\ ring # <<>> THEN Tail(ring) ELSE ring, line)
Ring(ls, n) ==
    LET ring[k \in 0 .. Len(ls)] ==
            IF k = 0 THEN <<>> ELSE Push(ring[k - 1], ls[k], n)
    IN ring[Len(ls)]

(* With lines = 0, C++ erases from an empty vector, which is undefined:    *)
(* the server may crash, or keep or lose any line.                         *)
CppTails(f, q) ==
    IF q.lines = 0 /\ f # <<>>
    THEN {NoAnswer, <<>>, truncate_text(Unlines(getline(f)), q.max_bytes)}
    ELSE {truncate_text(Unlines(Ring(getline(f), q.lines)), q.max_bytes)}

(* ring.join("\n"), and a newline unless that is empty.                    *)
RustTail(f, q) ==
    LET ring == Ring(lines(f), q.lines)
        content == IF ring \in {<<>>, << <<>> >>} THEN <<>> ELSE Unlines(ring)
    IN IF \A k \in DOMAIN lines(f) : Utf8(lines(f)[k])
       THEN take_chars(content, q.max_bytes) ELSE Failed

-----------------------------------------------------------------------------
(* grep_file.  A row of the reply is a line number and a text.             *)

Holds(line, needle) ==
    \E i \in 0 .. Len(line) - Len(needle) : SubSeq(line, i + 1, i + Len(needle)) = needle

Rows(ls, needle) ==
    LET found == Ordered({k \in DOMAIN ls : Holds(ls[k], needle)}, Len(ls))
    IN [k \in DOMAIN found |-> [number |-> found[k], text |-> ls[found[k]]]]

ShortenLongest(rows, n) ==
    [k \in DOMAIN rows |-> [rows[k] EXCEPT !.text = IF Len(@) > n + 1 THEN AtMost(n, @) ELSE @]]
Shorten(rows, n) == [k \in DOMAIN rows |-> [rows[k] EXCEPT !.text = AtMost(n, @)]]

(* Both scanners look at the limit only after a match.                     *)
ScanLimit(q) == Max({q.max_matches, 1})

grep_file_text_builtin(f, q) ==
    Shorten(AtMost(ScanLimit(q), Rows(getline(f), q.needle)), q.max_line_length)

(* rg -n -F -m max_matches: whole lines, none of them with -m 0.           *)
RgRows(f, q) == AtMost(q.max_matches, Rows(getline(f), q.needle))

(* The sum and the product are of type size_t: they wrap around.           *)
NoSlackLimit(m, n) == Max({OutputFloor, (Max({m, 1}) * Max({n, 1})) % Word})
grep_output_limit(m, n) ==
    LET row == (Max({n, 1}) + RowSlack) % Word
    IN Max({OutputFloor, (Max({m, 1}) * row) % Word})

Wraps(q) ==
    Max({q.max_matches, 1}) * (Max({q.max_line_length, 1}) + RowSlack) >= Word

(* Of the first `limit` bytes of the rows, those with number and colon.    *)
Captured(rows, limit) ==
    LET width(row) == RowOverhead(row.number) + Len(row.text)
        used[k \in 0 .. Len(rows)] ==
            IF k = 0 THEN 0 ELSE used[k - 1] + width(rows[k])
        room(k) == limit - used[k - 1] - (RowOverhead(rows[k].number) - 1)
    IN [k \in {j \in DOMAIN rows : room(j) >= 0} |->
           [rows[k] EXCEPT !.text = AtMost(room(k), @)]]

CppGrep(f, q) ==
    CASE q.cpp_rg = "rows" ->
             Shorten(Captured(RgRows(f, q),
                              grep_output_limit(q.max_matches, q.max_line_length)),
                     q.max_line_length)
      [] q.cpp_rg = "missing" -> grep_file_text_builtin(f, q)
      [] q.cpp_rg = "fails"   -> Failed

(* String::truncate panics inside a character; a line that is not UTF-8    *)
(* ends the scan with an error.                                            *)
grep_file_builtin(f, q) ==
    LET found  == AtMost(ScanLimit(q), Rows(lines(f), q.needle))
        looked == IF Len(found) = ScanLimit(q) THEN Last(found).number ELSE Len(lines(f))
        splits == {k \in DOMAIN found : /\ Len(found[k].text) > q.max_line_length
                                        /\ found[k].text[q.max_line_length + 1] = "t"}
        panics == {found[k].number : k \in splits}
        broken == {k \in 1 .. looked : ~Utf8(lines(f)[k])}
    IN CASE panics \cup broken = {} -> Shorten(found, q.max_line_length)
         [] panics \cup broken # {} ->
                IF Min(panics \cup broken) \in broken THEN Failed ELSE NoAnswer

RustGrep(f, q) ==
    CASE q.rust_rg = "rows" ->
             [k \in DOMAIN RgRows(f, q) |->
                 [RgRows(f, q)[k] EXCEPT
                     !.text = take_chars(from_utf8_lossy(WithoutReturn(@)), q.max_line_length)]]
      [] q.rust_rg = "missing" -> grep_file_builtin(f, q)
      [] q.rust_rg = "fails"   -> Failed

-----------------------------------------------------------------------------
(* The requests.                                                           *)

Init ==
    /\ \E host \in Hosts : root = host[1] /\ file = host[2]
    /\ request = NoRequest
    /\ cpp = <<>> /\ rust = <<>>

Ask(q) ==
    /\ request = NoRequest
    /\ request' = q
    /\ UNCHANGED <<root, file>>

list_dir(q) ==
    /\ Ask(q)
    /\ cpp' = List(normalize_under_root(q))
    /\ rust' = List(resolve_path(q))

NoSuchFile(q) ==
    /\ file = Absent
    /\ Ask(q)
    /\ cpp' = Failed /\ rust' = Failed

read_file(q) ==
    /\ file # Absent
    /\ Ask(q)
    /\ cpp' = CppRead(file, q)
    /\ rust' = RustRead(file, q)

tail_file(q) ==
    /\ file # Absent
    /\ Ask(q)
    /\ cpp' \in CppTails(file, q)
    /\ rust' = RustTail(file, q)

grep_file(q) ==
    /\ file # Absent
    /\ Ask(q)
    /\ IF q.needle = <<>>
       THEN cpp' = Failed /\ rust' = Failed
       ELSE cpp' = CppGrep(file, q) /\ rust' = RustGrep(file, q)

Answered ==
    /\ request # NoRequest
    /\ request' = NoRequest
    /\ cpp' = <<>> /\ rust' = <<>>
    /\ UNCHANGED <<root, file>>

Next ==
    \/ \E q \in ListRequest : list_dir(q)
    \/ \E q \in Requests \ ListRequest : NoSuchFile(q)
    \/ \E q \in ReadRequest : read_file(q)
    \/ \E q \in TailRequest : tail_file(q)
    \/ \E q \in GrepRequest : grep_file(q)
    \/ Answered

Spec == Init /\ [][Next]_vars

-----------------------------------------------------------------------------
(* Properties.                                                             *)

Asked(op) == request # NoRequest /\ request.op = op /\ file # Absent
Positive  == \A field \in DOMAIN request \cap {"lines", "max_bytes", "max_matches",
                                               "max_line_length"} : request[field] > 0
Plain(f)  == \A i \in DOMAIN f : f[i] \in {"a", "n"}

(* A client that asks for at least one line gets the last lines of the     *)
(* file and, when they are more than max_bytes, the first of their bytes:  *)
(* what the ring holds at the end is a suffix of the file's lines.         *)
TailShowsLastLines ==
    Asked("tail") /\ request.lines > 0 =>
        LET ls == getline(file)
            from == Max({1, Len(ls) - request.lines + 1})
        IN cpp = AtMost(request.max_bytes, Unlines(SubSeq(ls, from, Len(ls))))

(* grep_file never shows what is not there: each row of the C++ reply is   *)
(* a matching line or a beginning of it, no match before the last row is   *)
(* left out, and there are at most max_matches rows, however rg's output   *)
(* was cut (with max_matches = 0 the built-in scanner may show one).       *)
GrepShowsMatches ==
    Asked("grep") /\ cpp # Failed =>
        LET all == Rows(getline(file), request.needle)
        IN /\ Len(cpp) <= Len(all)
           /\ Len(cpp) <= ScanLimit(request)
           /\ \A k \in DOMAIN cpp : /\ cpp[k].number = all[k].number
                                    /\ IsPrefix(cpp[k].text, all[k].text)
                                    /\ Len(cpp[k].text) <= request.max_line_length

(* The fallback shows what rg would: if the lines that match are no longer *)
(* than max_line_length, and the byte limit on rg's output does not wrap   *)
(* around, it cuts nothing off, and the reply of the C++ server is the     *)
(* same with rg and without.                                               *)
FallbackAgrees ==
    Asked("grep") /\ Positive /\ request.needle # <<>> /\ ~Wraps(request) =>
        LET all == Rows(getline(file), request.needle)
        IN (\A k \in DOMAIN all : Len(all[k].text) <= request.max_line_length)
               => CppGrep(file, [request EXCEPT !.cpp_rg = "rows"])
                      = CppGrep(file, [request EXCEPT !.cpp_rg = "missing"])

(* The two servers answer alike: for files of plain characters and limits  *)
(* that are not zero, all replies are the same but for these.  The Rust    *)
(* server refuses a path from "/" or one that leaves the root on its way,  *)
(* and the C++ server with the root "/" refuses all below it.  The tail of *)
(* a file whose last line is empty, asked for alone, is a newline in C++   *)
(* and nothing in Rust.  rg may fail one server, C++'s by its timeout, and *)
(* not the other; and its output may be cut in C++, if a line is longer    *)
(* than max_line_length or the limits are so large that the bound on the   *)
(* output wraps around.                                                    *)
ServersAgree ==
    request # NoRequest /\ Positive /\ (file # Absent => Plain(file)) =>
        \/ cpp = rust
        \/ /\ request.op = "list"
           /\ \/ rust = Failed /\ (request.absolute \/ LeavesRoot(request.path))
              \/ cpp = Failed /\ root = <<>>
        \/ request.op = "tail" /\ cpp = <<"n">> /\ rust = <<>>
        \/ /\ request.op = "grep"
           /\ \/ (request.cpp_rg = "fails") # (request.rust_rg = "fails")
              \/ request.cpp_rg = "rows" /\ Wraps(request)
              \/ /\ request.cpp_rg = "rows"
                 /\ \E k \in DOMAIN getline(file) :
                        Len(getline(file)[k]) > request.max_line_length

=============================================================================
