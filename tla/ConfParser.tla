---------------------------- MODULE ConfParser ----------------------------
(***************************************************************************)
(* The configuration parser (lib/parser.c): how lines are read from a file *)
(* and the files it includes, with conditions, definitions of one or       *)
(* several lines and sequences, how the first process to read them writes  *)
(* a copy for the others, and how blocks of keywords are handled.          *)
(*                                                                         *)
(* A line is a sequence of words.  The words that mean something to the    *)
(* parser are those of the tables below; "#" starts a comment, "\\" at the *)
(* end of a line continues a definition, and a brace is a word of its own. *)
(* Quotes and escapes are left out.                                        *)
(***************************************************************************)
EXTENDS Integers, Sequences, FiniteSets, TLC

CONSTANTS
  Cases,     \* configurations: a sequence of sets
  CondOf,    \* conditions: whether the line is one of this configuration id
  RefOf,     \* references: the name
  DefOf,     \* definitions: the name
  SequenceOf,     \* ~SEQ: the variable and the words for the numbers
  LstOf,     \* ~LST: the variables and their values
  FilesOf,   \* includes: the files that match, in order
  DirOf,     \* the directory of a file
  Keywords   \* the keywords and their handlers

VARIABLE s

Last(q) == q[Len(q)]
Front(q) == SubSeq(q, 1, Len(q) - 1)
Ends(buf, w) == buf # <<>> /\ Last(buf) = w

RECURSIVE FirstOf(_, _, _)
FirstOf(buf, words, i) == IF i > Len(buf) THEN 0 ELSE IF buf[i] \in words THEN i ELSE FirstOf(buf, words, i + 1)

\* decomment()
decomment(buf) == LET i == FirstOf(buf, {"#"}, 1) IN IF i = 0 THEN buf ELSE SubSeq(buf, 1, i - 1)

-----------------------------------------------------------------------------
(* Definitions.  A value is a sequence of lines.                           *)

Define(q, name, value, multi) == [q EXCEPT !.defs = (name :> [value |-> value, multi |-> multi]) @@ @]
\* A definition of several lines stays one, although its value is one line now.
set_definition(q, name, word) ==
    Define(q, name, <<IF word = "" THEN <<>> ELSE <<word>> >>, name \in DOMAIN q.defs /\ q.defs[name].multi)

\* check_definition(): the rest of the line, which may be the first of several.
check_definition(q, buf) ==
    LET rest == Tail(buf)
        more == Ends(rest, "\\")
        text == IF more THEN Front(rest) ELSE rest
    IN Define(q, DefOf[buf[1]], IF more /\ text = <<>> THEN <<>> ELSE <<text>>, more)

\* The last line of a definition: it is one of several if there were some before.
EndDefinition(q, name, text) ==
    [q EXCEPT !.defs[name].value = Append(@, text), !.defs[name].multi = q.defs[name].value # <<>>]

\* One more line of a definition; one that is blank is left out.
Collect(q, name, buf) ==
    IF ~Ends(buf, "\\") THEN [q |-> EndDefinition(q, name, buf), more |-> FALSE]
    ELSE [q |-> [q EXCEPT !.defs[name].value = IF Len(buf) = 1 THEN @ ELSE Append(@, Front(buf))], more |-> TRUE]

\* find_definition(): one of several lines only counts at the end of a line.
find_definition(q, buf, i) ==
    /\ buf[i] \in DOMAIN RefOf
    /\ \/ RefOf[buf[i]] = "_PWD"
       \/ RefOf[buf[i]] \in DOMAIN q.defs /\ (q.defs[RefOf[buf[i]]].multi => i = Len(buf))
ValueOf(q, name) == IF name = "_PWD" THEN [value |-> << <<q.cwd>> >>, multi |-> FALSE] ELSE q.defs[name]

multiline_stack_push(q) == [q EXCEPT !.stack = Append(@, [rest |-> q.rest, depth |-> q.depth])]
multiline_stack_pop(q) ==
    IF q.stack = <<>> THEN [q EXCEPT !.rest = <<>>, !.depth = 0]
    ELSE [q EXCEPT !.rest = Last(q.stack).rest, !.depth = Last(q.stack).depth, !.stack = Front(@)]

\* replace_param(): <<q, buf, found>>; what has been put in is looked at again.
Replaced(buf, i, words) == SubSeq(buf, 1, i - 1) \o words \o SubSeq(buf, i + 1, Len(buf))
RECURSIVE replace_param(_, _, _, _)
replace_param(q, buf, i, found) ==
    IF i > Len(buf) THEN <<q, buf, found>>
    ELSE IF ~find_definition(q, buf, i) THEN replace_param(q, buf, i + 1, found)
    ELSE LET d == ValueOf(q, RefOf[buf[i]])
             pushed == IF q.rest # <<>> THEN multiline_stack_push(q) ELSE q
             r == IF d.multi THEN [pushed EXCEPT !.rest = Tail(d.value), !.depth = Len(q.seqs)] ELSE q
             b == Replaced(buf, i, d.value[1])
         IN IF d.value[1] # <<>> /\ d.value[1][1] \in DOMAIN SequenceOf \cup DOMAIN LstOf THEN <<r, b, TRUE>>
            ELSE replace_param(r, b, i, TRUE)

-----------------------------------------------------------------------------
(* Sequences: the last one of the list is the one that runs.               *)

\* The numbers of ~SEQ(var, ...): <<start, step, end>>, or none if they make no sense.
SeqRange(a) ==
    CASE Len(a) = 1 -> <<IF a[1] < 0 THEN -1 ELSE 1, IF a[1] < 1 THEN -1 ELSE 1, a[1]>>
      [] Len(a) = 2 -> <<a[1], IF a[1] <= a[2] THEN 1 ELSE -1, a[2]>>
      [] OTHER -> IF a[2] = 0 \/ (a[1] < a[3] /\ a[2] < 0) \/ (a[1] > a[3] /\ a[2] > 0) THEN <<>> ELSE a

SeqDone(next, step, last) == IF step > 0 THEN next > last ELSE next < last

\* The numbers may be definitions of one line; one that is missing is 0.
Numbers == -9 .. 9
SeqArg(q, word) == Front(replace_param(q, <<word, ")">>, 1, FALSE)[2])
SeqNumber(words) == IF words = <<>> THEN {0} ELSE {n \in Numbers : words = <<ToString(n)>>}
SeqValues(numbers) ==
    IF {} \in {numbers[i] : i \in DOMAIN numbers} THEN <<>>
    ELSE SeqRange([i \in DOMAIN numbers |-> CHOOSE n \in numbers[i] : TRUE])
add_seq(q, buf) ==
    LET t == SequenceOf[buf[1]]
        numbers == [i \in DOMAIN t.args |-> SeqNumber(SeqArg(q, t.args[i]))]
        r == SeqValues(numbers)
    IN IF r = <<>> THEN [q EXCEPT !.errors = @ \cup {"seq"}]
       ELSE [q EXCEPT !.seqs = Append(@, [var |-> t.var, next |-> r[1], step |-> r[2], last |-> r[3],
                                          sets |-> <<>>, text |-> Tail(buf)])]

\* add_lst(): values that are missing are blank, and there may not be too many.
add_lst(q, buf) ==
    LET t == LstOf[buf[1]]
        n == Len(t.params)
        full(v) == [i \in 1 .. n |-> IF i <= Len(v) THEN v[i] ELSE ""]
    IN IF \E i \in 1 .. Len(t.sets) : Len(t.sets[i]) > n THEN [q EXCEPT !.errors = @ \cup {"lst"}]
       ELSE [q EXCEPT !.seqs = Append(@, [var |-> t.params, next |-> 0, step |-> 0, last |-> 0,
                                          sets |-> [i \in 1 .. Len(t.sets) |-> full(t.sets[i])], text |-> Tail(buf)])]

free_seq(q) == [q EXCEPT !.seqs = Front(@)]
RECURSIVE DefineAll(_, _, _)
DefineAll(q, names, words) ==
    IF names = <<>> THEN q ELSE DefineAll(set_definition(q, names[1], words[1]), Tail(names), Tail(words))

\* The next turn of the sequence that runs.
NextSeq(q) ==
    LET t == Last(q.seqs)
        n == Len(q.seqs)
        next == t.next + t.step
        set == set_definition(q, t.var, ToString(t.next))
    IN IF SeqDone(next, t.step, t.last) THEN free_seq(set) ELSE [set EXCEPT !.seqs[n].next = next]
NextLst(q) ==
    LET t == Last(q.seqs)
        n == Len(q.seqs)
        set == DefineAll(q, t.var, t.sets[1])
    IN IF Len(t.sets) = 1 THEN free_seq(set) ELSE [set EXCEPT !.seqs[n].sets = Tail(@)]

-----------------------------------------------------------------------------
(* Files.  The first entry of files is the one that is read.               *)

Write(q, line) == IF q.writing THEN [q EXCEPT !.copy = Append(@, line)] ELSE q
is_include(buf) == buf # <<>> /\ buf[1] \in DOMAIN FilesOf

\* open_conf_file(): the next of the files that match, if it can be read.
RECURSIVE open_conf_file(_, _)
open_conf_file(q, names) ==
    IF names = <<>> THEN <<FALSE, q>>
    ELSE IF names[1] \notin DOMAIN q.text THEN open_conf_file([q EXCEPT !.errors = @ \cup {"file"}], Tail(names))
    ELSE LET w == Write(q, <<"#file", names[1]>>)
         IN <<TRUE, [w EXCEPT !.files = <<[lines |-> q.text[names[1]], more |-> Tail(names), cwd |-> q.cwd]>> \o @,
                              !.cwd = DirOf[names[1]]]>>

\* get_next_file() with end_file() and end_glob().
get_next_file(q) ==
    LET f == Head(q.files)
        closed == Write([q EXCEPT !.files = Tail(@), !.cwd = f.cwd], <<"!">>)
    IN open_conf_file(closed, f.more)[2]

\* In the copy a line says where a file begins and ends.
BeginCopied(q, name) == [q EXCEPT !.files = <<[Head(@) EXCEPT !.cwd = q.cwd]>> \o @, !.cwd = DirOf[name]]
EndCopied(q) == [q EXCEPT !.files = <<[Head(Tail(@)) EXCEPT !.lines = Head(q.files).lines]>> \o Tail(Tail(@)),
                          !.cwd = Head(q.files).cwd]

\* The next line of the files that is not blank: [q, buf, def], where def is the
\* definition that goes on, if any; no line is left if buf is blank.
RECURSIVE ReadFile(_, _)
ReadFile(q, def) ==
    IF q.files = <<>> THEN [q |-> q, buf |-> <<>>, def |-> def]
    ELSE LET f == Head(q.files)
             raw == Head(f.lines)
             r == [q EXCEPT !.files[1].lines = Tail(@)]
             buf == decomment(raw)
         IN IF f.lines = <<>> THEN ReadFile(get_next_file(q), def)
            ELSE IF ~q.writing /\ raw # <<>> /\ raw[1] = "#file" THEN ReadFile(BeginCopied(r, raw[2]), def)
            ELSE IF ~q.writing /\ raw = <<"!">> THEN ReadFile(EndCopied(r), def)
            ELSE IF raw = <<>> THEN ReadFile(Write(IF def = "" THEN r ELSE EndDefinition(r, def, <<>>), <<>>), "")
            ELSE LET w == Write(r, IF is_include(buf) THEN <<>> ELSE buf)
                 IN IF buf = <<>> THEN ReadFile(w, def) ELSE [q |-> w, buf |-> buf, def |-> def]

-----------------------------------------------------------------------------
(* read_line()                                                             *)

\* Where the next line comes from: the rest of the last one, a sequence, a definition
\* of several lines, or a file.
Residue(q) == [q |-> [q EXCEPT !.residue = <<>>], buf |-> q.residue]
FromSeq(q) == [q |-> IF Last(q.seqs).sets = <<>> THEN NextSeq(q) ELSE NextLst(q), buf |-> Last(q.seqs).text]
FromDefinition(q) ==
    [q |-> IF Len(q.rest) = 1 THEN multiline_stack_pop(q) ELSE [q EXCEPT !.rest = Tail(@)], buf |-> q.rest[1]]
\* Mutant: a sequence goes on before the definition it is used in has ended.
SeqRuns_always(q) == q.seqs # <<>>
SeqRuns(q) == Len(q.seqs) > q.depth

\* A line that starts with a condition: what is left of it.
Conditional(buf) ==
    IF buf = <<>> \/ buf[1] \notin DOMAIN CondOf THEN buf
    ELSE IF CondOf[buf[1]] THEN Tail(buf) ELSE <<>>

\* What becomes of a line: [q, buf, def].  After a substitution the line is not looked
\* at again for a condition or a sequence.
Handle(q, line) ==
    LET buf == Conditional(line)
        d == check_definition(q, buf)
        t == replace_param(q, buf, 1, FALSE)
    IN IF buf = <<>> THEN [q |-> q, buf |-> buf, def |-> ""]
       ELSE IF buf[1] \in DOMAIN DefOf
       THEN [q |-> d, buf |-> <<>>, def |-> IF d.defs[DefOf[buf[1]]].multi THEN DefOf[buf[1]] ELSE ""]
       ELSE IF buf[1] \in DOMAIN SequenceOf THEN [q |-> add_seq(q, buf), buf |-> <<>>, def |-> ""]
       ELSE IF buf[1] \in DOMAIN LstOf THEN [q |-> add_lst(q, buf), buf |-> <<>>, def |-> ""]
       ELSE [q |-> t[1], buf |-> IF t[3] THEN decomment(t[2]) ELSE t[2], def |-> ""]

\* A brace is a line of its own; the rest of the line is kept for the next call.
Braces == {"{", "}"}
Split(q, buf) ==
    LET i == FirstOf(buf, Braces, 1)
        at == IF i = 1 THEN 1 ELSE i - 1
        line == IF i = 0 THEN buf ELSE SubSeq(buf, 1, at)
        rest == IF i = 0 THEN <<>> ELSE SubSeq(buf, at + 1, Len(buf))
        extra == line = <<"}">> /\ q.block_depth < 1
    IN [[q EXCEPT !.residue = rest, !.errors = IF extra THEN @ \cup {"extra }"} ELSE @]
          EXCEPT !.block_depth = IF line = <<"{">> THEN @ + 1
                                 ELSE IF line = <<"}">> THEN (IF extra THEN 0 ELSE @ - 1) ELSE @,
                 !.lines = Append(@, line)]

\* One turn of the loop of read_line(): [q, def, end], where def is the definition that
\* goes on, if any.  What is to be returned is appended to q.lines.
Turn(q, def) == [q |-> q, def |-> def, end |-> FALSE]
Onwards(h) ==
    IF h.buf = <<>> THEN Turn(h.q, h.def)
    ELSE IF is_include(h.buf) THEN Turn(open_conf_file(h.q, FilesOf[h.buf[1]])[2], "")
    ELSE Turn(Split(h.q, h.buf), "")
Inner(f, def) ==
    IF def # "" THEN LET c == Collect(f.q, def, f.buf) IN Turn(c.q, IF c.more THEN def ELSE "")
    ELSE IF f.buf = <<>> THEN Turn(f.q, "") ELSE Onwards(Handle(f.q, f.buf))
GotLine(n) == IF n.buf = <<>> THEN [Turn(n.q, "") EXCEPT !.end = TRUE] ELSE Inner(n, n.def)
read_line(t) ==
    CASE t.end -> t
      [] ~t.end /\ t.q.residue # <<>> -> Inner(Residue(t.q), t.def)
      [] ~t.end /\ t.q.residue = <<>> /\ SeqRuns(t.q) -> Inner(FromSeq(t.q), t.def)
      [] ~t.end /\ t.q.residue = <<>> /\ ~SeqRuns(t.q) ->
            IF t.q.rest # <<>> THEN Inner(FromDefinition(t.q), t.def) ELSE GotLine(ReadFile(t.q, t.def))

\* So many turns, two by two: 2^n of them are enough to read every text.
RECURSIVE Repeat(_, _)
Repeat(n, t) == IF t.end THEN t ELSE IF n = 0 THEN read_line(t) ELSE Repeat(n - 1, Repeat(n - 1, t))
MaxTurns == 8
ReadAll(q) ==
    LET t == Repeat(MaxTurns, Turn(q, ""))
    IN IF t.end THEN t.q ELSE [t.q EXCEPT !.errors = @ \cup {"turns"}]

-----------------------------------------------------------------------------
(* process_stream(): the keywords.  A handler may read a block of values   *)
(* itself, or reject its block.                                            *)

Call(q, what) == [q EXCEPT !.calls = Append(@, what)]
Error(q, what) == [q EXCEPT !.errors = @ \cup {what}]

\* alloc_value_block(): the lines up to the brace that ends the block.
RECURSIVE alloc_value_block(_, _)
alloc_value_block(q, need_bob) ==
    IF q.lines = <<>> THEN q
    ELSE LET line == Head(q.lines)
             r == [q EXCEPT !.lines = Tail(@)]
         IN IF need_bob /\ line = <<"{">> THEN alloc_value_block(r, FALSE)
            ELSE IF line = <<"}">> THEN r
            ELSE alloc_value_block(Call(r, <<"value">> \o line), FALSE)

\* The handler of a keyword that is not ours is only told that there is one.
Handler(q, k, line) ==
    IF ~k.active THEN [Call(q, <<"null", line[1]>>) EXCEPT !.skip = -1]
    ELSE LET c == Call(q, line)
         IN IF k.values THEN alloc_value_block(c, TRUE)
            ELSE IF "bad" \in {line[i] : i \in 2 .. Len(line)} THEN [c EXCEPT !.skip = -1]   \* skip_block()
            ELSE c

\* A line of a block that is skipped: <<q, whether it ends the level>>.
Skipped(q, line, level) ==
    LET n == IF line[1] = "{" THEN q.skip + 1 ELSE IF line[1] = "}" THEN q.skip - 1 ELSE q.skip
    IN <<[q EXCEPT !.skip = n], line[1] = "}" /\ n = 0 /\ level > 0>>

RECURSIVE process_stream(_, _, _, _)
\* The block of a keyword; what closes it is not called if it has been skipped.
Block(q, k, kw, level) ==
    LET b == process_stream(q, k.sub, TRUE, level + 1)
    IN IF b.skipped \/ ~k.active THEN b.q ELSE Call(b.q, <<"end", kw>>)
Keyword(q, keywords, line, level) ==
    IF line[1] \notin DOMAIN keywords THEN Error(q, "unknown keyword")
    ELSE LET k == keywords[line[1]]
             h == Handler(q, k, line)
         IN IF DOMAIN k.sub = {} THEN h ELSE Block(h, k, line[1], level)
Statement(q, keywords, line, need_bob, level) ==
    IF line[1] = "{"
    THEN process_stream(IF need_bob /\ level > 0 THEN q ELSE Error(q, "{"), keywords, FALSE, level)
    ELSE LET e == IF need_bob THEN Error(q, "no {") ELSE q
         IN IF line[1] = "}" /\ level > 0 THEN [q |-> e, skipped |-> FALSE]
            ELSE process_stream(Keyword(e, keywords, line, level), keywords, FALSE, level)
process_stream(q, keywords, need_bob, level) ==
    IF q.lines = <<>> THEN [q |-> q, skipped |-> FALSE]
    ELSE LET line == Head(q.lines)
             r == [q EXCEPT !.lines = Tail(@)]
             k == Skipped(r, line, level)
         IN IF q.skip = -1 /\ line[1] = "{" THEN process_stream([r EXCEPT !.skip = 1], keywords, FALSE, level)
            ELSE IF q.skip < 1 THEN Statement([r EXCEPT !.skip = 0], keywords, line, need_bob, level)
            ELSE IF k[2] THEN [q |-> k[1], skipped |-> TRUE]
            ELSE process_stream(k[1], keywords, need_bob, level)

-----------------------------------------------------------------------------
(* init_data(): the first process reads the files and writes the copy,     *)
(* another one reads the copy.                                             *)

Start(text, copy, writing) ==
    [text |-> text, copy |-> copy, writing |-> writing, files |-> <<>>, cwd |-> "start", defs |-> "_HASH" :> [value |-> << <<"#">> >>, multi |-> FALSE],
     seqs |-> <<>>, depth |-> 0, rest |-> <<>>, stack |-> <<>>, residue |-> <<>>, block_depth |-> 0,
     lines |-> <<>>, calls |-> <<>>, skip |-> 0, errors |-> {}]

\* What a process has made of the configuration.
Result(q) ==
    LET p == process_stream(q, Keywords, FALSE, 0).q
    IN [lines |-> q.lines, calls |-> p.calls, copy |-> q.copy, cwd |-> q.cwd,
        errors |-> p.errors \cup (IF q.block_depth > 0 THEN {"missing }"} ELSE {})]
Writer(c) == ReadAll(open_conf_file(Start(c.text, <<>>, TRUE), <<"main">>)[2])
Reader(c, copy) ==
    LET q == Start(c.text, copy, FALSE)
    IN ReadAll([q EXCEPT !.files = <<[lines |-> copy, more |-> <<>>, cwd |-> q.cwd]>>])

Init == \E i \in 1 .. Len(Cases) : \E c \in Cases[i] : s = [at |-> "start", case |-> c]

init_data_copy == s.at = "start" /\ s' = [at |-> "read", case |-> s.case, first |-> Result(Writer(s.case))]
init_data ==
    /\ s.at = "read"
    /\ s' = [at |-> "both", case |-> s.case, first |-> s.first, second |-> Result(Reader(s.case, s.first.copy))]

Next == init_data_copy \/ init_data

-----------------------------------------------------------------------------
(* What the manual says: a list of lines that are still to be read, in     *)
(* which an include, a definition and a sequence are replaced by what they *)
(* stand for.                                                              *)

RECURSIVE Flat(_, _, _)
Flat(text, lines, dir) ==
    IF lines = <<>> THEN <<>>
    ELSE IF is_include(decomment(lines[1]))
    THEN LET names == SelectSeq(FilesOf[lines[1][1]], LAMBDA f : f \in DOMAIN text)
             all[i \in 0 .. Len(names)] ==
               IF i = 0 THEN <<>> ELSE all[i - 1] \o Flat(text, text[names[i]], DirOf[names[i]])
         IN all[Len(names)] \o Flat(text, Tail(lines), dir)
    ELSE <<[buf |-> lines[1], dir |-> dir]>> \o Flat(text, Tail(lines), dir)

Items(lines, dir) == [i \in 1 .. Len(lines) |-> [buf |-> lines[i], dir |-> dir]]
RECURSIVE Count(_, _, _)
Count(from, step, last) == IF SeqDone(from, step, last) THEN <<>> ELSE <<from>> \o Count(from + step, step, last)
\* The lines that follow of a definition of several lines.
RECURSIVE Gather(_)
Gather(todo) ==
    IF todo = <<>> THEN [value |-> <<>>, todo |-> <<>>]
    ELSE LET buf == decomment(todo[1].buf)
             g == Gather(Tail(todo))
         IN IF ~Ends(buf, "\\") THEN [value |-> <<buf>>, todo |-> Tail(todo)]
            ELSE [value |-> (IF Len(buf) = 1 THEN <<>> ELSE <<Front(buf)>>) \o g.value, todo |-> g.todo]

\* Words with the definitions of one line put in.
RECURSIVE Spelt(_, _)
Spelt(env, words) ==
    IF words = <<>> THEN <<>>
    ELSE LET w == words[1]
         IN IF w \in DOMAIN RefOf /\ RefOf[w] \in DOMAIN env /\ Len(env[RefOf[w]]) = 1
            THEN Spelt(env, env[RefOf[w]][1] \o Tail(words)) ELSE <<w>> \o Spelt(env, Tail(words))

\* The values a sequence or list runs through, each as a set of definitions.
Turns(env, word) ==
    IF word \in DOMAIN SequenceOf
    THEN LET t == SequenceOf[word]
             numbers == [i \in DOMAIN t.args |-> SeqNumber(Spelt(env, <<t.args[i]>>))]
             r == SeqValues(numbers)
             n == IF r = <<>> THEN <<>> ELSE Count(r[1], r[2], r[3])
         IN [i \in 1 .. Len(n) |-> (t.var :> << <<ToString(n[i])>> >>)]
    ELSE LET t == LstOf[word]
         IN [i \in 1 .. Len(t.sets) |->
              [x \in {t.params[j] : j \in 1 .. Len(t.params)} |->
                LET j == CHOOSE j \in 1 .. Len(t.params) : t.params[j] = x
                IN IF j <= Len(t.sets[i]) THEN << <<t.sets[i][j]>> >> ELSE << <<>> >>]]

\* What is to be done for the first line of m.todo, under the definitions m.env.
Defined(m, buf, dir, rest) ==
    LET g == Gather(<<[buf |-> Tail(buf), dir |-> dir]>> \o rest)
    IN IF Ends(buf, "\\") THEN [m EXCEPT !.todo = g.todo, !.env = (DefOf[buf[1]] :> g.value) @@ @]
       ELSE [m EXCEPT !.todo = rest, !.env = (DefOf[buf[1]] :> <<Tail(buf)>>) @@ @]
Repeated(m, buf, dir, rest) ==
    LET turns == Turns(m.env, buf[1])
        line == [buf |-> Tail(buf), dir |-> dir]
        all[i \in 0 .. Len(turns)] == IF i = 0 THEN <<>> ELSE all[i - 1] \o <<[set |-> turns[i]], line>>
    IN [m EXCEPT !.todo = all[Len(turns)] \o rest]
Substituted(m, buf, i, dir, rest) ==
    LET value == IF RefOf[buf[i]] = "_PWD" THEN << <<dir>> >> ELSE m.env[RefOf[buf[i]]]
    IN [m EXCEPT !.todo = Items(<<Replaced(buf, i, value[1])>> \o Tail(value), dir) \o rest]
Divided(m, buf, dir, rest) ==
    LET i == FirstOf(buf, Braces, 1)
        at == IF i = 1 THEN 1 ELSE i - 1
    IN IF i = 0 THEN [m EXCEPT !.todo = rest, !.out = Append(@, buf)]
       ELSE [m EXCEPT !.todo = <<[buf |-> SubSeq(buf, at + 1, Len(buf)), dir |-> dir]>> \o rest,
                      !.out = Append(@, SubSeq(buf, 1, at))]
Line(m, buf, dir, rest) ==
    LET used == {i \in 1 .. Len(buf) :
                  /\ buf[i] \in DOMAIN RefOf
                  /\ \/ RefOf[buf[i]] = "_PWD"
                     \/ RefOf[buf[i]] \in DOMAIN m.env /\ (Len(m.env[RefOf[buf[i]]]) = 1 \/ i = Len(buf))}
    IN IF buf = <<>> THEN [m EXCEPT !.todo = rest]
       ELSE IF buf[1] \in DOMAIN DefOf THEN Defined(m, buf, dir, rest)
       ELSE IF buf[1] \in DOMAIN SequenceOf \cup DOMAIN LstOf THEN Repeated(m, buf, dir, rest)
       ELSE IF used # {} THEN Substituted(m, buf, CHOOSE i \in used : \A j \in used : i <= j, dir, rest)
       ELSE Divided(m, buf, dir, rest)
First(m) ==
    IF "set" \in DOMAIN m.todo[1] THEN [m EXCEPT !.todo = Tail(@), !.env = m.todo[1].set @@ @]
    ELSE Line(m, Conditional(decomment(m.todo[1].buf)), m.todo[1].dir, Tail(m.todo))
RECURSIVE Meaning(_, _)
Meaning(n, m) ==
    IF m.todo = <<>> THEN m ELSE IF n = 0 THEN First(m) ELSE Meaning(n - 1, Meaning(n - 1, m))
Stands(text) == Meaning(MaxTurns, [todo |-> Flat(text, text["main"], DirOf["main"]), env |-> <<>>, out |-> <<>>])

\* What the handlers are to be told of nested blocks.
RECURSIVE Expected(_, _)
Expected(tree, keywords) ==
    IF tree = <<>> THEN <<>>
    ELSE LET t == tree[1]
             k == keywords[t.line[1]]
             values == [i \in 1 .. Len(t.body) |-> <<"value">> \o t.body[i].line]
             inner == IF k.values THEN values
                      ELSE IF DOMAIN k.sub = {} \/ "bad" \in {t.line[i] : i \in 2 .. Len(t.line)} THEN <<>>
                      ELSE Expected(t.body, k.sub) \o << <<"end", t.line[1]>> >>
         IN (IF k.active THEN <<t.line>> \o inner ELSE << <<"null", t.line[1]>> >>) \o Expected(Tail(tree), keywords)

\* All processes read the same configuration: the one that reads the copy gets the same
\* lines, in the same directories, and calls the same handlers as the one that wrote it.
ReadAlike ==
    s.at = "both" =>
      /\ s.second.lines = s.first.lines
      /\ s.second.calls = s.first.calls
      /\ s.second.errors = s.first.errors \ {"file"}
      /\ s.first.cwd = "start" /\ s.second.cwd = "start" /\ "turns" \notin s.first.errors

\* Conditions, definitions, sequences and includes, however they are nested, give the
\* lines that the manual says they stand for (Meaning), although they are read with a
\* list of sequences, a stack of definitions and a stack of files; and the handlers of
\* the keywords are called once for each statement of the blocks of this process, in
\* order, however the blocks are laid out and whatever is in the blocks that are skipped;
\* and all processes read alike.
ReadAsWritten ==
    /\ ReadAlike
    /\ s.at = "read" =>
      /\ LET m == Stands(s.case.text) IN m.todo = <<>> /\ s.first.lines = m.out
      /\ s.case.tree # <<>> => s.first.calls = Expected(s.case.tree, Keywords) /\ s.first.errors = {}

=============================================================================
