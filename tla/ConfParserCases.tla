-------------------------- MODULE ConfParserCases --------------------------
(***************************************************************************)
(* Configurations to read with ConfParser: its tables, texts in which      *)
(* definitions, sequences, conditions and includes are combined, and       *)
(* nested blocks in several layouts.                                       *)
(***************************************************************************)
EXTENDS Integers, Sequences, TLC

Conds == ("@main" :> TRUE) @@ ("@other" :> FALSE) @@ ("@^main" :> FALSE) @@ ("@^other" :> TRUE)
Refs == ("$A" :> "A") @@ ("$M" :> "M") @@ ("$N" :> "N") @@ ("$X" :> "X") @@ ("$Y" :> "Y") @@ ("${_PWD}" :> "_PWD")
Defs == ("$A=" :> "A") @@ ("$M=" :> "M") @@ ("$N=" :> "N")
Seqs == ("~SEQ(X,2)" :> [var |-> "X", args |-> <<"2">>]) @@ ("~SEQ(Y,2,0)" :> [var |-> "Y", args |-> <<"2", "0">>])
        @@ ("~SEQ(Y,0,2,3)" :> [var |-> "Y", args |-> <<"0", "2", "3">>])
        @@ ("~SEQ(X,1,-1,2)" :> [var |-> "X", args |-> <<"1", "-1", "2">>])
        @@ ("~SEQ(X,0,$A)" :> [var |-> "X", args |-> <<"0", "$A">>])
Lsts == ("~LST({X,Y},{a},{b,c})" :> [params |-> <<"X", "Y">>, sets |-> << <<"a">>, <<"b", "c">> >>])
Files == ("include b" :> <<"b">>) @@ ("include *" :> <<"none", "b", "c">>)
Dirs == ("main" :> "etc") @@ ("b" :> "etc/b") @@ ("c" :> "etc")

Kw(active, sub, values) == [active |-> active, sub |-> sub, values |-> values]
Leaf == Kw(TRUE, <<>>, FALSE)
Values == Kw(TRUE, <<>>, TRUE)
R == Kw(TRUE, "x" :> Leaf, FALSE)
Sub == ("x" :> Leaf) @@ ("v" :> Values) @@ ("r" :> R)
Keys == ("g" :> Kw(TRUE, Sub, FALSE)) @@ ("other" :> Kw(FALSE, Sub, FALSE)) @@ ("off" :> Kw(FALSE, <<>>, FALSE))
        @@ ("v" :> Values) @@ ("x" :> Leaf)

-----------------------------------------------------------------------------
Text(main) ==
    [text |-> ("main" :> main) @@ ("b" :> << <<"$A=", "fromb">>, <<"x", "${_PWD}">>, <<"$M">> >>)
              @@ ("c" :> << <<"x", "$A", "#", "c">>, <<>> >>),
     tree |-> <<>>]
Lines == {
  <<"x", "$A">>, <<"$A=", "1">>, <<"$A=", "$X", "#", "c">>, <<"@main", "x", "$X", "$Y">>,
  <<"~SEQ(X,2)", "x", "$X", "{">>, <<"~SEQ(X,2)", "~SEQ(Y,2,0)", "x", "$X", "$Y">>, <<"~SEQ(X,2)", "$M">>, <<"~SEQ(X,0,$A)", "x", "$X">>,
  <<"$M">>, <<"x", "$M">>, <<"$N", "x">>, <<"~LST({X,Y},{a},{b,c})", "$M">>, <<"include b">>, <<"include *">>,
  <<"x", "{", "$N", "}">>, <<"$N">> }
Others == {<<"@other", "x">>, <<"@^main", "$A=", "2">>, <<"}">>, <<"#", "c">>, <<"~SEQ(X,1,-1,2)", "x">>, <<"g", "${_PWD}">>}
\* Values of $M and $N: one line or several, with sequences and each other in them.
Ms == { << <<"$M=", "\\">>, <<"x", "$X", "\\">>, <<"y", "$Y">> >>,
        << <<"$M=", "x", "\\">>, <<"~SEQ(Y,0,2,3)", "z", "$X", "$Y", "\\">>, <<"\\">>, <<"w">> >>,
        << <<"$M=", "x", "{", "\\">>, <<>> >>,
        << <<"@main", "$M=", "x", "$N", "\\">>, <<"$A=", "3", "\\">>, <<"x", "$A", "\\">>, <<"~SEQ(Y,2,0)", "$N">> >>,
        << <<"$M=", "one">> >> }
Ns == { << <<"$N=", "n">> >>, <<>>,
        << <<"$N=", "n1", "$X", "\\">>, <<"n2", "$Y", "\\">>, <<"~SEQ(X,2)", "n3", "$X">> >> }
Texts == << { Text(m \o n \o <<a, b>>) : m \in Ms, n \in Ns, a \in Lines, b \in Lines \cup Others },
            { Text(<<a>> \o m \o <<b>> \o n \o <<c>>) : m \in Ms, n \in Ns, a \in Others, b \in Lines, c \in {<<"$M">>, <<"include b">>} } >>

-----------------------------------------------------------------------------
Stmt(line, body) == [line |-> line, block |-> FALSE, body |-> body]
Blk(line, body) == [line |-> line, block |-> TRUE, body |-> body]
X == Stmt(<<"x", "1">>, <<>>)
Inner == {X, Blk(<<"v">>, <<Stmt(<<"a", "b">>, <<>>)>>), Blk(<<"v">>, <<>>), Blk(<<"r">>, <<X>>), Blk(<<"r", "bad">>, <<X, X>>)}
Bodies == {<<>>} \cup {<<a>> : a \in Inner} \cup {<<a, b>> : a, b \in Inner}
Outer == {Blk(k, b) : k \in {<<"g">>, <<"g", "bad">>, <<"other">>, <<"off">>}, b \in Bodies}
         \cup {Blk(<<"v">>, <<X>>), X}

RECURSIVE Words(_)
Words(body) ==
    IF body = <<>> THEN <<>>
    ELSE body[1].line \o (IF body[1].block THEN <<"{">> \o Words(body[1].body) \o <<"}">> ELSE <<>>) \o Words(Tail(body))
RECURSIVE Layout(_, _)
Layout(tree, style) ==
    IF tree = <<>> THEN <<>>
    ELSE LET t == tree[1]
             inner == Layout(t.body, style)
             lines == CASE ~t.block -> <<t.line>>
                        [] style = "one" /\ Len(t.body) <= 1 -> <<t.line \o <<"{">> \o Words(t.body) \o <<"}">> >>
                        [] style = "next" -> <<t.line, <<"{">> >> \o inner \o << <<"}">> >>
                        [] OTHER -> <<t.line \o <<"{">> >> \o inner \o << <<"}">> >>
         IN lines \o Layout(Tail(tree), style)
Trees == << { [text |-> "main" :> Layout(<<a, b>>, y), tree |-> <<a, b>>]
                : a \in Outer, b \in {X, Blk(<<"g">>, <<X>>), Blk(<<"off">>, <<>>)}, y \in {"same", "next", "one"} } >>
=============================================================================
