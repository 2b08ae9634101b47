------------------------------ MODULE MCParser ------------------------------
(***************************************************************************)
(* Instances of Parser for TLC: programs put together from every kind of   *)
(* statement, and each of them broken off, or with one token dropped or    *)
(* replaced.                                                               *)
(***************************************************************************)
EXTENDS ParserProps, SequencesExt

CONSTANT Wrong          \* bound: the tokens that replace another one

X    == <<"ident">>
Sum  == <<"ident", "plus", "int_lit">>
Less == <<"ident", "less", "int_lit">>
CallF == <<"ident", "open_paren", "int_lit", "comma", "ident", "close_paren">>
Exprs == {<<>>, <<"char_v">>, X, Sum, Less, CallF, Less \o <<"char_v">>}

InParens(e) == <<"open_paren">> \o e \o <<"close_paren">>
InBraces(b) == <<"open_braces">> \o b \o <<"close_braces">>

ReturnOf(e) == <<"return">> \o e \o <<"semi">>
ExitOf(e)   == <<"exit_kw">> \o InParens(e) \o <<"semi">>
Decl(t, e)  == <<t, "ident", "eq_kw">> \o e \o <<"semi">>
Set(e, end) == <<"ident", "eq_kw">> \o e \o <<end>>
CallOf(as)  == X \o InParens(as)

Leaves == {ReturnOf(e) : e \in Exprs} \cup {ExitOf(e) : e \in Exprs}
          \cup {Decl("int", e) : e \in Exprs} \cup {Set(e, "semi") : e \in Exprs}
          \cup {CallOf(as) \o end : as \in {<<>>, X, <<"int_lit", "comma">>}, end \in {<<>>, <<"semi">>}}

Bodies == {<<>>, Set(X, "semi") \o ReturnOf(<<>>), <<"if">> \o InParens(X) \o InBraces(ExitOf(X))}
Heads  == {<<"if">> \o InParens(Less), <<"else">>, <<"while">> \o InParens(X),
           <<"void">> \o X \o InParens(<<>>), <<"void">> \o X \o InParens(<<"int", "ident">>)}
Fors   == {<<"for", "open_paren">> \o init \o cond \o <<"semi">> \o step :
             init \in {Decl("int", X), CallOf(X) \o <<"semi">>, <<>>},
             cond \in {Less, <<>>},
             step \in {Set(Sum, "close_paren"), Set(X, "semi"), CallOf(X), CallOf(X) \o <<"close_paren">>, <<>>}}

Programs == Leaves \cup {h \o InBraces(b) : h \in Heads, b \in Bodies}
            \cup {h \o InBraces(b) : h \in Fors, b \in {<<>>, Set(X, "semi")}}

Edits(s) == {RemoveAt(s, i) : i \in DOMAIN s} \cup {ReplaceAt(s, i, t) : i \in DOMAIN s, t \in Wrong}

BrokenOff(s) == {SubSeq(s, 1, n) : n \in DOMAIN s}

MCInputs == Programs \cup UNION {Edits(s) \cup BrokenOff(s) : s \in Programs}
            \cup {<<>>} \cup {s \o t : s \in Leaves, t \in Leaves}

(* The head of a function, complete or broken off.                         *)
MCHeads ==
  LET whole == <<"void">> \o X \o InParens(<<"int", "ident">>) \o InBraces(<<>>)
  IN  BrokenOff(whole)
=============================================================================
