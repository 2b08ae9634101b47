------------------------------ MODULE MCDriver ------------------------------
(***************************************************************************)
(* Instances of Driver for TLC: short programs of one or two statements on *)
(* the top level behind a declaration.                                     *)
(***************************************************************************)
EXTENDS Driver

CONSTANTS a, i, f, none     \* two variables, a function

MCNames == {a, i, f, none}

T(type)    == [type |-> type, value |-> none]
Id(n)      == [type |-> "ident", value |-> n]
One        == T("int_lit")
InParens(e) == <<T("open_paren")>> \o e \o <<T("close_paren")>>
InBraces(b) == <<T("open_braces")>> \o b \o <<T("close_braces")>>

DeclOf(t, n, e) == <<T(t), Id(n), T("eq_kw")>> \o e \o <<T("semi")>>
SetOf(n, e)     == <<Id(n), T("eq_kw")>> \o e
Sum             == <<Id(a), T("plus"), One>>
Less            == <<Id(a), T("less"), One>>
CallOf(args)    == <<Id(f)>> \o InParens(args)
Semi            == <<T("semi")>>

Simple == {SetOf(a, Sum) \o Semi, CallOf(<<One>>) \o Semi,
           <<T("exit_kw")>> \o InParens(<<Id(a)>>) \o Semi,
           SetOf(a, CallOf(<<>>)) \o Semi}

Bodies == {<<>>, DeclOf("char_t", i, <<T("char_v")>>), SetOf(a, <<Id(i)>>) \o Semi,
           <<T("return")>> \o Semi}

Step == SetOf(i, <<Id(i), T("plus"), One>>) \o <<T("close_paren")>>

Heads == {<<T("if")>> \o InParens(Less), <<T("else")>>, <<T("while")>> \o InParens(<<One>>),
          <<T("void"), Id(f)>> \o InParens(<<>>),
          <<T("void"), Id(f)>> \o InParens(<<T("int"), Id(i)>>)}
         \cup {<<T("for"), T("open_paren")>> \o DeclOf("int", i, <<One>>) \o cond \o Semi \o Step :
                 cond \in {<<>>, <<One>>, <<Id(i), T("less"), One>>}}

(* A FOR with neither cond1 nor cond3.                                     *)
Bare == <<T("for"), T("open_paren"), One, T("semi")>> \o InBraces(<<>>)

Flat   == {h \o InBraces(b) : h \in Heads, b \in Bodies} \cup {Bare}
Nested == {h \o InBraces(k \o InBraces(<<>>)) : h \in Heads, k \in Heads}

Texts == {<<>>} \cup {DeclOf("int", a, <<One>>) \o u : u \in Simple \cup Flat \cup Nested}
         \cup {DeclOf("long", a, <<One>>) \o u \o CallOf(<<One>>) : u \in Flat}
         \cup {<<T("else")>>}

FileOf(ts, bang, full) == [tokens |-> ts, bang |-> bang, full |-> full]

MCSources == {FileOf(ts, FALSE, FALSE) : ts \in Texts}
             \cup {FileOf(Less, TRUE, FALSE)}
             \cup {FileOf(DeclOf("int", a, <<One>>), FALSE, TRUE),
                   FileOf(CallOf(<<One, T("comma")>>), FALSE, TRUE)}

MCTails == {<<>>, <<Id(f)>>, <<T("close_paren")>>}
=============================================================================
