------------------------------- MODULE Nodes --------------------------------
(***************************************************************************)
(* The contents of the nodes that parse_stmt builds (parser/parser.c): the *)
(* tree of an accepted token sequence, as the listing of module Ast.       *)
(*                                                                         *)
(* `ts` are the kinds of the tokens, `vs` their values (names, or NoName), *)
(* `ns` the nodes of module Parser with the tokens [from, to) each took.   *)
(***************************************************************************)
EXTENDS Frame

S == INSTANCE Syntax

(* The identifiers among the tokens [i, e), in order.                      *)
IdentsIn(ts, vs, i, e) ==
  LET at == SelectSeq([k \in 1..(e - i) |-> i + k - 1], LAMBDA k : ts[k] = "ident")
  IN  [k \in DOMAIN at |-> vs[at[k]]]

(* The kinds of the arguments of a list that begins at i.                  *)
ArgsAt(ts, i, c) == [k \in 1..((c - i + 1) \div 2) |-> ts[i + 2 * (k - 1)]]

(* Where the chain of operands at i ends that the tree is built from.      *)
ChainEnd(ts, i, e) == CHOOSE h \in (i + 1)..e : S!Chain(ts, i, h, e)

(* parse_expr: the expression of the tokens [i, e).                        *)
ExprAt(ts, vs, i, e) ==
  IF S!IsCall(ts, i) THEN CallExpr(vs[i], ArgsAt(ts, i + 2, e - 1))
  ELSE IF S!IsBin(ts, i) THEN Bin(IdentsIn(ts, vs, i, ChainEnd(ts, i, e)))
  ELSE CASE ts[i] = "int_lit" -> Lit
         [] ts[i] = "char_v"  -> CharLit
         [] OTHER             -> Ident(vs[i])

DeclKindOf == [char_t |-> "CHAR", short |-> "SHORT", int |-> "INT", long |-> "LONG"]
ParamType  == [char_t |-> "char", short |-> "short", int |-> "int", long |-> "long"]

(* The statements without a body.  A zeroed node is an EXIT of a literal:  *)
(* both kinds are 0.                                                       *)
LeafAt(ts, vs, n) ==
  LET k == n.from  e == n.to
  IN  CASE n.kind = "ZERO"    -> LeafOf("EXIT", NoName, Lit)
        [] n.kind = "DECL"    -> LeafOf(DeclKindOf[ts[k]], vs[k + 1], ExprAt(ts, vs, k + 3, e - 1))
        [] n.kind = "VCHANGE" -> LeafOf("VCHANGE", vs[k], ExprAt(ts, vs, k + 2, e - 1))
        [] n.kind = "EXIT"    -> LeafOf("EXIT", NoName, ExprAt(ts, vs, k + 2, e - 2))
        [] n.kind = "RETURN"  -> LeafOf("RETURN", NoName,
                                   IF ts[k + 1] = "semi" THEN Uninit ELSE ExprAt(ts, vs, k + 1, e - 1))
        [] n.kind = "FUNC_USE" ->
             LET c == CHOOSE c \in {e - 1, e - 2} : S!Arguments(ts, k + 2, c)
             IN  LeafOf("FUNC_USE", vs[k], CallExpr(vs[k], ArgsAt(ts, k + 2, c)))

(* The parameters of the function whose list begins at i: pairs, a type    *)
(* and a name, with nothing between them.                                  *)
ParamsAt(ts, vs, i) ==
  LET c == CHOOSE c \in i..Len(ts) : S!Params(ts, i, c)
  IN  [k \in 1..((c - i) \div 2) |-> [type |-> ParamType[ts[i + 2 * (k - 1)]], name |-> vs[i + 2 * k - 1]]]

(* cond1, cond2 and cond3 of a FOR lie behind each other; a condition that *)
(* is missing stays zeroed, an integer literal.                            *)
InitOf(n, ns) == CHOOSE m \in ns : m.from = n.from + 2
SemiOf(ts, a) == CHOOSE b \in a..Len(ts) : S!OptionalValue(ts, a, b) /\ ts[b] = "semi"
StepOf(ts, n, ns) ==
  CHOOSE m \in ns : m.from = SemiOf(ts, InitOf(n, ns).to) + 1

CondAt(ts, vs, a) == IF SemiOf(ts, a) = a THEN Lit ELSE ExprAt(ts, vs, a, SemiOf(ts, a))

InHead(ts, m, ns) == \E n \in ns : n.kind = "FOR" /\ m \in {InitOf(n, ns), StepOf(ts, n, ns)}

(* The condition of an IF or a WHILE: `(`, the expression, `)` and `{`.     *)
HeadCond(ts, vs, n) ==
  LET h == CHOOSE h \in (n.from + 1)..n.to : S!BodyHead(ts, n.kind, n.from, h)
  IN  ExprAt(ts, vs, n.from + 2, h - 2)

(* What a statement puts into the listing, and, a body, when it closes.    *)
StmtAt(ts, vs, n, ns) ==
  CASE n.kind \in {"IF", "WHILE"} -> BodyStmt(n.kind, HeadCond(ts, vs, n))
    [] n.kind = "ELSE" -> BodyStmt("ELSE", Lit)
    [] n.kind = "FUNC" -> FuncStmt(vs[n.from + 1], ParamsAt(ts, vs, n.from + 3))
    [] n.kind = "FOR"  -> ForStmt(LeafAt(ts, vs, InitOf(n, ns)), CondAt(ts, vs, InitOf(n, ns).to),
                                  LeafAt(ts, vs, StepOf(ts, n, ns)))
    [] OTHER -> LeafStmt(LeafAt(ts, vs, n))

Bodied == {"IF", "ELSE", "WHILE", "FOR", "FUNC"}

(* Mutant: the body of an ELSE is never handed to its node.                *)
ListedOpenElse(ts, vs, ns, k) ==
  LET starts == {n \in ns : n.from = k /\ ~InHead(ts, n, ns)}
      ends   == {n \in ns : n.to = k + 1 /\ n.kind \in Bodied \ {"ELSE"}}
  IN  SetToSeq({StmtAt(ts, vs, n, ns) : n \in starts}) \o [n \in 1..Cardinality(ends) |-> EndStmt]

(* The statements that begin, or end a body, at token k.                   *)
Listed(ts, vs, ns, k) ==
  LET starts == {n \in ns : n.from = k /\ ~InHead(ts, n, ns)}
      ends   == {n \in ns : n.to = k + 1 /\ n.kind \in Bodied}
  IN  SetToSeq({StmtAt(ts, vs, n, ns) : n \in starts}) \o [n \in 1..Cardinality(ends) |-> EndStmt]

(* The program: m_prog.                                                    *)
TreeOf(ts, vs, ns) == FlattenSeq([k \in DOMAIN ts |-> Listed(ts, vs, ns, k)])
=============================================================================
