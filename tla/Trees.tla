------------------------------- MODULE Trees --------------------------------
(***************************************************************************)
(* Programs whose expressions are trees, for the modules that give them a  *)
(* value: listings of Ast with bodies at most one deep, since a deeper one *)
(* is never compiled.                                                      *)
(*                                                                         *)
(* A line is <<statement, part>>.  A FOR has its cond1 as part 1 and its   *)
(* cond2 as part 2; the line of its END is its cond3.                      *)
(***************************************************************************)
EXTENDS Symbols, Words

(* Expressions.  A binary tree is the listing of its nodes, an operator    *)
(* behind its operands; an argument of a call is the type of its token and *)
(* what atoi makes of its text.                                            *)
LitE(n)        == [kind |-> "INT_LIT", value |-> n]
CharE(n)       == [kind |-> "CHAR", value |-> n]
VarE(x)        == [kind |-> "IDENT", name |-> x]
CallE(f, args) == [kind |-> "FUNC", fn |-> f, args |-> args]

NodesOf(e)     == IF e.kind = "BIN" THEN e.nodes ELSE <<e>>
BinE(op, e, f) ==
  [kind |-> "BIN", nodes |-> NodesOf(e) \o NodesOf(f) \o <<[kind |-> "BIN", op |-> op]>>]

Arithmetic == {"plus", "minus", "multi", "divide"}
Comparison == {"cmp", "not_eq", "less", "less_eq", "more", "more_eq"}
Logical    == {"and", "or"}
-----------------------------------------------------------------------------
(* What a tree comes to: Of gives it for a leaf, Join for an operator from *)
(* what its operands come to, which lie on a stack.                        *)
Evaluate(nodes, Of(_), Join(_, _, _)) ==
  LET stack[k \in 0..Len(nodes)] ==
        IF k = 0 THEN <<>>
        ELSE LET s == stack[k - 1]
                 d == Len(s)
             IN  IF nodes[k].kind = "BIN"
                 THEN SubSeq(s, 1, d - 2) \o <<Join(s[d - 1], s[d], nodes[k].op)>>
                 ELSE s \o <<Of(nodes[k])>>
  IN  stack[Len(nodes)][1]

(* The operators and the variables of an expression.                       *)
NodeSet(e) == {NodesOf(e)[i] : i \in DOMAIN NodesOf(e)}
Ops(e)     == {n.op : n \in {m \in NodeSet(e) : m.kind = "BIN"}}
Idents(e)  == {n.name : n \in {m \in NodeSet(e) : m.kind = "IDENT"}}

(* How many operands wait on the stack at the same time.                   *)
PushDepth(e) ==
  Evaluate(NodesOf(e), LAMBDA n : 0,
           LAMBDA l, r, op : Max({l, r + IF op \in Logical THEN 0 ELSE 1}))
-----------------------------------------------------------------------------
(* The statement whose body statement i is in, or that the END i closes;   *)
(* the END of statement i.                                                 *)
Opener(p, i) == CHOOSE j \in 1..i : Opens(p[j]) /\ \A k \in (j + 1)..i : Depth(p, k) > 0
EndOf(p, i)  == CHOOSE j \in i..Len(p) : Closes(p[j]) /\ Opener(p, j) = i

(* The line that runs once the statements before i have: the END of a body *)
(* leads on, back to the loop, or to cond3.                                *)
Following(p, i) ==
  IF i > Len(p) \/ ~Closes(p[i]) THEN <<i, 1>>
  ELSE LET o == Opener(p, i)
       IN  CASE p[o].kind \in {"IF", "ELSE"}  -> <<i + 1, 1>>
             [] p[o].kind = "WHILE"           -> <<o, 1>>
             [] p[o].kind \in {"FOR", "FUNC"} -> <<i, 1>>

(* The type of a variable is that of its one declaration; cond1 of a FOR   *)
(* is a place for one.                                                     *)
Decls(p) == {p[i] : i \in {k \in DOMAIN p : p[k].kind \in DeclKinds}}
            \cup {p[i].init : i \in {k \in DOMAIN p : p[k].kind = "FOR"
                                                      /\ p[k].init.kind \in DeclKinds}}
KindOf(p, x)  == (CHOOSE d \in Decls(p) : d.name = x).kind
WidthOf(p, x) == SizeOf[TypeOfDecl[KindOf(p, x)]]
-----------------------------------------------------------------------------
(* The programs whose meaning the generated code keeps (modules Source and *)
(* Machine), when the variables looked at are these.                       *)

(* Sums, differences and products are right in any width; a quotient, a    *)
(* comparison or a truth value needs all eight bytes.                      *)
Ring == {"plus", "minus", "multi"}

(* A declaration reads variables of its own type, among those looked at.   *)
(* Elsewhere only a binary tree of literals reaches rax.                   *)
PromisedLeaf(p, looked, s) ==
  CASE s.kind \in DeclKinds ->
         /\ s.expr.kind # "FUNC"
         /\ \A x \in Idents(s.expr) : x \in looked /\ KindOf(p, x) = s.kind
         /\ s.kind # "LONG" => Ops(s.expr) \subseteq Ring
    [] s.kind = "VCHANGE" ->
         /\ s.expr.kind = "BIN" /\ Idents(s.expr) = {}
         /\ KindOf(p, s.name) # "LONG" => Ops(s.expr) \subseteq Ring
    [] s.kind \in {"EXIT", "RETURN"} -> s.expr.kind = "BIN" /\ Idents(s.expr) = {}
    [] OTHER -> FALSE

PromisedCond(e) == e.kind = "BIN" /\ Idents(e) = {}

Promised(p, looked) ==
  \A i \in DOMAIN p :
    LET s == p[i]
    IN  CASE s.kind \in LeafKinds       -> PromisedLeaf(p, looked, s) /\ (s.kind \in DeclKinds => Depth(p, i) = 0)
          [] s.kind \in {"IF", "WHILE"} -> PromisedCond(s.expr)
          [] s.kind = "FOR"             -> /\ PromisedCond(s.expr) /\ PromisedLeaf(p, looked, s.init)
                                           /\ PromisedLeaf(p, looked, s.step) /\ s.step.kind = "VCHANGE"
          [] s.kind = "END"             -> TRUE
          [] OTHER                      -> FALSE
=============================================================================
