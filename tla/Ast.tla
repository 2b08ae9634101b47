-------------------------------- MODULE Ast ---------------------------------
(***************************************************************************)
(* The parsed program as the code generator reads it: the node kinds of    *)
(* parser.h, abstracted to what the generator's decisions depend on.       *)
(*                                                                         *)
(* A program is the pre-order listing of its statements.  A statement with *)
(* a body (IF, ELSE, WHILE, FOR, FUNC) opens it, the statements of the     *)
(* body follow, and an END closes it.  END is the place where the C code   *)
(* returns from its loop over `body`.                                      *)
(***************************************************************************)
EXTENDS Integers, Sequences

CONSTANTS Names,        \* identifiers: variables, parameters and functions
          NoName        \* the name of a node that has none

ASSUME NoNameAssumption == NoName \in Names

(* The declarable types and their sizes in bytes. *)
SizeOf == [char |-> 1, short |-> 2, int |-> 4, long |-> 8]
Types  == {"char", "short", "int", "long"}

(* Statement kinds: the four declarations, the other leaves, the openers. *)
TypeOfDecl == [CHAR |-> "char", SHORT |-> "short", INT |-> "int", LONG |-> "long"]
DeclKinds  == {"CHAR", "SHORT", "INT", "LONG"}
LeafKinds  == DeclKinds \cup {"VCHANGE", "RETURN", "EXIT", "FUNC_USE"}
OpenKinds  == {"IF", "ELSE", "WHILE", "FOR", "FUNC"}

(* Token types a call argument can have: the parser takes one token.       *)
ArgTypes == {"int_lit", "char_v", "ident"}

(***************************************************************************)
(* Expressions.  `uses` lists the identifiers of a leaf or of a binary     *)
(* tree, left operand first; `fn` and `args` are those of a call.  UNINIT  *)
(* is the uninitialised NodeExpr that `return;` leaves in its node.        *)
(***************************************************************************)
ExprKinds == {"INT_LIT", "CHAR", "IDENT", "BIN", "FUNC", "UNINIT"}
Expr == [kind : ExprKinds, uses : Seq(Names), fn : Names, args : Seq(ArgTypes)]

(***************************************************************************)
(* Statements.  One record shape for every kind: `name` is the variable or *)
(* the function, `expr` the initialiser, condition or value, `params` the  *)
(* parameters of a FUNC.  A FOR also has `init` and `step`, the leaves     *)
(* cond1 and cond3.                                                        *)
(***************************************************************************)
Param == [type : Types, name : Names]
Leaf  == [kind : LeafKinds, name : Names, expr : Expr]
Stmt  == [kind : LeafKinds \cup OpenKinds \cup {"END"}, name : Names, expr : Expr,
          params : Seq(Param), init : Leaf, step : Leaf]

Opens(s)  == s.kind \in OpenKinds
Closes(s) == s.kind = "END"

(* Constructors, in the order of the fields that matter for each kind.     *)
Lit             == [kind |-> "INT_LIT", uses |-> <<>>, fn |-> NoName, args |-> <<>>]
CharLit         == [Lit EXCEPT !.kind = "CHAR"]
Ident(x)        == [Lit EXCEPT !.kind = "IDENT", !.uses = <<x>>]
Bin(xs)         == [Lit EXCEPT !.kind = "BIN", !.uses = xs]
CallExpr(f, as) == [Lit EXCEPT !.kind = "FUNC", !.fn = f, !.args = as]
Uninit          == [Lit EXCEPT !.kind = "UNINIT"]

LeafOf(k, x, e)  == [kind |-> k, name |-> x, expr |-> e]
NoLeaf           == LeafOf("RETURN", NoName, Lit)
StmtOf(k, x, e, ps, i, s) ==
  [kind |-> k, name |-> x, expr |-> e, params |-> ps, init |-> i, step |-> s]

LeafStmt(l)      == StmtOf(l.kind, l.name, l.expr, <<>>, NoLeaf, NoLeaf)
BodyStmt(k, e)   == StmtOf(k, NoName, e, <<>>, NoLeaf, NoLeaf)
ForStmt(i, e, s) == StmtOf("FOR", NoName, e, <<>>, i, s)
FuncStmt(f, ps)  == StmtOf("FUNC", f, Lit, ps, NoLeaf, NoLeaf)
EndStmt          == StmtOf("END", NoName, Lit, <<>>, NoLeaf, NoLeaf)
=============================================================================
