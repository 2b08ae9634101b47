---------------------------- MODULE MCGenerator -----------------------------
(***************************************************************************)
(* Instances of Generator for TLC.  The programs are put together from     *)
(* units: a leaf statement, or an opener with one of a few bodies and the  *)
(* END that closes it.                                                     *)
(***************************************************************************)
EXTENDS GeneratorProps

CONSTANTS a, b, c,      \* top-level variables
          x, y,         \* locals
          pa, pb,       \* parameters
          f, g,         \* functions
          placeholder0, \* a function that is called so
          none

MCNames    == {a, b, c, x, y, pa, pb, f, g, placeholder0, none}
MCSpelling == {<<placeholder0, 0>>}

Decl(k, v, e)  == LeafStmt(LeafOf(k, v, e))
Set(v, e)      == LeafStmt(LeafOf("VCHANGE", v, e))
ExitOf(e)      == LeafStmt(LeafOf("EXIT", none, e))
Return(e)      == LeafStmt(LeafOf("RETURN", none, e))
CallOf(n, as)  == LeafStmt(LeafOf("FUNC_USE", n, CallExpr(n, as)))
Param1         == <<[type |-> "int", name |-> pa]>>
Param2         == Param1 \o <<[type |-> "char", name |-> pb]>>
Count          == LeafOf("VCHANGE", c, Bin(<<c>>))

Body(opener, stmts) == <<opener>> \o stmts \o <<EndStmt>>

(* Bodies: empty, a local that is used, a shadowing local, two locals.     *)
Bodies ==
  { <<>>,
    <<Decl("INT", x, Lit), Set(x, Bin(<<x, a>>))>>,
    <<Decl("CHAR", a, CharLit), ExitOf(Ident(a))>>,
    <<Decl("LONG", x, Ident(a)), Decl("SHORT", y, Lit), Set(y, Ident(x))>> }

(* main.c prints the program first and faults on a top-level WHILE, and on *)
(* a top-level FOR whose condition is not a literal: it reads the node as  *)
(* one of another kind.                                                    *)
Openers ==
  { BodyStmt("IF", Bin(<<a>>)), BodyStmt("ELSE", Lit),
    ForStmt(LeafOf("INT", c, Lit), Lit, Count),
    FuncStmt(f, <<>>), FuncStmt(f, Param1), FuncStmt(g, Param2),
    FuncStmt(placeholder0, <<>>) }

Leaves ==
  { Decl("INT", a, Lit), Decl("LONG", b, Bin(<<a>>)), Decl("LONG", b, Bin(<<c>>)), Decl("CHAR", a, CharLit),
    Decl("SHORT", c, CharLit), Decl("INT", b, CallExpr(f, <<"int_lit">>)),
    Set(a, Ident(b)), Set(c, Lit), ExitOf(Ident(x)), ExitOf(Ident(pa)),
    CallOf(f, <<"int_lit">>), CallOf(f, <<"char_v">>), CallOf(g, <<>>),
    Return(Lit), Return(Uninit) }

Flat == {Body(o, s) : o \in Openers, s \in Bodies}

(* A body inside a body, with a statement before and after it.  The WHILE  *)
(* declares nothing: the passes do not enter it, and it would not close.   *)
InnerBodies ==
  { Body(BodyStmt("IF", Lit), <<Decl("INT", y, Ident(x))>>),
    Body(BodyStmt("WHILE", Ident(a)), <<Set(x, Ident(a))>>),
    Body(FuncStmt(g, Param1), <<Decl("INT", y, Ident(x))>>),
    Body(ForStmt(LeafOf("INT", c, Lit), Bin(<<c>>), Count), <<Decl("INT", y, Ident(x))>>) }

Nested ==
  { Body(o, <<Decl("INT", x, Lit)>> \o i \o <<Set(x, Lit)>>) :
      i \in InnerBodies,
      o \in {BodyStmt("IF", Lit), BodyStmt("ELSE", Lit), FuncStmt(f, <<>>),
             ForStmt(LeafOf("INT", c, Lit), Lit, Count)} }

Units == {<<s>> : s \in Leaves} \cup Flat \cup Nested

(* Any two units behind the declaration of a; what follows a nested unit   *)
(* is never generated.                                                     *)
MCPrograms == {<<Decl("INT", a, Lit)>> \o u \o v : u \in Units \ Nested, v \in Units}

-----------------------------------------------------------------------------
(* For the runs that compare the code with its comments and messages.      *)

(* A variable that a body shadows and that is assigned behind the body.    *)
MCShadow == {<<Decl("INT", a, Lit)>> \o Body(BodyStmt("IF", Lit), <<Decl("INT", v, Lit)>>)
               \o <<Set(a, Lit)>> : v \in {a, x}}

(* A function with one or two parameters and a call that has as many       *)
(* arguments.                                                              *)
MCRightCalls ==
  {Body(FuncStmt(g, Param1), <<>>) \o <<CallOf(g, <<"int_lit">>)>>,
   Body(FuncStmt(g, Param2), <<>>) \o <<CallOf(g, <<"int_lit", "int_lit">>)>>}
=============================================================================
