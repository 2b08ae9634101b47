----------------------------- MODULE MCMachine ------------------------------
(***************************************************************************)
(* Instances of Machine for TLC.                                           *)
(***************************************************************************)
EXTENDS MachineProps

CONSTANTS p1, p2, a, b, c,   \* variables of the top level
          x, y, pa,          \* locals and a parameter
          f, g, none

MCNames == {p1, p2, a, b, c, x, y, pa, f, g, none}

Decl(k, v, e) == LeafStmt(LeafOf(k, v, e))
Set(v, e)     == LeafStmt(LeafOf("VCHANGE", v, e))
ExitOf(e)     == LeafStmt(LeafOf("EXIT", none, e))
Return(e)     == LeafStmt(LeafOf("RETURN", none, e))
CallOf(n, as) == LeafStmt(LeafOf("FUNC_USE", n, CallE(n, as)))
IntArg(n)     == <<[type |-> "int_lit", value |-> n]>>
Body(opener, stmts) == <<opener>> \o stmts \o <<EndStmt>>

(* Two long variables in front: the operands that wait lie on them.        *)
Pads == <<Decl("LONG", p1, LitE(1)), Decl("LONG", p2, LitE(2))>>
-----------------------------------------------------------------------------
(* Trees of one, two and three operators over a variable, a negative one   *)
(* and a literal.                                                          *)
Operands == {LitE(0), VarE(a), VarE(b)}
OpsOf(k) == IF k = "LONG" THEN Arithmetic \cup Comparison \cup Logical ELSE Ring
OneOp(k)  == {BinE(o, e, d) : o \in OpsOf(k), e \in Operands, d \in Operands}
Inner(k)  == {BinE(o, VarE(b), VarE(a)) : o \in OpsOf(k)}
TwoOps(k) == {BinE(o, e, d) : o \in OpsOf(k), e \in Inner(k), d \in Operands}
             \cup {BinE(o, d, e) : o \in OpsOf(k), e \in Inner(k), d \in Operands}
Deep(k)   == {BinE("minus", VarE(a), BinE(o, VarE(b), e)) : o \in OpsOf(k), e \in Inner(k)}

First(k) == IF k = "CHAR" THEN 3 ELSE IF k = "SHORT" THEN 13 ELSE 200

MCSums ==
  UNION {{Pads \o <<Decl(k, a, LitE(First(k))), Decl(k, b, BinE("minus", VarE(a), LitE(First(k) + 3))),
                    Decl(k, c, e)>> : e \in OneOp(k) \cup TwoOps(k) \cup Deep(k)} : k \in DeclKinds}
-----------------------------------------------------------------------------
(* Assignments, branches, loops and exits, of literals, behind each other. *)
Sure == {BinE("plus", LitE(100), LitE(30)), BinE("less", LitE(1), LitE(2)), BinE("cmp", LitE(1), LitE(2)),
         BinE("divide", LitE(7), BinE("minus", LitE(2), LitE(2))), BinE("divide", LitE(9), LitE(2)),
         BinE("or", LitE(3), BinE("divide", LitE(7), LitE(0))), BinE("and", LitE(3), BinE("cmp", LitE(1), LitE(2)))}
Known == BinE("minus", LitE(5), LitE(6))
Count(k) == LeafOf("VCHANGE", c, BinE("multi", LitE(3), LitE(5)))

Simple == {<<Set(v, e)>> : v \in {a}, e \in Sure} \cup {<<Set(b, Known)>>, <<Return(Known)>>}
          \cup {<<ExitOf(e)>> : e \in Sure}
Blocks == {Body(o, s) : s \in {<<>>, <<Set(b, Known)>>},
             o \in UNION {{BodyStmt("IF", e), BodyStmt("WHILE", e),
                           ForStmt(LeafOf("INT", c, LitE(4)), e, Count("INT"))} : e \in Sure}}

Exits == {<<ExitOf(BinE("divide", LitE(7), LitE(d)))>> : d \in {0, 2}}

MCFlow == {Pads \o <<Decl("LONG", a, LitE(9)), Decl(k, b, LitE(1))>> \o s \o t :
             k \in DeclKinds, s \in Simple \cup Blocks, t \in Exits}
-----------------------------------------------------------------------------
(* Functions with and without a parameter and a local, called from the top *)
(* level, in an initialiser, in a loop and from a function.                *)
ParamOf(t) == <<[type |-> t, name |-> pa]>>
Callees == {Body(FuncStmt(f, ParamOf(t)), s) : t \in Types,
              s \in {<<>>, <<Decl("INT", x, BinE("multi", VarE(pa), LitE(2)))>>, <<Return(Known)>>}}
Callers == {<<CallOf(f, IntArg(n))>> : n \in {0, 77}}
           \cup {<<Decl("INT", b, CallE(f, IntArg(5)))>>,
                 Body(BodyStmt("WHILE", BinE("less", LitE(1), LitE(2))), <<CallOf(f, IntArg(6))>>)}
           \cup {Body(FuncStmt(g, <<>>), <<Decl("LONG", y, LitE(3)), CallOf(f, IntArg(9))>>)
                   \o <<CallOf(g, IntArg(1))>>}
MCCalls == {Pads \o <<Decl(k, a, LitE(1))>> \o s \o t \o <<CallOf(f, IntArg(3)), Return(Known)>> :
              k \in DeclKinds, s \in Callees, t \in Callers}

(* A function that calls itself; and a local that lies on the saved rbp,   *)
(* since nothing is declared in front of it.                               *)
MCFaults ==
  {Body(FuncStmt(f, <<>>), <<CallOf(f, <<>>)>>) \o <<CallOf(f, <<>>)>>}
  \cup {Body(FuncStmt(f, <<>>), <<Decl("INT", x, LitE(n))>>)
           \o Body(FuncStmt(g, <<>>), <<CallOf(f, <<>>)>>)
           \o <<CallOf(h, <<>>), Decl("LONG", a, LitE(1)), Return(Known)>> : n \in {3, 200}, h \in {f, g}}

MCPrograms == MCSums \cup MCFlow \cup MCCalls \cup MCFaults
-----------------------------------------------------------------------------
(* For the runs that compare the code with its comments.                   *)
MCSmall == {<<Decl("INT", a, LitE(1)), Decl("INT", b, BinE("plus", VarE(a), LitE(1)))>>}
MCIf    == {Body(BodyStmt("IF", LitE(n)), <<>>) : n \in {0, 1}}
=============================================================================
