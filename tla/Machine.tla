------------------------------ MODULE Machine -------------------------------
(***************************************************************************)
(* A compiled program at run time: the text of Emission on the processor.  *)
(* What is known of a text is history, it moves nothing.                   *)
(***************************************************************************)
EXTENDS Emission, Levels

(* Where the variables of the top level are once the passes are over.      *)
Cells(p) ==
  LET vs == Table(p)
  IN  [x \in {y \in VarNames(vs) : ~OutOfRange(p, SlotOf(vs, y))} |->
         [off |-> SlotOffset(p, SlotOf(vs, x)), width |-> SizeOf[VarType(vs, x)]]]

(* The bytes below rbp of a cell.                                          *)
BytesOf(cell) == (cell.off - cell.width + 1)..cell.off

(* The variables whose cells no waiting operand reaches and no other       *)
(* variable shares.                                                        *)
Exprs(p) == UNION {{p[i].expr, p[i].init.expr, p[i].step.expr} : i \in DOMAIN p}

Kept(p, cells) ==
  LET reach == 8 * Max({PushDepth(e) : e \in Exprs(p)})
  IN  {x \in DOMAIN cells :
         /\ cells[x].off - cells[x].width >= reach
         /\ \A y \in DOMAIN cells \ {x} : BytesOf(cells[x]) \cap BytesOf(cells[y]) = {}}

(* The first arguments that are written in calls.                          *)
ArgumentsIn(code) ==
  LET sites == {i \in DOMAIN code : code[i].op = "call" /\ 1 \in DOMAIN code[i].args}
  IN  [i \in {k \in sites : code[k].args[1].type = "int_lit"} |-> code[i].args[1].value]

(* The levels of a text, read in the order in which it stands: a function  *)
(* begins behind a jump over it, and behind its end the main frame goes on.*)
LevelBehind(c, v, d) ==
  LET u == IF c.op = "ret" THEN Level(TRUE, "body", 0, Unknown) ELSE After(c, v)
  IN  IF d.op # "label" THEN u
      ELSE IF d.tag = "func" THEN Callee
      ELSE [u EXCEPT !.rdi = Unknown]

LevelsOf(code) ==
  LET level[i \in DOMAIN code] ==
        IF i = 1 THEN Start ELSE LevelBehind(code[i - 1], level[i - 1], code[i])
  IN  level

ImageOf(p) ==
  LET text  == Emit(p)
      cells == Cells(p)
      kept  == Kept(p, cells)
  IN  [code |-> text.code, levels |-> LevelsOf(text.code), args |-> ArgumentsIn(text.code),
       lines |-> text.lines, prog |-> p, cells |-> cells, kept |-> kept, promised |-> Promised(p, kept)]
-----------------------------------------------------------------------------
(* The programs that compile, as the parser builds them.                   *)

(* Every operator has its two operands.                                    *)
IsTree(nodes) ==
  LET waiting[k \in 0..Len(nodes)] ==
        IF k = 0 THEN 0 ELSE waiting[k - 1] + IF nodes[k].kind = "BIN" THEN -1 ELSE 1
  IN  /\ Len(nodes) \in Nat /\ DOMAIN nodes = 1..Len(nodes)
      /\ waiting[Len(nodes)] = 1
      /\ \A k \in DOMAIN nodes :
           \/ nodes[k].kind = "BIN" /\ nodes[k].op \in Operations /\ waiting[k - 1] >= 2
           \/ nodes[k].kind = "INT_LIT" /\ nodes[k].value \in Int
           \/ nodes[k].kind = "IDENT"

(* A literal is what atoi makes of digits.                                 *)
AreArgs(args) ==
  /\ Len(args) \in 0..6 /\ DOMAIN args = 1..Len(args)
  /\ \A k \in DOMAIN args :
       /\ args[k].value \in Int
       /\ args[k].type = "int_lit" => args[k].value \in 0..(Values(4) - 1)

(* A call names a function of the program; fs are its functions.           *)
IsExpr(e, fs) ==
  \/ e.kind = "BIN" /\ IsTree(e.nodes)
  \/ e.kind \in {"INT_LIT", "CHAR"} /\ e.value \in Int
  \/ e.kind = "IDENT"
  \/ e.kind = "FUNC" /\ e.fn \in fs /\ AreArgs(e.args)

IsLeaf(s, fs) ==
  \/ s.kind \in LeafKinds \ {"FUNC_USE"} /\ IsExpr(s.expr, fs)
  \/ s.kind = "FUNC_USE" /\ s.name \in fs /\ AreArgs(s.expr.args)

IsStmt(s, fs) ==
  \/ IsLeaf(s, fs)
  \/ s.kind \in {"IF", "WHILE"} /\ IsExpr(s.expr, fs)
  \/ s.kind = "FOR" /\ IsLeaf(s.init, fs) /\ IsExpr(s.expr, fs) /\ IsLeaf(s.step, fs)
  \/ s.kind = "FUNC" /\ Len(s.params) \in 0..6 /\ DOMAIN s.params = 1..Len(s.params)
  \/ s.kind \in {"ELSE", "END"}

Functions(p) == {p[i].name : i \in {k \in DOMAIN p : p[k].kind = "FUNC"}}

(* No body is inside another one; a program with one never compiles.       *)
OneDeep(p) ==
  /\ \A i \in DOMAIN p : /\ Opens(p[i]) => Depth(p, i) = 0
                         /\ Closes(p[i]) => Depth(p, i) = 1
  /\ Depth(p, Len(p) + 1) = 0

(* The names were found in m_vars, with a slot that slot_to_offset can     *)
(* place.                                                                  *)
Located(code) ==
  \A i \in DOMAIN code :
    /\ code[i].op \in {"load", "store", "copy"} => code[i].width \in Widths
    /\ code[i].op \in {"load", "store"} => code[i].off \in Int

Compiles(p) ==
  /\ Len(p) \in Nat /\ DOMAIN p = 1..Len(p)
  /\ \A i \in DOMAIN p : IsStmt(p[i], Functions(p))
  /\ OneDeep(p)
  /\ Located(Emit(p).code)
  /\ StackTop + 16 * (Len(Emit(p).code) + 1) < Values(8)    \* text and stack fit

ASSUME ProgramsAssumption == \A p \in Programs : Compiles(p) /\ Compile(p) = ImageOf(p)
=============================================================================
